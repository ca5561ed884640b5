---------------------------- MODULE AudioEngine -----------------------------
(***************************************************************************)
(* The audio engine of the music bots, for one bot id: the loop that       *)
(* compares what the bot wants with the stream that runs, and the threads  *)
(* of the streams it starts.  The bot behind the id is anything that       *)
(* BotPlayer allows, which MusicBot implements: it may be deleted and made *)
(* again, with another client, while threads of the old one still run.     *)
(*                                                                         *)
(* A stream is looked up by bot id and song id alone when a thread of it   *)
(* reports, and by client id when it sets or clears the video broadcast.   *)
(***************************************************************************)
EXTENDS BotPlayer

CONSTANT MaxStream    \* bound on the streams with threads at the same time

ASSUME EngineBoundsAssumption == MaxClient \in Nat /\ MaxStream \in Nat

Slots == 1..MaxStream

VARIABLES
    seek,      \* a request waits in BOT_SEEK_REQUESTS
    turn,      \* the loop is about to "read" the bots or to "act" on what it read
    desired,   \* what it read: [client, track], with client 0 for nothing
    active,    \* the slot of the stream in active_streams, or 0
    streams,   \* the streams: their stop flag and how far their threads are
    onair      \* the clients in active_broadcasts

engineVars == <<seek, turn, desired, active, streams, onair>>
soundVars == <<playerVars, engineVars>>

Nothing  == [client |-> 0, track |-> NoTrack]
NoStream == [client |-> 0, track |-> NoTrack, stop |-> TRUE, audio |-> "done", video |-> "done"]

EngineInit ==
    /\ PlayerInit
    /\ seek = FALSE /\ turn = "read" /\ desired = Nothing
    /\ active = 0 /\ streams = [i \in Slots |-> NoStream] /\ onair = {}

-----------------------------------------------------------------------------
(* What happens to the bot.                                                *)

\* musicbotcreate, with /play perhaps at once.
BotAppears ==
    /\ Appear
    /\ UNCHANGED engineVars

\* A client is made for a bot of another id.
OtherBotAppears ==
    /\ OtherClient
    /\ UNCHANGED engineVars

\* musicbotdelete takes the client off the list of clients itself.
BotDeleted ==
    /\ Vanish
    /\ UNCHANGED engineVars

\* remove_session_client also clears the broadcasts of the client.
BotRemoved ==
    /\ Vanish
    /\ onair' = onair \ {player.client}
    /\ UNCHANGED <<seek, turn, desired, active, streams>>

\* A command for the queue or the player; some of them ask for a seek.
BotChanges ==
    /\ Change
    /\ UNCHANGED engineVars

\* request_bot_seek: a new position or a new volume, and a song that starts over.
BotSeeks ==
    /\ player # Absent
    /\ \/ Change
       \/ UNCHANGED playerVars
    /\ seek' = TRUE
    /\ UNCHANGED <<turn, desired, active, streams, onair>>

-----------------------------------------------------------------------------
(* The loop of the engine.                                                 *)

\* The bot plays or waits with a song of its queue.
Wants == player.client # 0 /\ player.state \in {"playing", "paused"} /\ player.track # NoTrack

\* The bots are read under the lock.
EngineScan ==
    /\ turn = "read"
    /\ turn' = "act"
    /\ desired' = IF Wants THEN [client |-> player.client, track |-> player.track] ELSE Nothing
    /\ UNCHANGED <<playerVars, seek, active, streams, onair>>

\* Mutant: a stream that ended by itself is kept as the active one.
KeepsEnded ==
    /\ active # 0 /\ desired # Nothing /\ ~ seek
    /\ streams[active].track = desired.track

\* The retain: the active stream goes on.
Keeps ==
    /\ active # 0 /\ desired # Nothing /\ ~ seek
    /\ streams[active].track = desired.track
    /\ ~ streams[active].stop

Ended(r) == r.audio = "done" /\ r.video = "done"

\* Mutant: the stream that is dropped is not told.
DropSilently(r) == r

\* A stream that the retain drops is told to stop.
Drop(r) == IF Ended(r) THEN NoStream ELSE [r EXCEPT !.stop = TRUE]

\* A bot that stopped since it was read gets no new stream; the second look is
\* at its state alone, the song and the client are the ones that were read.
Starts == desired # Nothing /\ ~ Keeps /\ player # Absent /\ player.state = "playing"

Free == {i \in Slots : Ended(streams[i]) /\ i # active}

\* The streams after the retain.
Retained == IF active = 0 \/ Keeps THEN streams ELSE [streams EXCEPT ![active] = Drop(@)]

\* What the scan read is acted upon; the new stream takes the lowest free slot.
EngineApply ==
    /\ turn = "act"
    /\ Starts => Free # {}
    /\ turn' = "read"
    /\ desired' = Nothing
    /\ seek' = (seek /\ desired = Nothing)
    /\ LET i == CHOOSE x \in Free : \A y \in Free : x <= y
       IN  /\ active' = IF Keeps THEN active ELSE IF Starts THEN i ELSE 0
           /\ streams' = IF Starts
                         THEN [Retained EXCEPT ![i] = [client |-> desired.client, track |-> desired.track,
                                                       stop |-> FALSE, audio |-> "begin", video |-> "done"]]
                         ELSE Retained
    /\ UNCHANGED <<playerVars, onair>>

-----------------------------------------------------------------------------
(* The threads of a stream.  A step is what a thread does between two      *)
(* places where another one can get in: a lock of the runtime or an access *)
(* of the stop flag.                                                       *)

loopVars == <<clients, turn, desired, active>>

\* Stream i becomes r; only the stop flag matters of one without threads.
StreamTo(i, r) ==
    streams' = [streams EXCEPT ![i] = IF Ended(r) /\ i # active THEN NoStream ELSE r]

OnlyStream(i, r) ==
    /\ StreamTo(i, r)
    /\ UNCHANGED <<player, seek, onair, loopVars>>

\* The bot under this id has a song with the stream's song id.
StillCurrent(r) == player # Absent /\ player.track.id = r.track.id

StopBot(r) == IF StillCurrent(r) THEN [player EXCEPT !.state = "stopped"] ELSE player

\* What becomes of a stream r that starts its pipeline of yt-dlp and ffmpeg: it
\* ends, told or not, when a process cannot be started, else it waits for sound,
\* perhaps with a video stream beside it.
Pipelines(r) ==
    {[r EXCEPT !.audio = "done", !.stop = TRUE]} \union
    {[r EXCEPT !.audio = "load", !.video = v] : v \in {"done", "pipe"}}

\* The start of run_bot_song_stream; one that was told to stop by now ends.
StreamBegin(i) ==
    LET r == streams[i]
    IN  /\ r.audio = "begin"
        /\ \E x \in IF r.stop THEN {[r EXCEPT !.audio = "done"]} ELSE Pipelines(r) : OnlyStream(i, x)

\* The first packet.
FirstPacket(i) ==
    LET r == streams[i]
    IN  /\ r.audio = "load" /\ ~ r.stop
        /\ OnlyStream(i, [r EXCEPT !.audio = "play"])

\* set_bot_video_broadcast(false): nothing happens for a client that is gone.
Cleared(k) == IF k = player.client THEN onair \ {k} ELSE onair

\* The end of the stream's loop, up to the lock that handles the outcome.
EndOfLoop(i, outcome) ==
    /\ StreamTo(i, [streams[i] EXCEPT !.audio = outcome, !.stop = TRUE])
    /\ onair' = Cleared(streams[i].client)
    /\ UNCHANGED <<player, seek, loopVars>>

\* No sound, and nobody told the stream to stop: it failed.
Outcome(r) == IF r.audio = "load" /\ ~ r.stop THEN "fail" ELSE "done"

\* Told to stop, stopped, or another song by now.
StreamCut(i) ==
    LET r == streams[i]
    IN  /\ r.audio \in {"load", "play"}
        /\ r.stop \/ ~ StillCurrent(r) \/ player.state = "stopped"
        /\ EndOfLoop(i, Outcome(r))

\* The output of ffmpeg ends: the song is over, also when the flag is up by now.
StreamEof(i) ==
    LET r == streams[i]
    IN  /\ r.audio \in {"load", "play"}
        /\ EndOfLoop(i, IF r.audio = "play" THEN "advance" ELSE Outcome(r))

\* Reading it fails.
StreamError(i) ==
    LET r == streams[i]
    IN  /\ r.audio \in {"load", "play"}
        /\ EndOfLoop(i, Outcome(r))

\* advance_bot_queue_on_eof: the queue gives the next song, or the bot stops.
StreamAdvance(i) ==
    LET r == streams[i]
    IN  /\ r.audio = "advance"
        /\ StreamTo(i, [r EXCEPT !.audio = "done"])
        /\ IF StillCurrent(r) /\ player.state = "playing"
           THEN \/ player' = [player EXCEPT !.state = "stopped"]
                \/ \E t \in Tracks : player' = [player EXCEPT !.track = t]
           ELSE UNCHANGED player
        /\ UNCHANGED <<seek, onair, loopVars>>

\* No sound: another try if the url was a cached one, else the bot stops.
StreamFail(i) ==
    LET r == streams[i]
    IN  /\ r.audio = "fail"
        /\ StreamTo(i, [r EXCEPT !.audio = "done"])
        /\ \/ seek' = TRUE /\ UNCHANGED player
           \/ player' = StopBot(r) /\ UNCHANGED seek
        /\ UNCHANGED <<onair, loopVars>>

\* The lookup of the metadata fails before anything else ended the stream.
MetadataFail(i) ==
    LET r == streams[i]
    IN  /\ r.audio \in {"begin", "load", "play"} /\ ~ r.stop
        /\ StreamTo(i, [r EXCEPT !.stop = TRUE])
        /\ player' = StopBot(r)
        /\ UNCHANGED <<seek, onair, loopVars>>

\* The first frame is there: set_bot_video_broadcast(true).  The flag was looked
\* at before the lock, and may be up by now.
VideoRegister(i) ==
    LET r == streams[i]
    IN  /\ r.video = "pipe"
        /\ StreamTo(i, [r EXCEPT !.video = "onair"])
        /\ onair' = IF r.client = player.client THEN onair \union {r.client} ELSE onair
        /\ UNCHANGED <<player, seek, loopVars>>

\* Mutant: the broadcast is left to the audio thread.
VideoStops(i) ==
    LET r == streams[i]
    IN  /\ StreamTo(i, [r EXCEPT !.video = "done"])
        /\ UNCHANGED onair
        /\ UNCHANGED <<player, seek, loopVars>>

\* The end of the video thread.
VideoEnd(i) ==
    LET r == streams[i]
    IN  /\ StreamTo(i, [r EXCEPT !.video = "done"])
        /\ onair' = IF r.video = "onair" THEN Cleared(r.client) ELSE onair
        /\ UNCHANGED <<player, seek, loopVars>>

\* The video ends when it is told to, or with the song.
VideoCut(i) ==
    LET r == streams[i]
    IN  /\ r.video \in {"pipe", "onair"}
        /\ r.stop \/ ~ StillCurrent(r) \/ player.state = "stopped"
        /\ VideoEnd(i)

\* It ends with its own output.
VideoEof(i) ==
    /\ streams[i].video \in {"pipe", "onair"}
    /\ VideoEnd(i)

-----------------------------------------------------------------------------

Threads(i) ==
    \/ StreamBegin(i) \/ FirstPacket(i) \/ StreamCut(i) \/ StreamEof(i) \/ StreamError(i)
    \/ StreamAdvance(i) \/ StreamFail(i) \/ MetadataFail(i)
    \/ VideoRegister(i) \/ VideoCut(i) \/ VideoEof(i)

EngineNext ==
    \/ BotAppears \/ OtherBotAppears \/ BotDeleted \/ BotRemoved \/ BotChanges \/ BotSeeks
    \/ EngineScan \/ EngineApply
    \/ \E i \in Slots : Threads(i)

\* The loop runs for ever, and a thread that need not wait for anything goes on:
\* it looks at the flag and at the bot at least every 60 ms once ffmpeg answers.
\* Nothing is assumed of songs ending, of packets arriving or of users.
Fairness ==
    /\ WF_soundVars(EngineScan \/ EngineApply)
    /\ \A i \in Slots : /\ WF_soundVars(StreamBegin(i) \/ StreamCut(i) \/ StreamAdvance(i) \/ StreamFail(i))
                        /\ WF_soundVars(VideoCut(i))

EngineSpec == EngineInit /\ [][EngineNext]_soundVars /\ Fairness

-----------------------------------------------------------------------------
(* Properties.                                                             *)

\* The tables hold what their types say.
EngineTypeOK ==
    /\ player \in {Absent} \union [client : ClientIds, track : Tracks \union {NoTrack}, state : States]
    /\ clients \in 0..MaxClient /\ player.client <= clients
    /\ seek \in BOOLEAN /\ turn \in {"read", "act"}
    /\ desired \in {Nothing} \union [client : ClientIds, track : Tracks]
    /\ active \in 0..MaxStream
    /\ onair \subseteq ClientIds
    /\ streams \in [Slots -> {NoStream} \union
           [client : ClientIds, track : Tracks, stop : BOOLEAN,
            audio : {"begin", "load", "play", "advance", "fail", "done"},
            video : {"done", "pipe", "onair"}]]

\* Two streams never play for one bot: whatever happens to the bot between the
\* read and the act, at most one stream has not been told to stop.
OneLiveStream == \A i, j \in Slots : ~ streams[i].stop /\ ~ streams[j].stop => i = j

\* The video broadcast of a client that is there has a video thread behind it
\* that will take it back: the threads of an old stream, a new one and the
\* commands leave a broadcast behind only for a client that is gone.
BroadcastBacked ==
    \A k \in onair : k = player.client => \E i \in Slots : streams[i].client = k /\ streams[i].video = "onair"

Playing(t) == player.client # 0 /\ player.state = "playing" /\ player.track = t

\* A track that a bot plays and goes on wanting gets a stream.
WantedIsPlayed ==
    \A t \in Tracks : Playing(t) ~> (~ Playing(t) \/ \E i \in Slots : ~ streams[i].stop /\ streams[i].track = t)
=============================================================================
