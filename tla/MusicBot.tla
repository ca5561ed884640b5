------------------------------ MODULE MusicBot ------------------------------
(***************************************************************************)
(* The music bots and their queues: the commands of the query interface,   *)
(* the chat commands, which have code of their own for the same things,    *)
(* and what the streams of the audio engine report back.  The engine sees  *)
(* of it what BotPlayer says, see AudioEngine.                             *)
(*                                                                         *)
(* Permission checks come before every change a command makes; a command   *)
(* that is refused changes nothing and is no step here.  Where bots stand  *)
(* is in Presence: a chat command reaches any bot that has a client.       *)
(***************************************************************************)
EXTENDS BotQueue, BotBase

CONSTANTS
    MaxBot,      \* bound on bot ids, which are the largest in use plus one
    MaxSong,     \* bound on the song ids of a queue
    Urls,        \* what can be queued
    Modes        \* replay modes that are asked for

ASSUME BotBoundsAssumption ==
    /\ MaxBot \in Nat /\ MaxClient \in Nat
    /\ MaxSong \in Nat \ {0} \* /play makes a bot with its first song
    /\ Modes \subseteq 0..2

BotIds  == 1..MaxBot
SongIds == 1..MaxSong

VARIABLE bots   \* store.music_bots

vars == <<bots, clients>>

Init == bots = [b \in {} |-> 0] /\ clients = 0

Linked == {b \in DOMAIN bots : bots[b].client # 0}

\* A command that changes bot b to r.
Changed(b, r) ==
    /\ bots' = [bots EXCEPT ![b] = r]
    /\ UNCHANGED clients

-----------------------------------------------------------------------------
(* Bots and playlists come and go.                                         *)

IsNextBot(b) == b = Max({0} \union DOMAIN bots) + 1

WithBot(b, r) == [x \in DOMAIN bots \union {b} |-> IF x = b THEN r ELSE bots[x]]
WithoutBot(b) == [x \in DOMAIN bots \ {b} |-> bots[x]]

\* Mutant: every bot gets the same client.
MusicBotCreateShared(b) ==
    /\ IsNextBot(b) /\ clients < MaxClient
    /\ bots' = WithBot(b, NewBot(1))
    /\ clients' = Max({1, clients})

MusicBotCreate(b) ==
    /\ IsNextBot(b) /\ clients < MaxClient
    /\ bots' = WithBot(b, NewBot(clients + 1))
    /\ clients' = clients + 1

\* /bot spawn, and /play without a url in a channel without a bot.
ChatBotSpawn(b) == MusicBotCreate(b)

\* /play of a url in a channel without a bot.
ChatSpawnAndPlay(b, u) ==
    /\ IsNextBot(b) /\ clients < MaxClient
    /\ bots' = WithBot(b, ChatEnqueue(NewBot(clients + 1), u, TRUE))
    /\ clients' = clients + 1

\* Of a bot or of a playlist.
MusicBotDelete(b) ==
    /\ b \in DOMAIN bots
    /\ bots' = WithoutBot(b)
    /\ UNCHANGED clients

\* A kick and the cleanup of a channel go through remove_session_client.
RemoveBotClient(b) ==
    /\ b \in Linked
    /\ bots' = WithoutBot(b)
    /\ UNCHANGED clients

\* /bot leave, which takes a playlist by its id too.
ChatBotLeave(b) == MusicBotDelete(b)

PlaylistCreate(b) ==
    /\ IsNextBot(b)
    /\ bots' = WithBot(b, NewBot(0))
    /\ UNCHANGED clients

\* playlistdelete: the playlist of a bot is only emptied.
PlaylistDelete(b) ==
    /\ b \in DOMAIN bots
    /\ bots' = IF bots[b].client = 0 THEN WithoutBot(b)
               ELSE [bots EXCEPT ![b] = Normalize(Clear(@))]
    /\ UNCHANGED clients

MusicBotPlaylistAssign(b, src) ==
    /\ b \in DOMAIN bots /\ src \in DOMAIN bots \ {b}
    /\ bots' = [x \in DOMAIN bots \ (IF bots[src].client = 0 THEN {src} ELSE {}) |->
                   IF x = b THEN Assign(bots[b], bots[src]) ELSE bots[x]]
    /\ UNCHANGED clients

-----------------------------------------------------------------------------
(* Queue commands of the query interface.                                  *)

\* musicbotqueueadd: next_song_id moves on also when the
\* predecessor is unknown.
QueueAdd(b, u, p, now) ==
    /\ b \in DOMAIN bots
    /\ bots[b].next <= MaxSong
    /\ LET s == bots[b].next
           bumped == [bots[b] EXCEPT !.next = s + 1]
           q == InsertSong(bumped, [id |-> s, url |-> u], p)
       IN  Changed(b, IF ~ KnownPrevious(bots[b], p) THEN bumped
                      ELSE IF now THEN PlayOrStop(q, s) ELSE q)

PlaylistSongAdd(b, u, p) == QueueAdd(b, u, p, FALSE)

QueueRemove(b, s) ==
    /\ b \in DOMAIN bots /\ s \in Ids(bots[b])
    /\ Changed(b, RemoveSong(bots[b], s))

PlaylistSongRemove(b, s) == QueueRemove(b, s)

QueueReorder(b, s, p) ==
    /\ b \in DOMAIN bots /\ s \in Ids(bots[b])
    /\ Changed(b, ReorderSong(bots[b], s, p))

PlaylistSongReorder(b, s, p) == QueueReorder(b, s, p)

PlaylistSongSetCurrent(b, s) ==
    /\ b \in DOMAIN bots /\ s \in Ids(bots[b])
    /\ Changed(b, Normalize(PlayOrStop(bots[b], s)))

\* What the playlist is called and its other flags play no part in what follows.
PlaylistEdit(b, m) ==
    /\ b \in DOMAIN bots
    /\ Changed(b, [bots[b] EXCEPT !.mode = m])

-----------------------------------------------------------------------------
(* musicbotplayeraction: every action but 14 and 15 ends with the          *)
(* normalisation of the queue.                                             *)

PlayerStop(b) ==
    /\ b \in DOMAIN bots
    /\ Changed(b, Normalize([bots[b] EXCEPT !.state = "stopped"]))

PlayerPlay(b) ==
    /\ b \in DOMAIN bots
    /\ Changed(b, Normalize(Play(bots[b])))

PlayerPause(b) ==
    /\ b \in DOMAIN bots
    /\ Changed(b, Normalize(Pause(bots[b])))

PlayerNext(b) ==
    /\ b \in DOMAIN bots
    /\ LET r == NextSong(bots[b]) IN Changed(b, Normalize(r))

PlayerPrev(b) ==
    /\ b \in DOMAIN bots
    /\ LET r == PrevSong(bots[b]) IN Changed(b, Normalize(r))

\* Action 5: another position, or another volume while playing.
PlayerShift(b) ==
    /\ b \in DOMAIN bots
    /\ Changed(b, Normalize(bots[b]))

\* Action 6 with a song; with units it is action 5 backwards.
PlayerSelect(b, s) ==
    /\ b \in DOMAIN bots /\ s \in Ids(bots[b])
    /\ Changed(b, Normalize(PlayOrStop(bots[b], s)))

PlayerRemove(b, s) ==
    /\ b \in DOMAIN bots /\ s \in Ids(bots[b])
    /\ LET r == RemoveSong(bots[b], s) IN Changed(b, Normalize(r))

PlayerClear(b) ==
    /\ b \in DOMAIN bots
    /\ Changed(b, Normalize(Clear(bots[b])))

\* Action 9.
PlayerSeek(b) ==
    /\ b \in DOMAIN bots
    /\ OrElse(bots[b].cur, First(bots[b])) # 0
    /\ Changed(b, Normalize(Play(bots[b])))

\* Action 10.
PlayerRepeat(b, m) ==
    /\ b \in DOMAIN bots
    /\ Changed(b, Normalize([bots[b] EXCEPT !.mode = m]))

PlayerShuffle(b) ==
    /\ b \in DOMAIN bots
    /\ \E r \in Shuffles(bots[b]) : Changed(b, Normalize(r))

PlayerMove(b, s) ==
    /\ b \in DOMAIN bots /\ s \in Ids(bots[b])
    /\ \/ Changed(b, Normalize(MoveUp(bots[b], s)))
       \/ Changed(b, Normalize(MoveDown(bots[b], s)))

-----------------------------------------------------------------------------
(* Chat commands, for the bot of a channel.                                *)

ChatAdd(b, u, now) ==
    /\ b \in Linked /\ bots[b].next <= MaxSong
    /\ Changed(b, ChatEnqueue(bots[b], u, now))

\* /play without a url.
ChatPlay(b) ==
    /\ b \in Linked
    /\ Changed(b, Play(bots[b]))

\* /resume, which begins with the first song if there was none.
ChatResume(b) ==
    /\ b \in Linked
    /\ Changed(b, Play(bots[b]))

ChatPause(b) ==
    /\ b \in Linked
    /\ Changed(b, [bots[b] EXCEPT !.state = "paused"])

ChatStop(b) ==
    /\ b \in Linked
    /\ Changed(b, [bots[b] EXCEPT !.state = "stopped"])

ChatStep(b) ==
    /\ b \in Linked
    /\ \/ Changed(b, ChatSkip(bots[b]))
       \/ Changed(b, ChatPrev(bots[b]))

ChatJump(b, i) ==
    /\ b \in Linked /\ i \in DOMAIN bots[b].queue
    /\ Changed(b, PlayOrStop(bots[b], IdAt(bots[b], i)))

ChatQueueRemove(b, i) ==
    /\ b \in Linked /\ i \in DOMAIN bots[b].queue
    /\ Changed(b, ChatRemove(bots[b], i))

ChatQueueMove(b, i, j) ==
    /\ b \in Linked /\ {i, j} \subseteq DOMAIN bots[b].queue
    /\ Changed(b, ChatMove(bots[b], i, j))

ChatShuffle(b) ==
    /\ b \in Linked
    /\ \E q \in Permuted(bots[b].queue) : Changed(b, [bots[b] EXCEPT !.queue = q])

ChatLoop(b, m) ==
    /\ b \in Linked
    /\ Changed(b, [bots[b] EXCEPT !.mode = m])

ChatClear(b) ==
    /\ b \in Linked
    /\ Changed(b, Clear(bots[b]))

-----------------------------------------------------------------------------
(* What a stream of the engine reports about song s.                       *)

\* advance_bot_queue_on_eof
SongEnded(b, s) ==
    /\ b \in Linked /\ bots[b].cur = s /\ bots[b].state = "playing"
    /\ Changed(b, AfterEnd(bots[b], s))

\* The song could not be loaded or decoded.
SongFailed(b, s) ==
    /\ b \in Linked /\ bots[b].cur = s
    /\ Changed(b, [bots[b] EXCEPT !.state = "stopped"])

-----------------------------------------------------------------------------

BotCommand(b) ==
    \/ MusicBotCreate(b) \/ MusicBotDelete(b) \/ RemoveBotClient(b)
    \/ \E u \in Urls, p \in 0..MaxSong, now \in BOOLEAN : QueueAdd(b, u, p, now)
    \/ \E s \in SongIds : QueueRemove(b, s)
    \/ \E s \in SongIds, p \in 0..MaxSong : QueueReorder(b, s, p)

PlaylistCommand(b) ==
    \/ PlaylistCreate(b) \/ PlaylistDelete(b)
    \/ \E x \in BotIds : MusicBotPlaylistAssign(b, x)
    \/ \E u \in Urls, p \in 0..MaxSong : PlaylistSongAdd(b, u, p)
    \/ \E s \in SongIds : PlaylistSongRemove(b, s) \/ PlaylistSongSetCurrent(b, s)
    \/ \E s \in SongIds, p \in 0..MaxSong : PlaylistSongReorder(b, s, p)
    \/ \E m \in Modes : PlaylistEdit(b, m)

PlayerAction(b) ==
    \/ PlayerStop(b) \/ PlayerPlay(b) \/ PlayerPause(b) \/ PlayerNext(b) \/ PlayerPrev(b)
    \/ PlayerShift(b) \/ PlayerClear(b) \/ PlayerSeek(b) \/ PlayerShuffle(b)
    \/ \E s \in SongIds : PlayerSelect(b, s) \/ PlayerRemove(b, s) \/ PlayerMove(b, s)
    \/ \E m \in Modes : PlayerRepeat(b, m)

ChatCommand(b) ==
    \/ ChatBotSpawn(b) \/ ChatBotLeave(b) \/ \E u \in Urls : ChatSpawnAndPlay(b, u)
    \/ \E u \in Urls, now \in BOOLEAN : ChatAdd(b, u, now)
    \/ ChatPlay(b) \/ ChatResume(b) \/ ChatPause(b) \/ ChatStop(b) \/ ChatStep(b)
    \/ ChatShuffle(b) \/ ChatClear(b)
    \/ \E i \in SongIds : ChatJump(b, i) \/ ChatQueueRemove(b, i)
    \/ \E i, j \in SongIds : ChatQueueMove(b, i, j)
    \/ \E m \in Modes : ChatLoop(b, m)

Next == \E b \in BotIds :
    \/ BotCommand(b) \/ PlaylistCommand(b) \/ PlayerAction(b) \/ ChatCommand(b)
    \/ \E s \in SongIds : SongEnded(b, s) \/ SongFailed(b, s)

Spec == Init /\ [][Next]_vars

-----------------------------------------------------------------------------
(* Properties.                                                             *)

\* The tables hold what their types say.
TypeOK ==
    /\ DOMAIN bots \subseteq BotIds
    /\ clients \in 0..MaxClient
    /\ \A b \in DOMAIN bots :
          /\ bots[b] \in [client : 0..MaxClient, queue : Seq([id : SongIds, url : Urls]),
                          cur : 0..MaxSong, next : 1..(MaxSong + 1), state : States, mode : 0..2]
          /\ Cardinality(Ids(bots[b])) = Len(bots[b].queue)

Dangling(r) == r.cur # 0 /\ r.cur \notin Ids(r)
Silent(r)   == r.state = "playing" /\ r.cur = 0

\* The song a bot plays stays in its queue, by whichever of the three sets of
\* commands the queue is changed.  The one way to lose it is a reorder behind a
\* song that is not there, which answers "song not found" after it took the
\* song out.
CurrentStaysQueued ==
    [][\A b \in DOMAIN bots \cap DOMAIN bots' :
          Dangling(bots'[b]) /\ ~ Dangling(bots[b])
          => \E p \in SongIds \ Ids(bots'[b]) : bots'[b] = ReorderSong(bots[b], bots[b].cur, p)]_vars

\* A bot that plays has something to play.  It comes to play nothing only when
\* the playlist it is given is empty, which leaves its state alone, or when the
\* song it lost that way was the last thing that kept the queue alive.
PlaysSomething ==
    [][\A b \in DOMAIN bots \cap DOMAIN bots' :
          Silent(bots'[b]) /\ ~ Silent(bots[b]) /\ ~ Dangling(bots[b])
          => \E x \in BotIds : MusicBotPlaylistAssign(b, x) /\ bots[x].queue = <<>>]_vars

\* What the engine sees of the bots.
Seen(b) ==
    IF b \notin DOMAIN bots THEN [client |-> 0, track |-> NoTrack, state |-> "stopped"]
    ELSE LET r == bots[b]
             i == Pos(r, r.cur)
         IN  IF r.client = 0 THEN [client |-> 0, track |-> NoTrack, state |-> "stopped"]
             ELSE [client |-> r.client, state |-> r.state,
                   track |-> IF i = 0 THEN NoTrack ELSE r.queue[i]]

Player(b) == INSTANCE BotPlayer WITH
    Tracks <- [id : SongIds, url : Urls],
    player <- Seen(b)

\* Seen by the engine, the bot of every id behaves as BotPlayer says: also when
\* the id is used again after a bot was deleted, no client is ever given to two
\* bots, and a bot is never replaced by another one in one step.  This is
\* \A b \in BotIds : Player(b)!PlayerSpec with the box moved outside.
ImplementsPlayer ==
    /\ \A b \in BotIds : Player(b)!PlayerInit
    /\ [][\A b \in BotIds : UNCHANGED Player(b)!playerVars \/ Player(b)!PlayerTurn]_vars
=============================================================================
