----------------------------- MODULE BotPlayer ------------------------------
(***************************************************************************)
(* What the audio engine can rely on about the bot behind one bot id: at   *)
(* some times there is a bot, with a client that was made for it and for   *)
(* no other one, and at any time it may change its mind about the track it *)
(* wants to play.  MusicBot implements this for every bot id; AudioEngine  *)
(* is checked with every behaviour it allows.                              *)
(***************************************************************************)
EXTENDS BotBase, FiniteSets

CONSTANT Tracks   \* [id, url]: a song id with what is to be played

\* No bot with a client under this id.
Absent == [client |-> 0, track |-> NoTrack, state |-> "stopped"]

VARIABLE player   \* the bot under this id, as the engine sees it

playerVars == <<player, clients>>

PlayerInit == player = Absent /\ clients = 0

BecomesBot(client) ==
    \E r \in [client : {client}, track : Tracks \union {NoTrack}, state : States] : player' = r

\* A bot is made, perhaps with its first track.
Appear ==
    /\ player = Absent /\ clients < MaxClient
    /\ clients' = clients + 1
    /\ BecomesBot(clients + 1)

Vanish ==
    /\ player # Absent
    /\ player' = Absent
    /\ UNCHANGED clients

\* Another track or another state.
Change ==
    /\ player # Absent
    /\ UNCHANGED clients
    /\ BecomesBot(player.client)

\* A client is made for another bot.
OtherClient ==
    /\ clients < MaxClient
    /\ clients' = clients + 1
    /\ UNCHANGED player

PlayerTurn == Appear \/ Vanish \/ Change \/ OtherClient

PlayerSpec == PlayerInit /\ [][PlayerTurn]_playerVars
=============================================================================
