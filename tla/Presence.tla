------------------------------ MODULE Presence ------------------------------
(***************************************************************************)
(* Who is online and where, and the sessions behind it.                    *)
(*                                                                         *)
(* The position of a client is kept twice: in its entry in online_clients  *)
(* (here `where', shared by everybody under the runtime mutex) and as      *)
(* current_channel_id in the QuerySessionState that its transport owns.    *)
(* Every command of a session ends with sync_session_client, which writes  *)
(* the session's copy over the shared one; a command of somebody else      *)
(* changes the shared one only.                                            *)
(*                                                                         *)
(* Modelled are the transports that keep a QuerySessionState between       *)
(* commands: telnet and ssh queries, logged in to the seeded serveradmin   *)
(* account, and BTEA desktop clients (which could log in to it as well,    *)
(* and do not here).  One command is one step, with its whole              *)
(* execute_request: dispatch, sync_session_snapshot, sync_session_client   *)
(* and the cleanup of the channel left.  channeledit and channelmove are   *)
(* in ChannelTree; of the chat commands, those that move, remove or create *)
(* clients, bots or channels are here.                                     *)
(***************************************************************************)
EXTENDS OnlineTables

CONSTANTS
    Telnet, Ssh, Desktop,   \* the connections, by transport
    MaxQueryId,             \* bound on the ids of query clients and music bots
    MaxClientId,            \* the ids above MaxQueryId are for desktop clients
    ChatKinds               \* kinds of channels that /ch create is asked for

ASSUME BoundsAssumption ==
    /\ MaxChannelId \in Nat /\ MaxChannelId >= 2
    /\ MaxQueryId \in Nat /\ MaxClientId \in Nat /\ MaxQueryId <= MaxClientId
    /\ ParentsUsed \subseteq 0..MaxChannelId
    /\ ChatKinds \subseteq Kinds
ASSUME TransportsAssumption ==
    Telnet \cap Ssh = {} /\ Telnet \cap Desktop = {} /\ Ssh \cap Desktop = {}

Query      == Telnet \union Ssh
Sessions   == Query \union Desktop
ClientIds  == 1..MaxClientId
\* Bound: the query counter stays below the ids of the desktop clients, which
\* the code starts at 1001 and never compares with the other counters.
QueryIds   == 1..MaxQueryId

VARIABLES
    stale,      \* clients not seen for more than the 60 seconds of housekeeping
    session,    \* the QuerySessionState of every connection
    nextQuery,  \* store.next_query_client_id
    nextBtea,   \* NEXT_BTEA_CLIENT_ID
    snapshot    \* current_channel_id in the account's session snapshot, 0 if none

vars == <<channels, where, stale, bots, session, nextQuery, nextBtea, snapshot>>

Closed == [open |-> FALSE, sel |-> FALSE, clid |-> 0, cur |-> 0]

Init ==
    /\ channels = [c \in 1..2 |->
                     [parent |-> 0, order |-> c - 1, kind |-> "permanent", dflt |-> c = 1]]
    /\ where = [k \in ClientIds |-> 0]
    /\ stale = {}
    /\ bots = {}
    /\ session = [s \in Sessions |-> Closed]
    /\ nextQuery = 1
    /\ nextBtea = MaxQueryId + 1
    /\ snapshot = 0

-----------------------------------------------------------------------------
(* What ends every command.                                                *)

\* Mutant: the least id that is not online, without the counter.
IsFreeQueryId(w, k) == w[k] = 0 /\ \A j \in 1..(k - 1) : w[j] # 0

\* allocate_query_client_id: the counter skips the ids that are online.
IsNextQueryId(w, k) ==
    /\ k >= nextQuery /\ w[k] = 0
    /\ \A j \in nextQuery..(k - 1) : w[j] # 0

\* The channel sync_session_client puts a session in.
SessionChannel(ch, r) == IF r.cur # 0 THEN r.cur ELSE DefaultChannelId(ch)

(***************************************************************************)
(* The rest of execute_request for session s, after dispatch left the      *)
(* table ch, the positions w and the session record r: snapshot, sync of   *)
(* the online entry, cleanup of channel left (0 for none).                 *)
(***************************************************************************)
FinishCommand(s, ch, w, r, left) ==
    LET synced == [w EXCEPT ![r.clid] = SessionChannel(ch, r)]
    IN  /\ session' = [session EXCEPT ![s] = r]
        /\ snapshot' = IF s \in Query THEN r.cur ELSE snapshot
        /\ channels' = ChannelsAfterCleanup(ch, synced, bots, left)
        /\ where' = WhereAfterCleanup(ch, synced, bots, left)
        /\ bots' = {b \in bots : where'[b] # 0}
        /\ stale' = {k \in stale \ {r.clid} : where'[k] # 0}

\* An entry leaves online_clients and nothing else happens.
DropEntry(k) ==
    /\ where' = [j \in ClientIds |-> IF j = k THEN 0 ELSE where[j]]
    /\ stale' = stale \ {k}
    /\ UNCHANGED <<channels, bots>>

\* remove_session_client: the entry leaves and its channel is cleaned up.
RemoveSessionClient(k) ==
    LET w == [j \in ClientIds |-> IF j = k THEN 0 ELSE where[j]]
        left == IF k = 0 THEN 0 ELSE where[k]
    IN  /\ channels' = ChannelsAfterCleanup(channels, w, bots, left)
        /\ where' = WhereAfterCleanup(channels, w, bots, left)
        /\ bots' = {b \in bots : where'[b] # 0}
        /\ stale' = {j \in stale : where'[j] # 0}

-----------------------------------------------------------------------------
(* Connections.                                                            *)

Connect(s) ==
    /\ s \in Query /\ ~ session[s].open
    /\ session' = [session EXCEPT ![s] = [Closed EXCEPT !.open = TRUE]]
    /\ UNCHANGED <<channels, where, stale, bots, nextQuery, nextBtea, snapshot>>

\* A desktop client connects and sends clientinit (perform_client_bootstrap).
Bootstrap(s) ==
    /\ s \in Desktop /\ ~ session[s].open
    /\ nextBtea <= MaxClientId
    /\ LET home == DefaultChannelId(channels)
       IN  /\ session' = [session EXCEPT ![s] =
                             [open |-> TRUE, sel |-> TRUE, clid |-> nextBtea, cur |-> home]]
           /\ where' = [where EXCEPT ![nextBtea] = home]
    /\ nextBtea' = nextBtea + 1
    /\ UNCHANGED <<channels, stale, bots, nextQuery, snapshot>>

\* login: the channel of the account's snapshot, if it still exists.
Login(s) ==
    /\ s \in Query /\ session[s].open
    /\ LET cur == IF snapshot \in DOMAIN channels THEN snapshot
                  ELSE IF DOMAIN channels = {} THEN 0 ELSE DefaultChannelId(channels)
       IN  \E k \in QueryIds :
              /\ IF session[s].clid # 0 THEN k = session[s].clid /\ UNCHANGED nextQuery
                 ELSE IsNextQueryId(where, k) /\ nextQuery' = k + 1
              /\ FinishCommand(s, channels, where,
                     [open |-> TRUE, sel |-> TRUE, clid |-> k, cur |-> cur], 0)
    /\ UNCHANGED nextBtea

\* logout: the session keeps its client id.
Logout(s) ==
    /\ s \in Query /\ session[s].sel
    /\ session' = [session EXCEPT ![s].sel = FALSE, ![s].cur = 0]
    /\ DropEntry(session[s].clid)
    /\ UNCHANGED <<nextQuery, nextBtea, snapshot>>

\* quit over telnet, where the sync drops the entry; the end of a BTEA connection,
\* for which the server executes quit itself.
Quit(s) ==
    /\ s \in Telnet \union Desktop /\ session[s].open
    /\ session' = [session EXCEPT ![s] = Closed]
    /\ snapshot' = IF s \in Query /\ session[s].sel THEN session[s].cur ELSE snapshot
    /\ DropEntry(session[s].clid)
    /\ UNCHANGED <<nextQuery, nextBtea>>

\* The connection ends without quit; for BTEA, when flood control refused that quit.
Disconnect(s) ==
    /\ s \in Telnet \union Desktop /\ session[s].open
    /\ session' = [session EXCEPT ![s] = Closed]
    /\ RemoveSessionClient(session[s].clid)
    /\ UNCHANGED <<nextQuery, nextBtea, snapshot>>

\* ssh has no hook for the end of a connection: the entry stays behind.
SshClose(s) ==
    /\ s \in Ssh /\ session[s].open
    /\ session' = [session EXCEPT ![s] = Closed]
    /\ UNCHANGED <<channels, where, stale, bots, nextQuery, nextBtea, snapshot>>

-----------------------------------------------------------------------------
(* Commands of a session that selected the virtual server.                 *)

\* Any command that is refused or only reads.
PlainCommand(s) ==
    /\ session[s].sel
    /\ FinishCommand(s, channels, where, session[s], 0)
    /\ UNCHANGED <<nextQuery, nextBtea>>

Use(s) ==
    /\ session[s].sel
    /\ FinishCommand(s, channels, where,
           [session[s] EXCEPT !.cur =
               IF DOMAIN channels = {} THEN 0 ELSE DefaultChannelId(channels)], 0)
    /\ UNCHANGED <<nextQuery, nextBtea>>

\* The channel execute_request will clean up after a move or a kick of k.
CleanupCandidate(s, k) == IF where[k] # 0 THEN where[k] ELSE session[s].cur

ClientMoveSelf(s, c) ==
    LET k == session[s].clid
    IN  /\ session[s].sel
        /\ c \in DOMAIN channels
        /\ FinishCommand(s, channels,
               IF where[k] # 0 THEN [where EXCEPT ![k] = c] ELSE where,
               [session[s] EXCEPT !.cur = c], CleanupCandidate(s, k))
        /\ UNCHANGED <<nextQuery, nextBtea>>

\* All query clients share the database id of the account, so that a query
\* session takes a move of another one for a move of its own.
SameDatabaseId(s, k) == s \in Query /\ k \in QueryIds \ bots

ClientMoveOther(s, k, c) ==
    /\ session[s].sel
    /\ k # session[s].clid /\ where[k] # 0
    /\ c \in DOMAIN channels
    /\ FinishCommand(s, channels, [where EXCEPT ![k] = c],
           IF SameDatabaseId(s, k) THEN [session[s] EXCEPT !.cur = c] ELSE session[s],
           CleanupCandidate(s, k))
    /\ UNCHANGED <<nextQuery, nextBtea>>

\* clientkick reasonid=4.
ClientKickFromChannel(s, k) ==
    /\ session[s].sel
    /\ where[k] # 0
    /\ DOMAIN channels # {}
    /\ FinishCommand(s, channels, [where EXCEPT ![k] = DefaultChannelId(channels)],
           session[s], CleanupCandidate(s, k))
    /\ UNCHANGED <<nextQuery, nextBtea>>

\* clientkick reasonid=5: removal and cleanup happen inside the handler.
ClientKickFromServer(s, k) ==
    /\ session[s].sel
    /\ where[k] # 0
    /\ LET w == [where EXCEPT ![k] = 0]
       IN  FinishCommand(s, ChannelsAfterCleanup(channels, w, bots, where[k]),
               WhereAfterCleanup(channels, w, bots, where[k]),
               session[s], CleanupCandidate(s, k))
    /\ UNCHANGED <<nextQuery, nextBtea>>

\* channelcreate of a temporary channel, appended to its siblings.
ChannelCreate(s, p) ==
    /\ session[s].sel
    /\ p = 0 \/ p \in DOMAIN channels
    /\ \E c \in ChannelIds :
          /\ IsNextChannelId(channels, c)
          /\ FinishCommand(s, AddChannel(channels, c, p, None, "temporary", FALSE),
                 where, session[s], 0)
    /\ UNCHANGED <<nextQuery, nextBtea>>

\* Only the session that deletes corrects its own copy of the position.
ChannelDelete(s, c, force) ==
    LET D == IF force = 1 THEN Subtree(channels, c) ELSE {c}
        home == DefaultChannelId(channels)
    IN  /\ session[s].sel
        /\ c \in DOMAIN channels
        /\ c # 1 /\ ~ channels[c].dflt
        /\ force = 0 => Siblings(channels, c) = {} /\ Occupants(where, c) = {}
        /\ FinishCommand(s, RemoveChannels(channels, D, channels[c].parent),
               WhereAfterDelete(where, bots, D, channels[c].kind, home),
               [session[s] EXCEPT !.cur = IF @ \in D THEN home ELSE @], 0)
        /\ UNCHANGED <<nextQuery, nextBtea>>

\* A bot enters channel c while session s executes a command.
SpawnBot(s, c) ==
    /\ \E k \in QueryIds :
          /\ IsNextQueryId(where, k)
          /\ nextQuery' = k + 1
          /\ where' = [where EXCEPT ![k] = c,
                                    ![session[s].clid] = SessionChannel(channels, session[s])]
          /\ bots' = bots \union {k}
    /\ session' = session
    /\ snapshot' = IF s \in Query THEN session[s].cur ELSE snapshot
    /\ stale' = stale \ {session[s].clid}

MusicBotCreate(s, c) ==
    /\ session[s].sel
    /\ c \in DOMAIN channels
    /\ SpawnBot(s, c)
    /\ UNCHANGED <<channels, nextBtea>>

MusicBotDelete(s, b) ==
    /\ session[s].sel
    /\ b \in bots
    /\ FinishCommand(s, channels, [where EXCEPT ![b] = 0], session[s], where[b])
    /\ UNCHANGED <<nextQuery, nextBtea>>

\* musicbotplayeraction 14: the channel may be any number.
MusicBotSummon(s, b, c) ==
    /\ session[s].sel
    /\ b \in bots
    /\ FinishCommand(s, channels, [where EXCEPT ![b] = c], session[s], 0)
    /\ UNCHANGED <<nextQuery, nextBtea>>

-----------------------------------------------------------------------------
(***************************************************************************)
(* Chat commands: sendtextmessage with a text that begins with / or !.     *)
(* try_handle_musicbot_chat_command changes online_clients itself, and     *)
(* execute_request goes on as after any command: the sync writes the       *)
(* session's own position over what the text changed, and no channel is    *)
(* cleaned up.                                                             *)
(***************************************************************************)

\* invoker_channel_id.
InvokerChannel(s) == LET w == where[session[s].clid] IN IF w # 0 THEN w ELSE 1

\* The text put the clients in positions w.
ChatDone(s, w) ==
    /\ FinishCommand(s, channels, w, session[s], 0)
    /\ UNCHANGED <<nextQuery, nextBtea>>

\* /moveclient.
ChatMoveClient(s, k, c) ==
    /\ session[s].sel
    /\ where[k] # 0 /\ c \in DOMAIN channels
    /\ ChatDone(s, [where EXCEPT ![k] = c])

\* /ch join.
ChatChannelJoin(s, c) ==
    /\ session[s].sel
    /\ c \in DOMAIN channels
    /\ ChatDone(s, IF where[session[s].clid] # 0
                   THEN [where EXCEPT ![session[s].clid] = c] ELSE where)

\* /chkick: to channel 1, whichever the default channel is.
ChatKickFromChannel(s, k) ==
    /\ session[s].sel
    /\ where[k] # 0
    /\ ChatDone(s, [where EXCEPT ![k] = 1])

\* remove_session_client of k by a text: /kick, or /bot leave of a music bot.
ChatRemove(s, k) ==
    /\ session[s].sel
    /\ where[k] # 0
    /\ LET w == [where EXCEPT ![k] = 0]
       IN  FinishCommand(s, ChannelsAfterCleanup(channels, w, bots, where[k]),
               WhereAfterCleanup(channels, w, bots, where[k]), session[s], 0)
    /\ UNCHANGED <<nextQuery, nextBtea>>

\* /bot spawn, and /bot join where there is no bot.
ChatSpawn(s) ==
    /\ session[s].sel
    /\ SpawnBot(s, InvokerChannel(s))
    /\ UNCHANGED <<channels, nextBtea>>

\* find_music_bot_in_channel and find_any_music_bot_on_server.
BotsIn(c) == {b \in bots : where[b] = c}
FirstBot == Min(bots)

\* /bot join: the first bot comes, unless there is one in the channel.
ChatBotJoin(s) ==
    /\ session[s].sel
    /\ bots # {} /\ BotsIn(InvokerChannel(s)) = {}
    /\ ChatDone(s, [where EXCEPT ![FirstBot] = InvokerChannel(s)])

\* build_chat_admin_query_session: logged in to serveradmin, with the client id
\* of the invoker, and standing where the invoker is seen.
ChatAdminSession(s) ==
    [open |-> TRUE, sel |-> TRUE, clid |-> session[s].clid, cur |-> InvokerChannel(s)]

\* /ch create: channelcreate is executed for such a session, whose position
\* becomes the snapshot of the account; then the invoker's own sync follows.
ChatChannelCreate(s, kind) ==
    /\ session[s].sel
    /\ \E c \in ChannelIds :
          /\ IsNextChannelId(channels, c)
          /\ channels' = AddChannel(channels, c, 0, None, kind, FALSE)
    /\ session' = session
    /\ where' = [where EXCEPT ![session[s].clid] = SessionChannel(channels', session[s])]
    /\ snapshot' = IF s \in Query THEN session[s].cur ELSE ChatAdminSession(s).cur
    /\ stale' = stale \ {session[s].clid}
    /\ UNCHANGED <<bots, nextQuery, nextBtea>>

-----------------------------------------------------------------------------
(* Time.                                                                   *)

\* More than 60 seconds pass without a sign of life of client k.
Expire(k) ==
    /\ where[k] # 0 /\ k \notin stale \union bots
    /\ stale' = stale \union {k}
    /\ UNCHANGED <<channels, where, bots, session, nextQuery, nextBtea, snapshot>>

\* mark_client_seen, on every packet of a desktop client.
Heartbeat(s) ==
    /\ s \in Desktop /\ session[s].open
    /\ session[s].clid \in stale
    /\ stale' = stale \ {session[s].clid}
    /\ UNCHANGED <<channels, where, bots, session, nextQuery, nextBtea, snapshot>>

\* Mutant: the zombies that were found are not removed.
KeepZombie(t, k) == t

\* One removal of the first loop of run_housekeeping, t = [ch, w].
DropZombie(t, k) ==
    LET w == [t.w EXCEPT ![k] = 0]
    IN  [ch |-> ChannelsAfterCleanup(t.ch, w, bots, t.w[k]),
         w  |-> WhereAfterCleanup(t.ch, w, bots, t.w[k])]

\* Mutant: the temporary channels are not looked at.
SkipChannel(t, c) == t

\* One turn of its second loop.
SweepChannel(t, c) ==
    [ch |-> ChannelsAfterCleanup(t.ch, t.w, bots, c),
     w  |-> WhereAfterCleanup(t.ch, t.w, bots, c)]

Temporary(ch) == {c \in DOMAIN ch : ch[c].kind = "temporary"}

\* The table and the positions that the first loop leaves.
Dropped ==
    LET after[k \in 0..MaxClientId] ==
            IF k = 0 THEN [ch |-> channels, w |-> where]
            ELSE IF k \in stale THEN DropZombie(after[k - 1], k) ELSE after[k - 1]
    IN  after[MaxClientId]

\* Those that run_housekeeping leaves.
Swept ==
    LET after[c \in 0..MaxChannelId] ==
            IF c = 0 THEN Dropped
            ELSE IF c \in Temporary(Dropped.ch) THEN SweepChannel(after[c - 1], c)
            ELSE after[c - 1]
    IN  after[MaxChannelId]

\* run_housekeeping, every 10 seconds.
Housekeeping ==
    /\ stale' = {}
    /\ UNCHANGED <<session, nextQuery, nextBtea, snapshot>>
    /\ LET swept == Swept IN channels' = swept.ch /\ where' = swept.w
    /\ bots' = {b \in bots : where'[b] # 0}

-----------------------------------------------------------------------------

Next ==
    \/ \E s \in Sessions :
          \/ Connect(s) \/ Bootstrap(s) \/ Login(s) \/ Logout(s)
          \/ Quit(s) \/ Disconnect(s) \/ SshClose(s) \/ Heartbeat(s)
          \/ PlainCommand(s) \/ Use(s)
          \/ \E c \in ChannelIds : ClientMoveSelf(s, c) \/ MusicBotCreate(s, c)
          \/ \E k \in ClientIds, c \in ChannelIds : ClientMoveOther(s, k, c)
          \/ \E k \in ClientIds : ClientKickFromChannel(s, k) \/ ClientKickFromServer(s, k)
          \/ \E p \in ParentsUsed : ChannelCreate(s, p)
          \/ \E c \in ChannelIds, f \in {0, 1} : ChannelDelete(s, c, f)
          \/ \E b \in ClientIds : MusicBotDelete(s, b)
          \/ \E b \in ClientIds, c \in ChannelIds : MusicBotSummon(s, b, c)
          \/ \E k \in ClientIds, c \in ChannelIds : ChatMoveClient(s, k, c)
          \/ \E c \in ChannelIds : ChatChannelJoin(s, c)
          \/ \E k \in ClientIds : ChatKickFromChannel(s, k) \/ ChatRemove(s, k)
          \/ ChatSpawn(s) \/ ChatBotJoin(s)
          \/ \E kind \in ChatKinds : ChatChannelCreate(s, kind)
    \/ \E k \in ClientIds : Expire(k)
    \/ Housekeeping

Spec == Init /\ [][Next]_vars

Owner(k) == {s \in Sessions : session[s].open /\ session[s].clid = k}

\* An entry of online_clients without a connection behind it.
Ghost(k) == where[k] # 0 /\ k \notin bots /\ Owner(k) = {}

\* ENABLED <<Housekeeping>>_vars, spelled out for TLC.
HousekeepingNeeded == stale # {} \/ Swept # [ch |-> channels, w |-> where]

(***************************************************************************)
(* The main loop runs the housekeeping every 10 seconds, which is weak     *)
(* fairness of it, and a client that nobody can refresh any more goes      *)
(* stale because time passes.  No connection is forced to do anything.     *)
(***************************************************************************)
Fairness ==
    /\ []<>(~ HousekeepingNeeded) \/ []<><<Housekeeping>>_vars
    /\ \A k \in ClientIds : WF_vars(Ghost(k) /\ Expire(k))

FairSpec == Spec /\ Fairness

-----------------------------------------------------------------------------
(* Properties.                                                             *)

\* The tables hold what their types say.
TypeOK ==
    /\ DOMAIN channels \subseteq ChannelIds
    /\ channels \in [DOMAIN channels -> [parent : 0..MaxChannelId, order : 0..MaxChannelId,
                                         kind : Kinds, dflt : BOOLEAN]]
    /\ where \in [ClientIds -> 0..MaxChannelId]
    /\ stale \subseteq ClientIds
    /\ bots \subseteq ClientIds
    /\ session \in [Sessions -> [open : BOOLEAN, sel : BOOLEAN,
                                 clid : 0..MaxClientId, cur : 0..MaxChannelId]]
    /\ nextQuery \in 1..(MaxQueryId + 1)
    /\ nextBtea \in (MaxQueryId + 1)..(MaxClientId + 1)
    /\ snapshot \in 0..MaxChannelId

\* No two connections, and no connection and a music bot, ever share a client
\* id, although a session keeps its id through a logout, a kick and a time-out,
\* when the id is not online and allocate_query_client_id would not skip it.
UniqueClientIds ==
    /\ \A s, r \in Sessions : session[s].clid = session[r].clid /\ s # r => session[s].clid = 0
    /\ \A s \in Sessions : session[s].clid \notin bots

(***************************************************************************)
(* A client gets into a channel that is gone in two ways only: its own     *)
(* session says so (a stale current_channel_id), or it is a music bot that *)
(* is sent to a channel nobody looked up.  No command of somebody else, no *)
(* housekeeping, and no deletion or cleanup of a channel strands anybody,  *)
(* a bot included.                                                         *)
(***************************************************************************)
OnlyStaleSessionsStrand ==
    [][\A k \in ClientIds :
          /\ where[k] \in DOMAIN channels \union {0}
          /\ where'[k] \notin DOMAIN channels' \union {0}
          => \/ \E s \in Sessions : session'[s].clid = k /\ session'[s].cur = where'[k]
             \/ k \in bots' /\ channels' = channels]_vars

\* A client whose connection is gone does not stay online for ever.
GhostsLeave == \A k \in ClientIds : []<>(~ Ghost(k))

Abandoned(c) ==
    /\ c \in Temporary(channels)
    /\ Occupants(where, c) \subseteq bots
    /\ Siblings(channels, c) = {}

\* A temporary channel that nobody but music bots is in does not stay for ever,
\* also when its last client left by quit, use or a time-out, which clean up
\* nothing: somebody enters it, something is created below it, or it goes.
AbandonedChannelsGo == \A c \in ChannelIds : []<>(~ Abandoned(c))
=============================================================================
