----------------------------- MODULE Ts6Streams -----------------------------
(***************************************************************************)
(* Video of TS6 clients and of everybody else, bridged into each other.    *)
(*                                                                         *)
(* What is on air is kept in four tables, each under a lock of its own:    *)
(* active_broadcasts in the runtime, TS6_STREAM_REGISTRY, the bridges of   *)
(* TS6_WEBRTC_BRIDGE and the viewer slots of the rtc manager.  A stream    *)
(* that a TS6 client sets up enters the registry and is copied to          *)
(* active_broadcasts (sync_runtime_stream_state); a broadcast of another   *)
(* client enters active_broadcasts and is copied to the registry as a      *)
(* synthetic "ts6-bridge" stream (sync_non_ts6_broadcasts_to_ts6).         *)
(*                                                                         *)
(* The UDP loop of the virtual server runs the handlers of the TS6 clients *)
(* and the delivery of events one after the other; `loop' is where it      *)
(* stands between two locks.  Commands over the other transports and the   *)
(* tasks that set up a bridge run beside it.                               *)
(*                                                                         *)
(* Left out: channels (no decision here reads them), the names, bit rates  *)
(* and limits of a stream, joined_client_ids and audio broadcasts (written *)
(* and never read), the client_is_streaming flags, and signaling, which    *)
(* hands descriptions to a connection that exists and changes no table.    *)
(***************************************************************************)
EXTENDS Integers, FiniteSets, FiniteSetsExt, Functions

CONSTANTS
    Ts6,        \* TS6 clients
    Others,     \* clients that broadcast over other transports
    Streamers,  \* the TS6 clients that set up streams
    MaxStreams, \* bound on NEXT_TS6_STREAM_SEQ
    MaxTasks,   \* bound on the bridges being set up at a time
    MaxOps      \* bound on the commands given

ASSUME ClientsAssumption ==
    /\ Ts6 \cap Others = {} /\ Streamers \subseteq Ts6
    /\ IsFiniteSet(Ts6) /\ IsFiniteSet(Others)
ASSUME StreamBounds == MaxStreams \in Nat /\ MaxTasks \in Nat /\ MaxOps \in Nat

Clients == Ts6 \union Others
Bts == {0, 1}                   \* 0 camera, 1 screen
Keys == Clients \X Bts

\* The id of a stream names its client.
RealIds == {"ts6"} \X Ts6 \X (1..MaxStreams)
BridgeIds == {"bridge"} \X Clients \X Bts
StreamIds == RealIds \union BridgeIds
IsBridge(id) == id[1] = "bridge"
Owner(id) == id[2]

VARIABLES
    waiting,    \* TS6 clients that have not connected yet
    online,     \* clients in online_clients
    session,    \* TS6 clients with a session in the UDP loop
    active,     \* the keys of active_broadcasts
    streams,    \* TS6_STREAM_REGISTRY: stream id -> [bt, attendees]
    seq,        \* NEXT_TS6_STREAM_SEQ
    inbound,    \* inbound_streams: ids the server receives
    outbound,   \* outbound_viewers: [id, viewer, bt]
    fed,        \* slots of TS6 viewers: <<viewer, broadcaster, bt>>
    tasks,      \* bridges being set up
    events,     \* VideoBroadcastChanged waiting for the loop: none, one or many
    loop,       \* what the UDP loop is in the middle of
    ops,        \* commands given
    excuse,     \* history: why streams and broadcasts of a TS6 client may differ
    unheard,    \* history: something changed since the last look, and no event
    late,       \* history: what tasks registered for streams already closed, and
                \* slots whose bridge was replaced by one of another type
    cut         \* history: feeds cut off from a bridge that went on

who     == <<waiting, online, session>>
bridges == <<inbound, outbound, fed, late, cut>>
vars    == <<who, active, streams, seq, bridges, tasks, events, loop, ops,
             excuse, unheard>>

Ids == DOMAIN streams
StreamsOf(c) == {id \in Ids : Owner(id) = c}
Feed(o) == <<o.viewer, Owner(o.id), o.bt>>
Idle == [at |-> "idle"]

Init ==
    /\ waiting = Ts6 \ Streamers
    /\ online = Clients \ waiting
    /\ session = Streamers
    /\ active = {} /\ streams = <<>> /\ seq = 1
    /\ inbound = {} /\ outbound = {} /\ fed = {} /\ tasks = {}
    /\ events = "none" /\ loop = Idle /\ ops = 0
    /\ excuse = [c \in Ts6 |-> {}] /\ unheard = FALSE
    /\ late = [in |-> {}, out |-> {}, feed |-> {}] /\ cut = {}

-----------------------------------------------------------------------------
(* Pieces of the handlers.                                                 *)

\* broadcast_event(VideoBroadcastChanged).
Announce == events' = IF events = "none" THEN "one" ELSE "many"

\* A command of client c reaches the UDP loop.
Command(c) == loop = Idle /\ c \in session /\ ops < MaxOps /\ ops' = ops + 1

(***************************************************************************)
(* The bridges after a change.  What is closed or fed again needs no       *)
(* excuse any more.                                                        *)
(***************************************************************************)
BridgesBecome(in, out, slots, newLate, newCut) ==
    /\ inbound' = in /\ outbound' = out /\ fed' = slots
    /\ late' = [in   |-> (late.in \union newLate.in) \cap in,
                out  |-> (late.out \union newLate.out) \cap out,
                feed |-> (late.feed \union newLate.feed) \cap slots]
    /\ cut' = (cut \union newCut) \cap ({Feed(o) : o \in out} \ slots)
NoneLate == [in |-> {}, out |-> {}, feed |-> {}]

\* Bridges that a broadcast finds when it comes back on air: they stayed open
\* and lost their slots when it went off.
Resumed(keys) == {f \in {Feed(o) : o \in outbound} \ fed : <<f[2], f[3]>> \in keys \ active}

\* Mutant: the registry forgets the streams, the bridges stay.
CloseNothing(ids) == UNCHANGED bridges

\* close_all_ts6_bridges_for_stream, for every stream of a set.
CloseStreams(ids) ==
    LET closed == {o \in outbound : o.id \in ids}
    IN  BridgesBecome(inbound \ ids, outbound \ closed,
                      fed \ {Feed(o) : o \in closed}, NoneLate, {Feed(o) : o \in closed})

\* Mutant: the bridge is closed and the slot stays.
CloseViewerOnly(id, v) ==
    BridgesBecome(inbound, {o \in outbound : o.id # id \/ o.viewer # v}, fed, NoneLate, {})

\* close_ts6_outbound_viewer.
CloseViewer(id, v) ==
    LET closed == {o \in outbound : o.id = id /\ o.viewer = v}
    IN  BridgesBecome(inbound, outbound \ closed,
                      fed \ {Feed(o) : o \in closed}, NoneLate, {Feed(o) : o \in closed})

\* close_all_ts6_bridges_for_client: what c streams, shows or watches.
CloseClient(c) ==
    LET closed == {o \in outbound : o.viewer = c \/ Owner(o.id) = c}
    IN  BridgesBecome({id \in inbound : Owner(id) # c}, outbound \ closed,
                      {f \in fed : f[1] # c} \ {Feed(o) : o \in closed}, NoneLate,
                      {Feed(o) : o \in closed})

(***************************************************************************)
(* clear_client_media_broadcasts: the broadcasts of c end, the slots that  *)
(* show c and the slots of c are free.  The bridges behind them stay.      *)
(***************************************************************************)
ClearMedia(c) ==
    /\ active' = {k \in active : k[1] # c}
    /\ BridgesBecome(inbound, outbound, {f \in fed : f[1] # c /\ f[2] # c}, NoneLate,
                     {f \in fed : f[1] = c})
    /\ IF active' # active THEN Announce ELSE UNCHANGED events

-----------------------------------------------------------------------------
(* The two copies.                                                         *)

\* The excuses that are left after registry and broadcasts of c were aligned.
Realigned(c) ==
    IF c \notin online THEN excuse[c]
    ELSE IF StreamsOf(c) = {} THEN {} ELSE excuse[c] \ {"moved"}

\* Mutant: what has ended is not taken off the air.
ShownOrActive(c) ==
    {<<c, streams[id].bt>> : id \in StreamsOf(c)} \union {k \in active : k[1] = c}

\* What the registry says client c shows.
Shown(c) == {<<c, streams[id].bt>> : id \in StreamsOf(c)}

\* sync_runtime_stream_state, at the end of setupstream and stopstream and
\* in the middle of clientdisconnect.
SyncRuntime ==
    LET c == loop.clid
    IN  /\ loop.at = "runtime"
        /\ active' = {k \in active : k[1] # c} \union Shown(c)
        /\ BridgesBecome(inbound, outbound, fed, NoneLate, Resumed(Shown(c)))
        /\ Announce
        /\ loop' = IF loop.leaves THEN [at |-> "leave", clid |-> c] ELSE Idle
        /\ excuse' = [excuse EXCEPT ![c] = Realigned(c)]
        /\ UNCHANGED <<who, streams, seq, tasks, ops, unheard>>

\* sync_non_ts6_broadcasts_to_ts6 begins: the snapshot under the runtime lock.
\* One pass does not always repair a synthetic stream with a changed type.
StartSyncBridges(next) ==
    /\ loop' = [at |-> "bridges", snap |-> active, next |-> next]
    /\ unheard' = \E id \in Ids \cap BridgeIds : streams[id].bt # id[3]

\* Mutant: a broadcast of the client of any type is enough.
StaleByClient(snap) == {id \in Ids : IsBridge(id) /\ \A k \in snap : k[1] # Owner(id)}

\* Synthetic streams whose broadcast ended.
StaleBridges(snap) ==
    {id \in Ids : IsBridge(id) /\ <<Owner(id), streams[id].bt>> \notin snap}

\* Synthetic streams for the broadcasts of type bt that no stream shows.
WithBridges(reg, snap, bt) ==
    LET new == {<<"bridge", k[1], bt>> : k \in {j \in snap : j[2] = bt
                    /\ ~ \E id \in DOMAIN reg : Owner(id) = j[1] /\ reg[id].bt = bt}}
    IN  [id \in DOMAIN reg \union new |->
            IF id \in new THEN [bt |-> bt, attendees |-> {}] ELSE reg[id]]

\* The rest of it: the registry, and the bridges of what ended.
SyncBridges ==
    LET stale == StaleBridges(loop.snap)
    IN  /\ loop.at = "bridges"
        /\ streams' = WithBridges(WithBridges(Restrict(streams, Ids \ stale), loop.snap, 0),
                                  loop.snap, 1)
        /\ CloseStreams(stale)
        /\ loop' = loop.next
        /\ UNCHANGED <<who, active, seq, tasks, events, ops, excuse, unheard>>

\* The loop takes a VideoBroadcastChanged out of its queue.
Deliver ==
    /\ loop = Idle /\ events # "none"
    /\ events' \in IF events = "one" THEN {"none"} ELSE {"one", "many"}
    /\ StartSyncBridges(Idle)
    /\ UNCHANGED <<who, active, streams, seq, bridges, tasks, ops, excuse>>

-----------------------------------------------------------------------------
(* Commands of TS6 clients.                                                *)

\* clientinit.
Connect(c) ==
    /\ loop = Idle /\ c \in waiting
    /\ waiting' = waiting \ {c} /\ online' = online \union {c} /\ session' = session \union {c}
    /\ StartSyncBridges(Idle)
    /\ UNCHANGED <<active, streams, seq, bridges, tasks, events, ops, excuse>>

\* setupstream: the stream replaces the streams of its type.
SetupStream(c, bt) ==
    LET old == {id \in StreamsOf(c) : streams[id].bt = bt}
        id  == <<"ts6", c, seq>>
    IN  /\ c \in Streamers /\ seq <= MaxStreams /\ Command(c)
        /\ streams' = [i \in (Ids \ old) \union {id} |->
                         IF i = id THEN [bt |-> bt, attendees |-> {}] ELSE streams[i]]
        /\ seq' = seq + 1
        /\ CloseStreams(old)
        /\ loop' = [at |-> "runtime", clid |-> c, leaves |-> FALSE]
        /\ UNCHANGED <<who, active, tasks, events, excuse, unheard>>

\* updatestream with a type: nothing is copied to the broadcasts.
UpdateStream(c, id, bt) ==
    /\ id \in Ids /\ streams[id].bt # bt /\ Command(c)
    /\ streams' = [streams EXCEPT ![id].bt = bt]
    /\ unheard' = TRUE
    /\ excuse' = [d \in Ts6 |-> IF d = Owner(id) THEN excuse[d] \union {"retyped"} ELSE excuse[d]]
    /\ UNCHANGED <<who, active, seq, bridges, tasks, events, loop>>

\* stopstream: one stream, whoever owns it, or all of the client's.
StopStream(c, ids) ==
    /\ Command(c)
    /\ streams' = Restrict(streams, Ids \ ids)
    /\ CloseStreams(ids)
    /\ loop' = [at |-> "runtime", clid |-> c, leaves |-> FALSE]
    /\ excuse' = [d \in Ts6 |-> IF d # c /\ \E id \in ids : Owner(id) = d
                                THEN excuse[d] \union {"stopped"} ELSE excuse[d]]
    /\ UNCHANGED <<who, active, seq, tasks, events, unheard>>

\* requeststreaminfo.
RequestStreamInfo(c) ==
    /\ Command(c)
    /\ StartSyncBridges(Idle)
    /\ UNCHANGED <<who, active, streams, seq, bridges, tasks, events, excuse>>

\* joinstreamrequest: first the copy, then the request itself.
JoinStreamRequest(c, id, remove) ==
    /\ Command(c) /\ Cardinality(tasks) < MaxTasks
    /\ StartSyncBridges([at |-> "join", clid |-> c, id |-> id, remove |-> remove])
    /\ UNCHANGED <<who, active, streams, seq, bridges, tasks, events, excuse>>

\* A bridge to the viewer of a synthetic stream is started; the request for a
\* stream of a TS6 client is passed on to that client.
JoinStream ==
    LET c == loop.clid  id == loop.id
    IN  /\ loop.at = "join"
        /\ IF id \notin Ids THEN streams' = streams
           ELSE streams' = [streams EXCEPT ![id].attendees =
                  IF loop.remove THEN @ \ {c} ELSE IF IsBridge(id) THEN @ \union {c} ELSE @]
        /\ IF loop.remove THEN CloseViewer(id, c) ELSE UNCHANGED bridges
        /\ tasks' = IF ~ loop.remove /\ id \in Ids /\ IsBridge(id)
                    THEN tasks \union {[does |-> "show", id |-> id, viewer |-> c,
                                        bt |-> streams[id].bt]}
                    ELSE tasks
        /\ loop' = Idle
        /\ UNCHANGED <<who, active, seq, events, ops, excuse, unheard>>

\* respondjoinstreamrequest to the server's own viewer: a bridge from the
\* streamer is started, whether the stream still exists or not.
RespondToServer(c, id) ==
    /\ Owner(id) = c /\ ~ IsBridge(id) /\ id[3] < seq
    /\ Command(c) /\ Cardinality(tasks) < MaxTasks
    /\ tasks' = tasks \union {[does |-> "receive", id |-> id]}
    /\ UNCHANGED <<who, active, streams, seq, bridges, events, loop, excuse, unheard>>

\* respondjoinstreamrequest to a client.
RespondToClient(c, id, v) ==
    /\ id \in StreamsOf(c) /\ v \notin streams[id].attendees /\ Command(c)
    /\ streams' = [streams EXCEPT ![id].attendees = @ \union {v}]
    /\ UNCHANGED <<who, active, seq, bridges, tasks, events, loop, excuse, unheard>>

\* removeclientfromstream: by the viewer, or by anybody about the viewer.
RemoveClientFromStream(c, id, v) ==
    /\ id \in Ids /\ Command(c)
    /\ streams' = [streams EXCEPT ![id].attendees = @ \ {v}]
    /\ CloseViewer(id, v)
    /\ UNCHANGED <<who, active, seq, tasks, events, loop, excuse, unheard>>

\* clientdisconnect: cleanup_client_streams, then (Leave) remove_session_client.
Disconnect(c) ==
    /\ Command(c)
    /\ CloseClient(c)
    /\ streams' = [id \in Ids \ StreamsOf(c) |-> [streams[id] EXCEPT !.attendees = @ \ {c}]]
    /\ loop' = IF StreamsOf(c) # {} THEN [at |-> "runtime", clid |-> c, leaves |-> TRUE]
               ELSE [at |-> "leave", clid |-> c]
    /\ UNCHANGED <<who, active, seq, tasks, events, excuse, unheard>>

Leave ==
    LET c == loop.clid
    IN  /\ loop.at = "leave"
        /\ IF c \in online THEN ClearMedia(c) ELSE UNCHANGED <<active, bridges, events>>
        /\ online' = online \ {c} /\ session' = session \ {c}
        /\ excuse' = [excuse EXCEPT ![c] = IF c \in online THEN {} ELSE @]
        /\ loop' = Idle
        /\ UNCHANGED <<waiting, streams, seq, tasks, ops, unheard>>

-----------------------------------------------------------------------------
(* Everything else.                                                        *)

\* The insert of outbound_viewers.
OutboundWith(o) == {p \in outbound : p.id # o.id \/ p.viewer # o.viewer} \union {o}

\* The bridges of v were closed for good.
Cleaned(v) ==
    \/ v \notin session
    \/ loop.at = "leave" /\ loop.clid = v
    \/ loop.at = "runtime" /\ loop.leaves /\ loop.clid = v

\* The task of start_ts6_outbound_bridge enters the bridge...
ShowRegistered(t) ==
    LET o == [id |-> t.id, viewer |-> t.viewer, bt |-> t.bt]
    IN  /\ t \in tasks /\ t.does = "show"
        /\ BridgesBecome(inbound, OutboundWith(o), fed,
             [NoneLate EXCEPT !.out = IF t.id \in Ids /\ ~ Cleaned(t.viewer)
                                      THEN {} ELSE {o},
                              !.feed = {Feed(p) : p \in outbound \ OutboundWith(o)}], {})
        /\ tasks' = (tasks \ {t}) \union {[t EXCEPT !.does = "feed"]}
        /\ UNCHANGED <<who, active, streams, seq, events, loop, ops, excuse, unheard>>

\* ... and then the slot of the viewer.
ShowFed(t) ==
    LET f == Feed(t)
    IN  /\ t \in tasks /\ t.does = "feed"
        /\ BridgesBecome(inbound, outbound, fed \union {f},
             [NoneLate EXCEPT !.feed = IF \E o \in outbound : Feed(o) = f THEN {} ELSE {f}], {})
        /\ tasks' = tasks \ {t}
        /\ UNCHANGED <<who, active, streams, seq, events, loop, ops, excuse, unheard>>

\* The task of start_ts6_inbound_bridge.
ReceiveRegistered(t) ==
    /\ t \in tasks /\ t.does = "receive"
    /\ BridgesBecome(inbound \union {t.id}, outbound, fed,
         [NoneLate EXCEPT !.in = IF t.id \in Ids THEN {} ELSE {t.id}], {})
    /\ tasks' = tasks \ {t}
    /\ UNCHANGED <<who, active, streams, seq, events, loop, ops, excuse, unheard>>

\* A connection cannot be made, and the task ends before it enters anything.
TaskFails(t) ==
    /\ t \in tasks /\ t.does \in {"show", "receive"}
    /\ tasks' = tasks \ {t}
    /\ UNCHANGED <<who, active, streams, seq, bridges, events, loop, ops, excuse, unheard>>

(***************************************************************************)
(* broadcastvideo of a client of another transport: its groups in order,   *)
(* each turns one type off or on.  A group that the permissions deny ends  *)
(* the command, with what the groups before it did and without an event.   *)
(***************************************************************************)
BroadcastVideo(c, off, on, denied) ==
    LET offKeys == {c} \X off  onKeys == {c} \X on
    IN  /\ c \in online /\ ops < MaxOps /\ ops' = ops + 1
        /\ off \cap on = {} /\ off \union on # {}
        /\ active' = (active \ offKeys) \union onKeys
        /\ BridgesBecome(inbound, outbound, {f \in fed : <<f[2], f[3]>> \notin offKeys}, NoneLate,
                         Resumed(onKeys))
        /\ IF denied THEN UNCHANGED events /\ unheard' = TRUE
                     ELSE Announce /\ UNCHANGED unheard
        /\ UNCHANGED <<who, streams, seq, tasks, loop, excuse>>

\* Another client moves c to another channel or kicks it out of its channel.
Move(c) ==
    /\ c \in online /\ ops < MaxOps /\ ops' = ops + 1
    /\ ClearMedia(c)
    /\ excuse' = [d \in Ts6 |-> IF d = c /\ StreamsOf(c) # {}
                                THEN excuse[d] \union {"moved"} ELSE excuse[d]]
    /\ UNCHANGED <<who, streams, seq, tasks, loop, unheard>>

\* c is kicked from the server or times out: remove_session_client only.
Kick(c) ==
    /\ c \in online /\ ops < MaxOps /\ ops' = ops + 1
    /\ ClearMedia(c)
    /\ online' = online \ {c}
    /\ excuse' = [d \in Ts6 |-> IF d = c THEN excuse[d] \union {"kicked"} ELSE excuse[d]]
    /\ UNCHANGED <<waiting, session, streams, seq, tasks, loop, unheard>>

\* The loop hears of it and ends the session.
EndSession(c) ==
    /\ loop = Idle /\ c \in session \ online
    /\ session' = session \ {c}
    /\ UNCHANGED <<waiting, online, active, streams, seq, bridges, tasks, events, loop,
                   ops, excuse, unheard>>

Next ==
    \/ SyncRuntime \/ SyncBridges \/ Deliver \/ JoinStream \/ Leave
    \/ \E c \in Ts6 :
        \/ Connect(c) \/ RequestStreamInfo(c) \/ Disconnect(c) \/ EndSession(c)
        \/ \E bt \in Bts : SetupStream(c, bt)
        \/ \E id \in Ids, bt \in Bts : UpdateStream(c, id, bt)
        \/ \E id \in Ids : StopStream(c, {id})
        \/ StopStream(c, StreamsOf(c))
        \/ \E id \in Ids, remove \in BOOLEAN : JoinStreamRequest(c, id, remove)
        \/ \E id \in RealIds : RespondToServer(c, id)
        \/ \E id \in Ids, v \in Ts6 \ {c} : RespondToClient(c, id, v)
        \/ \E id \in Ids, v \in Ts6 : RemoveClientFromStream(c, id, v)
    \/ \E t \in tasks : ShowRegistered(t) \/ ShowFed(t) \/ ReceiveRegistered(t) \/ TaskFails(t)
    \/ \E c \in Others, off, on \in SUBSET Bts, denied \in BOOLEAN :
        BroadcastVideo(c, off, on, denied)
    \/ \E c \in Clients : Move(c) \/ Kick(c)

Spec == Init /\ [][Next]_vars

-----------------------------------------------------------------------------
(* Properties.                                                             *)

\* The tables hold what their types say.
TypeOK ==
    /\ waiting \subseteq Ts6 /\ online \subseteq Clients /\ session \subseteq Ts6
    /\ active \subseteq Keys
    /\ Ids \subseteq StreamIds
    /\ \A id \in Ids : streams[id] \in [bt : Bts, attendees : SUBSET Ts6]
    /\ seq \in 1..(MaxStreams + 1)
    /\ inbound \subseteq RealIds
    /\ outbound \subseteq [id : BridgeIds, viewer : Ts6, bt : Bts]
    /\ \A o, p \in outbound : o.id = p.id /\ o.viewer = p.viewer => o = p
    /\ fed \subseteq Ts6 \X Clients \X Bts
    /\ Cardinality(tasks) <= MaxTasks
    /\ events \in {"none", "one", "many"}
    /\ ops \in 0..MaxOps

(***************************************************************************)
(* When the loop has nothing left to do, what a TS6 client streams is what *)
(* it broadcasts to everybody else, and a client that is gone shows        *)
(* nothing: the registry and active_broadcasts agree however moves, kicks  *)
(* and deliveries fell between the two locks of a handler.  The excuses    *)
(* are a type changed by updatestream, a stream stopped by somebody else,  *)
(* a move since the last setupstream or stopstream, and leaving otherwise  *)
(* than by clientdisconnect.                                               *)
(***************************************************************************)
StreamsMatchBroadcasts ==
    loop = Idle =>
        \A c \in Ts6 : excuse[c] = {} =>
            /\ {k \in active : k[1] = c} = {<<c, streams[id].bt>> : id \in StreamsOf(c) \ BridgeIds}
            /\ c \notin online => StreamsOf(c) = {}

(***************************************************************************)
(* When no event waits, every broadcast is listed for the TS6 clients and  *)
(* every synthetic stream is backed by a broadcast, although the copy works*)
(* from a snapshot.  The excuse is a change that sends no event.           *)
(***************************************************************************)
BroadcastsListed ==
    loop = Idle /\ events = "none" /\ ~ unheard =>
        /\ \A k \in active : \E id \in Ids : <<Owner(id), streams[id].bt>> = k
        /\ \A id \in Ids \cap BridgeIds : <<Owner(id), streams[id].bt>> \in active

(***************************************************************************)
(* A bridge lives as long as its stream: none is left behind by a stream   *)
(* that is replaced, stopped, ended with its broadcast or with its client, *)
(* nor by a viewer that disconnects.  The excuses are a task that enters   *)
(* its bridge after that, and a viewer that was kicked or timed out.       *)
(***************************************************************************)
BridgesFollowStreams ==
    /\ inbound \ late.in \subseteq Ids
    /\ \A o \in outbound \ late.out :
        o.id \in Ids /\ (o.viewer \in session \/ "kicked" \in excuse[o.viewer])

(***************************************************************************)
(* When no event waits and no bridge is being set up, every bridge to a    *)
(* viewer has the slot that feeds it, and every slot a bridge.  The        *)
(* excuses are a viewer that moved, a broadcast that stopped and resumed   *)
(* before the loop looked, and a slot entered after its bridge was closed; *)
(* and, where updatestream has changed the type of a synthetic stream, a   *)
(* bridge made for the changed type, a slot that it shared with another    *)
(* bridge and lost with it, and a slot whose bridge was replaced by one of *)
(* another type.                                                           *)
(***************************************************************************)
BridgesAreFed ==
    loop = Idle /\ events = "none" /\ ~ unheard /\ tasks = {} =>
        /\ \A o \in outbound \ late.out : o.bt = o.id[3] => Feed(o) \in fed \union cut
        /\ \A f \in fed \ late.feed : \E o \in outbound : Feed(o) = f

=============================================================================
