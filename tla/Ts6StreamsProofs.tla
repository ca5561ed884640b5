-------------------------- MODULE Ts6StreamsProofs --------------------------
(***************************************************************************)
(* Proofs about Ts6Streams, for every number of clients, streams, bridges  *)
(* being set up and commands.                                              *)
(*                                                                         *)
(* The invariant says where the four tables may differ while the loop is   *)
(* between two locks.  It has a part for each property; each part is       *)
(* settled action by action, most of them from what an action leaves alone.*)
(***************************************************************************)
EXTENDS Ts6Streams, FiniteSetTheorems, TLAPS

Excuses == {"moved", "retyped", "stopped", "kicked"}
Slots == Ts6 \X Clients \X Bts
Outbound == [id : BridgeIds, viewer : Ts6, bt : Bts]

Joins == [at : {"join"}, clid : Ts6, id : StreamIds, remove : BOOLEAN]
Loops ==
    {Idle} \union Joins
    \union [at : {"runtime"}, clid : Ts6, leaves : BOOLEAN]
    \union [at : {"leave"}, clid : Ts6]
    \union [at : {"bridges"}, snap : SUBSET Keys, next : {Idle} \union Joins]

Shows == [does : {"show", "feed"}, id : BridgeIds, viewer : Ts6, bt : Bts]
Receives == [does : {"receive"}, id : RealIds]

\* A table of streams.
Registry(reg) ==
    /\ reg = [id \in DOMAIN reg |-> reg[id]]
    /\ DOMAIN reg \subseteq StreamIds
    /\ \A id \in DOMAIN reg : reg[id] \in [bt : Bts, attendees : SUBSET Ts6]

Types ==
    /\ waiting \subseteq Ts6 /\ online \subseteq Clients /\ session \subseteq Ts6
    /\ active \subseteq Keys
    /\ Registry(streams)
    /\ seq \in 1..(MaxStreams + 1)
    /\ inbound \subseteq RealIds /\ outbound \subseteq Outbound /\ fed \subseteq Slots
    /\ tasks \subseteq Shows \union Receives
    /\ events \in {"none", "one", "many"}
    /\ loop \in Loops
    /\ ops \in 0..MaxOps
    /\ excuse \in [Ts6 -> SUBSET Excuses]
    /\ unheard \in BOOLEAN

\* Never more tasks than the bound, and room for one when a request needs it.
TaskRoom ==
    /\ IsFiniteSet(tasks) /\ Cardinality(tasks) <= MaxTasks
    /\ loop.at = "join" \/ (loop.at = "bridges" /\ loop.next # Idle) => Cardinality(tasks) < MaxTasks

\* There is one bridge per stream and viewer.
OneBridge == \A o, p \in outbound : o.id = p.id /\ o.viewer = p.viewer => o = p

\* The loop is about to take c off the list of clients.
Leaving(c) ==
    \/ loop.at = "leave" /\ loop.clid = c
    \/ loop.at = "runtime" /\ loop.leaves /\ loop.clid = c

\* The loop works on the streams of c.
Handles(c) == loop.at \in {"runtime", "leave"} /\ loop.clid = c

\* A session outlives its client only after a kick, and who leaves has stopped
\* its streams.
Who ==
    /\ waiting \cap online = {} /\ waiting \cap session = {}
    /\ \A c \in Ts6 : "kicked" \in excuse[c] => c \notin online /\ c \notin waiting
    /\ \A c \in session : c \in online \/ "kicked" \in excuse[c]
    /\ \A c \in Ts6 : Handles(c) => c \in session
    /\ \A c \in Ts6 : Leaving(c) => StreamsOf(c) = {}

\* The broadcasts of c among those of a table.
Of(c, keys) == {k \in keys : k[1] = c}

\* Apart from a move the broadcasts of c are its streams.
Plain(c) == excuse[c] \subseteq {"moved"}

\* A client without excuses shows what it streams, and after a move no more than
\* that; so no synthetic stream is made for it.
Matched(c) ==
    /\ excuse[c] = {} /\ c \notin online => StreamsOf(c) = {}
    /\ Plain(c) => StreamsOf(c) \cap BridgeIds = {}
    /\ Plain(c) /\ loop.at = "bridges" => Of(c, loop.snap) \subseteq Shown(c)
    /\ Plain(c) /\ ~ Handles(c) => Of(c, active) \subseteq Shown(c)
    /\ excuse[c] = {} /\ ~ Handles(c) => Of(c, active) = Shown(c)

\* A synthetic stream has the type it was made with.
TrueTypes(reg) == \A id \in DOMAIN reg \cap BridgeIds : reg[id].bt = id[3]

\* Every broadcast of a table is listed, and every synthetic stream is backed by one.
Lists(reg, keys) ==
    /\ \A k \in keys : \E id \in DOMAIN reg : <<Owner(id), reg[id].bt>> = k
    /\ \A id \in DOMAIN reg \cap BridgeIds : <<Owner(id), reg[id].bt>> \in keys

\* Without an event to come, the loop works from a snapshot that is still true,
\* or has copied what is on air.
Listed ==
    ~ unheard =>
        /\ TrueTypes(streams)
        /\ events = "none" /\ loop.at = "bridges" => loop.snap = active
        /\ events = "none" /\ loop.at \notin {"bridges", "runtime"} => Lists(streams, active)

\* A bridge has its stream, and its viewer is there or was kicked.
Follows ==
    /\ inbound \ late.in \subseteq Ids
    /\ \A o \in outbound \ late.out :
        o.id \in Ids /\ (~ Cleaned(o.viewer) \/ "kicked" \in excuse[o.viewer])

\* A slot has its bridge; the bridge of a broadcast on air has its slot, or it was
\* cut off, or the task that enters the slot is under way.
Fed ==
    /\ \A f \in fed \ late.feed : \E o \in outbound : Feed(o) = f
    /\ \A o \in outbound : <<Owner(o.id), o.bt>> \in active =>
        \/ Feed(o) \in fed \union cut
        \/ \E t \in tasks : t.does = "feed" /\ Feed(t) = Feed(o)

\* What is inductive.
IInv ==
    /\ Types /\ TaskRoom /\ OneBridge /\ Who
    /\ \A c \in Ts6 : Matched(c)
    /\ Listed /\ Follows /\ Fed

-----------------------------------------------------------------------------
(* Types.                                                                  *)

\* Where the loop stands tells what it carries.
LEMMA LoopParts ==
    ASSUME Types
    PROVE  /\ loop.at = "runtime" => loop.clid \in Ts6 /\ loop.leaves \in BOOLEAN
           /\ loop.at = "leave" => loop.clid \in Ts6
           /\ loop.at = "join" => loop \in Joins
           /\ loop.at = "bridges" => loop.snap \subseteq Keys /\ loop.next \in {Idle} \union Joins
           /\ Idle.at = "idle"
BY DEF Types, Loops, Joins, Idle

\* The parts of an id.
LEMMA IdParts ==
    /\ \A id \in RealIds : id[1] = "ts6" /\ Owner(id) \in Ts6 /\ ~ IsBridge(id) /\ id \notin BridgeIds
    /\ \A id \in BridgeIds : id[1] = "bridge" /\ Owner(id) \in Clients /\ id[3] \in Bts /\ IsBridge(id)
    /\ \A id \in StreamIds : Owner(id) \in Clients /\ (IsBridge(id) <=> id \in BridgeIds)
BY DEF RealIds, BridgeIds, StreamIds, Owner, IsBridge, Clients

\* The feed of a bridge is a slot.
LEMMA FeedIsSlot == \A o \in Outbound : Feed(o) \in Slots
BY IdParts DEF Outbound, Slots, Feed

\* The two loops of the copy make a table of a table.
LEMMA BridgesMadeTyped ==
    ASSUME NEW reg, Registry(reg), NEW snap \in SUBSET Keys, NEW bt \in Bts
    PROVE  Registry(WithBridges(reg, snap, bt))
<1> DEFINE new == {<<"bridge", k[1], bt>> : k \in {j \in snap : j[2] = bt
                     /\ ~ \E id \in DOMAIN reg : Owner(id) = j[1] /\ reg[id].bt = bt}}
<1>1. WithBridges(reg, snap, bt) = [id \in DOMAIN reg \union new |->
            IF id \in new THEN [bt |-> bt, attendees |-> {}] ELSE reg[id]]
  BY DEF WithBridges
<1>2. new \subseteq StreamIds
  BY DEF Keys, BridgeIds, StreamIds
<1> HIDE DEF new
<1> QED
  BY <1>1, <1>2 DEF Registry

\* A table without some of its streams is a table.
LEMMA RestrictedTyped ==
    ASSUME NEW reg, Registry(reg), NEW S \in SUBSET (DOMAIN reg)
    PROVE  Registry(Restrict(reg, S)) /\ DOMAIN Restrict(reg, S) = S
           /\ \A id \in S : Restrict(reg, S)[id] = reg[id]
BY DEF Registry, Restrict

\* How the tables of the bridges keep their types.
LEMMA BridgesTyped ==
    ASSUME Types, OneBridge, NEW in, NEW out, NEW slots, NEW nl, NEW nc,
           BridgesBecome(in, out, slots, nl, nc),
           in \subseteq RealIds, out \subseteq outbound, slots \subseteq Slots
    PROVE  inbound' \subseteq RealIds /\ outbound' \subseteq Outbound /\ fed' \subseteq Slots /\ OneBridge'
BY DEF Types, OneBridge, BridgesBecome

LEMMA CloseStreamsTyped ==
    ASSUME Types, OneBridge, NEW ids, CloseStreams(ids)
    PROVE  inbound' \subseteq RealIds /\ outbound' \subseteq Outbound /\ fed' \subseteq Slots /\ OneBridge'
BY BridgesTyped DEF CloseStreams, Types

LEMMA CloseViewerTyped ==
    ASSUME Types, OneBridge, NEW id, NEW v, CloseViewer(id, v)
    PROVE  inbound' \subseteq RealIds /\ outbound' \subseteq Outbound /\ fed' \subseteq Slots /\ OneBridge'
BY BridgesTyped DEF CloseViewer, Types

LEMMA ClearMediaTyped ==
    ASSUME Types, OneBridge, NEW c, ClearMedia(c)
    PROVE  /\ inbound' \subseteq RealIds /\ outbound' \subseteq Outbound /\ fed' \subseteq Slots /\ OneBridge'
           /\ active' \subseteq Keys /\ events' \in {"none", "one", "many"}
<1>1. inbound' \subseteq RealIds /\ outbound' \subseteq Outbound /\ fed' \subseteq Slots /\ OneBridge'
  BY BridgesTyped DEF ClearMedia, Types
<1>2. active' \subseteq Keys /\ events' \in {"none", "one", "many"}
  BY DEF ClearMedia, Types, Announce
<1> QED
  BY <1>1, <1>2

\* What a client shows is a set of keys.
LEMMA ShownKeys ==
    ASSUME Types, NEW c \in Ts6
    PROVE  Shown(c) \subseteq Keys /\ \A k \in Shown(c) : k[1] = c
BY DEF Types, Registry, Shown, StreamsOf, Ids, Keys, Clients

\* The initial state is one the invariant allows.
LEMMA InitSound == Init => IInv
<1> SUFFICES ASSUME Init PROVE IInv
  OBVIOUS
<1>1. waiting \subseteq Ts6 /\ session \subseteq Ts6 /\ waiting \cap session = {}
  BY ClientsAssumption DEF Init
<1>2. Types
  <2>1. Registry(streams)
    BY DEF Init, Registry
  <2>3. excuse \in [Ts6 -> SUBSET Excuses]
    BY DEF Init
  <2>4. loop \in Loops
    BY DEF Init, Loops
  <2>5. online \subseteq Clients /\ seq \in 1..(MaxStreams + 1) /\ ops \in 0..MaxOps
    BY StreamBounds DEF Init
  <2>6. active \subseteq Keys /\ inbound \subseteq RealIds /\ outbound \subseteq Outbound
        /\ fed \subseteq Slots /\ tasks \subseteq Shows \union Receives
    BY DEF Init
  <2>7. events \in {"none", "one", "many"} /\ unheard \in BOOLEAN
    BY DEF Init
  <2> QED
    BY <1>1, <2>1, <2>3, <2>4, <2>5, <2>6, <2>7 DEF Types
<1>3. Idle.at = "idle" /\ Ids = {}
  BY DEF Idle, Init, Ids
<1>4. \A c : StreamsOf(c) = {} /\ Shown(c) = {}
  BY <1>3 DEF StreamsOf, Shown
<1>5. \A c \in Ts6 : ~ Leaving(c) /\ ~ Handles(c) /\ excuse[c] = {}
  BY <1>3 DEF Init, Leaving, Handles
<1>6. Who
  BY <1>1, <1>4, <1>5, ClientsAssumption DEF Init, Who, Clients
<1>7. \A c \in Ts6 : Matched(c)
  BY <1>3, <1>4, <1>5 DEF Init, Matched, Of, Plain
<1>8. Listed
  BY <1>3 DEF Init, Listed, Lists, TrueTypes, Ids
<1>10. TaskRoom
  BY <1>3, FS_EmptySet, StreamBounds DEF Init, TaskRoom
<1>9. OneBridge /\ Follows /\ Fed
  BY DEF Init, OneBridge, Follows, Fed
<1> QED
  BY <1>2, <1>6, <1>7, <1>8, <1>9, <1>10 DEF IInv

(***************************************************************************)
(* The types of all variables, by the actions.  Other actions than those   *)
(* of the tasks touch no bridge but by the four operators above.           *)
(***************************************************************************)
BridgeTypes ==
    inbound \subseteq RealIds /\ outbound \subseteq Outbound /\ fed \subseteq Slots /\ OneBridge

LEMMA BridgesUnchanged ==
    ASSUME Types, OneBridge, UNCHANGED bridges
    PROVE  BridgeTypes'
BY DEF Types, OneBridge, bridges, BridgeTypes

\* A command counts.
LEMMA CommandCounts ==
    ASSUME Types, ops < MaxOps, ops' = ops + 1
    PROVE  ops' \in 0..MaxOps
BY StreamBounds DEF Types

\* The copies.
LEMMA CopiesTyped ==
    ASSUME Types, OneBridge, SyncRuntime \/ SyncBridges \/ Deliver
    PROVE  Types' /\ OneBridge'
<1>1. CASE SyncRuntime
  <2>1. loop.clid \in Ts6
    BY <1>1, LoopParts DEF SyncRuntime
  <2>2. active' \subseteq Keys
    BY <1>1, <2>1, ShownKeys DEF SyncRuntime, Types
  <2>3. BridgeTypes'
    BY <1>1, BridgesTyped DEF SyncRuntime, Types, BridgeTypes
  <2>4. events' \in {"none", "one", "many"}
    BY <1>1 DEF SyncRuntime, Announce
  <2>5. loop' \in Loops
    BY <1>1, <2>1 DEF SyncRuntime, Loops
  <2>6. excuse' \in [Ts6 -> SUBSET Excuses]
    BY <1>1, <2>1 DEF SyncRuntime, Types, Realigned
  <2> QED
    BY <1>1, <2>2, <2>3, <2>4, <2>5, <2>6 DEF SyncRuntime, Types, BridgeTypes, who
<1>2. CASE SyncBridges
  <2>1. loop.snap \in SUBSET Keys /\ loop.next \in {Idle} \union Joins
    BY <1>2, LoopParts DEF SyncBridges
  <2>2. Registry(streams')
    <3>1. Registry(Restrict(streams, Ids \ StaleBridges(loop.snap)))
      BY RestrictedTyped DEF Types, Ids
    <3>2. Registry(WithBridges(Restrict(streams, Ids \ StaleBridges(loop.snap)), loop.snap, 0))
      BY <3>1, <2>1, BridgesMadeTyped DEF Bts
    <3> QED
      BY <1>2, <3>2, <2>1, BridgesMadeTyped DEF SyncBridges, Bts
  <2>3. BridgeTypes'
    BY <1>2, CloseStreamsTyped DEF SyncBridges, BridgeTypes
  <2>4. loop' \in Loops
    BY <1>2, <2>1 DEF SyncBridges, Loops
  <2> QED
    BY <1>2, <2>2, <2>3, <2>4 DEF SyncBridges, Types, BridgeTypes, who
<1>3. CASE Deliver
  <2>1. BridgeTypes'
    BY <1>3, BridgesUnchanged DEF Deliver
  <2>2. loop' \in Loops /\ unheard' \in BOOLEAN
    BY <1>3 DEF Deliver, StartSyncBridges, Types, Loops
  <2>3. events' \in {"none", "one", "many"}
    BY <1>3 DEF Deliver
  <2> QED
    BY <1>3, <2>1, <2>2, <2>3 DEF Deliver, Types, BridgeTypes, who
<1> QED
  BY <1>1, <1>2, <1>3

\* The commands that change the registry.
LEMMA RegistryTyped ==
    ASSUME Types, OneBridge, NEW c \in Ts6,
           \/ \E bt \in Bts : SetupStream(c, bt)
           \/ \E id \in Ids, bt \in Bts : UpdateStream(c, id, bt)
           \/ \E ids \in SUBSET Ids : StopStream(c, ids)
           \/ \E id \in Ids, v \in Ts6 \ {c} : RespondToClient(c, id, v)
           \/ \E id \in Ids, v \in Ts6 : RemoveClientFromStream(c, id, v)
           \/ Disconnect(c)
    PROVE  Types' /\ OneBridge'
<1>1. ASSUME NEW bt \in Bts, SetupStream(c, bt) PROVE Types' /\ OneBridge'
  <2>1. Registry(streams')
    <3>1. seq \in 1..MaxStreams /\ <<"ts6", c, seq>> \in StreamIds
      BY <1>1, StreamBounds DEF SetupStream, Types, StreamIds, RealIds
    <3> QED
      BY <1>1, <3>1 DEF SetupStream, Types, Registry, Ids
  <2>2. BridgeTypes'
    BY <1>1, CloseStreamsTyped DEF SetupStream, BridgeTypes
  <2>3. loop' \in Loops
    BY <1>1 DEF SetupStream, Loops
  <2>4. seq' \in 1..(MaxStreams + 1)
    BY <1>1, StreamBounds DEF SetupStream, Types
  <2>5. ops' \in 0..MaxOps
    BY <1>1, CommandCounts DEF SetupStream, Command
  <2> QED
    BY <1>1, <2>1, <2>2, <2>3, <2>4, <2>5 DEF SetupStream, Types, BridgeTypes, who
<1>2. ASSUME NEW id \in Ids, NEW bt \in Bts, UpdateStream(c, id, bt) PROVE Types' /\ OneBridge'
  <2>1. Registry(streams')
    BY <1>2 DEF UpdateStream, Types, Registry, Ids
  <2>2. BridgeTypes'
    BY <1>2, BridgesUnchanged DEF UpdateStream
  <2>3. excuse' \in [Ts6 -> SUBSET Excuses]
    BY <1>2 DEF UpdateStream, Types, Excuses
  <2>4. ops' \in 0..MaxOps
    BY <1>2, CommandCounts DEF UpdateStream, Command
  <2> QED
    BY <1>2, <2>1, <2>2, <2>3, <2>4 DEF UpdateStream, Types, BridgeTypes, who
<1>3. ASSUME NEW ids \in SUBSET Ids, StopStream(c, ids) PROVE Types' /\ OneBridge'
  <2>1. Registry(streams')
    BY <1>3, RestrictedTyped DEF StopStream, Types, Ids
  <2>2. BridgeTypes'
    BY <1>3, CloseStreamsTyped DEF StopStream, BridgeTypes
  <2>3. loop' \in Loops
    BY <1>3 DEF StopStream, Loops
  <2>4. excuse' \in [Ts6 -> SUBSET Excuses]
    BY <1>3 DEF StopStream, Types, Excuses
  <2>5. ops' \in 0..MaxOps
    BY <1>3, CommandCounts DEF StopStream, Command
  <2> QED
    BY <1>3, <2>1, <2>2, <2>3, <2>4, <2>5 DEF StopStream, Types, BridgeTypes, who
<1>4. ASSUME NEW id \in Ids, NEW v \in Ts6, RespondToClient(c, id, v) PROVE Types' /\ OneBridge'
  <2>1. Registry(streams')
    BY <1>4 DEF RespondToClient, Types, Registry, Ids
  <2>2. BridgeTypes'
    BY <1>4, BridgesUnchanged DEF RespondToClient
  <2>3. ops' \in 0..MaxOps
    BY <1>4, CommandCounts DEF RespondToClient, Command
  <2> QED
    BY <1>4, <2>1, <2>2, <2>3 DEF RespondToClient, Types, BridgeTypes, who
<1>5. ASSUME NEW id \in Ids, NEW v \in Ts6, RemoveClientFromStream(c, id, v) PROVE Types' /\ OneBridge'
  <2>1. Registry(streams')
    BY <1>5 DEF RemoveClientFromStream, Types, Registry, Ids
  <2>2. BridgeTypes'
    BY <1>5, CloseViewerTyped DEF RemoveClientFromStream, BridgeTypes
  <2>3. ops' \in 0..MaxOps
    BY <1>5, CommandCounts DEF RemoveClientFromStream, Command
  <2> QED
    BY <1>5, <2>1, <2>2, <2>3 DEF RemoveClientFromStream, Types, BridgeTypes, who
<1>6. ASSUME Disconnect(c) PROVE Types' /\ OneBridge'
  <2>1. Registry(streams')
    BY <1>6 DEF Disconnect, Types, Registry, Ids
  <2>2. BridgeTypes'
    BY <1>6, BridgesTyped DEF Disconnect, CloseClient, Types, BridgeTypes
  <2>3. loop' \in Loops
    BY <1>6 DEF Disconnect, Loops
  <2>4. ops' \in 0..MaxOps
    BY <1>6, CommandCounts DEF Disconnect, Command
  <2> QED
    BY <1>6, <2>1, <2>2, <2>3, <2>4 DEF Disconnect, Types, BridgeTypes, who
<1> QED
  BY <1>1, <1>2, <1>3, <1>4, <1>5, <1>6

\* The commands that leave the registry alone, and the ends of two others.
LEMMA OtherCommandsTyped ==
    ASSUME Types, OneBridge, NEW c \in Ts6,
           \/ Connect(c) \/ RequestStreamInfo(c) \/ EndSession(c)
           \/ \E id \in Ids, remove \in BOOLEAN : JoinStreamRequest(c, id, remove)
           \/ \E id \in RealIds : RespondToServer(c, id)
    PROVE  Types' /\ OneBridge'
<1>1. ASSUME Connect(c) PROVE Types' /\ OneBridge'
  <2>1. BridgeTypes'
    BY <1>1, BridgesUnchanged DEF Connect
  <2>2. loop' \in Loops /\ unheard' \in BOOLEAN
    BY <1>1 DEF Connect, StartSyncBridges, Types, Loops
  <2>3. waiting' \subseteq Ts6 /\ online' \subseteq Clients /\ session' \subseteq Ts6
    BY <1>1 DEF Connect, Types, Clients
  <2> QED
    BY <1>1, <2>1, <2>2, <2>3 DEF Connect, Types, BridgeTypes
<1>2. ASSUME RequestStreamInfo(c) PROVE Types' /\ OneBridge'
  <2>1. BridgeTypes'
    BY <1>2, BridgesUnchanged DEF RequestStreamInfo
  <2>2. loop' \in Loops /\ unheard' \in BOOLEAN
    BY <1>2 DEF RequestStreamInfo, StartSyncBridges, Types, Loops
  <2>3. ops' \in 0..MaxOps
    BY <1>2, CommandCounts DEF RequestStreamInfo, Command
  <2> QED
    BY <1>2, <2>1, <2>2, <2>3 DEF RequestStreamInfo, Types, BridgeTypes, who
<1>3. ASSUME EndSession(c) PROVE Types' /\ OneBridge'
  <2>1. BridgeTypes'
    BY <1>3, BridgesUnchanged DEF EndSession
  <2> QED
    BY <1>3, <2>1 DEF EndSession, Types, BridgeTypes
<1>4. ASSUME NEW id \in Ids, NEW remove \in BOOLEAN, JoinStreamRequest(c, id, remove)
      PROVE  Types' /\ OneBridge'
  <2>1. BridgeTypes'
    BY <1>4, BridgesUnchanged DEF JoinStreamRequest
  <2>2. id \in StreamIds
    BY DEF Types, Registry, Ids
  <2>3. loop' \in Loops /\ unheard' \in BOOLEAN
    BY <1>4, <2>2 DEF JoinStreamRequest, StartSyncBridges, Types, Loops, Joins
  <2>4. ops' \in 0..MaxOps
    BY <1>4, CommandCounts DEF JoinStreamRequest, Command
  <2> QED
    BY <1>4, <2>1, <2>3, <2>4 DEF JoinStreamRequest, Types, BridgeTypes, who
<1>5. ASSUME NEW id \in RealIds, RespondToServer(c, id) PROVE Types' /\ OneBridge'
  <2>1. BridgeTypes'
    BY <1>5, BridgesUnchanged DEF RespondToServer
  <2>2. tasks' \subseteq Shows \union Receives
    BY <1>5 DEF RespondToServer, Types, Receives
  <2>3. ops' \in 0..MaxOps
    BY <1>5, CommandCounts DEF RespondToServer, Command
  <2> QED
    BY <1>5, <2>1, <2>2, <2>3 DEF RespondToServer, Types, BridgeTypes, who
<1> QED
  BY <1>1, <1>2, <1>3, <1>4, <1>5

LEMMA EndsTyped ==
    ASSUME Types, OneBridge, JoinStream \/ Leave
    PROVE  Types' /\ OneBridge'
<1>1. CASE JoinStream
  <2>1. loop \in Joins /\ loop.clid \in Ts6 /\ loop.id \in StreamIds /\ loop.at = "join"
    BY <1>1, LoopParts DEF JoinStream, Joins
  <2>2. Registry(streams')
    <3>1. CASE loop.id \notin Ids
      BY <1>1, <3>1 DEF JoinStream, Types
    <3>2. CASE loop.id \in Ids
      <4>1. streams' = [streams EXCEPT ![loop.id].attendees =
                  IF loop.remove THEN @ \ {loop.clid}
                  ELSE IF IsBridge(loop.id) THEN @ \union {loop.clid} ELSE @]
        BY <1>1, <3>2 DEF JoinStream
      <4> QED
        BY <2>1, <3>2, <4>1 DEF Types, Registry, Ids
    <3> QED
      BY <3>1, <3>2
  <2>3. BridgeTypes'
    <3>1. CASE loop.remove
      BY <1>1, <3>1, CloseViewerTyped DEF JoinStream, BridgeTypes
    <3>2. CASE ~ loop.remove
      BY <1>1, <3>2, BridgesUnchanged DEF JoinStream
    <3> QED
      BY <3>1, <3>2
  <2>4. tasks' \subseteq Shows \union Receives
    <3>1. CASE ~ loop.remove /\ loop.id \in Ids /\ IsBridge(loop.id)
      <4>1. loop.id \in BridgeIds /\ streams[loop.id].bt \in Bts
        BY <2>1, <3>1, IdParts DEF Types, Registry, Ids
      <4>2. [does |-> "show", id |-> loop.id, viewer |-> loop.clid, bt |-> streams[loop.id].bt] \in Shows
        BY <2>1, <4>1 DEF Shows
      <4>3. tasks' = tasks \union {[does |-> "show", id |-> loop.id, viewer |-> loop.clid,
                                    bt |-> streams[loop.id].bt]}
        BY <1>1, <3>1 DEF JoinStream
      <4> QED
        BY <4>2, <4>3 DEF Types
    <3>2. CASE ~ (~ loop.remove /\ loop.id \in Ids /\ IsBridge(loop.id))
      BY <1>1, <3>2 DEF JoinStream, Types
    <3> QED
      BY <3>1, <3>2
  <2>5. loop' \in Loops
    BY <1>1 DEF JoinStream, Loops
  <2> QED
    BY <1>1, <2>2, <2>3, <2>4, <2>5 DEF JoinStream, Types, BridgeTypes, who
<1>2. CASE Leave
  <2>1. loop.clid \in Ts6
    BY <1>2, LoopParts DEF Leave
  <2>2. BridgeTypes' /\ active' \subseteq Keys /\ events' \in {"none", "one", "many"}
    <3>1. CASE loop.clid \in online
      BY <1>2, <3>1, ClearMediaTyped DEF Leave, BridgeTypes
    <3>2. CASE loop.clid \notin online
      BY <1>2, <3>2, BridgesUnchanged DEF Leave, Types
    <3> QED
      BY <3>1, <3>2
  <2>3. loop' \in Loops
    BY <1>2 DEF Leave, Loops
  <2>4. excuse' \in [Ts6 -> SUBSET Excuses]
    BY <1>2, <2>1 DEF Leave, Types
  <2>5. online' \subseteq Clients /\ session' \subseteq Ts6
    BY <1>2 DEF Leave, Types
  <2> QED
    BY <1>2, <2>2, <2>3, <2>4, <2>5 DEF Leave, Types, BridgeTypes
<1> QED
  BY <1>1, <1>2

\* What the tasks do.
LEMMA TasksTyped ==
    ASSUME Types, OneBridge, NEW t \in tasks,
           ShowRegistered(t) \/ ShowFed(t) \/ ReceiveRegistered(t) \/ TaskFails(t)
    PROVE  Types' /\ OneBridge'
<1>1. CASE ShowRegistered(t)
  <2> DEFINE o == [id |-> t.id, viewer |-> t.viewer, bt |-> t.bt]
  <2>1. t \in Shows
    BY <1>1 DEF ShowRegistered, Types, Receives
  <2>2. o \in Outbound /\ [t EXCEPT !.does = "feed"] \in Shows
    BY <2>1 DEF Shows, Outbound
  <2>3. inbound' = inbound /\ fed' = fed /\ outbound' = OutboundWith(o)
    BY <1>1 DEF ShowRegistered, BridgesBecome
  <2>4. tasks' = (tasks \ {t}) \union {[t EXCEPT !.does = "feed"]}
    BY <1>1 DEF ShowRegistered
  <2> HIDE DEF o
  <2>5. outbound' \subseteq Outbound /\ OneBridge'
    BY <2>2, <2>3 DEF OutboundWith, OneBridge, Types
  <2>6. tasks' \subseteq Shows \union Receives
    BY <2>2, <2>4 DEF Types
  <2> QED
    BY <1>1, <2>3, <2>5, <2>6 DEF ShowRegistered, Types, who
<1>2. CASE ShowFed(t)
  <2>1. t \in Shows
    BY <1>2 DEF ShowFed, Types, Receives
  <2>2. Feed(t) \in Slots
    BY <2>1, IdParts DEF Shows, Slots, Feed
  <2>3. BridgeTypes'
    BY <1>2, <2>2, BridgesTyped DEF ShowFed, Types, BridgeTypes
  <2> QED
    BY <1>2, <2>3 DEF ShowFed, Types, BridgeTypes, who
<1>3. CASE ReceiveRegistered(t)
  <2>1. t \in Receives
    BY <1>3 DEF ReceiveRegistered, Types, Shows
  <2>2. BridgeTypes'
    BY <1>3, <2>1, BridgesTyped DEF ReceiveRegistered, Types, BridgeTypes, Receives
  <2> QED
    BY <1>3, <2>2 DEF ReceiveRegistered, Types, BridgeTypes, who
<1>4. CASE TaskFails(t)
  <2>1. BridgeTypes'
    BY <1>4, BridgesUnchanged DEF TaskFails
  <2> QED
    BY <1>4, <2>1 DEF TaskFails, Types, BridgeTypes, who
<1> QED
  BY <1>1, <1>2, <1>3, <1>4

\* What happens to clients elsewhere.
LEMMA ElsewhereTyped ==
    ASSUME Types, OneBridge,
           \/ \E c \in Others, off, on \in SUBSET Bts, denied \in BOOLEAN :
                BroadcastVideo(c, off, on, denied)
           \/ \E c \in Clients : Move(c) \/ Kick(c)
    PROVE  Types' /\ OneBridge'
<1>1. ASSUME NEW c \in Others, NEW off \in SUBSET Bts, NEW on \in SUBSET Bts, NEW denied \in BOOLEAN,
             BroadcastVideo(c, off, on, denied)
      PROVE  Types' /\ OneBridge'
  <2>1. BridgeTypes'
    <3>1. inbound' = inbound /\ outbound' = outbound /\ fed' \subseteq fed
      BY <1>1 DEF BroadcastVideo, BridgesBecome
    <3> QED
      BY <3>1 DEF Types, OneBridge, BridgeTypes
  <2>2. active' \subseteq Keys
    BY <1>1 DEF BroadcastVideo, Types, Keys, Clients
  <2>3. events' \in {"none", "one", "many"} /\ unheard' \in BOOLEAN
    BY <1>1 DEF BroadcastVideo, Types, Announce
  <2>4. ops' \in 0..MaxOps
    BY <1>1, CommandCounts DEF BroadcastVideo
  <2> QED
    BY <1>1, <2>1, <2>2, <2>3, <2>4 DEF BroadcastVideo, Types, BridgeTypes, who
<1>2. ASSUME NEW c \in Clients, Move(c) PROVE Types' /\ OneBridge'
  <2>1. BridgeTypes' /\ active' \subseteq Keys /\ events' \in {"none", "one", "many"}
    BY <1>2, ClearMediaTyped DEF Move, BridgeTypes
  <2>2. excuse' \in [Ts6 -> SUBSET Excuses]
    BY <1>2 DEF Move, Types, Excuses
  <2>3. ops' \in 0..MaxOps
    BY <1>2, CommandCounts DEF Move
  <2> QED
    BY <1>2, <2>1, <2>2, <2>3 DEF Move, Types, BridgeTypes, who
<1>3. ASSUME NEW c \in Clients, Kick(c) PROVE Types' /\ OneBridge'
  <2>1. BridgeTypes' /\ active' \subseteq Keys /\ events' \in {"none", "one", "many"}
    BY <1>3, ClearMediaTyped DEF Kick, BridgeTypes
  <2>2. excuse' \in [Ts6 -> SUBSET Excuses]
    BY <1>3 DEF Kick, Types, Excuses
  <2>3. ops' \in 0..MaxOps /\ online' \subseteq Clients
    BY <1>3, CommandCounts DEF Kick, Types
  <2> QED
    BY <1>3, <2>1, <2>2, <2>3 DEF Kick, Types, BridgeTypes
<1> QED
  BY <1>1, <1>2, <1>3

\* What a task does next, it does instead.
LEMMA TaskReplaced ==
    ASSUME TaskRoom, NEW t \in tasks, NEW u, NEW S \in {tasks \ {t}, (tasks \ {t}) \union {u}}
    PROVE  /\ IsFiniteSet(S) /\ Cardinality(S) \in Nat
           /\ Cardinality(tasks) \in Nat /\ Cardinality(S) <= Cardinality(tasks)
<1>1. IsFiniteSet(tasks) /\ Cardinality(tasks) \in Nat
  BY FS_CardinalityType DEF TaskRoom
<1>2. /\ IsFiniteSet(tasks \ {t}) /\ Cardinality(tasks \ {t}) \in Nat
      /\ Cardinality(tasks \ {t}) = Cardinality(tasks) - 1
  BY <1>1, FS_RemoveElement, FS_CardinalityType
<1>3. /\ IsFiniteSet((tasks \ {t}) \union {u})
      /\ \/ Cardinality((tasks \ {t}) \union {u}) = Cardinality(tasks \ {t})
         \/ Cardinality((tasks \ {t}) \union {u}) = Cardinality(tasks \ {t}) + 1
  BY <1>2, FS_AddElement
<1>4. CASE S = tasks \ {t}
  BY <1>4, <1>1, <1>2
<1>5. CASE S = (tasks \ {t}) \union {u}
  BY <1>5, <1>1, <1>2, <1>3
<1> QED
  BY <1>4, <1>5

\* A task is added while there is room.
LEMMA TaskAdded ==
    ASSUME TaskRoom, NEW u, Cardinality(tasks) < MaxTasks
    PROVE  IsFiniteSet(tasks \union {u}) /\ Cardinality(tasks \union {u}) <= MaxTasks
<1>1. IsFiniteSet(tasks) /\ Cardinality(tasks) \in Nat
  BY FS_CardinalityType DEF TaskRoom
<1>2. /\ IsFiniteSet(tasks \union {u})
      /\ \/ Cardinality(tasks \union {u}) = Cardinality(tasks)
         \/ Cardinality(tasks \union {u}) = Cardinality(tasks) + 1
  BY <1>1, FS_AddElement
<1> QED
  BY <1>1, <1>2, StreamBounds

\* There is room for the task of a request that waits for its copy.
LEMMA RoomKept ==
    ASSUME Types, TaskRoom, Next
    PROVE  TaskRoom'
<1> DEFINE Needs(l) == l.at = "join" \/ (l.at = "bridges" /\ l.next # Idle)
<1>0. ~ Needs(Idle) /\ \A s : ~ Needs([at |-> "bridges", snap |-> s, next |-> Idle])
  BY DEF Idle
<1>11. \A c, b : ~ Needs([at |-> "runtime", clid |-> c, leaves |-> b]) /\ ~ Needs([at |-> "leave", clid |-> c])
  OBVIOUS
<1>1. ASSUME NEW t \in tasks,
             ShowRegistered(t) \/ ShowFed(t) \/ ReceiveRegistered(t) \/ TaskFails(t)
      PROVE  TaskRoom'
  <2>1. loop' = loop
    BY <1>1 DEF ShowRegistered, ShowFed, ReceiveRegistered, TaskFails
  <2>2. PICK u : tasks' \in {tasks \ {t}, (tasks \ {t}) \union {u}}
    BY <1>1 DEF ShowRegistered, ShowFed, ReceiveRegistered, TaskFails
  <2>3. IsFiniteSet(tasks') /\ Cardinality(tasks') \in Nat /\ Cardinality(tasks') <= Cardinality(tasks)
        /\ Cardinality(tasks) \in Nat
    BY <2>2, TaskReplaced
  <2> QED
    BY <2>1, <2>3, StreamBounds DEF TaskRoom
<1>2. ASSUME IsFiniteSet(tasks'), Cardinality(tasks') <= MaxTasks, Needs(loop') => Cardinality(tasks') < MaxTasks
      PROVE  TaskRoom'
  BY <1>2 DEF TaskRoom
<1>3. ASSUME tasks' = tasks, loop' = loop \/ ~ Needs(loop') \/ (loop.at = "bridges" /\ loop' = loop.next)
      PROVE  TaskRoom'
  <2>1. CASE loop' = loop \/ ~ Needs(loop')
    BY <2>1, <1>3 DEF TaskRoom
  <2>2. CASE loop.at = "bridges" /\ loop' = loop.next
    <3>1. loop.next = Idle \/ loop.next # Idle
      OBVIOUS
    <3> QED
      BY <3>1, <2>2, <1>0, <1>3 DEF TaskRoom
  <2> QED
    BY <2>1, <2>2, <1>3
<1>4. CASE SyncRuntime \/ SyncBridges \/ Deliver \/ Leave
  <2> HIDE DEF Needs
  <2>1. CASE SyncRuntime
    BY <2>1, <1>3, <1>0, <1>11 DEF SyncRuntime
  <2>2. CASE SyncBridges
    BY <2>2, <1>3 DEF SyncBridges
  <2>3. CASE Deliver
    BY <2>3, <1>3, <1>0 DEF Deliver, StartSyncBridges
  <2>4. CASE Leave
    BY <2>4, <1>3, <1>0 DEF Leave
  <2> QED
    BY <1>4, <2>1, <2>2, <2>3, <2>4
<1>5. CASE JoinStream
  <2>1. loop' = Idle /\ Cardinality(tasks) < MaxTasks
    <3>1. loop.at = "join" /\ loop' = Idle
      BY <1>5 DEF JoinStream
    <3> QED
      BY <3>1 DEF TaskRoom
  <2>2. PICK u : tasks' = tasks \/ tasks' = tasks \union {u}
    <3>1. \/ tasks' = tasks
          \/ tasks' = tasks \union {[does |-> "show", id |-> loop.id, viewer |-> loop.clid,
                                     bt |-> streams[loop.id].bt]}
      BY <1>5 DEF JoinStream
    <3> QED
      BY <3>1
  <2>3. IsFiniteSet(tasks') /\ Cardinality(tasks') <= MaxTasks
    BY <2>1, <2>2, TaskAdded DEF TaskRoom
  <2> QED
    BY <2>1, <2>3, <1>0, <1>2
<1>6. ASSUME NEW c \in Ts6, NEW id \in RealIds, RespondToServer(c, id) PROVE TaskRoom'
  <2>1. Cardinality(tasks) < MaxTasks /\ tasks' = tasks \union {[does |-> "receive", id |-> id]}
        /\ loop' = Idle
    BY <1>6 DEF RespondToServer, Command
  <2>2. IsFiniteSet(tasks') /\ Cardinality(tasks') <= MaxTasks
    BY <2>1, TaskAdded
  <2> QED
    BY <2>1, <2>2, <1>0, <1>2
<1>7. ASSUME NEW c \in Ts6, NEW id, NEW remove, JoinStreamRequest(c, id, remove) PROVE TaskRoom'
  <2>1. Cardinality(tasks) < MaxTasks /\ tasks' = tasks
    BY <1>7 DEF JoinStreamRequest
  <2> QED
    BY <2>1 DEF TaskRoom
<1>8. ASSUME NEW c \in Ts6,
             \/ Connect(c) \/ RequestStreamInfo(c) \/ Disconnect(c) \/ EndSession(c)
             \/ \E bt \in Bts : SetupStream(c, bt)
             \/ \E id \in Ids, bt \in Bts : UpdateStream(c, id, bt)
             \/ \E ids : StopStream(c, ids)
             \/ \E id \in Ids, v \in Ts6 \ {c} : RespondToClient(c, id, v)
             \/ \E id \in Ids, v \in Ts6 : RemoveClientFromStream(c, id, v)
      PROVE  TaskRoom'
  <2>1. tasks' = tasks
    BY <1>8 DEF Connect, RequestStreamInfo, Disconnect, EndSession, SetupStream, UpdateStream,
                StopStream, RespondToClient, RemoveClientFromStream
  <2> HIDE DEF Needs
  <2>2. CASE Connect(c) \/ RequestStreamInfo(c)
    BY <2>1, <2>2, <1>3, <1>0 DEF Connect, RequestStreamInfo, StartSyncBridges
  <2>3. CASE Disconnect(c)
    BY <2>1, <2>3, <1>3, <1>11 DEF Disconnect
  <2>4. CASE \E bt \in Bts : SetupStream(c, bt)
    <3>1. loop' = [at |-> "runtime", clid |-> c, leaves |-> FALSE]
      BY <2>4 DEF SetupStream
    <3> QED
      BY <2>1, <3>1, <1>3, <1>11
  <2>5. CASE \E ids : StopStream(c, ids)
    <3>1. loop' = [at |-> "runtime", clid |-> c, leaves |-> FALSE]
      BY <2>5 DEF StopStream
    <3> QED
      BY <2>1, <3>1, <1>3, <1>11
  <2>6. CASE \/ EndSession(c)
             \/ \E id \in Ids, bt \in Bts : UpdateStream(c, id, bt)
             \/ \E id \in Ids, v \in Ts6 \ {c} : RespondToClient(c, id, v)
             \/ \E id \in Ids, v \in Ts6 : RemoveClientFromStream(c, id, v)
    BY <2>1, <2>6, <1>3 DEF EndSession, UpdateStream, RespondToClient, RemoveClientFromStream
  <2> QED
    BY <1>8, <2>2, <2>3, <2>4, <2>5, <2>6
<1>9. CASE \E c \in Others, off, on \in SUBSET Bts, denied \in BOOLEAN :
              BroadcastVideo(c, off, on, denied)
  BY <1>9, <1>3 DEF BroadcastVideo
<1>10. CASE \E c \in Clients : Move(c) \/ Kick(c)
  BY <1>10, <1>3 DEF Move, Kick
<1> HIDE DEF Needs
<1> QED
  BY <1>1, <1>4, <1>5, <1>6, <1>7, <1>8, <1>9, <1>10 DEF Next

\* Every step keeps the types.
LEMMA TypesKept ==
    ASSUME Types, OneBridge, Next
    PROVE  Types' /\ OneBridge'
<1>1. CASE SyncRuntime \/ SyncBridges \/ Deliver
  BY <1>1, CopiesTyped
<1>2. CASE JoinStream \/ Leave
  BY <1>2, EndsTyped
<1>3. ASSUME NEW c \in Ts6, Connect(c) \/ RequestStreamInfo(c) \/ Disconnect(c) \/ EndSession(c)
      PROVE  Types' /\ OneBridge'
  BY <1>3, OtherCommandsTyped, RegistryTyped
<1>4. ASSUME NEW c \in Ts6,
             \/ \E bt \in Bts : SetupStream(c, bt)
             \/ \E id \in Ids, bt \in Bts : UpdateStream(c, id, bt)
             \/ \E id \in Ids, v \in Ts6 \ {c} : RespondToClient(c, id, v)
             \/ \E id \in Ids, v \in Ts6 : RemoveClientFromStream(c, id, v)
      PROVE  Types' /\ OneBridge'
  BY <1>4, RegistryTyped
<1>5. ASSUME NEW c \in Ts6, StopStream(c, StreamsOf(c)) \/ \E id \in Ids : StopStream(c, {id})
      PROVE  Types' /\ OneBridge'
  <2>1. StreamsOf(c) \in SUBSET Ids /\ \A id \in Ids : {id} \in SUBSET Ids
    BY DEF StreamsOf
  <2>2. \E ids \in SUBSET Ids : StopStream(c, ids)
    BY <1>5, <2>1
  <2> QED
    BY <2>2, RegistryTyped
<1>6. ASSUME NEW c \in Ts6,
             \/ \E id \in Ids, remove \in BOOLEAN : JoinStreamRequest(c, id, remove)
             \/ \E id \in RealIds : RespondToServer(c, id)
      PROVE  Types' /\ OneBridge'
  BY <1>6, OtherCommandsTyped
<1>7. ASSUME NEW t \in tasks, ShowRegistered(t) \/ ShowFed(t) \/ ReceiveRegistered(t) \/ TaskFails(t)
      PROVE  Types' /\ OneBridge'
  BY <1>7, TasksTyped
<1>8. CASE \/ \E c \in Others, off, on \in SUBSET Bts, denied \in BOOLEAN :
                 BroadcastVideo(c, off, on, denied)
           \/ \E c \in Clients : Move(c) \/ Kick(c)
  BY <1>8, ElsewhereTyped
<1> QED
  BY <1>1, <1>2, <1>3, <1>4, <1>5, <1>6, <1>7, <1>8 DEF Next

-----------------------------------------------------------------------------
(* Sessions.                                                               *)

\* What depends on the place of the loop.
LEMMA LoopStays ==
    ASSUME loop' = loop
    PROVE  \A c : (Handles(c)' <=> Handles(c)) /\ (Leaving(c)' <=> Leaving(c))
BY DEF Handles, Leaving

LEMMA LoopRests ==
    ASSUME loop'.at \notin {"runtime", "leave"}
    PROVE  \A c : ~ Handles(c)' /\ ~ Leaving(c)'
BY DEF Handles, Leaving

LEMMA IdleRests ==
    ASSUME loop = Idle
    PROVE  loop.at = "idle" /\ \A c : ~ Handles(c) /\ ~ Leaving(c)
BY DEF Idle, Handles, Leaving

LEMMA StreamsStay ==
    ASSUME streams' = streams
    PROVE  Ids' = Ids /\ \A c : StreamsOf(c)' = StreamsOf(c) /\ Shown(c)' = Shown(c)
BY DEF Ids, StreamsOf, Shown

\* A kick is neither given nor forgiven.
SameKicks == \A c \in Ts6 : "kicked" \in excuse'[c] <=> "kicked" \in excuse[c]

LEMMA WhoAtRest ==
    ASSUME Types, Who, UNCHANGED who, SameKicks, loop'.at \notin {"runtime", "leave"}
    PROVE  Who'
BY LoopRests DEF Who, who, SameKicks, Types

LEMMA WhoMeanwhile ==
    ASSUME Types, Who, UNCHANGED who, SameKicks, loop' = loop, streams' = streams
    PROVE  Who'
BY LoopStays, StreamsStay DEF Who, who, SameKicks, Types

\* The loop turns to the broadcasts of c.
LEMMA WhoHandled ==
    ASSUME Types, Who, UNCHANGED who, SameKicks, NEW c \in Ts6, c \in session,
           \/ loop' = [at |-> "runtime", clid |-> c, leaves |-> FALSE]
           \/ /\ loop' \in {[at |-> "leave", clid |-> c], [at |-> "runtime", clid |-> c, leaves |-> TRUE]}
              /\ StreamsOf(c)' = {}
    PROVE  Who'
<1>1. \A d : Handles(d)' => d = c
  BY DEF Handles
<1>2. \A d : Leaving(d)' => d = c /\ StreamsOf(c)' = {}
  BY DEF Leaving
<1> QED
  BY <1>1, <1>2 DEF Who, who, SameKicks, Types

LEMMA WhoKept ==
    ASSUME Types, Who, Next
    PROVE  Who'
<1>0. (UNCHANGED excuse) => SameKicks
  BY DEF SameKicks
<1>1. CASE SyncRuntime
  <2>1. PICK c \in Ts6 : c = loop.clid
    BY <1>1, LoopParts DEF SyncRuntime
  <2>2. loop.at = "runtime" /\ Handles(c) /\ c \in session
    BY <1>1, <2>1 DEF SyncRuntime, Handles, Who
  <2>3. SameKicks
    BY <1>1, <2>1 DEF SyncRuntime, SameKicks, Realigned, Who, Types
  <2>4. UNCHANGED who /\ streams' = streams
    BY <1>1 DEF SyncRuntime
  <2>5. StreamsOf(c)' = StreamsOf(c)
    BY <2>4, StreamsStay
  <2>6. CASE loop.leaves
    <3>1. StreamsOf(c) = {}
      BY <2>1, <2>2, <2>6 DEF Who, Leaving
    <3>2. loop' = [at |-> "leave", clid |-> c]
      BY <1>1, <2>1, <2>6 DEF SyncRuntime
    <3> QED
      BY <2>2, <2>3, <2>4, <2>5, <3>1, <3>2, WhoHandled
  <2>7. CASE ~ loop.leaves
    <3>1. loop'.at \notin {"runtime", "leave"}
      BY <1>1, <2>7 DEF SyncRuntime, Idle
    <3> QED
      BY <2>3, <2>4, <3>1, WhoAtRest
  <2> QED
    BY <2>6, <2>7
<1>2. CASE SyncBridges
  <2>1. loop.next \in {Idle} \union Joins
    BY <1>2, LoopParts DEF SyncBridges
  <2>2. loop'.at \notin {"runtime", "leave"}
    BY <1>2, <2>1 DEF SyncBridges, Idle, Joins
  <2> QED
    BY <1>0, <1>2, <2>2, WhoAtRest DEF SyncBridges
<1>3. CASE \/ Deliver \/ JoinStream
           \/ \E c \in Ts6 : \/ RequestStreamInfo(c)
                            \/ \E id \in Ids, remove \in BOOLEAN : JoinStreamRequest(c, id, remove)
  <2>1. loop'.at \notin {"runtime", "leave"} /\ UNCHANGED <<who, excuse>>
    <3>1. CASE Deliver
      BY <3>1 DEF Deliver, StartSyncBridges
    <3>2. CASE JoinStream
      BY <3>2 DEF JoinStream, Idle
    <3>3. ASSUME NEW c \in Ts6, RequestStreamInfo(c)
          PROVE  loop'.at \notin {"runtime", "leave"} /\ UNCHANGED <<who, excuse>>
      BY <3>3 DEF RequestStreamInfo, StartSyncBridges
    <3>4. ASSUME NEW c \in Ts6, NEW id, NEW remove, JoinStreamRequest(c, id, remove)
          PROVE  loop'.at \notin {"runtime", "leave"} /\ UNCHANGED <<who, excuse>>
      BY <3>4 DEF JoinStreamRequest, StartSyncBridges
    <3> QED
      BY <1>3, <3>1, <3>2, <3>3, <3>4
  <2> QED
    BY <1>0, <2>1, WhoAtRest
<1>4. CASE Leave
  <2>1. PICK c \in Ts6 : c = loop.clid
    BY <1>4, LoopParts DEF Leave
  <2>2. /\ waiting' = waiting /\ online' = online \ {c} /\ session' = session \ {c}
        /\ excuse' = [excuse EXCEPT ![c] = IF c \in online THEN {} ELSE @]
        /\ loop'.at \notin {"runtime", "leave"}
    BY <1>4, <2>1 DEF Leave, Idle
  <2> QED
    BY <2>2, LoopRests DEF Who, Types
<1>5. ASSUME NEW c \in Ts6, Connect(c) PROVE Who'
  <2>1. loop'.at \notin {"runtime", "leave"}
    BY <1>5 DEF Connect, StartSyncBridges
  <2>2. /\ c \in waiting /\ waiting' = waiting \ {c} /\ online' = online \union {c}
        /\ session' = session \union {c} /\ excuse' = excuse
    BY <1>5 DEF Connect
  <2> QED
    BY <2>1, <2>2, LoopRests DEF Who, Types
<1>6. ASSUME NEW c \in Ts6, Disconnect(c) PROVE Who'
  <2>1. StreamsOf(c)' = {}
    BY <1>6 DEF Disconnect, StreamsOf, Ids
  <2>2. c \in session /\ UNCHANGED <<who, excuse>>
    BY <1>6 DEF Disconnect, Command
  <2>3. loop' \in {[at |-> "leave", clid |-> c], [at |-> "runtime", clid |-> c, leaves |-> TRUE]}
    BY <1>6 DEF Disconnect
  <2> QED
    BY <1>0, <2>1, <2>2, <2>3, WhoHandled
<1>7. ASSUME NEW c \in Ts6, EndSession(c) PROVE Who'
  <2>1. loop = Idle /\ loop' = loop
    BY <1>7 DEF EndSession
  <2> QED
    BY <1>7, <2>1, IdleRests, LoopStays DEF EndSession, Who, Types
<1>8. ASSUME NEW c \in Ts6, NEW bt \in Bts, SetupStream(c, bt) PROVE Who'
  <2>1. c \in session /\ UNCHANGED <<who, excuse>>
    BY <1>8 DEF SetupStream, Command
  <2>2. loop' = [at |-> "runtime", clid |-> c, leaves |-> FALSE]
    BY <1>8 DEF SetupStream
  <2> QED
    BY <1>0, <2>1, <2>2, WhoHandled
<1>9. ASSUME NEW c \in Ts6, NEW ids, StopStream(c, ids) PROVE Who'
  <2>1. c \in session /\ UNCHANGED who /\ SameKicks
    BY <1>9 DEF StopStream, Command, SameKicks, Types
  <2>2. loop' = [at |-> "runtime", clid |-> c, leaves |-> FALSE]
    BY <1>9 DEF StopStream
  <2> QED
    BY <2>1, <2>2, WhoHandled
<1>10. ASSUME NEW c \in Ts6,
             \/ \E id \in Ids, bt \in Bts : UpdateStream(c, id, bt)
             \/ \E id \in RealIds : RespondToServer(c, id)
             \/ \E id \in Ids, v \in Ts6 \ {c} : RespondToClient(c, id, v)
             \/ \E id \in Ids, v \in Ts6 : RemoveClientFromStream(c, id, v)
       PROVE Who'
  <2>1. UNCHANGED who /\ loop' = Idle
    BY <1>10 DEF UpdateStream, RespondToServer, RespondToClient, RemoveClientFromStream, Command
  <2>2. SameKicks
    BY <1>10 DEF UpdateStream, RespondToServer, RespondToClient, RemoveClientFromStream, SameKicks, Types
  <2> QED
    BY <2>1, <2>2, WhoAtRest DEF Idle
<1>11. ASSUME NEW t \in tasks, ShowRegistered(t) \/ ShowFed(t) \/ ReceiveRegistered(t) \/ TaskFails(t)
       PROVE  Who'
  <2>1. UNCHANGED <<who, excuse, loop, streams>>
    BY <1>11 DEF ShowRegistered, ShowFed, ReceiveRegistered, TaskFails
  <2> QED
    BY <1>0, <2>1, WhoMeanwhile
<1>12. CASE \E c \in Others, off, on \in SUBSET Bts, denied \in BOOLEAN : BroadcastVideo(c, off, on, denied)
  <2>1. UNCHANGED <<who, excuse, loop, streams>>
    BY <1>12 DEF BroadcastVideo
  <2> QED
    BY <1>0, <2>1, WhoMeanwhile
<1>13. ASSUME NEW c \in Clients, Move(c) PROVE Who'
  <2>1. UNCHANGED <<who, loop, streams>> /\ SameKicks
    BY <1>13 DEF Move, SameKicks, Types
  <2> QED
    BY <2>1, WhoMeanwhile
<1>14. ASSUME NEW c \in Clients, Kick(c) PROVE Who'
  <2>1. /\ c \in online /\ online' = online \ {c} /\ UNCHANGED <<waiting, session, loop, streams>>
        /\ excuse' = [d \in Ts6 |-> IF d = c THEN excuse[d] \union {"kicked"} ELSE excuse[d]]
    BY <1>14 DEF Kick
  <2> QED
    BY <2>1, LoopStays, StreamsStay DEF Who, Types
<1> QED
  BY <1>1, <1>2, <1>3, <1>4, <1>5, <1>6, <1>7, <1>8, <1>9, <1>10, <1>11, <1>12, <1>13, <1>14 DEF Next

-----------------------------------------------------------------------------
(* Streams and broadcasts of TS6 clients.                                  *)

\* A step leaves the streams of c as they are, but perhaps their attendees.
SameFor(c) ==
    /\ \A id : Owner(id) = c => (id \in Ids' <=> id \in Ids)
    /\ \A id \in Ids : Owner(id) = c => streams'[id].bt = streams[id].bt

LEMMA SameStreams ==
    ASSUME NEW c, SameFor(c)
    PROVE  StreamsOf(c)' = StreamsOf(c) /\ Shown(c)' = Shown(c)
<1>1. StreamsOf(c)' = StreamsOf(c)
  BY DEF SameFor, StreamsOf
<1>2. \A id \in StreamsOf(c) : streams'[id].bt = streams[id].bt
  BY DEF SameFor, StreamsOf
<1> QED
  BY <1>1, <1>2 DEF Shown

LEMMA SameWhenUnchanged ==
    ASSUME streams' = streams
    PROVE  \A c : SameFor(c)
BY DEF SameFor, Ids

\* What keeps a client matched: nothing of it changes, and a copy that begins
\* does not begin while the loop works on its streams.
LEMMA StaysMatched ==
    ASSUME NEW c \in Ts6, Matched(c), excuse'[c] = excuse[c], c \in online => c \in online',
           SameFor(c), Of(c, active') = Of(c, active), Handles(c) => Handles(c)',
           loop'.at = "bridges" =>
               \/ loop.at = "bridges" /\ loop'.snap = loop.snap
               \/ loop'.snap = active /\ ~ Handles(c)
    PROVE  Matched(c)'
<1>1. StreamsOf(c)' = StreamsOf(c) /\ Shown(c)' = Shown(c)
  BY SameStreams
<1>2. Plain(c)' <=> Plain(c)
  BY DEF Plain
<1>3. Of(c, active)' = Of(c, active)
  BY DEF Of
<1>4. Of(c, loop.snap)' = Of(c, loop'.snap)
  BY DEF Of
<1>5. Plain(c)' /\ loop'.at = "bridges" => Of(c, loop.snap)' \subseteq Shown(c)'
  <2>1. CASE loop.at = "bridges" /\ loop'.snap = loop.snap
    BY <2>1, <1>1, <1>2, <1>4 DEF Matched
  <2>2. CASE loop'.snap = active /\ ~ Handles(c)
    BY <2>2, <1>1, <1>2, <1>4 DEF Matched
  <2> QED
    BY <2>1, <2>2
<1> QED
  BY <1>1, <1>2, <1>3, <1>5 DEF Matched

\* With any other excuse than a move nothing is said of the streams of c.
LEMMA ExcusedMatched ==
    ASSUME NEW c \in Ts6, ~ Plain(c)'
    PROVE  Matched(c)'
BY DEF Matched, Plain

\* While the loop works on the streams of c, only their kind matters.
LEMMA HandledMatched ==
    ASSUME NEW c \in Ts6, Handles(c)', excuse'[c] = {} => c \in online' \/ StreamsOf(c)' = {},
           Plain(c)' => StreamsOf(c)' \cap BridgeIds = {}
    PROVE  Matched(c)'
BY DEF Matched, Handles

\* Without streams and broadcasts there is nothing to match.
LEMMA NothingToMatch ==
    ASSUME NEW c \in Ts6, StreamsOf(c)' = {}, Of(c, active') = {}, loop'.at # "bridges"
    PROVE  Matched(c)'
BY DEF Matched, Shown, Of

\* The copy makes no stream for a client whose broadcasts of the snapshot are all
\* shown.
LEMMA NothingMadeFor ==
    ASSUME NEW reg, NEW snap \in SUBSET Keys, NEW bt \in Bts, NEW c,
           \A k \in Of(c, snap) : \E id \in DOMAIN reg : Owner(id) = c /\ <<c, reg[id].bt>> = k
    PROVE  /\ \A id : Owner(id) = c => (id \in DOMAIN WithBridges(reg, snap, bt) <=> id \in DOMAIN reg)
           /\ \A id \in DOMAIN reg : Owner(id) = c => WithBridges(reg, snap, bt)[id] = reg[id]
<1> DEFINE new == {<<"bridge", k[1], bt>> : k \in {j \in snap : j[2] = bt
                     /\ ~ \E id \in DOMAIN reg : Owner(id) = j[1] /\ reg[id].bt = bt}}
<1>1. WithBridges(reg, snap, bt) = [id \in DOMAIN reg \union new |->
            IF id \in new THEN [bt |-> bt, attendees |-> {}] ELSE reg[id]]
  BY DEF WithBridges
<1>2. \A id \in new : Owner(id) # c
  <2> SUFFICES ASSUME NEW k \in snap, k[2] = bt, k[1] = c,
                      ~ \E id \in DOMAIN reg : Owner(id) = k[1] /\ reg[id].bt = bt
               PROVE  FALSE
    BY DEF Owner
  <2>1. k = <<c, bt>> /\ k \in Of(c, snap)
    BY DEF Keys, Of
  <2>2. PICK id \in DOMAIN reg : Owner(id) = c /\ <<c, reg[id].bt>> = <<c, bt>>
    BY <2>1
  <2> QED
    BY <2>2
<1> HIDE DEF new
<1> QED
  BY <1>1, <1>2

\* The copy to the broadcasts aligns the client it is made for.
LEMMA SyncRuntimeMatched ==
    ASSUME Types, Who, NEW c \in Ts6, Matched(c), SyncRuntime
    PROVE  Matched(c)'
<1>1. PICK d \in Ts6 : d = loop.clid
  BY LoopParts DEF SyncRuntime
<1>2. /\ loop.at = "runtime" /\ streams' = streams /\ online' = online
      /\ active' = {k \in active : k[1] # d} \union Shown(d)
      /\ loop' = IF loop.leaves THEN [at |-> "leave", clid |-> d] ELSE Idle
      /\ excuse' = [excuse EXCEPT ![d] = Realigned(d)]
  BY <1>1 DEF SyncRuntime, who
<1>3. loop'.at # "bridges"
  BY <1>2 DEF Idle
<1>4. \A k \in Shown(d) : k[1] = d
  BY ShownKeys
<1>5. SameFor(c)
  BY <1>2, SameWhenUnchanged
<1>6. CASE c # d
  <2>1. excuse'[c] = excuse[c] /\ ~ Handles(c)
    BY <1>1, <1>2, <1>6 DEF Types, Handles
  <2>2. Of(c, active') = Of(c, active)
    BY <1>2, <1>4, <1>6 DEF Of
  <2> QED
    BY <1>2, <1>3, <1>5, <2>1, <2>2, StaysMatched
<1>7. CASE c = d
  <2>1. StreamsOf(c)' = StreamsOf(c) /\ Shown(c)' = Shown(c)
    BY <1>5, SameStreams
  <2>2. Of(c, active)' = Shown(c)'
    BY <1>2, <1>4, <1>7, <2>1 DEF Of
  <2>3. excuse'[c] = Realigned(c)
    BY <1>2, <1>7 DEF Types
  <2>4. CASE c \notin online
    BY <1>2, <1>3, <2>1, <2>2, <2>3, <2>4 DEF Realigned, Matched, Plain
  <2>5. CASE c \in online /\ StreamsOf(c) = {}
    BY <1>2, <1>3, <2>1, <2>2, <2>5 DEF Matched
  <2>6. CASE c \in online /\ StreamsOf(c) # {}
    <3>1. excuse'[c] = excuse[c] \ {"moved"}
      BY <2>3, <2>6 DEF Realigned
    <3>2. Plain(c)' => Plain(c)
      BY <3>1 DEF Plain
    <3> QED
      BY <1>2, <1>3, <2>1, <2>2, <2>6, <3>2 DEF Matched
  <2> QED
    BY <2>4, <2>5, <2>6
<1> QED
  BY <1>6, <1>7

\* The copy to the registry makes no stream for a TS6 client without excuses.
LEMMA SyncBridgesMatched ==
    ASSUME Types, NEW c \in Ts6, Matched(c), SyncBridges
    PROVE  Matched(c)'
<1>1. loop.at = "bridges" /\ loop.snap \in SUBSET Keys /\ loop.next \in {Idle} \union Joins
  BY LoopParts DEF SyncBridges
<1>2. /\ loop' = loop.next /\ excuse' = excuse /\ online' = online /\ active' = active
  BY DEF SyncBridges, who
<1>3. loop'.at # "bridges" /\ ~ Handles(c)
  BY <1>1, <1>2 DEF Idle, Joins, Handles
<1>4. CASE ~ Plain(c)
  BY <1>2, <1>4, ExcusedMatched DEF Plain
<1>5. CASE Plain(c)
  <2> DEFINE kept == Ids \ StaleBridges(loop.snap)
             reg0 == Restrict(streams, kept)
             reg1 == WithBridges(reg0, loop.snap, 0)
             reg2 == WithBridges(reg1, loop.snap, 1)
  <2>1. \A id \in Ids : Owner(id) = c => id \in kept
    BY <1>5, IdParts DEF Matched, StreamsOf, StaleBridges, Types, Registry, Ids
  <2>2. kept \subseteq Ids
    OBVIOUS
  <2>3. /\ DOMAIN reg0 = kept
        /\ \A id \in kept : reg0[id] = streams[id]
    BY <2>2, RestrictedTyped DEF Types, Ids
  <2>4. streams' = reg2
    BY DEF SyncBridges
  <2> HIDE DEF kept, reg0
  <2>5. \A k \in Of(c, loop.snap) : \E id \in Ids : Owner(id) = c /\ <<c, streams[id].bt>> = k
    BY <1>1, <1>5 DEF Matched, Shown, StreamsOf
  <2>6. \A k \in Of(c, loop.snap) : \E id \in DOMAIN reg0 : Owner(id) = c /\ <<c, reg0[id].bt>> = k
    BY <2>1, <2>3, <2>5
  <2>7. /\ \A id : Owner(id) = c => (id \in DOMAIN reg1 <=> id \in DOMAIN reg0)
        /\ \A id \in DOMAIN reg0 : Owner(id) = c => reg1[id] = reg0[id]
    BY <1>1, <2>6, NothingMadeFor DEF Bts
  <2> HIDE DEF reg1
  <2>8. \A k \in Of(c, loop.snap) : \E id \in DOMAIN reg1 : Owner(id) = c /\ <<c, reg1[id].bt>> = k
    BY <2>6, <2>7
  <2>9. /\ \A id : Owner(id) = c => (id \in DOMAIN reg2 <=> id \in DOMAIN reg1)
        /\ \A id \in DOMAIN reg1 : Owner(id) = c => reg2[id] = reg1[id]
    BY <1>1, <2>8, NothingMadeFor DEF Bts
  <2> HIDE DEF reg2
  <2>10. SameFor(c)
    <3>1. Ids' = DOMAIN reg2
      BY <2>4 DEF Ids
    <3> QED
      BY <3>1, <2>1, <2>2, <2>3, <2>4, <2>7, <2>9 DEF SameFor
  <2> QED
    BY <1>2, <1>3, <2>10, StaysMatched
<1> QED
  BY <1>4, <1>5

\* A copy begins: the snapshot is what is on air.
LEMMA StartMatched ==
    ASSUME Types, NEW c \in Ts6, Matched(c), loop = Idle, NEW next, StartSyncBridges(next),
           streams' = streams, active' = active, excuse' = excuse, online \subseteq online'
    PROVE  Matched(c)'
<1>1. loop'.snap = active /\ loop'.at = "bridges"
  BY DEF StartSyncBridges
<1> QED
  BY <1>1, IdleRests, SameWhenUnchanged, StaysMatched

\* A step that ends with the loop at rest and touches no stream of c.
LEMMA IdleMatched ==
    ASSUME Types, NEW c \in Ts6, Matched(c), SameFor(c), loop.at # "bridges", ~ Handles(c),
           loop'.at # "bridges", active' = active, online' = online, excuse'[c] = excuse[c]
    PROVE  Matched(c)'
BY StaysMatched

\* The broadcasts of d end.
LEMMA ClearedMatched ==
    ASSUME Types, NEW c \in Ts6, Matched(c), NEW d, d # c, ClearMedia(d), streams' = streams,
           excuse'[c] = excuse[c], c \in online => c \in online',
           Handles(c) => Handles(c)', loop' = loop \/ loop'.at # "bridges"
    PROVE  Matched(c)'
<1>1. Of(c, active') = Of(c, active)
  BY DEF ClearMedia, Of
<1> QED
  BY <1>1, SameWhenUnchanged, StaysMatched

LEMMA MatchedKept ==
    ASSUME Types, Who, NEW c \in Ts6, Matched(c), Next
    PROVE  Matched(c)'
<1>1. CASE SyncRuntime
  BY <1>1, SyncRuntimeMatched
<1>2. CASE SyncBridges
  BY <1>2, SyncBridgesMatched
<1>3. CASE Deliver
  BY <1>3, StartMatched DEF Deliver, who
<1>4. CASE JoinStream
  <2>1. SameFor(c)
    BY <1>4 DEF JoinStream, SameFor, Types, Registry, Ids
  <2>2. loop.at = "join" /\ loop'.at # "bridges" /\ ~ Handles(c)
    BY <1>4 DEF JoinStream, Idle, Handles
  <2> QED
    BY <1>4, <2>1, <2>2, IdleMatched DEF JoinStream, who
<1>5. CASE Leave
  <2>1. PICK d \in Ts6 : d = loop.clid
    BY <1>5, LoopParts DEF Leave
  <2>2. /\ loop.at = "leave" /\ loop'.at # "bridges" /\ streams' = streams /\ Handles(d) /\ Leaving(d)
        /\ online' = online \ {d} /\ excuse' = [excuse EXCEPT ![d] = IF d \in online THEN {} ELSE @]
        /\ IF d \in online THEN ClearMedia(d) ELSE UNCHANGED <<active, bridges, events>>
    BY <1>5, <2>1 DEF Leave, Idle, Handles, Leaving
  <2>3. CASE c # d
    <3>1. excuse'[c] = excuse[c] /\ ~ Handles(c) /\ (c \in online => c \in online')
      BY <2>1, <2>2, <2>3 DEF Types, Handles
    <3>2. CASE d \in online
      BY <2>2, <2>3, <3>1, <3>2, ClearedMatched
    <3>3. CASE d \notin online
      BY <2>2, <3>1, <3>3, SameWhenUnchanged, StaysMatched
    <3> QED
      BY <3>2, <3>3
  <2>4. CASE c = d /\ d \in online
    <3>1. StreamsOf(c)' = {}
      BY <2>2, <2>4, StreamsStay DEF Who
    <3>2. Of(c, active') = {}
      BY <2>2, <2>4 DEF ClearMedia, Of
    <3> QED
      BY <2>2, <3>1, <3>2, NothingToMatch
  <2>5. CASE c = d /\ d \notin online
    <3>1. "kicked" \in excuse[c] /\ excuse'[c] = excuse[c]
      BY <2>2, <2>5 DEF Who, Types
    <3> QED
      BY <3>1, ExcusedMatched DEF Plain
  <2> QED
    BY <2>3, <2>4, <2>5
<1>6. ASSUME NEW d \in Ts6, Connect(d) PROVE Matched(c)'
  BY <1>6, StartMatched DEF Connect
<1>7. ASSUME NEW d \in Ts6, RequestStreamInfo(d) PROVE Matched(c)'
  BY <1>7, StartMatched DEF RequestStreamInfo, Command, who
<1>8. ASSUME NEW d \in Ts6, NEW id, NEW remove, JoinStreamRequest(d, id, remove) PROVE Matched(c)'
  BY <1>8, StartMatched DEF JoinStreamRequest, Command, who
<1>9. ASSUME NEW d \in Ts6, Disconnect(d) PROVE Matched(c)'
  <2>1. /\ loop = Idle /\ d \in session /\ loop'.at \in {"runtime", "leave"} /\ loop'.clid = d
        /\ active' = active /\ online' = online /\ excuse' = excuse
        /\ streams' = [id \in Ids \ StreamsOf(d) |-> [streams[id] EXCEPT !.attendees = @ \ {d}]]
    BY <1>9 DEF Disconnect, Command, who
  <2>2. CASE c # d
    <3>1. SameFor(c)
      BY <2>1, <2>2 DEF SameFor, Types, Registry, Ids, StreamsOf
    <3> QED
      BY <2>1, <3>1, IdleRests, IdleMatched
  <2>3. CASE c = d
    <3>1. Handles(c)' /\ StreamsOf(c)' = {}
      BY <2>1, <2>3 DEF Handles, StreamsOf, Ids
    <3> QED
      BY <3>1, HandledMatched
  <2> QED
    BY <2>2, <2>3
<1>10. ASSUME NEW d \in Ts6, EndSession(d) PROVE Matched(c)'
  BY <1>10, SameWhenUnchanged, IdleRests, IdleMatched DEF EndSession
<1>11. ASSUME NEW d \in Ts6, NEW bt \in Bts, SetupStream(d, bt) PROVE Matched(c)'
  <2> DEFINE old == {id \in StreamsOf(d) : streams[id].bt = bt}
             new == <<"ts6", d, seq>>
  <2>1. /\ loop = Idle /\ d \in session /\ loop' = [at |-> "runtime", clid |-> d, leaves |-> FALSE]
        /\ active' = active /\ online' = online /\ excuse' = excuse
        /\ streams' = [i \in (Ids \ old) \union {new} |->
                         IF i = new THEN [bt |-> bt, attendees |-> {}] ELSE streams[i]]
    BY <1>11 DEF SetupStream, Command, who
  <2>2. Owner(new) = d /\ new \notin BridgeIds /\ \A id \in old : Owner(id) = d
    BY DEF Owner, BridgeIds, StreamsOf
  <2> HIDE DEF old, new
  <2>3. Ids' = (Ids \ old) \union {new}
    BY <2>1 DEF Ids
  <2>4. CASE c # d
    <3>1. SameFor(c)
      BY <2>1, <2>2, <2>3, <2>4 DEF SameFor
    <3> QED
      BY <2>1, <3>1, IdleRests, IdleMatched
  <2>5. CASE c = d
    <3>1. Handles(c)'
      BY <2>1, <2>5 DEF Handles
    <3>2. excuse'[c] = {} => c \in online'
      BY <2>1, <2>5 DEF Who
    <3>3. Plain(c)' => StreamsOf(c)' \cap BridgeIds = {}
      BY <2>1, <2>2, <2>3 DEF Plain, Matched, StreamsOf
    <3> QED
      BY <3>1, <3>2, <3>3, HandledMatched
  <2> QED
    BY <2>4, <2>5
<1>12. ASSUME NEW d \in Ts6, NEW id \in Ids, NEW bt \in Bts, UpdateStream(d, id, bt) PROVE Matched(c)'
  <2>1. /\ loop = Idle /\ loop' = Idle /\ active' = active /\ online' = online
        /\ streams' = [streams EXCEPT ![id].bt = bt]
        /\ excuse' = [e \in Ts6 |-> IF e = Owner(id) THEN excuse[e] \union {"retyped"} ELSE excuse[e]]
    BY <1>12 DEF UpdateStream, Command, who
  <2>2. CASE Owner(id) = c
    <3>1. "retyped" \in excuse'[c]
      BY <2>1, <2>2
    <3> QED
      BY <3>1, ExcusedMatched DEF Plain
  <2>3. CASE Owner(id) # c
    <3>1. SameFor(c)
      BY <2>1, <2>3 DEF SameFor, Ids, Types, Registry
    <3>2. excuse'[c] = excuse[c]
      BY <2>1, <2>3
    <3> QED
      BY <2>1, <3>1, <3>2, IdleRests, IdleMatched
  <2> QED
    BY <2>2, <2>3
<1>13. ASSUME NEW d \in Ts6, NEW ids \in SUBSET Ids, StopStream(d, ids)
       PROVE  Matched(c)'
  <2>1. /\ loop = Idle /\ d \in session /\ loop' = [at |-> "runtime", clid |-> d, leaves |-> FALSE]
        /\ active' = active /\ online' = online
        /\ streams' = Restrict(streams, Ids \ ids)
        /\ excuse' = [e \in Ts6 |-> IF e # d /\ \E id \in ids : Owner(id) = e
                                    THEN excuse[e] \union {"stopped"} ELSE excuse[e]]
    BY <1>13 DEF StopStream, Command, who
  <2>2. Ids' = Ids \ ids /\ \A id \in Ids' : streams'[id] = streams[id]
    BY <2>1, RestrictedTyped DEF Types, Ids
  <2>3. CASE c # d /\ \E id \in ids : Owner(id) = c
    <3>1. "stopped" \in excuse'[c]
      BY <2>1, <2>3
    <3> QED
      BY <3>1, ExcusedMatched DEF Plain
  <2>4. CASE c # d /\ ~ \E id \in ids : Owner(id) = c
    <3>1. SameFor(c)
      BY <2>2, <2>4 DEF SameFor
    <3>2. excuse'[c] = excuse[c]
      BY <2>1, <2>4
    <3>3. loop'.at # "bridges"
      BY <2>1
    <3> QED
      BY <2>1, <3>1, <3>2, <3>3, IdleRests, IdleMatched
  <2>5. CASE c = d
    <3>1. Handles(c)' /\ excuse'[c] = excuse[c]
      BY <2>1, <2>5 DEF Handles
    <3>2. excuse'[c] = {} => c \in online'
      BY <2>1, <2>5, <3>1 DEF Who
    <3>3. Plain(c)' => StreamsOf(c)' \cap BridgeIds = {}
      BY <2>2, <3>1 DEF Plain, Matched, StreamsOf
    <3> QED
      BY <3>1, <3>2, <3>3, HandledMatched
  <2> QED
    BY <2>3, <2>4, <2>5
<1>14. ASSUME NEW d \in Ts6,
             \/ \E id \in RealIds : RespondToServer(d, id)
             \/ \E id \in Ids, v \in Ts6 \ {d} : RespondToClient(d, id, v)
             \/ \E id \in Ids, v \in Ts6 : RemoveClientFromStream(d, id, v)
       PROVE Matched(c)'
  <2>1. loop = Idle /\ loop' = loop /\ active' = active /\ UNCHANGED <<who, excuse>>
    BY <1>14 DEF RespondToServer, RespondToClient, RemoveClientFromStream, Command
  <2>2. SameFor(c)
    <3>1. CASE \E id \in RealIds : RespondToServer(d, id)
      BY <3>1, SameWhenUnchanged DEF RespondToServer
    <3>2. CASE \E id \in Ids, v \in Ts6 \ {d} : RespondToClient(d, id, v)
      BY <3>2 DEF RespondToClient, SameFor, Ids, Types, Registry
    <3>3. CASE \E id \in Ids, v \in Ts6 : RemoveClientFromStream(d, id, v)
      BY <3>3 DEF RemoveClientFromStream, SameFor, Ids, Types, Registry
    <3> QED
      BY <1>14, <3>1, <3>2, <3>3
  <2> QED
    BY <2>1, <2>2, IdleRests, IdleMatched DEF who
<1>15. ASSUME NEW t \in tasks, ShowRegistered(t) \/ ShowFed(t) \/ ReceiveRegistered(t) \/ TaskFails(t)
       PROVE  Matched(c)'
  <2>1. UNCHANGED <<who, active, excuse, loop, streams>>
    BY <1>15 DEF ShowRegistered, ShowFed, ReceiveRegistered, TaskFails
  <2> QED
    BY <2>1, LoopStays, SameWhenUnchanged, StaysMatched DEF who
<1>16. ASSUME NEW d \in Others, NEW off \in SUBSET Bts, NEW on \in SUBSET Bts, NEW denied \in BOOLEAN,
              BroadcastVideo(d, off, on, denied)
       PROVE  Matched(c)'
  <2>1. UNCHANGED <<who, excuse, loop, streams>> /\ active' = (active \ ({d} \X off)) \union ({d} \X on)
    BY <1>16 DEF BroadcastVideo
  <2>2. Of(c, active') = Of(c, active)
    BY <2>1, ClientsAssumption DEF Of
  <2> QED
    BY <2>1, <2>2, LoopStays, SameWhenUnchanged, StaysMatched DEF who
<1>17. ASSUME NEW d \in Clients, Move(d) PROVE Matched(c)'
  <2>1. /\ ClearMedia(d) /\ UNCHANGED <<who, loop, streams>>
        /\ excuse' = [e \in Ts6 |-> IF e = d /\ StreamsOf(d) # {} THEN excuse[e] \union {"moved"} ELSE excuse[e]]
    BY <1>17 DEF Move
  <2>2. CASE c # d
    BY <2>1, <2>2, LoopStays, ClearedMatched DEF who
  <2>3. CASE c = d
    <3>1. Of(c, active') = {} /\ Of(c, active)' = {}
      BY <2>1, <2>3 DEF ClearMedia, Of
    <3>2. StreamsOf(c)' = StreamsOf(c) /\ Shown(c)' = Shown(c)
      BY <2>1, StreamsStay
    <3>3. Plain(c)' => Plain(c)
      BY <2>1 DEF Plain
    <3>4. excuse'[c] = {} => StreamsOf(c) = {} /\ excuse[c] = {}
      BY <2>1, <2>3
    <3>5. StreamsOf(c) = {} => Shown(c) = {}
      BY DEF Shown
    <3>6. Of(c, loop.snap)' = Of(c, loop.snap) /\ online' = online /\ loop' = loop
      BY <2>1 DEF Of, who
    <3> QED
      BY <3>1, <3>2, <3>3, <3>4, <3>5, <3>6 DEF Matched
  <2> QED
    BY <2>2, <2>3
<1>18. ASSUME NEW d \in Clients, Kick(d) PROVE Matched(c)'
  <2>1. /\ ClearMedia(d) /\ online' = online \ {d} /\ UNCHANGED <<waiting, session, loop, streams>>
        /\ excuse' = [e \in Ts6 |-> IF e = d THEN excuse[e] \union {"kicked"} ELSE excuse[e]]
    BY <1>18 DEF Kick
  <2>2. CASE c # d
    BY <2>1, <2>2, LoopStays, ClearedMatched
  <2>3. CASE c = d
    <3>1. "kicked" \in excuse'[c]
      BY <2>1, <2>3
    <3> QED
      BY <3>1, ExcusedMatched DEF Plain
  <2> QED
    BY <2>2, <2>3
<1>19. ASSUME NEW d \in Ts6, StopStream(d, StreamsOf(d)) \/ \E id \in Ids : StopStream(d, {id})
       PROVE  Matched(c)'
  <2>1. StreamsOf(d) \in SUBSET Ids /\ \A id \in Ids : {id} \in SUBSET Ids
    BY DEF StreamsOf
  <2> QED
    BY <1>13, <1>19, <2>1
<1> QED
  BY <1>1, <1>2, <1>3, <1>4, <1>5, <1>6, <1>7, <1>8, <1>9, <1>10, <1>11, <1>12, <1>14, <1>15,
     <1>16, <1>17, <1>18, <1>19 DEF Next

-----------------------------------------------------------------------------
(* What the TS6 clients see listed.                                        *)

Key(reg, id) == <<Owner(id), reg[id].bt>>

\* One loop of the copy over a table whose synthetic streams have their types.
LEMMA LoopLists ==
    ASSUME NEW reg, TrueTypes(reg), NEW snap \in SUBSET Keys, NEW bt \in Bts
    PROVE  /\ TrueTypes(WithBridges(reg, snap, bt))
           /\ \A k \in snap : k[2] = bt =>
                 \E id \in DOMAIN WithBridges(reg, snap, bt) : Key(WithBridges(reg, snap, bt), id) = k
           /\ \A id \in DOMAIN reg : /\ id \in DOMAIN WithBridges(reg, snap, bt)
                                     /\ Key(WithBridges(reg, snap, bt), id) = Key(reg, id)
           /\ (\A id \in DOMAIN reg \cap BridgeIds : Key(reg, id) \in snap) =>
                 \A id \in DOMAIN WithBridges(reg, snap, bt) \cap BridgeIds :
                     Key(WithBridges(reg, snap, bt), id) \in snap
<1> DEFINE new == {<<"bridge", k[1], bt>> : k \in {j \in snap : j[2] = bt
                     /\ ~ \E id \in DOMAIN reg : Owner(id) = j[1] /\ reg[id].bt = bt}}
           r == WithBridges(reg, snap, bt)
<1>1. r = [id \in DOMAIN reg \union new |->
            IF id \in new THEN [bt |-> bt, attendees |-> {}] ELSE reg[id]]
  BY DEF WithBridges
<1>2. \A id \in new : id \in BridgeIds /\ id[3] = bt /\ id \notin DOMAIN reg /\ <<Owner(id), bt>> \in snap
  <2> SUFFICES ASSUME NEW k \in snap, k[2] = bt,
                      ~ \E id \in DOMAIN reg : Owner(id) = k[1] /\ reg[id].bt = bt,
                      NEW id, id = <<"bridge", k[1], bt>>
               PROVE  id \in BridgeIds /\ id[3] = bt /\ id \notin DOMAIN reg /\ <<Owner(id), bt>> \in snap
    OBVIOUS
  <2>1. k = <<k[1], bt>> /\ k[1] \in Clients
    BY DEF Keys
  <2>2. id \in BridgeIds /\ id[3] = bt /\ Owner(id) = k[1]
    BY <2>1 DEF BridgeIds, Owner
  <2>3. id \notin DOMAIN reg
    BY <2>2 DEF TrueTypes
  <2> QED
    BY <2>1, <2>2, <2>3
<1>3. \A k \in snap : k[2] = bt =>
         \/ \E id \in DOMAIN reg : Owner(id) = k[1] /\ reg[id].bt = bt
         \/ <<"bridge", k[1], bt>> \in new
  OBVIOUS
<1> HIDE DEF new, r
<1>4. DOMAIN r = DOMAIN reg \union new /\ \A id \in DOMAIN r : r[id] = IF id \in new THEN [bt |-> bt, attendees |-> {}] ELSE reg[id]
  BY <1>1
<1>5. \A id \in DOMAIN reg : id \in DOMAIN r /\ Key(r, id) = Key(reg, id)
  BY <1>2, <1>4 DEF Key
<1>6. \A id \in new : id \in DOMAIN r /\ r[id].bt = bt /\ Key(r, id) = <<Owner(id), bt>>
  BY <1>4 DEF Key
<1>7. TrueTypes(r)
  BY <1>2, <1>4, <1>6 DEF TrueTypes
<1>8. ASSUME NEW k \in snap, k[2] = bt PROVE \E id \in DOMAIN r : Key(r, id) = k
  <2>1. k = <<k[1], bt>>
    BY <1>8 DEF Keys
  <2>2. CASE \E id \in DOMAIN reg : Owner(id) = k[1] /\ reg[id].bt = bt
    BY <2>1, <2>2, <1>5 DEF Key
  <2>3. CASE <<"bridge", k[1], bt>> \in new
    <3>1. Owner(<<"bridge", k[1], bt>>) = k[1]
      BY DEF Owner
    <3> QED
      BY <2>1, <2>3, <3>1, <1>6
  <2> QED
    BY <1>3, <1>8, <2>2, <2>3
<1>9. (\A id \in DOMAIN reg \cap BridgeIds : Key(reg, id) \in snap) =>
         \A id \in DOMAIN r \cap BridgeIds : Key(r, id) \in snap
  BY <1>2, <1>4, <1>5, <1>6
<1> QED
  BY <1>5, <1>7, <1>8, <1>9 DEF r

\* After both loops every broadcast of the snapshot is listed, and no other.
LEMMA CopyLists ==
    ASSUME Types, TrueTypes(streams), NEW snap \in SUBSET Keys, NEW reg,
           reg = WithBridges(WithBridges(Restrict(streams, Ids \ StaleBridges(snap)), snap, 0), snap, 1)
    PROVE  TrueTypes(reg) /\ Lists(reg, snap)
<1> DEFINE kept == Ids \ StaleBridges(snap)
           reg0 == Restrict(streams, kept)
           reg1 == WithBridges(reg0, snap, 0)
<1>1. kept \subseteq Ids /\ reg = WithBridges(reg1, snap, 1)
  OBVIOUS
<1>2. DOMAIN reg0 = kept /\ \A id \in kept : reg0[id] = streams[id]
  BY <1>1, RestrictedTyped DEF Types, Ids
<1>3. \A id \in kept \cap BridgeIds : <<Owner(id), streams[id].bt>> \in snap
  BY IdParts DEF StaleBridges
<1> HIDE DEF kept, reg0, reg1
<1>4. TrueTypes(reg0) /\ \A id \in DOMAIN reg0 \cap BridgeIds : Key(reg0, id) \in snap
  BY <1>1, <1>2, <1>3 DEF TrueTypes, Ids, Key
<1>5. 0 \in Bts /\ 1 \in Bts /\ \A k \in snap : k[2] = 0 \/ k[2] = 1
  BY DEF Bts, Keys
<1>6. /\ TrueTypes(reg1)
      /\ \A k \in snap : k[2] = 0 => \E id \in DOMAIN reg1 : Key(reg1, id) = k
      /\ \A id \in DOMAIN reg1 \cap BridgeIds : Key(reg1, id) \in snap
  BY <1>4, <1>5, LoopLists DEF reg1
<1>7. /\ TrueTypes(reg)
      /\ \A k \in snap : k[2] = 1 => \E id \in DOMAIN reg : Key(reg, id) = k
      /\ \A id \in DOMAIN reg1 : id \in DOMAIN reg /\ Key(reg, id) = Key(reg1, id)
      /\ \A id \in DOMAIN reg \cap BridgeIds : Key(reg, id) \in snap
  <2> DEFINE r == WithBridges(reg1, snap, 1)
  <2>1. /\ TrueTypes(r)
        /\ \A k \in snap : k[2] = 1 => \E id \in DOMAIN r : Key(r, id) = k
        /\ \A id \in DOMAIN reg1 : id \in DOMAIN r /\ Key(r, id) = Key(reg1, id)
        /\ (\A id \in DOMAIN reg1 \cap BridgeIds : Key(reg1, id) \in snap) =>
              \A id \in DOMAIN r \cap BridgeIds : Key(r, id) \in snap
    BY <1>5, <1>6, LoopLists
  <2>2. r = reg
    BY <1>1
  <2> HIDE DEF r
  <2> QED
    BY <2>1, <2>2, <1>6
<1>8. \A k \in snap : \E id \in DOMAIN reg : Key(reg, id) = k
  BY <1>5, <1>6, <1>7
<1> QED
  BY <1>7, <1>8 DEF Lists, Key

\* A step that changes what is on air sends an event, or is an excuse.
LEMMA StaysListed ==
    ASSUME Listed, ~ unheard' => ~ unheard,
           Ids' = Ids, \A id \in Ids : streams'[id].bt = streams[id].bt,
           events' = "none" => events = "none" /\ active' = active,
           \/ events' # "none" \/ loop' = loop \/ loop'.at = "runtime"
           \/ loop.at \notin {"bridges", "runtime"} /\ loop'.at # "bridges"
    PROVE  Listed'
<1> SUFFICES ASSUME ~ unheard'
             PROVE  /\ TrueTypes(streams')
                    /\ events' = "none" /\ loop'.at = "bridges" => loop'.snap = active'
                    /\ events' = "none" /\ loop'.at \notin {"bridges", "runtime"} => Lists(streams', active')
  BY DEF Listed
<1>1. TrueTypes(streams')
  BY DEF Listed, TrueTypes, Ids
<1>2. Lists(streams, active) /\ active' = active => Lists(streams', active')
  BY DEF Lists, Ids
<1> QED
  BY <1>1, <1>2 DEF Listed

\* The loop turns to the broadcasts of a client.
LEMMA RuntimeListed ==
    ASSUME Listed, ~ unheard' => ~ unheard, loop'.at = "runtime",
           Ids' \cap BridgeIds \subseteq Ids, \A id \in Ids' \cap BridgeIds : streams'[id].bt = streams[id].bt
    PROVE  Listed'
BY DEF Listed, TrueTypes, Ids

\* A copy begins.
LEMMA StartListed ==
    ASSUME NEW next, StartSyncBridges(next), streams' = streams, active' = active
    PROVE  Listed'
<1>1. ~ unheard' => TrueTypes(streams')
  BY DEF StartSyncBridges, TrueTypes, Ids
<1>2. loop'.at = "bridges" /\ loop'.snap = active'
  BY DEF StartSyncBridges
<1> QED
  BY <1>1, <1>2 DEF Listed

LEMMA ListedKept ==
    ASSUME Types, Who, Listed, Next
    PROVE  Listed'
<1>1. CASE SyncRuntime
  <2>1. events' # "none" /\ streams' = streams /\ unheard' = unheard
    BY <1>1 DEF SyncRuntime, Announce
  <2> QED
    BY <2>1, StaysListed DEF Ids
<1>2. CASE SyncBridges
  <2>1. /\ loop.at = "bridges" /\ loop.snap \in SUBSET Keys /\ loop' = loop.next
        /\ loop.next \in {Idle} \union Joins
    BY <1>2, LoopParts DEF SyncBridges
  <2>2. /\ events' = events /\ unheard' = unheard /\ active' = active
        /\ streams' = WithBridges(WithBridges(Restrict(streams, Ids \ StaleBridges(loop.snap)), loop.snap, 0),
                                  loop.snap, 1)
    BY <1>2 DEF SyncBridges
  <2>3. loop'.at # "bridges"
    BY <2>1 DEF Idle, Joins
  <2>4. ~ unheard => TrueTypes(streams') /\ Lists(streams', loop.snap)
    BY <2>1, <2>2, CopyLists DEF Listed
  <2> QED
    BY <2>1, <2>2, <2>3, <2>4 DEF Listed
<1>3. CASE Deliver
  BY <1>3, StartListed DEF Deliver
<1>4. CASE JoinStream
  <2>1. Ids' = Ids /\ \A id \in Ids : streams'[id].bt = streams[id].bt
    BY <1>4 DEF JoinStream, Types, Registry, Ids
  <2>2. loop.at = "join" /\ loop'.at = "idle" /\ UNCHANGED <<active, events, unheard>>
    BY <1>4 DEF JoinStream, Idle
  <2> QED
    BY <2>1, <2>2, StaysListed
<1>5. CASE Leave
  <2>1. /\ loop.at = "leave" /\ loop'.at = "idle" /\ UNCHANGED <<streams, unheard>>
        /\ events' = "none" => events = "none" /\ active' = active
    BY <1>5 DEF Leave, Idle, ClearMedia, Announce
  <2> QED
    BY <2>1, StaysListed DEF Ids
<1>6. ASSUME NEW c \in Ts6, Connect(c) PROVE Listed'
  BY <1>6, StartListed DEF Connect
<1>7. ASSUME NEW c \in Ts6, RequestStreamInfo(c) PROVE Listed'
  BY <1>7, StartListed DEF RequestStreamInfo
<1>8. ASSUME NEW c \in Ts6, NEW id, NEW remove, JoinStreamRequest(c, id, remove) PROVE Listed'
  BY <1>8, StartListed DEF JoinStreamRequest
<1>9. ASSUME NEW c \in Ts6, Disconnect(c) PROVE Listed'
  <2>1. /\ loop = Idle /\ UNCHANGED <<active, events, unheard>>
        /\ streams' = [id \in Ids \ StreamsOf(c) |-> [streams[id] EXCEPT !.attendees = @ \ {c}]]
    BY <1>9 DEF Disconnect, Command
  <2>2. Ids' = Ids \ StreamsOf(c) /\ \A id \in Ids' : streams'[id].bt = streams[id].bt
    BY <2>1 DEF Types, Registry, Ids
  <2>3. CASE StreamsOf(c) # {}
    <3>1. loop'.at = "runtime"
      BY <1>9, <2>3 DEF Disconnect
    <3> QED
      BY <2>1, <2>2, <3>1, RuntimeListed
  <2>4. CASE StreamsOf(c) = {}
    <3>1. loop'.at = "leave" /\ loop.at = "idle"
      BY <1>9, <2>1, <2>4 DEF Disconnect, Idle
    <3> QED
      BY <2>1, <2>2, <2>4, <3>1, StaysListed
  <2> QED
    BY <2>3, <2>4
<1>10. ASSUME NEW c \in Ts6, EndSession(c) PROVE Listed'
  BY <1>10, StaysListed DEF EndSession, Ids
<1>11. ASSUME NEW c \in Ts6, NEW bt \in Bts, SetupStream(c, bt) PROVE Listed'
  <2> DEFINE old == {id \in StreamsOf(c) : streams[id].bt = bt}
             new == <<"ts6", c, seq>>
  <2>1. /\ loop' = [at |-> "runtime", clid |-> c, leaves |-> FALSE] /\ unheard' = unheard
        /\ streams' = [i \in (Ids \ old) \union {new} |->
                         IF i = new THEN [bt |-> bt, attendees |-> {}] ELSE streams[i]]
    BY <1>11 DEF SetupStream
  <2>2. new \notin BridgeIds
    BY DEF BridgeIds
  <2> HIDE DEF old, new
  <2>3. Ids' = (Ids \ old) \union {new}
    BY <2>1 DEF Ids
  <2> QED
    BY <2>1, <2>2, <2>3, RuntimeListed
<1>12. ASSUME NEW c \in Ts6, NEW id, NEW bt, UpdateStream(c, id, bt) PROVE Listed'
  BY <1>12 DEF UpdateStream, Listed
<1>13. ASSUME NEW c \in Ts6, NEW ids, StopStream(c, ids) PROVE Listed'
  <2>1. /\ loop' = [at |-> "runtime", clid |-> c, leaves |-> FALSE] /\ unheard' = unheard
        /\ streams' = Restrict(streams, Ids \ ids)
    BY <1>13 DEF StopStream
  <2>2. Ids' = Ids \ ids /\ \A id \in Ids' : streams'[id] = streams[id]
    BY <2>1, RestrictedTyped DEF Types, Ids
  <2>3. loop'.at = "runtime"
    BY <2>1
  <2> QED
    BY <2>1, <2>2, <2>3, RuntimeListed
<1>14. ASSUME NEW c \in Ts6,
             \/ \E id \in RealIds : RespondToServer(c, id)
             \/ \E id \in Ids, v \in Ts6 \ {c} : RespondToClient(c, id, v)
             \/ \E id \in Ids, v \in Ts6 : RemoveClientFromStream(c, id, v)
       PROVE Listed'
  <2>1. UNCHANGED <<loop, active, events, unheard>>
    BY <1>14 DEF RespondToServer, RespondToClient, RemoveClientFromStream, Command
  <2>2. Ids' = Ids /\ \A id \in Ids : streams'[id].bt = streams[id].bt
    <3>1. CASE \E id \in RealIds : RespondToServer(c, id)
      BY <3>1 DEF RespondToServer, Ids
    <3>2. CASE \E id \in Ids, v \in Ts6 \ {c} : RespondToClient(c, id, v)
      BY <3>2 DEF RespondToClient, Ids, Types, Registry
    <3>3. CASE \E id \in Ids, v \in Ts6 : RemoveClientFromStream(c, id, v)
      BY <3>3 DEF RemoveClientFromStream, Ids, Types, Registry
    <3> QED
      BY <1>14, <3>1, <3>2, <3>3
  <2> QED
    BY <2>1, <2>2, StaysListed
<1>15. ASSUME NEW t \in tasks, ShowRegistered(t) \/ ShowFed(t) \/ ReceiveRegistered(t) \/ TaskFails(t)
       PROVE  Listed'
  <2>1. UNCHANGED <<active, events, loop, streams, unheard>>
    BY <1>15 DEF ShowRegistered, ShowFed, ReceiveRegistered, TaskFails
  <2> QED
    BY <2>1, StaysListed DEF Ids
<1>16. ASSUME NEW c \in Others, NEW off, NEW on, NEW denied, BroadcastVideo(c, off, on, denied)
       PROVE  Listed'
  <2>1. CASE denied
    BY <1>16, <2>1 DEF BroadcastVideo, Listed
  <2>2. CASE ~ denied
    <3>1. events' # "none" /\ streams' = streams /\ unheard' = unheard
      BY <1>16, <2>2 DEF BroadcastVideo, Announce
    <3> QED
      BY <3>1, StaysListed DEF Ids
  <2> QED
    BY <2>1, <2>2
<1>17. ASSUME NEW c \in Clients, Move(c) \/ Kick(c) PROVE Listed'
  <2>1. /\ ClearMedia(c) /\ UNCHANGED <<loop, streams, unheard>>
    BY <1>17 DEF Move, Kick
  <2>2. events' = "none" => events = "none" /\ active' = active
    BY <2>1 DEF ClearMedia, Announce
  <2> QED
    BY <2>1, <2>2, StaysListed DEF Ids
<1> QED
  BY <1>1, <1>2, <1>3, <1>4, <1>5, <1>6, <1>7, <1>8, <1>9, <1>10, <1>11, <1>12, <1>13, <1>14,
     <1>15, <1>16, <1>17 DEF Next

-----------------------------------------------------------------------------
(* Bridges and their streams.                                              *)

\* Nobody has closed the bridges to v for good, or v was kicked.
Lives(v) == ~ Cleaned(v) \/ "kicked" \in excuse[v]

LEMMA LivesOn ==
    ASSUME Types, Who, Next, NEW v \in Ts6, Lives(v), ~ Disconnect(v)
    PROVE  Lives(v)'
<1>1. "kicked" \notin excuse[v] => v \in session /\ ~ Leaving(v)
  BY DEF Lives, Cleaned, Leaving
<1>2. v \in session' /\ ~ Leaving(v)' => Lives(v)'
  BY DEF Lives, Cleaned, Leaving
<1>3. "kicked" \in excuse'[v] => Lives(v)'
  BY DEF Lives
<1>4. CASE SyncRuntime
  <2>1. PICK c \in Ts6 : c = loop.clid
    BY <1>4, LoopParts DEF SyncRuntime
  <2>2. /\ loop.at = "runtime" /\ loop' = IF loop.leaves THEN [at |-> "leave", clid |-> c] ELSE Idle
        /\ session' = session /\ online' = online /\ excuse' = [excuse EXCEPT ![c] = Realigned(c)]
    BY <1>4, <2>1 DEF SyncRuntime, who
  <2>3. "kicked" \in excuse[v] => "kicked" \in excuse'[v]
    BY <2>2 DEF Types, Realigned, Who
  <2>4. Leaving(v)' => Leaving(v)
    BY <2>1, <2>2 DEF Leaving, Idle
  <2> QED
    BY <1>1, <1>2, <1>3, <2>2, <2>3, <2>4
<1>5. CASE Leave
  <2>1. PICK c \in Ts6 : c = loop.clid
    BY <1>5, LoopParts DEF Leave
  <2>2. /\ loop.at = "leave" /\ loop' = Idle /\ session' = session \ {c}
        /\ excuse' = [excuse EXCEPT ![c] = IF c \in online THEN {} ELSE @]
    BY <1>5, <2>1 DEF Leave
  <2>3. Leaving(c) /\ ~ Leaving(v)'
    BY <2>1, <2>2 DEF Leaving, Idle
  <2>4. "kicked" \in excuse[v] => "kicked" \in excuse'[v]
    BY <2>2 DEF Types, Who
  <2> QED
    BY <1>1, <1>2, <1>3, <2>2, <2>3, <2>4
<1>6. ASSUME session \subseteq session', loop'.at \notin {"runtime", "leave"} \/ loop' = loop,
             "kicked" \in excuse[v] => "kicked" \in excuse'[v]
      PROVE  Lives(v)'
  <2>1. Leaving(v)' => Leaving(v)
    BY <1>6 DEF Leaving
  <2> QED
    BY <1>1, <1>2, <1>3, <1>6, <2>1
<1>7. CASE SyncBridges
  <2>1. loop.next \in {Idle} \union Joins
    BY <1>7, LoopParts DEF SyncBridges
  <2> QED
    BY <1>7, <1>6, <2>1 DEF SyncBridges, who, Idle, Joins
<1>8. CASE Deliver
  BY <1>8, <1>6 DEF Deliver, StartSyncBridges, who
<1>9. CASE JoinStream
  BY <1>9, <1>6 DEF JoinStream, Idle, who
<1>10. ASSUME NEW c \in Ts6, Connect(c) PROVE Lives(v)'
  BY <1>10, <1>6 DEF Connect, StartSyncBridges
<1>11. ASSUME NEW c \in Ts6, RequestStreamInfo(c) PROVE Lives(v)'
  BY <1>11, <1>6 DEF RequestStreamInfo, StartSyncBridges, who
<1>12. ASSUME NEW c \in Ts6, NEW id, NEW remove, JoinStreamRequest(c, id, remove) PROVE Lives(v)'
  BY <1>12, <1>6 DEF JoinStreamRequest, StartSyncBridges, who
<1>13. ASSUME NEW c \in Ts6, Disconnect(c) PROVE Lives(v)'
  <2>1. c # v /\ session' = session /\ excuse' = excuse /\ loop'.clid = c
    BY <1>13 DEF Disconnect, who
  <2>2. ~ Leaving(v)'
    BY <2>1 DEF Leaving
  <2> QED
    BY <1>1, <1>2, <1>3, <2>1, <2>2
<1>14. ASSUME NEW c \in Ts6, EndSession(c) PROVE Lives(v)'
  <2>1. /\ loop = Idle /\ loop' = loop /\ c \in session /\ c \notin online /\ session' = session \ {c}
        /\ excuse' = excuse
    BY <1>14 DEF EndSession
  <2>2. ~ Leaving(v)' /\ "kicked" \in excuse[c]
    BY <2>1, IdleRests, LoopStays DEF Who
  <2> QED
    BY <1>1, <1>2, <1>3, <2>1, <2>2
<1>15. ASSUME NEW c, \/ \E bt \in Bts : SetupStream(c, bt)
                     \/ \E ids : StopStream(c, ids)
       PROVE  Lives(v)'
  <2>1. loop' = [at |-> "runtime", clid |-> c, leaves |-> FALSE] /\ session' = session
    BY <1>15 DEF SetupStream, StopStream, who
  <2>2. "kicked" \in excuse[v] => "kicked" \in excuse'[v]
    BY <1>15 DEF SetupStream, StopStream
  <2>3. ~ Leaving(v)'
    BY <2>1 DEF Leaving
  <2> QED
    BY <1>1, <1>2, <1>3, <2>1, <2>2, <2>3
<1>16. ASSUME NEW c \in Ts6,
             \/ \E id \in Ids, bt \in Bts : UpdateStream(c, id, bt)
             \/ \E id \in RealIds : RespondToServer(c, id)
             \/ \E id \in Ids, w \in Ts6 \ {c} : RespondToClient(c, id, w)
             \/ \E id \in Ids, w \in Ts6 : RemoveClientFromStream(c, id, w)
       PROVE Lives(v)'
  <2>1. UNCHANGED <<who, loop>> /\ ("kicked" \in excuse[v] => "kicked" \in excuse'[v])
    BY <1>16 DEF UpdateStream, RespondToServer, RespondToClient, RemoveClientFromStream
  <2> QED
    BY <1>6, <2>1 DEF who
<1>17. ASSUME NEW t \in tasks, ShowRegistered(t) \/ ShowFed(t) \/ ReceiveRegistered(t) \/ TaskFails(t)
       PROVE  Lives(v)'
  <2>1. UNCHANGED <<who, loop, excuse>>
    BY <1>17 DEF ShowRegistered, ShowFed, ReceiveRegistered, TaskFails
  <2> QED
    BY <1>6, <2>1 DEF who
<1>18. ASSUME NEW c \in Others, NEW off, NEW on, NEW denied, BroadcastVideo(c, off, on, denied)
       PROVE  Lives(v)'
  BY <1>18, <1>6 DEF BroadcastVideo, who
<1>19. ASSUME NEW c \in Clients, Move(c) \/ Kick(c) PROVE Lives(v)'
  <2>1. UNCHANGED <<session, loop>> /\ ("kicked" \in excuse[v] => "kicked" \in excuse'[v])
    BY <1>19 DEF Move, Kick, who
  <2> QED
    BY <1>6, <2>1
<1> QED
  BY <1>4, <1>5, <1>7, <1>8, <1>9, <1>10, <1>11, <1>12, <1>13, <1>14, <1>15, <1>16, <1>17, <1>18,
     <1>19 DEF Next

\* Bridges are closed with their streams and with the last session of their viewer.
LEMMA StillFollows ==
    ASSUME Types, Follows, NEW in, NEW out, NEW slots, NEW nc,
           BridgesBecome(in, out, slots, NoneLate, nc),
           in \subseteq inbound, out \subseteq outbound,
           in \cap Ids \subseteq Ids',
           \A o \in out : o.id \in Ids => o.id \in Ids',
           \A o \in out : Lives(o.viewer) => Lives(o.viewer)'
    PROVE  Follows'
<1>1. inbound' = in /\ outbound' = out /\ late'.in = late.in \cap in /\ late'.out = late.out \cap out
  BY DEF BridgesBecome, NoneLate
<1>2. inbound' \ late'.in \subseteq Ids'
  BY <1>1 DEF Follows
<1>3. ASSUME NEW o \in outbound' \ late'.out
      PROVE  o.id \in Ids' /\ Lives(o.viewer)'
  BY <1>1 DEF Follows, Lives
<1> QED
  BY <1>2, <1>3 DEF Follows, Lives

LEMMA FollowsUnchanged ==
    ASSUME Types, Follows, UNCHANGED bridges, Ids \subseteq Ids',
           \A v \in Ts6 : Lives(v) => Lives(v)'
    PROVE  Follows'
<1>1. \A o \in outbound : o.viewer \in Ts6
  BY DEF Types, Outbound
<1> QED
  BY <1>1 DEF Follows, bridges, Lives

LEMMA CloseStreamsFollows ==
    ASSUME Types, Follows, NEW ids, CloseStreams(ids), Ids \ ids \subseteq Ids',
           \A v \in Ts6 : Lives(v) => Lives(v)'
    PROVE  Follows'
<1>1. \A o \in outbound : o.viewer \in Ts6
  BY DEF Types, Outbound
<1> DEFINE closed == {o \in outbound : o.id \in ids}
<1>2. BridgesBecome(inbound \ ids, outbound \ closed, fed \ {Feed(o) : o \in closed}, NoneLate,
                    {Feed(o) : o \in closed})
  BY DEF CloseStreams
<1> QED
  BY <1>1, <1>2, StillFollows

LEMMA CloseViewerFollows ==
    ASSUME Types, Follows, NEW id, NEW w, CloseViewer(id, w), Ids \subseteq Ids',
           \A v \in Ts6 : Lives(v) => Lives(v)'
    PROVE  Follows'
<1>1. \A o \in outbound : o.viewer \in Ts6
  BY DEF Types, Outbound
<1> DEFINE closed == {o \in outbound : o.id = id /\ o.viewer = w}
<1>2. BridgesBecome(inbound, outbound \ closed, fed \ {Feed(o) : o \in closed}, NoneLate,
                    {Feed(o) : o \in closed})
  BY DEF CloseViewer
<1> QED
  BY <1>1, <1>2, StillFollows

LEMMA SlotsFollow ==
    ASSUME Types, Follows, NEW slots, NEW nc, BridgesBecome(inbound, outbound, slots, NoneLate, nc),
           Ids \subseteq Ids', \A v \in Ts6 : Lives(v) => Lives(v)'
    PROVE  Follows'
<1>1. \A o \in outbound : o.viewer \in Ts6
  BY DEF Types, Outbound
<1> QED
  BY <1>1, StillFollows

LEMMA FollowsKept ==
    ASSUME Types, Who, Follows, Next
    PROVE  Follows'
<1>1. ASSUME \A c \in Ts6 : ~ Disconnect(c) PROVE \A v \in Ts6 : Lives(v) => Lives(v)'
  BY <1>1, LivesOn
<1>2. ASSUME NEW c \in Ts6, Disconnect(c) PROVE Follows'
  <2> DEFINE closed == {o \in outbound : o.viewer = c \/ Owner(o.id) = c}
             in == {id \in inbound : Owner(id) # c}
             slots == {f \in fed : f[1] # c} \ {Feed(o) : o \in closed}
             nc == {Feed(o) : o \in closed}
  <2>1. BridgesBecome(in, outbound \ closed, slots, NoneLate, nc)
    BY <1>2 DEF Disconnect, CloseClient
  <2>2. Ids' = Ids \ StreamsOf(c)
    BY <1>2 DEF Disconnect, Ids
  <2>3. in \cap Ids \subseteq Ids' /\ in \subseteq inbound
    BY <2>2 DEF StreamsOf
  <2>4. \A o \in outbound \ closed : o.id \in Ids => o.id \in Ids'
    BY <2>2 DEF StreamsOf
  <2>5. \A o \in outbound \ closed : o.viewer \in Ts6 /\ o.viewer # c
    BY DEF Types, Outbound
  <2>6. session' = session /\ excuse' = excuse /\ loop'.clid = c /\ loop = Idle
    BY <1>2 DEF Disconnect, Command, who
  <2>7. \A v \in Ts6 : v # c /\ Lives(v) => Lives(v)'
    BY <2>6, IdleRests DEF Lives, Cleaned
  <2> HIDE DEF closed, in, slots, nc
  <2>8. \A o \in outbound \ closed : Lives(o.viewer) => Lives(o.viewer)'
    BY <2>5, <2>7
  <2> QED
    BY <2>1, <2>3, <2>4, <2>8, StillFollows
<1>3. CASE \A c \in Ts6 : ~ Disconnect(c)
  <2>0. \A v \in Ts6 : Lives(v) => Lives(v)'
    BY <1>1, <1>3
  <2>1. CASE SyncRuntime
    <3>1. streams' = streams
      BY <2>1 DEF SyncRuntime
    <3>2. PICK nc : BridgesBecome(inbound, outbound, fed, NoneLate, nc)
      BY <2>1 DEF SyncRuntime
    <3> QED
      BY <2>0, <3>1, <3>2, SlotsFollow DEF Ids
  <2>2. CASE SyncBridges
    <3>1. CloseStreams(StaleBridges(loop.snap))
      BY <2>2 DEF SyncBridges
    <3>2. PICK stale : stale = StaleBridges(loop.snap)
      OBVIOUS
    <3>3. streams' = WithBridges(WithBridges(Restrict(streams, Ids \ stale), loop.snap, 0), loop.snap, 1)
      BY <2>2, <3>2 DEF SyncBridges
    <3>4. \A reg, snap, bt : DOMAIN reg \subseteq DOMAIN WithBridges(reg, snap, bt)
      BY DEF WithBridges
    <3>5. DOMAIN Restrict(streams, Ids \ stale) = Ids \ stale
      BY DEF Restrict
    <3>6. Ids \ stale \subseteq Ids'
      BY <3>3, <3>4, <3>5 DEF Ids
    <3> QED
      BY <2>0, <3>1, <3>2, <3>6, CloseStreamsFollows
  <2>3. CASE Deliver
    BY <2>0, <2>3, FollowsUnchanged DEF Deliver, Ids
  <2>4. CASE JoinStream
    <3>1. Ids' = Ids
      BY <2>4 DEF JoinStream, Ids
    <3>2. PICK id, w : (loop.remove /\ CloseViewer(id, w)) \/ UNCHANGED bridges
      BY <2>4 DEF JoinStream
    <3> QED
      BY <2>0, <3>1, <3>2, FollowsUnchanged, CloseViewerFollows
  <2>5. CASE Leave
    <3>1. Ids' = Ids
      BY <2>5 DEF Leave, Ids
    <3>2. PICK slots, nc : BridgesBecome(inbound, outbound, slots, NoneLate, nc) \/ UNCHANGED bridges
      BY <2>5 DEF Leave, ClearMedia
    <3> QED
      BY <2>0, <3>1, <3>2, FollowsUnchanged, SlotsFollow
  <2>6. ASSUME NEW c \in Ts6,
               \/ Connect(c) \/ RequestStreamInfo(c) \/ EndSession(c)
               \/ \E id \in Ids, bt \in Bts : UpdateStream(c, id, bt)
               \/ \E id \in Ids, remove \in BOOLEAN : JoinStreamRequest(c, id, remove)
               \/ \E id \in RealIds : RespondToServer(c, id)
               \/ \E id \in Ids, v \in Ts6 \ {c} : RespondToClient(c, id, v)
        PROVE  Follows'
    <3>1. UNCHANGED bridges
      BY <2>6 DEF Connect, RequestStreamInfo, EndSession, UpdateStream, JoinStreamRequest,
                  RespondToServer, RespondToClient
    <3>2. Ids' = Ids
      BY <2>6 DEF Connect, RequestStreamInfo, EndSession, UpdateStream, JoinStreamRequest,
                  RespondToServer, RespondToClient, Ids
    <3> QED
      BY <2>0, <3>1, <3>2, FollowsUnchanged
  <2>7. ASSUME NEW c \in Ts6, NEW bt \in Bts, SetupStream(c, bt) PROVE Follows'
    <3>1. PICK old : old = {id \in StreamsOf(c) : streams[id].bt = bt}
      OBVIOUS
    <3>2. CloseStreams(old) /\ Ids' = (Ids \ old) \union {<<"ts6", c, seq>>}
      BY <2>7, <3>1 DEF SetupStream, Ids
    <3> QED
      BY <2>0, <3>2, CloseStreamsFollows
  <2>8. ASSUME NEW c \in Ts6, NEW ids, StopStream(c, ids) PROVE Follows'
    <3>1. CloseStreams(ids) /\ Ids' = Ids \ ids
      BY <2>8 DEF StopStream, Ids, Restrict
    <3> QED
      BY <2>0, <3>1, CloseStreamsFollows
  <2>9. ASSUME NEW c \in Ts6, NEW id \in Ids, NEW v \in Ts6, RemoveClientFromStream(c, id, v)
        PROVE  Follows'
    <3>1. CloseViewer(id, v) /\ Ids' = Ids
      BY <2>9 DEF RemoveClientFromStream, Ids
    <3> QED
      BY <2>0, <3>1, CloseViewerFollows
  <2>10. ASSUME NEW t \in tasks, ShowRegistered(t) PROVE Follows'
    <3>1. PICK o : o = [id |-> t.id, viewer |-> t.viewer, bt |-> t.bt]
      OBVIOUS
    <3>2. /\ streams' = streams /\ inbound' = inbound /\ outbound' = OutboundWith(o)
          /\ late'.in = late.in \cap inbound
          /\ late'.out = (late.out \union IF t.id \in Ids /\ ~ Cleaned(t.viewer) THEN {} ELSE {o})
                         \cap OutboundWith(o)
      BY <2>10, <3>1 DEF ShowRegistered, BridgesBecome, NoneLate
    <3>3. o.id = t.id /\ o.viewer = t.viewer /\ t.viewer \in Ts6
      BY <2>10, <3>1 DEF ShowRegistered, Types, Shows, Receives
    <3>4. \A p \in outbound : p.viewer \in Ts6
      BY DEF Types, Outbound
    <3>5. ASSUME NEW p \in outbound' \ late'.out PROVE p.id \in Ids' /\ Lives(p.viewer)'
      <4>1. CASE p = o
        BY <3>2, <3>3, <3>5, <4>1, <2>0 DEF OutboundWith, Lives, Ids
      <4>2. CASE p # o
        BY <3>2, <3>4, <3>5, <4>2, <2>0 DEF OutboundWith, Follows, Lives, Ids
      <4> QED
        BY <4>1, <4>2
    <3>6. inbound' \ late'.in \subseteq Ids'
      BY <3>2 DEF Follows, Ids
    <3> QED
      BY <3>5, <3>6 DEF Follows, Lives
  <2>11. ASSUME NEW t \in tasks, ShowFed(t) PROVE Follows'
    <3>1. /\ streams' = streams /\ inbound' = inbound /\ outbound' = outbound
          /\ late'.in = late.in \cap inbound /\ late'.out = late.out \cap outbound
      BY <2>11 DEF ShowFed, BridgesBecome, NoneLate
    <3>2. \A p \in outbound : p.viewer \in Ts6
      BY DEF Types, Outbound
    <3> QED
      BY <2>0, <3>1, <3>2 DEF Follows, Lives, Ids
  <2>12. ASSUME NEW t \in tasks, ReceiveRegistered(t) PROVE Follows'
    <3>1. /\ streams' = streams /\ inbound' = inbound \union {t.id} /\ outbound' = outbound
          /\ late'.in = (late.in \union IF t.id \in Ids THEN {} ELSE {t.id}) \cap (inbound \union {t.id})
          /\ late'.out = late.out \cap outbound
      BY <2>12 DEF ReceiveRegistered, BridgesBecome, NoneLate
    <3>2. \A p \in outbound : p.viewer \in Ts6
      BY DEF Types, Outbound
    <3> QED
      BY <2>0, <3>1, <3>2 DEF Follows, Lives, Ids
  <2>13. ASSUME NEW t \in tasks, TaskFails(t) PROVE Follows'
    BY <2>0, <2>13, FollowsUnchanged DEF TaskFails, Ids
  <2>14. ASSUME NEW c \in Others, NEW off, NEW on, NEW denied, BroadcastVideo(c, off, on, denied)
         PROVE  Follows'
    <3>1. PICK slots, nc : BridgesBecome(inbound, outbound, slots, NoneLate, nc)
      BY <2>14 DEF BroadcastVideo
    <3>2. Ids' = Ids
      BY <2>14 DEF BroadcastVideo, Ids
    <3> QED
      BY <2>0, <3>1, <3>2, SlotsFollow
  <2>15. ASSUME NEW c \in Clients, Move(c) \/ Kick(c) PROVE Follows'
    <3>1. PICK slots, nc : BridgesBecome(inbound, outbound, slots, NoneLate, nc)
      BY <2>15 DEF Move, Kick, ClearMedia
    <3>2. Ids' = Ids
      BY <2>15 DEF Move, Kick, Ids
    <3> QED
      BY <2>0, <3>1, <3>2, SlotsFollow
  <2> QED
    BY <1>3, <2>1, <2>2, <2>3, <2>4, <2>5, <2>6, <2>7, <2>8, <2>9, <2>10, <2>11, <2>12, <2>13,
       <2>14, <2>15 DEF Next
<1> QED
  BY <1>2, <1>3

-----------------------------------------------------------------------------
(* Bridges and their slots.                                                *)

\* The task that will enter slot f is under way.
Coming(f) == \E t \in tasks : t.does = "feed" /\ Feed(t) = f

OnAir(o, keys) == <<Owner(o.id), o.bt>> \in keys

\* A slot is kept for a bridge that stays, and a bridge that loses its slot while
\* its broadcast goes on is cut off.
LEMMA StillFed ==
    ASSUME Fed, NEW in, NEW out, NEW slots, NEW nc,
           BridgesBecome(in, out, slots, NoneLate, nc),
           out \subseteq outbound, slots \subseteq fed,
           \A o \in outbound \ out : Feed(o) \notin slots,
           \A o \in out : OnAir(o, active') => OnAir(o, active) \/ Feed(o) \in slots \union nc,
           \A o \in out : OnAir(o, active') /\ Feed(o) \in fed => Feed(o) \in slots \union nc,
           \A f : Coming(f) => Coming(f)'
    PROVE  Fed'
<1>1. /\ outbound' = out /\ fed' = slots /\ late'.feed = late.feed \cap slots
      /\ cut' = (cut \union nc) \cap ({Feed(o) : o \in out} \ slots)
  BY DEF BridgesBecome, NoneLate
<1>2. ASSUME NEW f \in fed' \ late'.feed PROVE \E o \in outbound' : Feed(o) = f
  <2>1. PICK o \in outbound : Feed(o) = f
    BY <1>1, <1>2 DEF Fed
  <2> QED
    BY <1>1, <1>2, <2>1
<1>3. ASSUME NEW o \in outbound', OnAir(o, active')
      PROVE  Feed(o) \in fed' \union cut' \/ Coming(Feed(o))'
  <2>1. Feed(o) \in slots \union nc \union cut => Feed(o) \in fed' \union cut'
    BY <1>1, <1>3
  <2>2. CASE OnAir(o, active)
    <3>1. Feed(o) \in fed \union cut \/ Coming(Feed(o))
      BY <1>1, <1>3, <2>2 DEF Fed, OnAir, Coming
    <3> QED
      BY <1>1, <1>3, <2>1, <3>1
  <2>3. CASE Feed(o) \in slots \union nc
    BY <2>1, <2>3
  <2> QED
    BY <1>1, <1>3, <2>2, <2>3
<1> QED
  BY <1>2, <1>3 DEF Fed, OnAir, Coming

LEMMA FedUnchanged ==
    ASSUME Fed, UNCHANGED bridges, active' \subseteq active, \A f : Coming(f) => Coming(f)'
    PROVE  Fed'
<1>1. /\ outbound' = outbound /\ fed' = fed /\ cut' = cut /\ late' = late
  BY DEF bridges
<1>2. ASSUME NEW o \in outbound, OnAir(o, active')
      PROVE  Feed(o) \in fed \union cut \/ Coming(Feed(o))'
  <2>1. OnAir(o, active)
    BY <1>2 DEF OnAir
  <2>2. Feed(o) \in fed \union cut \/ Coming(Feed(o))
    BY <2>1 DEF Fed, OnAir, Coming
  <2> QED
    BY <2>2
<1> QED
  BY <1>1, <1>2 DEF Fed, OnAir, Coming

\* Some bridges are closed with their slots.
LEMMA ClosedFed ==
    ASSUME Fed, NEW in, NEW closed \in SUBSET outbound,
           BridgesBecome(in, outbound \ closed, fed \ {Feed(o) : o \in closed}, NoneLate,
                         {Feed(o) : o \in closed}),
           active' = active, \A f : Coming(f) => Coming(f)'
    PROVE  Fed'
<1> DEFINE out == outbound \ closed
           nc == {Feed(o) : o \in closed}
           slots == fed \ nc
<1>1. \A o \in outbound \ out : Feed(o) \notin slots
  OBVIOUS
<1>2. \A o \in out : OnAir(o, active') /\ Feed(o) \in fed => Feed(o) \in slots \union nc
  OBVIOUS
<1>3. \A o \in out : OnAir(o, active') => OnAir(o, active) \/ Feed(o) \in slots \union nc
  OBVIOUS
<1>4. out \subseteq outbound /\ slots \subseteq fed
  OBVIOUS
<1>5. BridgesBecome(in, out, slots, NoneLate, nc)
  OBVIOUS
<1> HIDE DEF out, nc, slots
<1> QED
  BY <1>1, <1>2, <1>3, <1>4, <1>5, StillFed

LEMMA CloseStreamsFed ==
    ASSUME Fed, NEW ids, CloseStreams(ids), active' = active, \A f : Coming(f) => Coming(f)'
    PROVE  Fed'
<1>1. PICK closed : closed = {o \in outbound : o.id \in ids}
  OBVIOUS
<1>2. BridgesBecome(inbound \ ids, outbound \ closed, fed \ {Feed(o) : o \in closed}, NoneLate,
                    {Feed(o) : o \in closed})
  BY <1>1 DEF CloseStreams
<1>3. closed \in SUBSET outbound
  BY <1>1
<1> QED
  BY <1>2, <1>3, ClosedFed

LEMMA CloseViewerFed ==
    ASSUME Fed, NEW id, NEW v, CloseViewer(id, v), active' = active, \A f : Coming(f) => Coming(f)'
    PROVE  Fed'
<1>1. PICK closed : closed = {o \in outbound : o.id = id /\ o.viewer = v}
  OBVIOUS
<1>2. BridgesBecome(inbound, outbound \ closed, fed \ {Feed(o) : o \in closed}, NoneLate,
                    {Feed(o) : o \in closed})
  BY <1>1 DEF CloseViewer
<1>3. closed \in SUBSET outbound
  BY <1>1
<1> QED
  BY <1>2, <1>3, ClosedFed

\* The slots of a client that disconnects go with its bridges.
LEMMA CloseClientFed ==
    ASSUME Fed, NEW c, CloseClient(c), active' = active, \A f : Coming(f) => Coming(f)'
    PROVE  Fed'
<1>1. PICK closed : closed = {o \in outbound : o.viewer = c \/ Owner(o.id) = c}
  OBVIOUS
<1>2. PICK slots : slots = {f \in fed : f[1] # c} \ {Feed(o) : o \in closed}
  OBVIOUS
<1>3. PICK nc : nc = {Feed(o) : o \in closed}
  OBVIOUS
<1>4. BridgesBecome({id \in inbound : Owner(id) # c}, outbound \ closed, slots, NoneLate, nc)
  BY <1>1, <1>2, <1>3 DEF CloseClient
<1>5. \A o \in outbound \ (outbound \ closed) : Feed(o) \notin slots
  BY <1>2
<1>6. \A o \in outbound \ closed : Feed(o) \in fed => Feed(o) \in slots \union nc
  BY <1>1, <1>2, <1>3 DEF Feed
<1> QED
  BY <1>2, <1>4, <1>5, <1>6, StillFed

\* A client shows nothing any more, and watches nothing.
LEMMA ClearMediaFed ==
    ASSUME Fed, NEW c, ClearMedia(c), \A f : Coming(f) => Coming(f)'
    PROVE  Fed'
<1>1. PICK slots : slots = {f \in fed : f[1] # c /\ f[2] # c}
  OBVIOUS
<1>2. PICK nc : nc = {f \in fed : f[1] = c}
  OBVIOUS
<1>3. BridgesBecome(inbound, outbound, slots, NoneLate, nc) /\ active' = {k \in active : k[1] # c}
  BY <1>1, <1>2 DEF ClearMedia
<1>4. \A o \in outbound : OnAir(o, active') => OnAir(o, active) /\ Owner(o.id) # c
  BY <1>3 DEF OnAir
<1>5. \A o \in outbound : OnAir(o, active') /\ Feed(o) \in fed => Feed(o) \in slots \union nc
  BY <1>1, <1>2, <1>4 DEF Feed
<1> QED
  BY <1>1, <1>3, <1>4, <1>5, StillFed

\* Broadcasts begin, and a bridge that finds its broadcast back is cut off.
LEMMA ResumedFed ==
    ASSUME Fed, NEW slots, NEW keys, NEW gone,
           BridgesBecome(inbound, outbound, slots, NoneLate, Resumed(keys)),
           active' \subseteq (active \ gone) \union keys, keys \cap gone = {},
           slots = {f \in fed : <<f[2], f[3]>> \notin gone},
           \A f : Coming(f) => Coming(f)'
    PROVE  Fed'
<1>1. \A o \in outbound : <<Feed(o)[2], Feed(o)[3]>> = <<Owner(o.id), o.bt>>
  BY DEF Feed
<1>2. \A o \in outbound : OnAir(o, active') /\ Feed(o) \in fed => Feed(o) \in slots
  BY <1>1 DEF OnAir
<1>3. \A o \in outbound : OnAir(o, active') /\ ~ OnAir(o, active) /\ Feed(o) \notin fed =>
         Feed(o) \in Resumed(keys)
  BY <1>1 DEF OnAir, Resumed
<1> QED
  BY <1>2, <1>3, StillFed

LEMMA FedKept ==
    ASSUME Types, Fed, Next
    PROVE  Fed'
<1>0. ASSUME tasks \subseteq tasks' PROVE \A f : Coming(f) => Coming(f)'
  BY <1>0 DEF Coming
<1>1. CASE SyncRuntime
  <2>1. PICK d \in Ts6 : d = loop.clid
    BY <1>1, LoopParts DEF SyncRuntime
  <2>2. /\ BridgesBecome(inbound, outbound, fed, NoneLate, Resumed(Shown(d))) /\ tasks' = tasks
        /\ active' = {k \in active : k[1] # d} \union Shown(d)
    BY <1>1, <2>1 DEF SyncRuntime
  <2>3. PICK keys : keys = Shown(d)
    OBVIOUS
  <2>4. PICK gone : gone = {}
    OBVIOUS
  <2>5. active' \subseteq (active \ gone) \union keys /\ keys \cap gone = {}
    BY <2>2, <2>3, <2>4
  <2>6. fed = {f \in fed : <<f[2], f[3]>> \notin gone}
    BY <2>4
  <2>7. BridgesBecome(inbound, outbound, fed, NoneLate, Resumed(keys)) /\ \A f : Coming(f) => Coming(f)'
    BY <1>0, <2>2, <2>3
  <2> QED
    BY <2>5, <2>6, <2>7, ResumedFed
<1>2. CASE SyncBridges
  <2>1. PICK stale : stale = StaleBridges(loop.snap)
    OBVIOUS
  <2>2. CloseStreams(stale) /\ active' = active /\ tasks' = tasks
    BY <1>2, <2>1 DEF SyncBridges
  <2> QED
    BY <1>0, <2>2, CloseStreamsFed
<1>3. CASE Deliver
  BY <1>0, <1>3, FedUnchanged DEF Deliver
<1>4. CASE JoinStream
  <2>1. PICK id, v : CloseViewer(id, v) \/ UNCHANGED bridges
    BY <1>4 DEF JoinStream
  <2>2. active' = active /\ tasks \subseteq tasks'
    BY <1>4 DEF JoinStream
  <2> QED
    BY <1>0, <2>1, <2>2, CloseViewerFed, FedUnchanged
<1>5. CASE Leave
  <2>1. PICK c : ClearMedia(c) \/ UNCHANGED <<active, bridges, events>>
    BY <1>5 DEF Leave
  <2>2. tasks' = tasks
    BY <1>5 DEF Leave
  <2> QED
    BY <1>0, <2>1, <2>2, ClearMediaFed, FedUnchanged
<1>6. ASSUME NEW c \in Ts6,
             \/ Connect(c) \/ RequestStreamInfo(c) \/ EndSession(c)
             \/ \E id \in Ids, bt \in Bts : UpdateStream(c, id, bt)
             \/ \E id \in Ids, remove \in BOOLEAN : JoinStreamRequest(c, id, remove)
             \/ \E id \in RealIds : RespondToServer(c, id)
             \/ \E id \in Ids, v \in Ts6 \ {c} : RespondToClient(c, id, v)
      PROVE  Fed'
  <2>1. UNCHANGED bridges /\ active' = active
    BY <1>6 DEF Connect, RequestStreamInfo, EndSession, UpdateStream, JoinStreamRequest,
                RespondToServer, RespondToClient
  <2>2. tasks \subseteq tasks'
    BY <1>6 DEF Connect, RequestStreamInfo, EndSession, UpdateStream, JoinStreamRequest,
                RespondToServer, RespondToClient
  <2> QED
    BY <1>0, <2>1, <2>2, FedUnchanged
<1>7. ASSUME NEW c \in Ts6, Disconnect(c) PROVE Fed'
  BY <1>0, <1>7, CloseClientFed DEF Disconnect
<1>8. ASSUME NEW c \in Ts6, NEW bt \in Bts, SetupStream(c, bt) PROVE Fed'
  <2>1. PICK old : old = {id \in StreamsOf(c) : streams[id].bt = bt}
    OBVIOUS
  <2>2. CloseStreams(old) /\ active' = active /\ tasks' = tasks
    BY <1>8, <2>1 DEF SetupStream
  <2> QED
    BY <1>0, <2>2, CloseStreamsFed
<1>9. ASSUME NEW c \in Ts6, NEW ids, StopStream(c, ids) PROVE Fed'
  BY <1>0, <1>9, CloseStreamsFed DEF StopStream
<1>10. ASSUME NEW c \in Ts6, NEW id, NEW v, RemoveClientFromStream(c, id, v) PROVE Fed'
  BY <1>0, <1>10, CloseViewerFed DEF RemoveClientFromStream
<1>11. ASSUME NEW t \in tasks, ShowRegistered(t) PROVE Fed'
  <2>1. PICK o : o = [id |-> t.id, viewer |-> t.viewer, bt |-> t.bt]
    OBVIOUS
  <2>2. PICK u : u = [t EXCEPT !.does = "feed"]
    OBVIOUS
  <2>3. t \in Shows /\ t.does = "show"
    BY <1>11 DEF ShowRegistered, Types, Receives
  <2>4. u.does = "feed" /\ Feed(u) = Feed(o)
    BY <2>1, <2>2, <2>3 DEF Shows, Feed
  <2>5. /\ outbound' = OutboundWith(o) /\ fed' = fed /\ active' = active
        /\ late'.feed = (late.feed \union {Feed(p) : p \in outbound \ OutboundWith(o)}) \cap fed
        /\ cut' = cut \cap ({Feed(p) : p \in OutboundWith(o)} \ fed)
        /\ tasks' = (tasks \ {t}) \union {u}
    BY <1>11, <2>1, <2>2 DEF ShowRegistered, BridgesBecome, NoneLate
  <2>6. o \in OutboundWith(o) /\ OutboundWith(o) \subseteq outbound \union {o}
    BY DEF OutboundWith
  <2>7. \A f : Coming(f) => Coming(f)'
    BY <2>3, <2>5 DEF Coming
  <2>8. Coming(Feed(o))'
    BY <2>4, <2>5 DEF Coming
  <2>9. ASSUME NEW f \in fed' \ late'.feed PROVE \E p \in outbound' : Feed(p) = f
    <3>1. PICK p \in outbound : Feed(p) = f
      BY <2>5, <2>9 DEF Fed
    <3>2. p \in OutboundWith(o)
      BY <2>5, <2>9, <3>1
    <3> QED
      BY <2>5, <3>1, <3>2
  <2>10. ASSUME NEW p \in outbound', OnAir(p, active')
         PROVE  Feed(p) \in fed' \union cut' \/ Coming(Feed(p))'
    <3>1. CASE p = o
      BY <3>1, <2>8
    <3>2. CASE p # o
      <4>1. p \in outbound /\ OnAir(p, active)
        BY <2>5, <2>6, <2>10, <3>2
      <4>2. Feed(p) \in fed \union cut \/ Coming(Feed(p))
        BY <4>1 DEF Fed, OnAir, Coming
      <4> QED
        BY <2>5, <2>7, <4>2
    <3> QED
      BY <3>1, <3>2
  <2> QED
    BY <2>9, <2>10 DEF Fed, OnAir, Coming
<1>12. ASSUME NEW t \in tasks, ShowFed(t) PROVE Fed'
  <2>1. PICK f : f = Feed(t)
    OBVIOUS
  <2>2. /\ outbound' = outbound /\ fed' = fed \union {f} /\ active' = active
        /\ late'.feed = (late.feed \union IF \E o \in outbound : Feed(o) = f THEN {} ELSE {f})
                        \cap (fed \union {f})
        /\ cut' = cut \cap ({Feed(p) : p \in outbound} \ (fed \union {f}))
        /\ tasks' = tasks \ {t}
    BY <1>12, <2>1 DEF ShowFed, BridgesBecome, NoneLate
  <2>3. \A g : Coming(g) => Coming(g)' \/ g = f
    BY <2>1, <2>2 DEF Coming
  <2>4. ASSUME NEW g \in fed' \ late'.feed PROVE \E p \in outbound' : Feed(p) = g
    BY <2>2, <2>4 DEF Fed
  <2>5. ASSUME NEW p \in outbound', OnAir(p, active')
        PROVE  Feed(p) \in fed' \union cut' \/ Coming(Feed(p))'
    <3>1. Feed(p) \in fed \union cut \/ Coming(Feed(p))
      BY <2>2, <2>5 DEF Fed, OnAir, Coming
    <3> QED
      BY <2>2, <2>3, <2>5, <3>1
  <2> QED
    BY <2>4, <2>5 DEF Fed, OnAir, Coming
<1>13. ASSUME NEW t \in tasks, ReceiveRegistered(t) PROVE Fed'
  <2>1. /\ outbound' = outbound /\ fed' = fed /\ active' = active /\ late'.feed = late.feed \cap fed
        /\ cut' = cut \cap ({Feed(p) : p \in outbound} \ fed)
        /\ tasks' = tasks \ {t} /\ t.does = "receive"
    BY <1>13 DEF ReceiveRegistered, BridgesBecome, NoneLate
  <2>2. \A f : Coming(f) => Coming(f)'
    BY <2>1 DEF Coming
  <2>3. ASSUME NEW p \in outbound', OnAir(p, active')
        PROVE  Feed(p) \in fed' \union cut' \/ Coming(Feed(p))'
    <3>1. Feed(p) \in fed \union cut \/ Coming(Feed(p))
      BY <2>1, <2>3 DEF Fed, OnAir, Coming
    <3> QED
      BY <2>1, <2>2, <2>3, <3>1
  <2> QED
    BY <2>1, <2>3 DEF Fed, OnAir, Coming
<1>14. ASSUME NEW t \in tasks, TaskFails(t) PROVE Fed'
  <2>1. UNCHANGED bridges /\ active' = active /\ tasks' = tasks \ {t} /\ t.does # "feed"
    BY <1>14 DEF TaskFails
  <2>2. \A f : Coming(f) => Coming(f)'
    BY <2>1 DEF Coming
  <2> QED
    BY <2>1, <2>2, FedUnchanged
<1>15. ASSUME NEW c \in Others, NEW off \in SUBSET Bts, NEW on \in SUBSET Bts, NEW denied,
              BroadcastVideo(c, off, on, denied)
       PROVE  Fed'
  <2>1. PICK gone : gone = {c} \X off
    OBVIOUS
  <2>2. PICK keys : keys = {c} \X on
    OBVIOUS
  <2>3. /\ active' = (active \ gone) \union keys /\ off \cap on = {} /\ tasks' = tasks
        /\ BridgesBecome(inbound, outbound, {f \in fed : <<f[2], f[3]>> \notin gone}, NoneLate, Resumed(keys))
    BY <1>15, <2>1, <2>2 DEF BroadcastVideo
  <2>4. keys \cap gone = {}
    BY <2>1, <2>2, <2>3
  <2> QED
    BY <1>0, <2>3, <2>4, ResumedFed
<1>16. ASSUME NEW c \in Clients, Move(c) \/ Kick(c) PROVE Fed'
  BY <1>0, <1>16, ClearMediaFed DEF Move, Kick
<1> QED
  BY <1>1, <1>2, <1>3, <1>4, <1>5, <1>6, <1>7, <1>8, <1>9, <1>10, <1>11, <1>12, <1>13, <1>14,
     <1>15, <1>16 DEF Next

-----------------------------------------------------------------------------
(* The theorems.                                                           *)

\* A step that changes nothing keeps everything.
LEMMA StutterSound ==
    ASSUME IInv, UNCHANGED vars
    PROVE  IInv'
<1>1. UNCHANGED <<waiting, online, session, active, streams, seq, inbound, outbound, fed, late, cut,
                  tasks, events, loop, ops, excuse, unheard>>
  BY DEF vars, who, bridges
<1>2. Types' /\ TaskRoom' /\ OneBridge'
  BY <1>1 DEF IInv, Types, TaskRoom, OneBridge
<1>3. \A c : /\ StreamsOf(c)' = StreamsOf(c) /\ Shown(c)' = Shown(c)
             /\ (Handles(c)' <=> Handles(c)) /\ (Leaving(c)' <=> Leaving(c))
  BY <1>1, StreamsStay, LoopStays
<1>4. Who'
  BY <1>1, <1>3 DEF IInv, Who
<1>5. \A c \in Ts6 : Matched(c)'
  BY <1>1, <1>3 DEF IInv, Matched, Of, Plain
<1>6. Listed' /\ Follows' /\ Fed'
  BY <1>1 DEF IInv, Listed, TrueTypes, Lists, Follows, Ids, Cleaned, Fed
<1> QED
  BY <1>2, <1>4, <1>5, <1>6 DEF IInv

\* The invariant is inductive.
LEMMA Inductive == IInv /\ [Next]_vars => IInv'
<1> SUFFICES ASSUME IInv, [Next]_vars PROVE IInv'
  OBVIOUS
<1>1. CASE Next
  <2>1. Types' /\ OneBridge' /\ TaskRoom' /\ Who'
    BY <1>1, TypesKept, RoomKept, WhoKept DEF IInv
  <2>2. \A c \in Ts6 : Matched(c)'
    BY <1>1, MatchedKept DEF IInv
  <2>3. Listed' /\ Follows' /\ Fed'
    BY <1>1, ListedKept, FollowsKept, FedKept DEF IInv
  <2> QED
    BY <2>1, <2>2, <2>3 DEF IInv
<1>2. CASE UNCHANGED vars
  BY <1>2, StutterSound
<1> QED
  BY <1>1, <1>2

LEMMA AlwaysSound == Spec => []IInv
BY InitSound, Inductive, PTL DEF Spec

\* The tables hold what their types say, there is one bridge per stream and viewer
\* and never more tasks than the bound.
THEOREM TypeCorrect == Spec => []TypeOK
<1>1. IInv => TypeOK
  BY DEF IInv, Types, TaskRoom, OneBridge, Registry, Ids, TypeOK, Outbound, Slots
<1> QED
  BY <1>1, AlwaysSound, PTL

\* When the loop has nothing left to do, what a TS6 client streams is what it
\* broadcasts, and a client that is gone shows nothing.
THEOREM StreamsAreBroadcast == Spec => []StreamsMatchBroadcasts
<1>1. IInv => StreamsMatchBroadcasts
  <2> SUFFICES ASSUME IInv, loop = Idle, NEW c \in Ts6, excuse[c] = {}
               PROVE  /\ {k \in active : k[1] = c} = {<<c, streams[id].bt>> : id \in StreamsOf(c) \ BridgeIds}
                      /\ c \notin online => StreamsOf(c) = {}
    BY DEF StreamsMatchBroadcasts
  <2>1. Matched(c) /\ Plain(c) /\ ~ Handles(c)
    BY IdleRests DEF IInv, Plain
  <2>2. StreamsOf(c) \ BridgeIds = StreamsOf(c) /\ Of(c, active) = Shown(c)
    BY <2>1 DEF Matched
  <2> QED
    BY <2>1, <2>2 DEF Matched, Of, Shown
<1> QED
  BY <1>1, AlwaysSound, PTL

\* When no event waits, every broadcast is listed for the TS6 clients, and every
\* synthetic stream has its broadcast.
THEOREM BroadcastsAreListed == Spec => []BroadcastsListed
<1>1. IInv => BroadcastsListed
  BY IdleRests DEF IInv, Listed, Lists, BroadcastsListed, Ids
<1> QED
  BY <1>1, AlwaysSound, PTL

\* No bridge outlives its stream, nor a viewer that disconnects.
THEOREM BridgesEndWithStreams == Spec => []BridgesFollowStreams
<1>1. IInv => BridgesFollowStreams
  BY DEF IInv, Follows, BridgesFollowStreams, Cleaned
<1> QED
  BY <1>1, AlwaysSound, PTL

\* When all is settled, every bridge to a viewer has the slot that feeds it, and
\* every slot a bridge.
THEOREM BridgesHaveFeeds == Spec => []BridgesAreFed
<1>1. IInv => BridgesAreFed
  <2> SUFFICES ASSUME IInv, loop = Idle, events = "none", ~ unheard, tasks = {}
               PROVE  /\ \A o \in outbound \ late.out : o.bt = o.id[3] => Feed(o) \in fed \union cut
                      /\ \A f \in fed \ late.feed : \E o \in outbound : Feed(o) = f
    BY DEF BridgesAreFed
  <2>1. TrueTypes(streams) /\ Lists(streams, active)
    BY IdleRests DEF IInv, Listed
  <2>2. ASSUME NEW o \in outbound \ late.out, o.bt = o.id[3] PROVE Feed(o) \in fed \union cut
    <3>1. o.id \in Ids \cap BridgeIds
      BY DEF IInv, Follows, Types, Outbound
    <3>2. <<Owner(o.id), o.bt>> \in active
      BY <2>1, <2>2, <3>1 DEF TrueTypes, Lists, Ids
    <3> QED
      BY <3>2 DEF IInv, Fed
  <2> QED
    BY <2>2 DEF IInv, Fed
<1> QED
  BY <1>1, AlwaysSound, PTL

=============================================================================
