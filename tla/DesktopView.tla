---------------------------- MODULE DesktopView ----------------------------
(***************************************************************************)
(* Desktop clients over UDP: their sessions and what they see.             *)
(*                                                                         *)
(* One task serves all of them.  It takes turns between the packets of the *)
(* clients and a queue of notifications, which every broadcast_event of    *)
(* the server fills under the runtime lock.  A command of a client is      *)
(* handled in several critical sections: the tables change in one, the     *)
(* answer goes to the client itself at once, and the notification for the  *)
(* others is queued in a later one.  The queued copy of what a client did  *)
(* itself is not sent to it a second time.                                 *)
(*                                                                         *)
(* The handlers for TeamSpeak 3, TeamSpeak 6 and TeaSpeak clients are      *)
(* copies of each other; where two of them do the same, they are two names *)
(* for one step here.  The other actors (queries, housekeeping) act in one *)
(* critical section per command.  Permissions are assumed to be granted.   *)
(*                                                                         *)
(* `view' is what the notifications sent to a client make it believe.      *)
(* `excused' names the objects on which it may be wrong, each added by one *)
(* of six causes: Silent, Torn, Overtaken, Denied, Outdated, Withheld.     *)
(***************************************************************************)
EXTENDS OnlineTables

CONSTANTS
    Addrs,          \* UDP addresses
    KindsAt,        \* KindsAt[a]: the kinds of client that connect from address a
    MaxClid,        \* bound on the ids of UDP clients
    CreateKinds,    \* kinds of channel that channelcreate is asked for
    EditKinds,      \* and channeledit
    MaxOps,         \* bound on commands, reconnections and time-outs after the first connection
    MaxQueue        \* bound: no command is taken while so many notifications wait

ASSUME ViewBoundsAssumption ==
    /\ MaxChannelId \in Nat \ {0} /\ MaxClid \in Nat /\ MaxOps \in Nat /\ MaxQueue \in Nat
    /\ ParentsUsed \subseteq 0..MaxChannelId
    /\ CreateKinds \union EditKinds \subseteq {"temporary", "permanent"}
    /\ KindsAt \in [Addrs -> SUBSET {"ts3", "ts6", "teaspeak"}]

Bot        == MaxClid + 1      \* a music bot: online, without a session
Invoker    == MaxClid + 2      \* the query client that gives commands
Clients    == 1..Bot

\* What a client is told about.
Channel(c) == <<"channel", c>>
Client(k)  == <<"client", k>>
Away(k)    == <<"away", k>>
Objects    == ({"channel"} \X ChannelIds) \union ({"client", "away"} \X Clients)

VARIABLES
    away,       \* the online clients whose away flag is set
    owed,       \* pending_temp_cleanups
    queue,      \* notif_rx
    sess,       \* the session of every address
    nextId,     \* NEXT_TS3_CLIENT_ID
    task,       \* the command the transport task is in the middle of
    view, excused,
    ops

viewVars == <<channels, where, away, bots, owed, queue, sess, nextId, task, view, excused, ops>>

\* `again': the id has been online before its present stay.
NoSession == [id |-> 0, on |-> FALSE, named |-> FALSE, kind |-> "ts3", again |-> FALSE]
Idle      == [stage |-> "idle", addr |-> CHOOSE a \in Addrs : TRUE,
              o |-> Client(1), v |-> 0, home |-> 0, temp |-> FALSE]
Nothing   == [o \in Objects |-> 0]

ViewInit ==
    /\ channels = [c \in {1} |-> [parent |-> 0, order |-> 0, kind |-> "permanent", dflt |-> TRUE]]
    /\ where = [k \in Clients |-> IF k = Bot THEN 1 ELSE 0]
    /\ away = {}
    /\ bots = {Bot}
    /\ owed = {}
    /\ queue = <<>>
    /\ sess = [a \in Addrs |-> NoSession]
    /\ nextId = 1
    /\ task = Idle
    /\ view = [a \in Addrs |-> Nothing]
    /\ excused = [a \in Addrs |-> {}]
    /\ ops = 0

-----------------------------------------------------------------------------
(* Notifications.                                                          *)

Event(t, o, v, by) == [t |-> t, o |-> o, v |-> v, by |-> by]

\* The objects a notification tells about.
Told(e) == IF e.t \in {"enter", "left"} THEN {e.o, Away(e.o[2])} ELSE {e.o}

\* Mutant: everything a client did itself is held back, also what it was not answered.
EverythingOwn(e, id) == e.by = id

\* is_self_already_sent
IsSelfAlreadySent(e, id) ==
    CASE e.t = "left"   -> \/ e.o[2] = id /\ e.by = 0
                           \/ e.by = id /\ e.o[2] # id
      [] e.t = "update" -> FALSE
      [] OTHER          -> e.by = id

\* The value of an object in the tables.
Value(ch, w, aw, o) ==
    CASE o[1] = "channel" -> IF o[2] \notin DOMAIN ch THEN 0
                             ELSE IF ch[o[2]].kind = "temporary" THEN 1 ELSE 2
      [] o[1] = "client"  -> w[o[2]]
      [] o[1] = "away"    -> IF w[o[2]] # 0 /\ o[2] \in aw THEN 1 ELSE 0

\* What a client makes of a notification (the client is not in this repository):
\* a change of something it does not know is ignored.  The rest of an enter
\* notification is read from the tables when it is sent.
Apply(v, e) ==
    CASE e.t = "enter" -> [v EXCEPT ![e.o] = e.v,
                                    ![Away(e.o[2])] = Value(channels, where, away, Away(e.o[2]))]
      [] e.t = "left"  -> [v EXCEPT ![e.o] = 0, ![Away(e.o[2])] = 0]
      [] e.t \in {"moved", "edited"} -> [v EXCEPT ![e.o] = IF @ = 0 THEN 0 ELSE e.v]
      [] e.t = "update" -> [v EXCEPT ![e.o] = IF v[Client(e.o[2])] = 0 THEN 0 ELSE e.v]
      [] OTHER -> [v EXCEPT ![e.o] = e.v]

\* What it makes of those of the notifications es that are sent to it.
ApplyAll(v, es, sent) ==
    LET after[i \in 0..Len(es)] ==
            IF i = 0 THEN v
            ELSE IF es[i] \in sent THEN Apply(after[i-1], es[i]) ELSE after[i-1]
    IN  after[Len(es)]

-----------------------------------------------------------------------------
(* The causes of a wrong view.                                             *)

\* Silent: objects that changed although no notification says so.
Silent(changed, es, late) == changed \ ((UNION {Told(e) : e \in ToSet(es)}) \union late)

\* Torn: somebody changed what the task has changed and not announced yet; the
\* older value is announced last.
Torn(a, changed) == IF task # Idle /\ task.addr # a THEN changed \intersect {task.o} ELSE {}

\* Overtaken: the answer to a is sent ahead of queued notifications about the
\* same objects.
Overtaken(a, q, objs) ==
    {o \in objs : \E e \in ToSet(q) : o \in Told(e) /\ ~ IsSelfAlreadySent(e, sess[a].id)}

\* Denied: objects announced as gone that are there.  A cleanup is announced for
\* the second time when the channel id has been given away again; a client that
\* throws itself out is put back by the end of its own command.
Denied(Now(_), es) ==
    {o \in Objects : Now(o) # 0 /\ \E e \in ToSet(es) : e.t \in {"left", "deleted"} /\ o \in Told(e)}

(***************************************************************************)
(* The tables become ch, w and aw, and es is broadcast; `late' will be     *)
(* announced by the task itself; `base' is what was excused so far.        *)
(***************************************************************************)
Commit(ch, w, aw, es, late, base) ==
    LET Now(o) == Value(ch, w, aw, o)
        changed == {o \in Objects : Now(o) # Value(channels, where, away, o)}
    IN  /\ channels' = ch
        /\ where' = w
        /\ away' = aw
        /\ bots' = {b \in bots : w[b] # 0}
        /\ queue' = queue \o es
        /\ excused' = [a \in Addrs |->
               base[a] \union Torn(a, changed) \union Silent(changed, es, late) \union Denied(Now, es)]

ExcusedFor(a, objs) == [excused EXCEPT ![a] = @ \union objs]

\* Every step of an outside actor counts, except the first connection of a
\* client, which the bound on ids limits.
Act == ops < MaxOps /\ ops' = ops + 1 /\ Len(queue) < MaxQueue
ActUnless(first) == IF first THEN UNCHANGED ops ELSE Act

-----------------------------------------------------------------------------
(* What the runtime does for everybody.                                    *)

\* The notifications about a cleanup: the bots first, then the channels.
CleanupEvents(objs, by) ==
    SetToSeq({Event("left", o, 0, by) : o \in {p \in objs : p[1] = "client"}})
    \o SetToSeq({Event("deleted", o, 0, by) : o \in {p \in objs : p[1] = "channel"}})

\* What cleanup_temporary_channel of channel c removes.
CleanedUp(ch, w, c) ==
    {o \in Objects : /\ o[1] # "away"
                     /\ Value(ch, w, {}, o) # 0
                     /\ Value(ChannelsAfterCleanup(ch, w, bots, c),
                              WhereAfterCleanup(ch, w, bots, c), {}, o) = 0}

\* remove_session_client: the cleanup is announced at once and remembered, to be
\* announced again by the next command.
RemoveUdpClient(k, base) ==
    LET w == [where EXCEPT ![k] = 0]
        gone == CleanedUp(channels, w, where[k])
    IN  /\ Commit(ChannelsAfterCleanup(channels, w, bots, where[k]),
                  WhereAfterCleanup(channels, w, bots, where[k]), away \ {k},
                  (IF where[k] = 0 THEN <<>> ELSE <<Event("left", Client(k), 0, 0)>>)
                      \o CleanupEvents(gone, 0), {}, base)
        /\ owed' = owed \union gone

\* The notifications of a command: its own, what was owed, its cleanup of `left'.
CommandEvents(by, ch, w, es, left) ==
    es \o CleanupEvents(owed, by) \o CleanupEvents(CleanedUp(ch, w, left), by)

\* The end of execute_request_with_notifications.
FinishRequest(by, ch, w, aw, es, left, base) ==
    LET done == ChannelsAfterCleanup(ch, w, bots, left)
        put  == WhereAfterCleanup(ch, w, bots, left)
    IN  /\ Commit(done, put, aw, CommandEvents(by, ch, w, es, left), {}, base)
        /\ owed' = {}

QueryCreate(p, kind) ==
    /\ Act
    /\ p = 0 \/ p \in DOMAIN channels
    /\ \E c \in ChannelIds :
          /\ IsNextChannelId(channels, c)
          /\ LET ch == AddChannel(channels, c, p, None, kind, FALSE)
             IN  FinishRequest(Invoker, ch, where, away,
                     <<Event("created", Channel(c), Value(ch, where, away, Channel(c)), Invoker)>>,
                     0, excused)
    /\ UNCHANGED <<sess, nextId, task, view>>

\* Only the channel that was named is announced: not the channels below it, and
\* not where the clients in them went.
QueryDelete(c) ==
    LET D == Subtree(channels, c)
    IN  /\ Act
        /\ c \in DOMAIN channels \ {1} /\ ~ channels[c].dflt
        /\ FinishRequest(Invoker, RemoveChannels(channels, D, channels[c].parent),
               WhereAfterDelete(where, bots, D, channels[c].kind, DefaultChannelId(channels)),
               away, <<Event("deleted", Channel(c), 0, Invoker)>>, 0, excused)
        /\ UNCHANGED <<sess, nextId, task, view>>

QueryEdit(c, kind) ==
    /\ Act
    /\ c \in DOMAIN channels /\ channels[c].kind # kind
    /\ LET ch == [channels EXCEPT ![c].kind = kind]
       IN  FinishRequest(Invoker, ch, where, away,
               <<Event("edited", Channel(c), Value(ch, where, away, Channel(c)), Invoker)>>,
               0, excused)
    /\ UNCHANGED <<sess, nextId, task, view>>

QueryMove(k, c) ==
    /\ Act
    /\ where[k] # 0 /\ c \in DOMAIN channels /\ c # where[k]
    /\ FinishRequest(Invoker, channels, [where EXCEPT ![k] = c], away,
           <<Event("moved", Client(k), c, Invoker)>>, where[k], excused)
    /\ UNCHANGED <<sess, nextId, task, view>>

\* What handle_clientkick leaves of the tables and announces itself, without an
\* invoker: the cleanup comes before the client's leaving.
KickChannels(k) == ChannelsAfterCleanup(channels, [where EXCEPT ![k] = 0], bots, where[k])
KickWhere(k)    == WhereAfterCleanup(channels, [where EXCEPT ![k] = 0], bots, where[k])
KickCleanup(k)  == CleanedUp(channels, [where EXCEPT ![k] = 0], where[k])
KickEvents(by, k) == <<Event("left", Client(k), 0, by)>> \o CleanupEvents(KickCleanup(k), by)

QueryKick(k) ==
    /\ Act
    /\ where[k] # 0
    /\ FinishRequest(Invoker, KickChannels(k), KickWhere(k), away \ {k},
           CleanupEvents(KickCleanup(k), 0) \o KickEvents(Invoker, k), 0, excused)
    /\ UNCHANGED <<sess, nextId, task, view>>

\* The housekeeping drops a client that was not heard of; the client itself is
\* not told, and its session goes on.
Zombie(k) ==
    /\ Act
    /\ where[k] # 0 /\ k \notin bots
    /\ RemoveUdpClient(k, [a \in Addrs |->
           IF sess[a].id = k THEN excused[a] \union {Client(k), Away(k)} ELSE excused[a]])
    /\ UNCHANGED <<sess, nextId, task, view>>

-----------------------------------------------------------------------------
(* The handshake.                                                          *)

\* TS3INIT GetCookie: an older session of the address is switched off.
GetCookie(a) ==
    /\ Act /\ task = Idle
    /\ sess[a].on
    /\ sess' = [sess EXCEPT ![a].on = FALSE]
    /\ UNCHANGED <<channels, where, away, bots, owed, queue, nextId, task, view, excused>>

\* A new session keeps the id of the one it replaces.
AssignedClid(a) == IF sess[a].id # 0 THEN sess[a].id ELSE nextId

NewSession(a, kind) ==
    /\ ActUnless(sess[a].id = 0) /\ task = Idle
    /\ kind \in KindsAt[a]
    /\ AssignedClid(a) <= MaxClid
    /\ sess' = [sess EXCEPT ![a] =
           [id |-> AssignedClid(a), on |-> TRUE, named |-> FALSE, kind |-> kind,
            again |-> sess[a].id # 0]]
    /\ nextId' = IF sess[a].id = 0 THEN nextId + 1 ELSE nextId
    /\ view' = [view EXCEPT ![a] = Nothing]
    /\ excused' = [excused EXCEPT ![a] = {}]
    /\ UNCHANGED <<channels, where, away, bots, owed, queue, task>>

\* SolvePuzzle with initivexpand for TeaSpeak, with initivexpand2 for the others.
SolvePuzzleTeaSpeak(a) == NewSession(a, "teaspeak")
SolvePuzzleOt1(a)      == NewSession(a, "ts3") \/ NewSession(a, "teaspeak")

\* A command that only such clients send makes a session one of TeamSpeak 6 or of
\* TeaSpeak, at any time.
Recognize(a, kind) ==
    /\ task = Idle /\ sess[a].on
    /\ kind \in KindsAt[a] \ {"ts3"}
    /\ sess[a].kind \notin {"teaspeak", kind}
    /\ sess' = [sess EXCEPT ![a].kind = kind]
    /\ UNCHANGED <<channels, where, away, bots, owed, queue, nextId, task, view, excused, ops>>

\* A packet from an address whose session is switched off removes the session.
DeadPacket(a) ==
    /\ task = Idle
    /\ sess[a].id # 0 /\ ~ sess[a].on
    /\ sess' = [sess EXCEPT ![a] = NoSession]
    /\ view' = [view EXCEPT ![a] = Nothing]
    /\ excused' = [excused EXCEPT ![a] = {}]
    /\ UNCHANGED <<channels, where, away, bots, owed, queue, nextId, task, ops>>

\* What a new session will be wrong about: the notifications queued before its
\* snapshot v are shown to it after the snapshot, without the ones held back as
\* its own.
Outdated(id, v, q) ==
    LET shown == {e \in ToSet(q) : ~ IsSelfAlreadySent(e, id)}
    IN  {o \in Objects : ApplyAll(v, q, shown)[o] # v[o]}

(***************************************************************************)
(* clientinit, also a second one in the same session: the client enters    *)
(* the default channel, and the snapshot it is sent is taken under the     *)
(* same lock.                                                              *)
(***************************************************************************)
Snapshot(w, aw) == [o \in Objects |-> Value(channels, w, aw, o)]

ClientInit(a, kind) ==
    LET id   == sess[a].id
        home == DefaultChannelId(channels)
        w    == [where EXCEPT ![id] = home]
        es   == <<Event("enter", Client(id), home, id)>>
        v    == Snapshot(w, away \ {id})
    IN  /\ ActUnless(~ sess[a].named /\ ~ sess[a].again) /\ task = Idle
        /\ sess[a].on /\ sess[a].kind = kind
        /\ sess' = [sess EXCEPT ![a].named = TRUE, ![a].again = @ \/ sess[a].named]
        /\ Commit(channels, w, away \ {id}, es, {},
               [excused EXCEPT ![a] = Outdated(id, v, queue \o es)])
        /\ view' = [view EXCEPT ![a] = v]
        /\ UNCHANGED <<owed, nextId, task>>

Ts3ClientInit(a) == ClientInit(a, "ts3")
Ts6ClientInit(a) == ClientInit(a, "ts6")
TeaClientInit(a) == ClientInit(a, "teaspeak")

-----------------------------------------------------------------------------
(* Commands of a client.                                                   *)

Command(a, kind) ==
    /\ Act /\ task = Idle
    /\ sess[a].on /\ sess[a].named /\ sess[a].kind = kind

\* The task goes on with the command later.
Continue(stage, a, o, v, home, temp) ==
    task' = [stage |-> stage, addr |-> a, o |-> o, v |-> v, home |-> home, temp |-> temp]

\* The second half of clientmove, channelcreate and the like: the answer to the
\* client itself, and the notification.  The value is the one of the first half.
Publish(kind, stage) ==
    LET a == task.addr
        e == Event(stage, task.o, task.v, sess[a].id)
    IN  /\ task.stage = stage
        /\ sess[a].kind = kind
        /\ view' = [view EXCEPT ![a] = Apply(@, e)]
        /\ queue' = Append(queue, e)
        /\ task' = Idle
        /\ UNCHANGED <<channels, where, away, bots, owed, sess, nextId, excused, ops>>

Ts3Created == Publish("ts3", "created")
Ts6Created == Publish("ts6", "created")
TeaCreated == Publish("teaspeak", "created")
Ts3Edited  == Publish("ts3", "edited")
Ts6Edited  == Publish("ts6", "edited")
TeaEdited  == Publish("teaspeak", "edited")
Ts3Deleted == Publish("ts3", "deleted")
Ts6Deleted == Publish("ts6", "deleted")
TeaDeleted == Publish("teaspeak", "deleted")
Ts3Moved   == Publish("ts3", "moved")
Ts6Moved   == Publish("ts6", "moved")
TeaMoved   == Publish("teaspeak", "moved")

\* clientmove of k to c; a client that is not online moves in words only.
UdpClientMove(a, kind, k, c) ==
    LET w == IF where[k] # 0 THEN [where EXCEPT ![k] = c] ELSE where
    IN  /\ Command(a, kind)
        /\ c \in DOMAIN channels
        /\ k = sess[a].id \/ where[k] # 0
        /\ Commit(channels, w, away, <<>>, {Client(k)},
               ExcusedFor(a, Overtaken(a, queue, {Client(k)})))
        /\ Continue("moved", a, Client(k), c, 0, FALSE)
        /\ UNCHANGED <<owed, sess, nextId, view>>

Ts3ClientMove(a, k, c) == UdpClientMove(a, "ts3", k, c)
Ts6ClientMove(a, k, c) == UdpClientMove(a, "ts6", k, c)
TeaClientMove(a, k, c) == UdpClientMove(a, "teaspeak", k, c)

\* channelcreate: the parent is not looked up and no sibling is relinked; the
\* default flag is taken from the others if it is asked for.
UdpChannelCreate(a, kind, p, ck, flag) ==
    /\ Command(a, kind)
    /\ \E c \in ChannelIds :
          /\ IsNextChannelId(channels, c)
          /\ LET ch == [d \in DOMAIN channels \union {c} |->
                           IF d = c THEN [parent |-> p, order |-> 0, kind |-> ck, dflt |-> flag]
                           ELSE [channels[d] EXCEPT !.dflt = @ /\ ~ flag]]
             IN  /\ Commit(ch, where, away, <<>>, {Channel(c)},
                        ExcusedFor(a, Overtaken(a, queue, {Channel(c)})))
                 /\ Continue("created", a, Channel(c), Value(ch, where, away, Channel(c)), 0, FALSE)
    /\ UNCHANGED <<owed, sess, nextId, view>>

Ts3ChannelCreate(a, p, ck, flag) == UdpChannelCreate(a, "ts3", p, ck, flag)
Ts6ChannelCreate(a, p, ck, flag) == UdpChannelCreate(a, "ts6", p, ck, flag)
TeaChannelCreate(a, p, ck, flag) == UdpChannelCreate(a, "teaspeak", p, ck, flag)

\* channeledit: with flag_default the flag is taken from all others, also when
\* there is no channel c.
UdpChannelEdit(a, kind, c, ck, flag) ==
    LET flagged == [d \in DOMAIN channels |->
                      IF flag THEN [channels[d] EXCEPT !.dflt = d = c] ELSE channels[d]]
        ch == IF c \in DOMAIN channels THEN [flagged EXCEPT ![c].kind = ck] ELSE flagged
    IN  /\ Command(a, kind)
        /\ Commit(ch, where, away, <<>>, {Channel(c)},
               ExcusedFor(a, Overtaken(a, queue, {Channel(c)})))
        /\ IF c \in DOMAIN channels
           THEN Continue("edited", a, Channel(c), Value(ch, where, away, Channel(c)), 0, FALSE)
           ELSE UNCHANGED task
        /\ UNCHANGED <<owed, sess, nextId, view>>

Ts3ChannelEdit(a, c, ck, flag) == UdpChannelEdit(a, "ts3", c, ck, flag)
Ts6ChannelEdit(a, c, ck, flag) == UdpChannelEdit(a, "ts6", c, ck, flag)
TeaChannelEdit(a, c, ck, flag) == UdpChannelEdit(a, "teaspeak", c, ck, flag)

\* channeldelete, first part: channel c goes, whatever it is and whatever hangs
\* below it; the default channel was looked up before.
UdpChannelDelete(a, kind, c) ==
    /\ Command(a, kind)
    /\ c \in DOMAIN channels
    /\ Commit([d \in DOMAIN channels \ {c} |-> channels[d]], where, away, <<>>, {Channel(c)},
           ExcusedFor(a, Overtaken(a, queue, {Channel(c)})))
    /\ Continue("vacate", a, Channel(c), 0, DefaultChannelId(channels),
                channels[c].kind = "temporary")
    /\ UNCHANGED <<owed, sess, nextId, view>>

Ts3ChannelDelete(a, c) == UdpChannelDelete(a, "ts3", c)
Ts6ChannelDelete(a, c) == UdpChannelDelete(a, "ts6", c)
TeaChannelDelete(a, c) == UdpChannelDelete(a, "teaspeak", c)

\* Its second part: the client itself, and nobody else, is moved out of it.
Vacate(moved, removed) ==
    LET a  == task.addr
        id == sess[a].id
        w  == [k \in Clients |-> IF k \in removed THEN 0
                                 ELSE IF k \in moved THEN task.home ELSE where[k]]
        es == SetToSeq({Event("left", Client(k), 0, 0) : k \in removed})
              \o SetToSeq({Event("moved", Client(k), task.home, id) : k \in moved})
        objs == {Client(k) : k \in moved}
    IN  /\ task.stage = "vacate"
        /\ Commit(channels, w, away, es, {},
               ExcusedFor(a, Overtaken(a, queue, objs)))
        /\ view' = [view EXCEPT ![a] = ApplyAll(@, es, ToSet(es))]
        /\ Continue("deleted", a, task.o, 0, 0, FALSE)
        /\ UNCHANGED <<owed, sess, nextId, ops>>

InDeleted == {k \in Clients : where[k] = task.o[2] /\ task.o[2] # 0}

Ts3Vacate ==
    /\ sess[task.addr].kind = "ts3"
    /\ Vacate(InDeleted \intersect {sess[task.addr].id}, {})

Ts6Vacate ==
    /\ sess[task.addr].kind = "ts6"
    /\ Vacate(InDeleted \intersect {sess[task.addr].id}, {})

\* For TeaSpeak also the music bots, which go with a temporary channel.
TeaVacate ==
    /\ sess[task.addr].kind = "teaspeak"
    /\ IF task.temp
       THEN Vacate(InDeleted \intersect {sess[task.addr].id}, InDeleted \intersect bots)
       ELSE Vacate(InDeleted \intersect ({sess[task.addr].id} \union bots), {})

\* clientupdate of the away flag; nobody else writes it in between.
ClientUpdate(a, kind, flag) ==
    LET id == sess[a].id
        aw == IF flag THEN away \union {id} ELSE away \ {id}
    IN  /\ Command(a, kind)
        /\ where[id] # 0 /\ aw # away
        /\ Commit(channels, where, aw, <<Event("update", Away(id), IF flag THEN 1 ELSE 0, id)>>,
                  {}, excused)
        /\ UNCHANGED <<owed, sess, nextId, task, view>>

Ts3ClientUpdate(a, flag) == ClientUpdate(a, "ts3", flag)
Ts6ClientUpdate(a, flag) == ClientUpdate(a, "ts6", flag)
TeaClientUpdate(a, flag) == ClientUpdate(a, "teaspeak", flag)

\* clientdisconnect: the client is removed, the session is switched off and goes.
ClientDisconnect(a, kind) ==
    /\ Command(a, kind)
    /\ RemoveUdpClient(sess[a].id, [excused EXCEPT ![a] = {}])
    /\ sess' = [sess EXCEPT ![a] = NoSession]
    /\ view' = [view EXCEPT ![a] = Nothing]
    /\ UNCHANGED <<nextId, task>>

Ts3ClientDisconnect(a) == ClientDisconnect(a, "ts3")
Ts6ClientDisconnect(a) == ClientDisconnect(a, "ts6")
TeaClientDisconnect(a) == ClientDisconnect(a, "teaspeak")

(***************************************************************************)
(* Any other command goes through the runtime with a query session made up *)
(* for it, whose away and mute flags are off: sync_session_client writes   *)
(* them over the client's, and puts a client back that is not online.      *)
(* The notifications of the command are the answer, too.                   *)
(***************************************************************************)
Synced(a, w) == [w EXCEPT ![sess[a].id] = IF where[sess[a].id] # 0 THEN where[sess[a].id] ELSE 1]

\* The part of a command's notifications that the client is answered.
Unanswered(kind) == IF kind = "teaspeak" THEN {"update", "enter", "left"} ELSE {"update"}
Answered(kind, es) == {e \in ToSet(es) : e.t \notin Unanswered(kind)}

\* Withheld: what is not answered and then held back as the client's own.
Withheld(id, es, answer) ==
    {e \in ToSet(es) \ answer : IsSelfAlreadySent(e, id)}

\* es are the notifications of the command; `first' was broadcast ahead of them.
Runtime(a, kind, ch, w, aw, first, es) ==
    LET id     == sess[a].id
        all    == CommandEvents(id, ch, w, es, 0)
        answer == Answered(kind, all)
        objs   == UNION {Told(e) : e \in answer}
        lost   == UNION {Told(e) : e \in Withheld(id, all, answer)}
    IN  /\ Command(a, kind)
        /\ FinishRequest(id, ch, Synced(a, w), aw \ {id}, first \o es, 0,
               ExcusedFor(a, lost \union Overtaken(a, queue, objs)))
        /\ view' = [view EXCEPT ![a] = ApplyAll(@, all, answer)]
        /\ sess' = [sess EXCEPT ![a].again = @ \/ where[id] = 0]
        /\ UNCHANGED <<nextId, task>>

\* A command that changes nothing else, and clientkick.
RuntimeCommand(a, kind) ==
    \/ Runtime(a, kind, channels, where, away, <<>>, <<>>)
    \/ \E k \in Clients :
          /\ where[k] # 0
          /\ Runtime(a, kind, KickChannels(k), KickWhere(k), away \ {k},
                     CleanupEvents(KickCleanup(k), 0), KickEvents(sess[a].id, k))

Ts3RuntimeCommand(a) == RuntimeCommand(a, "ts3")
Ts6RuntimeCommand(a) == RuntimeCommand(a, "ts6")
TeaRuntimeCommand(a) == RuntimeCommand(a, "teaspeak")

\* clientgetvariables: the client is sent what the tables say of k, or made-up
\* values when k is not online.
GetVariables(a, kind, k) ==
    /\ Command(a, kind)
    /\ view' = [view EXCEPT ![a] =
           Apply(@, Event("update", Away(k), Value(channels, where, away, Away(k)), 0))]
    /\ view' # view
    /\ UNCHANGED <<channels, where, away, bots, owed, queue, sess, nextId, task, excused>>

Ts3GetVariables(a, k) == GetVariables(a, "ts3", k)
Ts6GetVariables(a, k) == GetVariables(a, "ts6", k)
TeaGetVariables(a, k) == GetVariables(a, "teaspeak", k)

-----------------------------------------------------------------------------
(* The notification arm of the transport loop.                             *)

Listening(a) == sess[a].on /\ sess[a].named

\* Mutant: the session is not switched off by the client's own leaving.
NeverEnds(a, e) == FALSE

\* Mutant: any leaving switches the reader's session off.
AnyLeavingEnds(a, e) == Listening(a) /\ ~ IsSelfAlreadySent(e, sess[a].id) /\ e.t = "left"

\* A client that reads of its own leaving has its session switched off.
Ends(a, e) == Listening(a) /\ ~ IsSelfAlreadySent(e, sess[a].id) /\ e.t = "left" /\ e.o[2] = sess[a].id

Notify ==
    LET e == Head(queue)
        kept(a) == sess[a].on /\ ~ Ends(a, e)
    IN  /\ task = Idle
        /\ queue # <<>>
        /\ queue' = Tail(queue)
        /\ sess' = [a \in Addrs |-> IF kept(a) THEN sess[a] ELSE NoSession]
        /\ view' = [a \in Addrs |->
               IF ~ kept(a) THEN Nothing
               ELSE IF Listening(a) /\ ~ IsSelfAlreadySent(e, sess[a].id)
                    THEN Apply(view[a], e) ELSE view[a]]
        /\ excused' = [a \in Addrs |-> IF kept(a) THEN excused[a] ELSE {}]
        /\ UNCHANGED <<channels, where, away, bots, owed, nextId, task, ops>>

-----------------------------------------------------------------------------

ViewNext ==
    \/ \E a \in Addrs :
          \/ GetCookie(a) \/ SolvePuzzleTeaSpeak(a) \/ SolvePuzzleOt1(a)
          \/ DeadPacket(a) \/ \E kind \in KindsAt[a] : Recognize(a, kind)
          \/ Ts3ClientInit(a) \/ Ts6ClientInit(a) \/ TeaClientInit(a)
          \/ Ts3ClientDisconnect(a) \/ Ts6ClientDisconnect(a) \/ TeaClientDisconnect(a)
          \/ Ts3RuntimeCommand(a) \/ Ts6RuntimeCommand(a) \/ TeaRuntimeCommand(a)
          \/ \E k \in Clients :
                Ts3GetVariables(a, k) \/ Ts6GetVariables(a, k) \/ TeaGetVariables(a, k)
          \/ \E k \in Clients, c \in ChannelIds :
                Ts3ClientMove(a, k, c) \/ Ts6ClientMove(a, k, c) \/ TeaClientMove(a, k, c)
          \/ \E p \in ParentsUsed, ck \in CreateKinds, flag \in BOOLEAN :
                \/ Ts3ChannelCreate(a, p, ck, flag) \/ Ts6ChannelCreate(a, p, ck, flag)
                \/ TeaChannelCreate(a, p, ck, flag)
          \/ \E c \in ChannelIds, ck \in EditKinds, flag \in BOOLEAN :
                \/ Ts3ChannelEdit(a, c, ck, flag) \/ Ts6ChannelEdit(a, c, ck, flag)
                \/ TeaChannelEdit(a, c, ck, flag)
          \/ \E c \in ChannelIds :
                Ts3ChannelDelete(a, c) \/ Ts6ChannelDelete(a, c) \/ TeaChannelDelete(a, c)
          \/ \E flag \in BOOLEAN :
                Ts3ClientUpdate(a, flag) \/ Ts6ClientUpdate(a, flag) \/ TeaClientUpdate(a, flag)
    \/ Ts3Created \/ Ts6Created \/ TeaCreated \/ Ts3Edited \/ Ts6Edited \/ TeaEdited
    \/ Ts3Deleted \/ Ts6Deleted \/ TeaDeleted \/ Ts3Moved \/ Ts6Moved \/ TeaMoved
    \/ Ts3Vacate \/ Ts6Vacate \/ TeaVacate
    \/ Notify
    \/ \E p \in ParentsUsed, kind \in CreateKinds : QueryCreate(p, kind)
    \/ \E c \in ChannelIds : QueryDelete(c) \/ \E kind \in EditKinds : QueryEdit(c, kind)
    \/ \E k \in Clients :
          Zombie(k) \/ QueryKick(k) \/ \E c \in ChannelIds : QueryMove(k, c)

ViewSpec == ViewInit /\ [][ViewNext]_viewVars

-----------------------------------------------------------------------------
(* Properties.                                                             *)

\* The tables hold what their types say.
ViewTypeOK ==
    /\ DOMAIN channels \subseteq ChannelIds
    /\ where \in [Clients -> 0..MaxChannelId]
    /\ away \subseteq Clients /\ bots \subseteq {Bot}
    /\ owed \subseteq Objects
    /\ \A e \in ToSet(queue) : e.o \in Objects /\ e.by \in 0..Invoker
    /\ sess \in [Addrs -> [id : 0..MaxClid, on : BOOLEAN, named : BOOLEAN,
                           kind : {"ts3", "ts6", "teaspeak"}, again : BOOLEAN]]
    /\ nextId \in 1..(MaxClid + 1)
    /\ task.addr \in Addrs /\ task.o \in Objects
    /\ view \in [Addrs -> [Objects -> 0..MaxChannelId \union 0..2]]
    /\ excused \in [Addrs -> SUBSET Objects]
    /\ ops \in 0..MaxOps

\* Once the notifications are delivered, every client that is connected sees the
\* channels, who is in them and who is away as they are, but for objects that
\* changed without a notification, whose notification was queued after one of a
\* later change, whose own answer overtook an older notification, or which were
\* announced as gone while they are there (a cleanup announced again after the
\* channel id was reused, a client put back by its own command), or what a
\* TeaSpeak client did itself and is neither answered nor told.
ViewsAgree ==
    task = Idle /\ queue = <<>> =>
        \A a \in Addrs : Listening(a) =>
            \A o \in Objects :
                \/ view[a][o] = Value(channels, where, away, o)
                \/ o \in excused[a]
                \/ o[1] = "away" /\ Client(o[2]) \in excused[a]

\* A session that goes on has its client online, unless the client is about to
\* read that it was thrown out, or was dropped for its silence: the one removal
\* that nobody tells the client about.
SessionsOnline ==
    \A a \in Addrs : Listening(a) /\ where[sess[a].id] = 0 =>
        \/ Client(sess[a].id) \in excused[a]
        \/ \E e \in ToSet(queue) : e.t = "left" /\ e.o = Client(sess[a].id) /\ e.by # 0

\* A notification ends the session of a client that is online only when the
\* client threw itself out, or when it is about an earlier stay under the same
\* id: in the session this one replaced, before a second clientinit, or before a
\* command of its own put the client back that had been thrown out.
OnlyOwnLeavingEnds ==
    [][\A a \in Addrs :
          /\ queue # <<>> /\ queue' = Tail(queue)
          /\ Listening(a) /\ sess'[a] = NoSession
          /\ where[sess[a].id] # 0
          => sess[a].again \/ Head(queue).by = sess[a].id]_viewVars
=============================================================================
