---------------------------- MODULE ChannelTree ----------------------------
(***************************************************************************)
(* The channel tree of one virtual server under the commands that change   *)
(* it and under the removal of temporary channels                          *)
(* (runtime/normalization_and_helpers.rs).  Channels are created, edited   *)
(* and deleted by two sets of handlers: those of the runtime, which        *)
(* queries, web clients and music bots use (runtime/handlers/channel.rs),  *)
(* and those of the UDP transport for TeamSpeak 3, TeamSpeak 6 and         *)
(* TeaSpeak clients (protocols/../channel_and_runtime_dispatch.rs), which   *)
(* write the same table without the checks and the relinking of the first. *)
(*                                                                         *)
(* All of it runs under the mutex of BaselineRuntime, so one command is    *)
(* one step, except the UDP channeldelete, which has two critical          *)
(* sections.  A command that is refused (permission, missing argument,     *)
(* unknown id) changes nothing and is a stuttering step, except            *)
(* channeledit, which can fail after it has already written.  A command    *)
(* that walks up a cycle of parents never returns the mutex: it has no     *)
(* step, and the server does nothing any more.                             *)
(*                                                                         *)
(* Clients appear here only as occupants: where[k] is the channel_id of    *)
(* the entry of client k in online_clients, 0 when it has none.  Presence  *)
(* models the sessions behind them, DesktopView what clients are told.     *)
(***************************************************************************)
EXTENDS ChannelOps

CONSTANTS
    MaxChannelId,   \* bound on the ids channelcreate hands out
    Clients,        \* ids under which somebody can be online
    Bots,           \* those that belong to music bots
    KindsUsed,      \* channel kinds that requests ask for
    ForceValues,    \* values of channeldelete's force argument
    Dialects,       \* kinds of UDP client there are
    RawIds,         \* parents and orders that UDP clients ask for
    MaxCommands     \* bound on the channel commands

ASSUME MaxChannelIdAssumption == MaxChannelId \in Nat /\ MaxChannelId >= 2
ASSUME BotsAssumption == Bots \subseteq Clients
ASSUME KindsAssumption == KindsUsed \subseteq Kinds
\* The ServerQuery protocol knows force=0 and force=1.
ASSUME ForceAssumption == ForceValues \subseteq {0, 1}
ASSUME UdpAssumption == Dialects \subseteq {"ts3", "ts6", "teaspeak"} /\ MaxCommands \in Nat
ASSUME RawIdsAssumption == RawIds \subseteq 0..MaxChannelId

VARIABLES
    channels,   \* the channel table, see ChannelOps
    where,      \* client -> channel, 0 when offline
    deleting,   \* a UDP channeldelete between its two critical sections
    commands,   \* channel commands so far, of both sets of handlers
    loose,      \* history: channels whose parent link nobody has checked
    unlinked    \* history: parents below which the order is as a UDP client left it

links == <<loose, unlinked>>
vars == <<channels, where, deleting, commands, links>>

ChannelIds == 1..MaxChannelId

Channel == [parent : 0..MaxChannelId, order : 0..MaxChannelId,
            kind : Kinds, dflt : BOOLEAN]

\* seed_store: the default channel and one more, nobody connected yet.
Init ==
    /\ channels = [c \in 1..2 |->
                     [parent |-> 0, order |-> c - 1, kind |-> "permanent", dflt |-> c = 1]]
    /\ where = [k \in Clients |-> 0]
    /\ deleting = {} /\ commands = 0
    /\ loose = {} /\ unlinked = {}

\* The runtime has placed or removed the channels cs and relinked those below ps.
Mended(cs, ps) ==
    /\ loose' = loose \ cs
    /\ unlinked' = unlinked \ ps
    /\ UNCHANGED deleting

\* Client positions become w, then the channel c that was left is cleaned up.
SettleAfterLeaving(w, c) ==
    LET kept == ChannelsAfterCleanup(channels, w, Bots, c)
        gone == DOMAIN channels \ DOMAIN kept
    IN  /\ channels' = kept
        /\ where' = WhereAfterCleanup(channels, w, Bots, c)
        /\ Mended(gone, {channels[d].parent : d \in gone})
        /\ UNCHANGED commands

(***************************************************************************)
(* channel_is_descendant and the family count of clientmove return: the    *)
(* chain of parents that starts at p comes to an end.                      *)
(***************************************************************************)
WalkEnds(ch, p) ==
    p \in DOMAIN ch =>
        \E d \in DOMAIN ch : ChannelIsDescendant(ch, p, d) /\ ch[d].parent \notin DOMAIN ch

-----------------------------------------------------------------------------
(* Channel commands of the runtime.                                        *)

Command == commands < MaxCommands /\ commands' = commands + 1

ChannelCreate(p, order, kind, dflt) ==
    \E c \in ChannelIds :
        /\ Command
        /\ IsNextChannelId(channels, c)
        /\ p = 0 \/ p \in DOMAIN channels
        /\ AnchorFound(OrderedSiblingIds(channels, p, None), order)
        /\ channels' = AddChannel(channels, c, p, order, kind, dflt)
        /\ Mended({c}, {p})
        /\ UNCHANGED where

ChannelDelete(c, force) ==
    LET D == IF force = 1 THEN Subtree(channels, c) ELSE {c}
    IN  /\ Command
        /\ c \in DOMAIN channels
        /\ c # 1 /\ ~ channels[c].dflt
        /\ force = 0 => Siblings(channels, c) = {} /\ Occupants(where, c) = {}
        /\ channels' = RemoveChannels(channels, D, channels[c].parent)
        /\ where' = WhereAfterDelete(where, Bots, D, channels[c].kind, DefaultChannelId(channels))
        /\ Mended(D, {channels[c].parent})

\* channeledit's early write of flag_default, before the position is checked.
FlagAsDefault(ch, c) == [d \in DOMAIN ch |-> [ch[d] EXCEPT !.dflt = (d = c)]]

Flagged(c, dflt) == IF dflt THEN FlagAsDefault(channels, c) ELSE channels

\* The parent channeledit moves c to: cpid, or the present one if absent.
EditParent(c, cpid) == IF cpid = None THEN channels[c].parent ELSE cpid

Repositions(cpid, order) == cpid # None \/ order # None

EditPositionRefused(c, cpid, order) ==
    /\ Repositions(cpid, order)
    /\ ~ ParentAllowed(channels, c, EditParent(c, cpid))

\* An anchor that is no sibling is ignored: c stays where it is.
EditMoves(ch, c, cpid, order) ==
    /\ Repositions(cpid, order)
    /\ AnchorFound(OrderedSiblingIds(ch, EditParent(c, cpid), c), order)

Repositioned(ch, c, cpid, order) ==
    IF EditMoves(ch, c, cpid, order) THEN MoveBelow(ch, c, EditParent(c, cpid), order) ELSE ch

\* The kind of c after an edit; flag_default=1 makes any channel permanent.
EditedKind(c, dflt, kind) ==
    IF dflt THEN "permanent" ELSE IF kind = "same" THEN channels[c].kind ELSE kind

ChannelEdit(c, dflt, cpid, order, kind) ==
    /\ Command
    /\ c \in DOMAIN channels
    /\ dflt => kind = "same"    \* a kind beside flag_default=1 has no effect
    /\ ~ EditPositionRefused(c, cpid, order)
    /\ Repositions(cpid, order) => WalkEnds(channels, EditParent(c, cpid))
    /\ channels' = [Repositioned(Flagged(c, dflt), c, cpid, order)
                       EXCEPT ![c].kind = EditedKind(c, dflt, kind)]
    /\ IF EditMoves(Flagged(c, dflt), c, cpid, order)
       THEN Mended({c}, {channels[c].parent, EditParent(c, cpid)})
       ELSE Mended({}, {})
    /\ UNCHANGED where

\* The error replies 768 and 770 leave after flag_default has been written.
ChannelEditRefused(c, dflt, cpid, order) ==
    /\ Command
    /\ c \in DOMAIN channels
    /\ EditPositionRefused(c, cpid, order)
    /\ channels' = Flagged(c, dflt)
    /\ UNCHANGED <<where, deleting, links>>

ChannelMove(c, p, order) ==
    /\ Command
    /\ c \in DOMAIN channels
    /\ ParentAllowed(channels, c, p) /\ WalkEnds(channels, p)
    /\ AnchorFound(OrderedSiblingIds(channels, p, c), order)
    /\ channels' = MoveBelow(channels, c, p, order)
    /\ Mended({c}, {channels[c].parent, p})
    /\ UNCHANGED where

-----------------------------------------------------------------------------
(* Channel commands of UDP clients, one at a time for all of them.         *)

UdpCommand == Dialects # {} /\ deleting = {} /\ Command

\* The table with a channel c whose parent and order are as the client gave them.
UdpAdd(ch, c, p, order, kind, dflt) ==
    [d \in DOMAIN ch \union {c} |->
        IF d = c THEN [parent |-> p, order |-> order, kind |-> kind, dflt |-> dflt]
        ELSE [ch[d] EXCEPT !.dflt = @ /\ ~ dflt]]

UdpChannelCreate(p, order, kind, dflt) ==
    \E c \in ChannelIds :
        /\ UdpCommand
        /\ IsNextChannelId(channels, c)
        /\ channels' = UdpAdd(channels, c, p, order, kind, dflt)
        /\ loose' = IF p \in {0} \union DOMAIN channels THEN loose ELSE loose \union {c}
        /\ unlinked' = unlinked \union {p}
        /\ UNCHANGED <<where, deleting>>

\* With flag_default the flag is taken from the others also when there is no c.
UdpEdit(ch, c, dflt, order, kind) ==
    [d \in DOMAIN ch |->
        LET r == IF dflt THEN FlagAsDefault(ch, c)[d] ELSE ch[d]
        IN  IF d # c THEN r
            ELSE [r EXCEPT !.order = IF order = None THEN @ ELSE order,
                           !.kind = IF kind = "same" THEN @ ELSE kind]]

UdpChannelEdit(c, dflt, order, kind) ==
    /\ UdpCommand
    /\ channels' = UdpEdit(channels, c, dflt, order, kind)
    /\ unlinked' = IF c \in DOMAIN channels /\ order # None
                   THEN unlinked \union {channels[c].parent} ELSE unlinked
    /\ UNCHANGED <<where, deleting, loose>>

\* channeldelete of client k, first part: channel c goes, whatever it is and
\* whatever hangs below it.
UdpChannelDelete(k, dialect, c) ==
    /\ UdpCommand
    /\ k \notin Bots
    /\ c \in DOMAIN channels
    /\ channels' = [d \in DOMAIN channels \ {c} |-> channels[d]]
    /\ deleting' = {[c |-> c, home |-> DefaultChannelId(channels),
                     moved |-> {k} \union (IF dialect = "teaspeak" THEN Bots ELSE {}),
                     temp |-> channels[c].kind = "temporary"]}
    /\ loose' = (loose \ {c}) \union (Siblings(channels, c) \ {c})
    /\ unlinked' = unlinked \union {channels[c].parent}
    /\ UNCHANGED where

\* Where the clients are that the handler moves out of the channel it deleted.
Vacated(w, d) ==
    [k \in Clients |-> IF w[k] # d.c \/ k \notin d.moved THEN w[k]
                       ELSE IF d.temp /\ k \in Bots THEN 0 ELSE d.home]

\* Second part.  The removal of a bot cleans up after it, which matters when a
\* channel was created under the same id in between.
UdpVacate ==
    \E d \in deleting :
        LET bots == {k \in Bots \cap d.moved : d.temp /\ where[k] = d.c}
            w    == [k \in Clients |-> IF k \in bots THEN 0 ELSE where[k]]
            kept == IF bots = {} THEN channels ELSE ChannelsAfterCleanup(channels, w, Bots, d.c)
            gone == DOMAIN channels \ DOMAIN kept
        IN  /\ channels' = kept
            /\ where' = Vacated(where, d)
            /\ deleting' = {}
            /\ loose' = loose \ gone
            /\ unlinked' = unlinked \ {channels[e].parent : e \in gone}
            /\ UNCHANGED commands

-----------------------------------------------------------------------------
(* Occupants.                                                              *)

\* A client is bootstrapped in the default channel or in the one its temporary
\* password names; a music bot is created in a channel that must exist.
ClientEnter(k, c) ==
    /\ where[k] = 0
    /\ c \in DOMAIN channels \/ (k \notin Bots /\ c = DefaultChannelId(channels))
    /\ where' = [where EXCEPT ![k] = c]
    /\ UNCHANGED <<channels, deleting, commands, links>>

\* A command of a UDP client that is not online any more puts it back, into
\* channel 1 whether there is one or not.
ClientPutBack(k) ==
    /\ Dialects # {} /\ deleting = {}
    /\ where[k] = 0 /\ k \notin Bots
    /\ where' = [where EXCEPT ![k] = 1]
    /\ UNCHANGED <<channels, deleting, commands, links>>

\* clientmove of a UDP client, which cleans nothing up.
UdpClientMove(k, c) ==
    /\ Dialects # {} /\ deleting = {}
    /\ where[k] # 0
    /\ c \in DOMAIN channels
    /\ where' = [where EXCEPT ![k] = c]
    /\ UNCHANGED <<channels, deleting, commands, links>>

\* clientmove, followed by the cleanup of the channel left behind.
ClientMove(k, c) ==
    /\ where[k] # 0
    /\ c \in DOMAIN channels
    /\ SettleAfterLeaving([where EXCEPT ![k] = c], where[k])

\* clientkick reasonid=4.
ClientKickFromChannel(k) ==
    /\ where[k] # 0
    /\ DOMAIN channels # {}
    /\ SettleAfterLeaving([where EXCEPT ![k] = DefaultChannelId(channels)], where[k])

\* remove_session_client: disconnect, kick from the server, ban or time-out.
ClientLeave(k) ==
    /\ where[k] # 0
    /\ SettleAfterLeaving([where EXCEPT ![k] = 0], where[k])

\* quit: sync_session_client drops the client and cleans nothing up.
ClientQuit(k) ==
    /\ where[k] # 0
    /\ k \notin Bots
    /\ where' = [where EXCEPT ![k] = 0]
    /\ UNCHANGED <<channels, deleting, commands, links>>

\* One turn of run_housekeeping's loop over the temporary channels.
CleanupTemporaryChannel(c) ==
    SettleAfterLeaving(where, c)

Orders == {None} \union 0..MaxChannelId

Next ==
    \/ \E p \in 0..MaxChannelId, o \in Orders, k \in KindsUsed, d \in BOOLEAN :
          ChannelCreate(p, o, k, d)
    \/ \E c \in ChannelIds, f \in ForceValues : ChannelDelete(c, f)
    \/ \E c \in ChannelIds, d \in BOOLEAN, p \in Orders, o \in Orders,
          kind \in {"same"} \union KindsUsed : ChannelEdit(c, d, p, o, kind)
    \/ \E c \in ChannelIds, d \in BOOLEAN, p \in Orders, o \in Orders :
          ChannelEditRefused(c, d, p, o)
    \/ \E c \in ChannelIds, p \in 0..MaxChannelId, o \in Orders : ChannelMove(c, p, o)
    \/ \E p, o \in RawIds, kind \in KindsUsed, d \in BOOLEAN :
          UdpChannelCreate(p, o, kind, d)
    \/ \E c \in ChannelIds, d \in BOOLEAN, o \in {None} \union RawIds,
          kind \in {"same"} \union KindsUsed : UdpChannelEdit(c, d, o, kind)
    \/ \E k \in Clients, dialect \in Dialects, c \in ChannelIds :
          UdpChannelDelete(k, dialect, c)
    \/ UdpVacate
    \/ \E k \in Clients : ClientPutBack(k) \/ \E c \in ChannelIds : UdpClientMove(k, c)
    \/ \E k \in Clients, c \in ChannelIds : ClientEnter(k, c)
    \/ \E k \in Clients, c \in ChannelIds : ClientMove(k, c)
    \/ \E k \in Clients : ClientKickFromChannel(k)
    \/ \E k \in Clients : ClientLeave(k)
    \/ \E k \in Clients : ClientQuit(k)
    \/ \E c \in ChannelIds : CleanupTemporaryChannel(c)

Spec == Init /\ [][Next]_vars

-----------------------------------------------------------------------------
(* Properties.                                                             *)

\* A UDP channeldelete between its parts: the channel, where its occupants are
\* to go, which of them, and whether it was a temporary channel.
Deletion == [c : ChannelIds, home : ChannelIds, moved : SUBSET Clients, temp : BOOLEAN]

\* The tables hold what their types say.
TypeOK ==
    /\ DOMAIN channels \subseteq ChannelIds
    /\ channels \in [DOMAIN channels -> Channel]
    /\ where \in [Clients -> 0..MaxChannelId]
    /\ deleting \subseteq Deletion
    /\ commands \in 0..MaxCommands
    /\ loose \subseteq DOMAIN channels
    /\ unlinked \subseteq 0..MaxChannelId

\* Every parent_id that names no channel, and every cycle, goes back to a link
\* that a UDP command made without a check (channelcreate below an id that does
\* not exist, its own included; channeldelete above other channels) and that no
\* command of the runtime has replaced since.  No create, edit, move, forced
\* delete or cleanup of the runtime adds one, in whatever table it finds: a cycle
\* makes channel_is_descendant and the family count of clientmove walk for ever,
\* with the runtime mutex held.
TreeWellFormed ==
    LET checked == DOMAIN channels \ loose
    IN  /\ \A c \in checked : channels[c].parent \in {0} \union DOMAIN channels
        /\ NoCycle([c \in checked |-> channels[c]])

\* At most one channel carries flag_default, whatever sequence of creates,
\* edits (failed ones too) and deletes came before.
AtMostOneDefault == OneDefault(channels)

\* The siblings below a parent form one complete order chain that starts at 0,
\* so that clients who sort by channel_order show each channel once, unless a UDP
\* command was the last to put, renumber or remove one of them: whatever order
\* it left, the next command of the runtime below that parent chains all of them.
SiblingChain ==
    \A p \in ({0} \union DOMAIN channels) \ unlinked : CompleteChain(channels, p)

\* Who is in an existing channel, or is about to be moved out of a deleted one.
Placed(ch, w, del, k) ==
    \/ w[k] \in {0} \union DOMAIN ch
    \/ \E d \in del : w[k] = d.c /\ k \in d.moved

(***************************************************************************)
(* While the channel that serves as the default survives, a step leaves a  *)
(* client in a channel that is gone only in three ways: a UDP              *)
(* channeldelete, which moves the client that gives it (and the bots, for  *)
(* TeaSpeak) and nobody else; its second part, when the default channel it *)
(* looked up in the first is gone by then; and the command of a UDP client *)
(* that was dropped, which enters channel 1.  Forced deletes of a subtree, *)
(* kicks, moves and the cleanup of temporary channels strand nobody.       *)
(***************************************************************************)
NobodyStranded ==
    [][DefaultChannelId(channels) \in DOMAIN channels' =>
          \A k \in Clients : Placed(channels, where, deleting, k) =>
              \/ Placed(channels', where', deleting', k)
              \/ deleting = {} /\ \E d \in deleting' : where[k] = d.c
              \/ \E d \in deleting \ deleting' : where[k] = d.c /\ d.home \notin DOMAIN channels'
              \/ ClientPutBack(k)]_vars

\* channeldelete answers "default channel cannot be deleted in baseline"
\* (handlers/channel.rs:473): the channel flagged default never disappears.
DefaultChannelNeverDeleted ==
    [][\A c \in DOMAIN channels : channels[c].dflt => c \in DOMAIN channels']_vars
=============================================================================
