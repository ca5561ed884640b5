----------------------------- MODULE ChannelOps -----------------------------
(***************************************************************************)
(* The pure part of the channel list of one virtual server, and where the  *)
(* clients are left when a channel goes.                                   *)
(*                                                                         *)
(* A channel table `ch' is a function from the ids of the channels that    *)
(* exist to records with the four fields of `struct Channel' that decide   *)
(* its place and its lifetime: parent (parent_id, 0 for the root level),   *)
(* order (the id of the sibling it follows, 0 for the first one), kind and *)
(* dflt (flag_default).  The other fields (name, topic, codec, password,   *)
(* powers) never influence the structure and are left out.                 *)
(*                                                                         *)
(* The code keeps the channels in a Vec to which channelcreate appends the *)
(* largest id, so the first match of a search is the match of least id.    *)
(***************************************************************************)
EXTENDS Integers, FiniteSets, SequencesExt

\* Option::None for an optional channel id of a request.
None == -1

Kinds == {"permanent", "semi", "temporary"}

Siblings(ch, p) == {c \in DOMAIN ch : ch[c].parent = p}

Least(S) == CHOOSE x \in S : \A y \in S : x <= y

\* ids followed by the least of the ids in more, if there is one.
Extended(ids, more) == IF more = {} THEN ids ELSE Append(ids, Least(more))

(***************************************************************************)
(* Follow the order chain from 0; when it breaks off, the siblings not met *)
(* yet are appended in the order of their ids (a BTreeSet is iterated).    *)
(***************************************************************************)
OrderedSiblingIds(ch, p, excluded) ==
    LET siblings == Siblings(ch, p) \ {excluded}
        n == Cardinality(siblings)
        Remaining(ids) == siblings \ ToSet(ids)
        Followers(ids) ==
            {c \in Remaining(ids) : ch[c].order = IF ids = <<>> THEN 0 ELSE Last(ids)}
        walk[i \in 0..n] ==
            IF i = 0 THEN <<>> ELSE Extended(walk[i-1], Followers(walk[i-1]))
        rest[i \in 0..n] ==
            IF i = 0 THEN walk[n] ELSE Extended(rest[i-1], Remaining(rest[i-1]))
    IN  rest[n]

\* The children of p named in ids are chained in that sequence.
RelinkSiblingOrders(ch, p, ids) ==
    LET Before(c) == {d \in Siblings(ch, p) :
                         \E i \in 1..(Len(ids) - 1) : ids[i] = d /\ ids[i+1] = c}
    IN  [c \in DOMAIN ch |->
            IF ch[c].parent = p /\ Contains(ids, c)
            THEN [ch[c] EXCEPT !.order =
                     IF Before(c) = {} THEN 0 ELSE CHOOSE d \in Before(c) : TRUE]
            ELSE ch[c]]

\* resolve_insert_index finds a place: 0 is the front, an absent order the
\* end, any other order the sibling to follow.
AnchorFound(ids, order) == order \in {0, None} \/ Contains(ids, order)

\* ids with c inserted at the index that resolve_insert_index returns.
InsertAtAnchor(ids, order, c) ==
    CASE order = 0    -> <<c>> \o ids
      [] order = None -> Append(ids, c)
      [] OTHER        -> LET i == SelectInSeq(ids, LAMBDA x : x = order)
                         IN  SubSeq(ids, 1, i) \o <<c>> \o SubSeq(ids, i + 1, Len(ids))

\* A set of channels that contains the parent of each of its members.
UpClosed(ch, A) ==
    \A x \in A : ch[x].parent \in DOMAIN ch => ch[x].parent \in A

(***************************************************************************)
(* channel_is_descendant: c lies on the parent chain that starts at        *)
(* candidate (the candidate itself included).  The code walks the chain,   *)
(* and would never stop on a cycle.                                        *)
(***************************************************************************)
ChannelIsDescendant(ch, candidate, c) ==
    /\ candidate \in DOMAIN ch
    /\ \A A \in SUBSET DOMAIN ch : candidate \in A /\ UpClosed(ch, A) => c \in A

\* The channels a forced channeldelete collects by its fixpoint loop.
Subtree(ch, c) == {d \in DOMAIN ch : ChannelIsDescendant(ch, d, c)}

\* default_channel_id_for_server(..).unwrap_or(1)
DefaultChannelId(ch) ==
    LET flagged == {c \in DOMAIN ch : ch[c].dflt}
        first   == {c \in DOMAIN ch : ch[c].parent = 0 /\ ch[c].order = 0}
    IN  IF flagged # {} THEN Least(flagged)
        ELSE IF first # {} THEN Least(first)
        ELSE IF DOMAIN ch # {} THEN Least(DOMAIN ch)
        ELSE 1

\* c is one more than the largest id in use, the id channelcreate assigns.
IsNextChannelId(ch, c) ==
    /\ \A d \in DOMAIN ch : d < c
    /\ c = 1 \/ c - 1 \in DOMAIN ch

\* Mutant: channelcreate forgets to take the flag from the old default channel.
ClearNoDefault(ch) == ch

ClearDefault(ch) == [c \in DOMAIN ch |-> [ch[c] EXCEPT !.dflt = FALSE]]

\* Mutant: channelcreate stores the requested order as it came.
AddWithoutRelink(ch, c, p, order, kind, dflt) ==
    [d \in DOMAIN ch \union {c} |->
        IF d = c THEN [parent |-> p, order |-> order, dflt |-> dflt, kind |-> kind]
        ELSE IF dflt THEN ClearDefault(ch)[d] ELSE ch[d]]

\* The table after channelcreate pushed channel c and relinked its siblings.
AddChannel(ch, c, p, order, kind, dflt) ==
    LET cleared == IF dflt THEN ClearDefault(ch) ELSE ch
        added   == [d \in DOMAIN ch \union {c} |->
                       IF d = c
                       THEN [parent |-> p, order |-> 0, dflt |-> dflt,
                             kind |-> IF dflt THEN "permanent" ELSE kind]
                       ELSE cleared[d]]
    IN  RelinkSiblingOrders(added, p,
            InsertAtAnchor(OrderedSiblingIds(ch, p, None), order, c))

\* Mutant: only the channel itself is refused as its own parent.
ParentIsAnotherChannel(ch, c, p) == p # c /\ (p = 0 \/ p \in DOMAIN ch)

\* The checks channelmove and channeledit make on the new parent.
ParentAllowed(ch, c, p) ==
    /\ p = 0 \/ p \in DOMAIN ch
    /\ p # c
    /\ ~ ChannelIsDescendant(ch, p, c)

\* Mutant: the siblings that c leaves are not relinked.
MoveWithoutClosingGap(ch, c, p, order) ==
    RelinkSiblingOrders([ch EXCEPT ![c].parent = p], p,
        InsertAtAnchor(OrderedSiblingIds(ch, p, c), order, c))

\* c hung below p after the sibling `order', then the siblings it left relinked.
MoveBelow(ch, c, p, order) ==
    LET old   == ch[c].parent
        moved == RelinkSiblingOrders([ch EXCEPT ![c].parent = p], p,
                     InsertAtAnchor(OrderedSiblingIds(ch, p, c), order, c))
    IN  IF old = p THEN moved
        ELSE RelinkSiblingOrders(moved, old, OrderedSiblingIds(moved, old, c))

\* The channels of D removed, then the children of p, where they hung, relinked.
RemoveChannels(ch, D, p) ==
    LET kept == [c \in DOMAIN ch \ D |-> ch[c]]
    IN  RelinkSiblingOrders(kept, p, OrderedSiblingIds(kept, p, None))

-----------------------------------------------------------------------------
(* Clients in channels.  w maps every client id to the channel_id of its   *)
(* entry in online_clients, 0 when it has none; bots are the clients that  *)
(* are music bots.                                                         *)

Occupants(w, c) == {k \in DOMAIN w : w[k] = c}

\* Mutant: the music bots of a channel that goes are forgotten.
WhereUncleaned(ch, w, bots, c) == w

(***************************************************************************)
(* cleanup_temporary_channel: music bots that are left alone go with the   *)
(* channel, and the channel goes once nobody is in it and nothing hangs    *)
(* below it.                                                               *)
(***************************************************************************)
WhereAfterCleanup(ch, w, bots, c) ==
    IF /\ c \in DOMAIN ch
       /\ ch[c].kind = "temporary"
       /\ Occupants(w, c) \subseteq bots
    THEN [k \in DOMAIN w |-> IF w[k] = c THEN 0 ELSE w[k]]
    ELSE w

ChannelsAfterCleanup(ch, w, bots, c) ==
    IF /\ c \in DOMAIN ch
       /\ ch[c].kind = "temporary"
       /\ Occupants(w, c) \subseteq bots
       /\ Siblings(ch, c) = {}
    THEN RemoveChannels(ch, {c}, ch[c].parent)
    ELSE ch

\* Mutant: only the music bots of the deleted channels are looked after.
WhereAfterDeleteBotsOnly(w, bots, D, kind, home) ==
    [k \in DOMAIN w |-> IF w[k] \in D /\ kind = "temporary" /\ k \in bots THEN 0 ELSE w[k]]

\* The clients of the deleted channels D when their root had the given kind.
WhereAfterDelete(w, bots, D, kind, home) ==
    [k \in DOMAIN w |->
        IF w[k] \notin D THEN w[k]
        ELSE IF kind = "temporary" /\ k \in bots THEN 0
        ELSE home]

-----------------------------------------------------------------------------
(* What a channel table should look like.                                  *)

\* No nonempty set of channels contains the parent of each of its members.
NoCycle(ch) ==
    \A S \in SUBSET DOMAIN ch : S # {} => \E c \in S : ch[c].parent \notin S

\* At most one channel is flagged as the default one.
OneDefault(ch) == \A c, d \in DOMAIN ch : ch[c].dflt /\ ch[d].dflt => c = d

\* The children of p form one order chain.
CompleteChain(ch, p) ==
    LET ids == OrderedSiblingIds(ch, p, None)
    IN  \A i \in 1..Len(ids) : ch[ids[i]].order = IF i = 1 THEN 0 ELSE ids[i-1]
=============================================================================
