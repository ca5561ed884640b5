------------------------- MODULE ChannelTreeProofs -------------------------
(***************************************************************************)
(* For every bound on the ids and the commands and every set of clients:   *)
(* the commands of the runtime keep every parent link they have checked a  *)
(* link to a channel that exists and is no part of a cycle, keep one       *)
(* default channel and chain the siblings they touch, whatever UDP         *)
(* commands have left in the rest of the table, and the steps that strand  *)
(* a client are the three that NobodyStranded names.                       *)
(***************************************************************************)
EXTENDS ChannelTree, WellFoundedInduction, FiniteSetTheorems, SequenceTheorems, TLAPS

\* A channel table of the right type.
Table(ch) == DOMAIN ch \subseteq ChannelIds /\ ch \in [DOMAIN ch -> Channel]

\* The parents of the channels outside L are there.
ParentsExist(ch, L) == \A c \in DOMAIN ch \ L : ch[c].parent \in {0} \union DOMAIN ch

\* No channels outside L form a cycle.
Acyclic(ch, L) ==
    \A S \in SUBSET (DOMAIN ch \ L) : S # {} => \E x \in S : ch[x].parent \notin S

\* What the commands preserve, as a predicate of a channel table and the set L
\* of the channels whose parent link nobody has checked.
Sound(ch, L) ==
    /\ Table(ch) /\ L \subseteq DOMAIN ch
    /\ ParentsExist(ch, L) /\ Acyclic(ch, L) /\ OneDefault(ch)

\* b has the channels of a, with the same parents and default flags.
SameLinks(a, b) ==
    /\ DOMAIN b = DOMAIN a
    /\ \A c \in DOMAIN a : b[c].parent = a[c].parent /\ b[c].dflt = a[c].dflt

\* The fields of a channel record have the types of struct Channel's fields.
LEMMA ChannelFields ==
    ASSUME NEW r \in Channel, NEW o \in 0..MaxChannelId, NEW p \in 0..MaxChannelId,
           NEW k \in Kinds, NEW d \in BOOLEAN
    PROVE  /\ [r EXCEPT !.order = o] \in Channel
           /\ [r EXCEPT !.order = o].parent = r.parent
           /\ [r EXCEPT !.order = o].dflt = r.dflt
           /\ [r EXCEPT !.parent = p] \in Channel
           /\ [r EXCEPT !.parent = p].parent = p
           /\ [r EXCEPT !.parent = p].dflt = r.dflt
           /\ [r EXCEPT !.kind = k] \in Channel
           /\ [r EXCEPT !.kind = k].parent = r.parent
           /\ [r EXCEPT !.kind = k].dflt = r.dflt
           /\ [r EXCEPT !.dflt = d] \in Channel
           /\ [r EXCEPT !.dflt = d].parent = r.parent
           /\ [r EXCEPT !.dflt = d].dflt = d
           /\ [parent |-> p, order |-> o, dflt |-> d, kind |-> k] \in Channel
BY DEF Channel

\* relink_sibling_orders rewrites nothing but the order field, and what it
\* writes there is 0 or the id of a channel of the table.
LEMMA RelinkKeepsLinks ==
    ASSUME NEW ch, NEW p, NEW ids, Table(ch)
    PROVE  /\ Table(RelinkSiblingOrders(ch, p, ids))
           /\ SameLinks(ch, RelinkSiblingOrders(ch, p, ids))
<1> DEFINE Before(c) == {d \in Siblings(ch, p) :
                         \E i \in 1..(Len(ids) - 1) : ids[i] = d /\ ids[i+1] = c}
           o(c) == IF Before(c) = {} THEN 0 ELSE CHOOSE d \in Before(c) : TRUE
           new == RelinkSiblingOrders(ch, p, ids)
<1>1. \A c : o(c) \in 0..MaxChannelId
  <2> SUFFICES ASSUME NEW c PROVE o(c) \in 0..MaxChannelId
    OBVIOUS
  <2>1. CASE Before(c) = {}
    BY <2>1, MaxChannelIdAssumption
  <2>2. CASE Before(c) # {}
    <3>1. o(c) \in Before(c)
      BY <2>2
    <3> QED
      BY <3>1, MaxChannelIdAssumption DEF Siblings, ChannelIds, Table
  <2> QED
    BY <2>1, <2>2
<1>2. /\ DOMAIN new = DOMAIN ch
      /\ new = [c \in DOMAIN ch |-> new[c]]
      /\ \A c \in DOMAIN ch : new[c] = ch[c] \/ new[c] = [ch[c] EXCEPT !.order = o(c)]
  BY DEF RelinkSiblingOrders
<1> HIDE DEF o, new
<1>3. ASSUME NEW c \in DOMAIN ch
      PROVE  new[c] \in Channel /\ new[c].parent = ch[c].parent /\ new[c].dflt = ch[c].dflt
  <2>1. ch[c] \in Channel
    BY DEF Table
  <2>2. PICK x \in 0..MaxChannelId : new[c] = ch[c] \/ new[c] = [ch[c] EXCEPT !.order = x]
    BY <1>1, <1>2
  <2> QED
    BY <2>1, <2>2, ChannelFields DEF Kinds, Channel
<1>4. new \in [DOMAIN ch -> Channel]
  BY <1>2, <1>3
<1>5. Table(new) /\ SameLinks(ch, new)
  BY <1>2, <1>3, <1>4 DEF Table, SameLinks
<1> QED
  BY <1>5 DEF new

\* Soundness depends on the parents and the default flags alone.
LEMMA SameLinksSound ==
    ASSUME NEW a, NEW b, NEW L, Sound(a, L), Table(b), SameLinks(a, b)
    PROVE  Sound(b, L)
BY DEF Sound, SameLinks, ParentsExist, Acyclic, OneDefault

\* relink_sibling_orders keeps a table sound.
LEMMA RelinkSound ==
    ASSUME NEW ch, NEW L, NEW p, NEW ids, Sound(ch, L)
    PROVE  Sound(RelinkSiblingOrders(ch, p, ids), L)
BY RelinkKeepsLinks, SameLinksSound DEF Sound

\* A table with one more channel c: what hangs below c already is loose.
LEMMA GrownSound ==
    ASSUME NEW ch, NEW L, Sound(ch, L), NEW c \in ChannelIds, c \notin DOMAIN ch,
           NEW new, Table(new), DOMAIN new = DOMAIN ch \union {c}, OneDefault(new),
           \A d \in DOMAIN ch : new[d].parent = ch[d].parent,
           NEW M, M = IF new[c].parent \in {0} \union DOMAIN ch THEN L ELSE L \union {c}
    PROVE  Sound(new, M)
<1>0. c # 0 /\ L \subseteq DOMAIN ch
  BY MaxChannelIdAssumption DEF ChannelIds, Sound
<1>1. ParentsExist(new, M)
  BY DEF ParentsExist, Sound
<1>2. Acyclic(new, M)
  <2> SUFFICES ASSUME NEW S \in SUBSET (DOMAIN new \ M), S # {}
               PROVE  \E x \in S : new[x].parent \notin S
    BY DEF Acyclic
  <2>1. CASE S = {c}
    <3>1. c \notin M
      BY <2>1
    <3>2. new[c].parent # c
      BY <1>0, <3>1
    <3> QED BY <2>1, <3>2
  <2>2. CASE S # {c}
    <3>1. S \ {c} \in SUBSET (DOMAIN ch \ L) /\ S \ {c} # {}
      BY <2>2
    <3>2. PICK x \in S \ {c} : ch[x].parent \notin S \ {c}
      BY <3>1 DEF Sound, Acyclic
    <3>3. x \in DOMAIN ch /\ ch[x].parent # c
      BY <1>0, <3>1 DEF Sound, ParentsExist
    <3> QED BY <3>2, <3>3
  <2> QED BY <2>1, <2>2
<1> QED
  BY <1>0, <1>1, <1>2 DEF Sound

\* A channel id that is not in use enters the table below a channel that
\* exists, or at the top.
LEMMA AddSound ==
    ASSUME NEW ch, NEW L, Sound(ch, L), NEW c \in ChannelIds, c \notin DOMAIN ch,
           NEW p, p = 0 \/ p \in DOMAIN ch, NEW order,
           NEW kind \in Kinds, NEW dflt \in BOOLEAN
    PROVE  /\ Sound(AddChannel(ch, c, p, order, kind, dflt), L \ {c})
           /\ DOMAIN AddChannel(ch, c, p, order, kind, dflt) = DOMAIN ch \union {c}
<1> DEFINE cleared == IF dflt THEN ClearDefault(ch) ELSE ch
           rec == [parent |-> p, order |-> 0, dflt |-> dflt,
                   kind |-> IF dflt THEN "permanent" ELSE kind]
           added == [d \in DOMAIN ch \union {c} |-> IF d = c THEN rec ELSE cleared[d]]
<1>1. p \in 0..MaxChannelId /\ 0 \in 0..MaxChannelId /\ L \ {c} = L
  BY MaxChannelIdAssumption DEF Sound, Table, ChannelIds
<1>2. rec \in Channel /\ rec.parent = p /\ rec.dflt = dflt
  BY <1>1 DEF Channel, Kinds
<1>3. ASSUME NEW d \in DOMAIN ch
      PROVE  /\ cleared[d] \in Channel
             /\ cleared[d].parent = ch[d].parent
             /\ cleared[d].dflt = (~ dflt /\ ch[d].dflt)
  <2>1. ch[d] \in Channel
    BY DEF Sound, Table
  <2>2. CASE dflt
    <3>1. cleared[d] = [ch[d] EXCEPT !.dflt = FALSE]
      BY <2>2 DEF ClearDefault
    <3> QED BY <2>1, <2>2, <3>1 DEF Channel
  <2>3. CASE ~ dflt
    BY <2>1, <2>3 DEF Channel
  <2> QED BY <2>2, <2>3
<1> HIDE DEF rec, cleared
<1>4. /\ DOMAIN added = DOMAIN ch \union {c}
      /\ added[c] = rec
      /\ \A d \in DOMAIN ch : added[d] = cleared[d]
  OBVIOUS
<1>5. Table(added)
  BY <1>2, <1>3 DEF Table, Sound
<1> HIDE DEF added
<1>6. OneDefault(added)
  BY <1>2, <1>3, <1>4 DEF OneDefault, Sound
<1>7. Sound(added, L)
  <2>1. \A d \in DOMAIN ch : added[d].parent = ch[d].parent
    BY <1>3, <1>4
  <2>2. L = IF added[c].parent \in {0} \union DOMAIN ch THEN L ELSE L \union {c}
    BY <1>2, <1>4
  <2> QED BY <1>4, <1>5, <1>6, <2>1, <2>2, GrownSound
<1>8. DOMAIN RelinkSiblingOrders(added, p, InsertAtAnchor(OrderedSiblingIds(ch, p, None), order, c))
         = DOMAIN ch \union {c}
  BY <1>4 DEF RelinkSiblingOrders
<1> QED
  BY <1>1, <1>7, <1>8, RelinkSound DEF AddChannel, added, rec, cleared

\* The channel that a UDP channelcreate adds is loose unless its parent exists.
LEMMA UdpAddSound ==
    ASSUME NEW ch, NEW L, Sound(ch, L), NEW c \in ChannelIds, c \notin DOMAIN ch,
           NEW p \in 0..MaxChannelId, NEW order \in 0..MaxChannelId,
           NEW kind \in Kinds, NEW dflt \in BOOLEAN,
           NEW M, M = IF p \in {0} \union DOMAIN ch THEN L ELSE L \union {c}
    PROVE  Sound(UdpAdd(ch, c, p, order, kind, dflt), M)
<1> DEFINE rec == [parent |-> p, order |-> order, kind |-> kind, dflt |-> dflt]
           new == UdpAdd(ch, c, p, order, kind, dflt)
<1>1. rec \in Channel /\ rec.parent = p /\ rec.dflt = dflt
  BY DEF Channel
<1>2. ASSUME NEW d \in DOMAIN ch
      PROVE  /\ new[d] \in Channel
             /\ new[d].parent = ch[d].parent
             /\ new[d].dflt = (~ dflt /\ ch[d].dflt)
  <2>1. ch[d] \in Channel /\ d # c
    BY DEF Sound, Table
  <2>2. new[d] = [ch[d] EXCEPT !.dflt = ch[d].dflt /\ ~ dflt]
    BY <2>1 DEF UdpAdd
  <2> QED BY <2>1, <2>2 DEF Channel
<1>3. /\ DOMAIN new = DOMAIN ch \union {c}
      /\ new[c] = rec
      /\ new = [d \in DOMAIN ch \union {c} |-> new[d]]
  BY DEF UdpAdd
<1> HIDE DEF rec, new
<1>4. Table(new)
  BY <1>1, <1>2, <1>3 DEF Table, Sound
<1>5. OneDefault(new)
  BY <1>1, <1>2, <1>3 DEF OneDefault, Sound
<1>6. Sound(new, M)
  BY <1>1, <1>2, <1>3, <1>4, <1>5, GrownSound
<1> QED
  BY <1>6 DEF new

\* A channel that is moved below one it is no ancestor of closes no cycle:
\* the channels above its new parent would have been a cycle before.
LEMMA MoveSound ==
    ASSUME NEW ch, NEW L, Sound(ch, L), NEW c \in DOMAIN ch, NEW p, NEW order,
           ParentAllowed(ch, c, p)
    PROVE  Sound(MoveBelow(ch, c, p, order), L \ {c})
<1> DEFINE hung == [ch EXCEPT ![c].parent = p]
<1>1. p \in 0..MaxChannelId
  BY MaxChannelIdAssumption DEF ParentAllowed, Sound, Table, ChannelIds
<1>2. ASSUME NEW d \in DOMAIN ch
      PROVE  /\ hung[d] \in Channel
             /\ hung[d].parent = IF d = c THEN p ELSE ch[d].parent
             /\ hung[d].dflt = ch[d].dflt
  <2>1. ch[d] \in Channel
    BY DEF Sound, Table
  <2> QED BY <1>1, <2>1 DEF Channel
<1>3. DOMAIN hung = DOMAIN ch /\ Table(hung)
  BY <1>2 DEF Table, Sound
<1> HIDE DEF hung
<1>4. ParentsExist(hung, L \ {c})
  BY <1>2, <1>3 DEF ParentsExist, Sound, ParentAllowed
<1>5. Acyclic(hung, L \ {c})
  <2> SUFFICES ASSUME NEW S \in SUBSET (DOMAIN ch \ (L \ {c})), S # {},
                      \A x \in S : hung[x].parent \in S
               PROVE  FALSE
    BY <1>3 DEF Acyclic
  <2>1. CASE c \notin S
    <3>1. S \in SUBSET (DOMAIN ch \ L) /\ \A x \in S : ch[x].parent \in S
      BY <2>1, <1>2
    <3> QED BY <3>1 DEF Sound, Acyclic
  <2>2. CASE c \in S
    <3>1. p \in S
      BY <2>2, <1>2
    <3>2. PICK A \in SUBSET DOMAIN ch : p \in A /\ UpClosed(ch, A) /\ c \notin A
      BY <3>1 DEF ParentAllowed, ChannelIsDescendant
    <3>3. \A x \in S \cap A : ch[x].parent \in S \cap A
      BY <3>2, <1>2 DEF UpClosed
    <3>4. S \cap A \in SUBSET (DOMAIN ch \ L) /\ S \cap A # {}
      BY <3>1, <3>2
    <3> QED BY <3>3, <3>4 DEF Sound, Acyclic
  <2> QED BY <2>1, <2>2
<1>6. OneDefault(hung)
  BY <1>2, <1>3 DEF OneDefault, Sound
<1>7. Sound(hung, L \ {c})
  BY <1>3, <1>4, <1>5, <1>6 DEF Sound
<1> QED
  BY <1>7, RelinkSound DEF MoveBelow, hung

\* A move neither adds nor removes a channel.
LEMMA MoveDomain ==
    ASSUME NEW ch, NEW c, NEW p, NEW order
    PROVE  DOMAIN MoveBelow(ch, c, p, order) = DOMAIN ch
BY DEF MoveBelow, RelinkSiblingOrders

\* Removing channels is harmless as long as no child of one is left behind.
LEMMA RemoveSound ==
    ASSUME NEW ch, NEW L, Sound(ch, L), NEW D, NEW p,
           \A x \in DOMAIN ch \ D : ch[x].parent \notin D
    PROVE  Sound(RemoveChannels(ch, D, p), L \ D)
<1> DEFINE kept == [c \in DOMAIN ch \ D |-> ch[c]]
<1>1. DOMAIN kept = DOMAIN ch \ D /\ \A c \in DOMAIN kept : kept[c] = ch[c]
  OBVIOUS
<1>2. Table(kept)
  BY DEF Table, Sound
<1> HIDE DEF kept
<1>3. Sound(kept, L \ D)
  <2>1. ParentsExist(kept, L \ D)
    BY <1>1 DEF ParentsExist, Sound
  <2>2. Acyclic(kept, L \ D)
    <3> SUFFICES ASSUME NEW S \in SUBSET (DOMAIN kept \ (L \ D)), S # {}
                 PROVE  \E x \in S : kept[x].parent \notin S
      BY DEF Acyclic
    <3>1. S \in SUBSET (DOMAIN ch \ L)
      BY <1>1
    <3>2. PICK x \in S : ch[x].parent \notin S
      BY <3>1 DEF Sound, Acyclic
    <3> QED BY <1>1, <3>2
  <2>3. OneDefault(kept)
    BY <1>1 DEF OneDefault, Sound
  <2> QED BY <1>1, <1>2, <2>1, <2>2, <2>3 DEF Sound
<1> QED
  BY <1>3, RelinkSound DEF RemoveChannels, kept

\* The channels below the one that a UDP channeldelete removes are loose.
LEMMA UdpDeleteSound ==
    ASSUME NEW ch, NEW L, Sound(ch, L), NEW c, NEW kept,
           kept = [d \in DOMAIN ch \ {c} |-> ch[d]]
    PROVE  Sound(kept, (L \ {c}) \union (Siblings(ch, c) \ {c}))
<1> DEFINE M == (L \ {c}) \union (Siblings(ch, c) \ {c})
<1>1. DOMAIN kept = DOMAIN ch \ {c} /\ \A d \in DOMAIN kept : kept[d] = ch[d]
  OBVIOUS
<1>2. Table(kept)
  BY DEF Table, Sound
<1>3. M \subseteq DOMAIN kept /\ DOMAIN kept \ M \subseteq DOMAIN ch \ L
  BY <1>1 DEF Sound, Siblings
<1>4. \A d \in DOMAIN kept \ M : ch[d].parent # c
  BY <1>1 DEF Siblings
<1> HIDE DEF M
<1>5. ParentsExist(kept, M)
  BY <1>1, <1>3, <1>4 DEF ParentsExist, Sound
<1>6. Acyclic(kept, M)
  <2> SUFFICES ASSUME NEW S \in SUBSET (DOMAIN kept \ M), S # {}
               PROVE  \E x \in S : kept[x].parent \notin S
    BY DEF Acyclic
  <2>1. PICK x \in S : ch[x].parent \notin S
    BY <1>3 DEF Sound, Acyclic
  <2> QED BY <1>1, <2>1
<1>7. OneDefault(kept)
  BY <1>1 DEF OneDefault, Sound
<1>8. Sound(kept, M)
  BY <1>2, <1>3, <1>5, <1>6, <1>7 DEF Sound
<1> QED
  BY <1>8 DEF M

\* A forced delete takes every child along with its parent.
LEMMA SubtreeTakesChildren ==
    ASSUME NEW ch, NEW c, NEW x \in DOMAIN ch \ Subtree(ch, c)
    PROVE  ch[x].parent \notin Subtree(ch, c)
<1> SUFFICES ASSUME ch[x].parent \in Subtree(ch, c) PROVE FALSE
  OBVIOUS
<1>1. ch[x].parent \in DOMAIN ch
  BY DEF Subtree
<1>2. ASSUME NEW A \in SUBSET DOMAIN ch, x \in A, UpClosed(ch, A) PROVE c \in A
  BY <1>1, <1>2 DEF Subtree, ChannelIsDescendant, UpClosed
<1> QED
  BY <1>2 DEF Subtree, ChannelIsDescendant

\* The early write of channeledit leaves exactly one default channel.
LEMMA FlagSound ==
    ASSUME NEW ch, NEW L, Sound(ch, L), NEW c
    PROVE  Sound(FlagAsDefault(ch, c), L) /\ DOMAIN FlagAsDefault(ch, c) = DOMAIN ch
<1> DEFINE new == FlagAsDefault(ch, c)
<1>1. ASSUME NEW d \in DOMAIN ch
      PROVE  /\ new[d] \in Channel
             /\ new[d].parent = ch[d].parent
             /\ new[d].dflt = (d = c)
  <2>1. ch[d] \in Channel
    BY DEF Sound, Table
  <2> QED BY <2>1 DEF FlagAsDefault, Channel
<1>2. DOMAIN new = DOMAIN ch /\ new = [d \in DOMAIN ch |-> new[d]]
  BY DEF FlagAsDefault
<1> HIDE DEF new
<1>3. Table(new)
  BY <1>1, <1>2 DEF Table, Sound
<1>4. ParentsExist(new, L)
  BY <1>1, <1>2 DEF ParentsExist, Sound
<1>5. Acyclic(new, L)
  BY <1>1, <1>2 DEF Acyclic, Sound
<1>6. OneDefault(new)
  BY <1>1, <1>2 DEF OneDefault
<1> QED
  BY <1>2, <1>3, <1>4, <1>5, <1>6 DEF Sound, new

\* The early write of channeledit moves no channel.
LEMMA FlagLinks ==
    ASSUME NEW ch, Table(ch), NEW c, NEW d \in DOMAIN ch
    PROVE  FlagAsDefault(ch, c)[d].parent = ch[d].parent
BY DEF FlagAsDefault, Table, Channel

\* A change of kind (permanent, semi-permanent, temporary) keeps a table sound.
LEMMA KindSound ==
    ASSUME NEW ch, NEW L, Sound(ch, L), NEW c \in DOMAIN ch, NEW kind \in Kinds
    PROVE  Sound([ch EXCEPT ![c].kind = kind], L)
<1> DEFINE new == [ch EXCEPT ![c].kind = kind]
<1>1. ASSUME NEW d \in DOMAIN ch
      PROVE  new[d] \in Channel /\ new[d].parent = ch[d].parent /\ new[d].dflt = ch[d].dflt
  <2>1. ch[d] \in Channel
    BY DEF Sound, Table
  <2> QED BY <2>1 DEF Channel
<1>2. DOMAIN new = DOMAIN ch /\ Table(new)
  BY <1>1 DEF Table, Sound
<1> HIDE DEF new
<1>3. SameLinks(ch, new)
  BY <1>1, <1>2 DEF SameLinks
<1>4. Sound(new, L)
  BY <1>2, <1>3, SameLinksSound
<1> QED
  BY <1>4 DEF new

\* A UDP channeledit changes flags, orders and kinds, and no parent.
LEMMA UdpEditSound ==
    ASSUME NEW ch, NEW L, Sound(ch, L), NEW c, NEW dflt \in BOOLEAN,
           NEW order \in {None} \union 0..MaxChannelId, NEW kind \in {"same"} \union Kinds
    PROVE  Sound(UdpEdit(ch, c, dflt, order, kind), L)
<1> DEFINE base == IF dflt THEN FlagAsDefault(ch, c) ELSE ch
           new == UdpEdit(ch, c, dflt, order, kind)
<1>1. Sound(base, L) /\ DOMAIN base = DOMAIN ch
  BY FlagSound
<1>2. /\ DOMAIN new = DOMAIN ch
      /\ new = [d \in DOMAIN ch |-> new[d]]
      /\ \A d \in DOMAIN ch :
            new[d] = IF d # c THEN base[d]
                     ELSE [base[d] EXCEPT !.order = IF order = None THEN @ ELSE order,
                                          !.kind = IF kind = "same" THEN @ ELSE kind]
  BY DEF UdpEdit
<1> HIDE DEF base, new
<1>3. ASSUME NEW d \in DOMAIN ch
      PROVE  new[d] \in Channel /\ new[d].parent = base[d].parent /\ new[d].dflt = base[d].dflt
  <2>1. base[d] \in Channel
    BY <1>1 DEF Sound, Table
  <2>2. CASE d # c
    BY <1>2, <2>1, <2>2
  <2>3. CASE d = c
    <3>1. PICK o \in 0..MaxChannelId, k \in Kinds :
             new[d] = [base[d] EXCEPT !.order = o, !.kind = k]
      BY <1>2, <2>1, <2>3 DEF Channel
    <3> QED BY <2>1, <3>1 DEF Channel
  <2> QED BY <2>2, <2>3
<1>4. Table(new) /\ SameLinks(base, new)
  BY <1>1, <1>2, <1>3 DEF Table, SameLinks, Sound
<1>5. Sound(new, L)
  BY <1>1, <1>4, SameLinksSound
<1> QED
  BY <1>5 DEF new

\* Every nonempty set of numbers has a least element.
LEMMA LeastOf ==
    ASSUME NEW S \in SUBSET Nat, S # {}
    PROVE  \E x \in S : \A y \in S : x <= y
<1>1. PICK x \in S : \A y \in S : ~ (<<y, x>> \in OpToRel(<, Nat))
  BY NatLessThanWellFounded, WFMin
<1>2. \A a, b \in Nat : a < b => <<a, b>> \in OpToRel(<, Nat)
  BY Zenon DEF OpToRel
<1>3. \A y \in S : ~ (y < x)
  BY <1>1, <1>2, Zenon
<1> QED
  BY <1>3

\* Every nonempty set of channel ids has a least element.
LEMMA LeastChannel ==
    ASSUME NEW S \in SUBSET ChannelIds, S # {}
    PROVE  Least(S) \in S
<1>1. S \in SUBSET Nat
  BY MaxChannelIdAssumption DEF ChannelIds
<1>2. \E x \in S : \A y \in S : x <= y
  BY <1>1, LeastOf
<1> QED
  BY <1>2 DEF Least

\* default_channel_id_for_server(..).unwrap_or(1) yields a channel id.
LEMMA DefaultChannelIsId ==
    ASSUME NEW ch, Table(ch)
    PROVE  DefaultChannelId(ch) \in 1..MaxChannelId
BY LeastChannel, MaxChannelIdAssumption DEF DefaultChannelId, Table, ChannelIds

\* Relinking neither adds nor removes a channel.
LEMMA RelinkDomain ==
    ASSUME NEW ch, NEW p, NEW ids
    PROVE  DOMAIN RelinkSiblingOrders(ch, p, ids) = DOMAIN ch
BY DEF RelinkSiblingOrders

\* A delete or a cleanup removes exactly the channels it names.
LEMMA RemoveDomain ==
    ASSUME NEW ch, NEW D, NEW p
    PROVE  DOMAIN RemoveChannels(ch, D, p) = DOMAIN ch \ D
BY RelinkDomain DEF RemoveChannels

\* cleanup_temporary_channel adds no channel.
LEMMA CleanupDomain ==
    ASSUME NEW ch, NEW w, NEW bots, NEW c
    PROVE  DOMAIN ChannelsAfterCleanup(ch, w, bots, c) \subseteq DOMAIN ch
<1>1. DOMAIN RemoveChannels(ch, {c}, ch[c].parent) = DOMAIN ch \ {c}
  BY RemoveDomain
<1> QED
  BY <1>1 DEF ChannelsAfterCleanup

\* The early write of channeledit neither adds nor removes a channel.
LEMMA FlagDomain ==
    ASSUME NEW ch, NEW c
    PROVE  DOMAIN FlagAsDefault(ch, c) = DOMAIN ch
BY DEF FlagAsDefault

\* UDP clients delete one channel at a time, and their commands move all bots or none.
Deletions(del) ==
    /\ \A d, e \in del : d = e
    /\ \A d \in del : d.moved \cap Bots # {} => Bots \subseteq d.moved

\* What is inductive: the types, a sound channel table, one UDP delete at a time.
IInv == TypeOK /\ Sound(channels, loose) /\ Deletions(deleting)

\* cleanup_temporary_channel removes a channel only if nothing hangs below it.
LEMMA CleanupSound ==
    ASSUME NEW ch, NEW L, Sound(ch, L), NEW w, NEW c, NEW kept,
           kept = ChannelsAfterCleanup(ch, w, Bots, c)
    PROVE  Sound(kept, L \ (DOMAIN ch \ DOMAIN kept))
<1>1. CASE kept = ch
  <2>1. L \ (DOMAIN ch \ DOMAIN kept) = L
    BY <1>1
  <2> QED BY <1>1, <2>1
<1>2. CASE kept # ch
  <2>1. /\ kept = RemoveChannels(ch, {c}, ch[c].parent)
        /\ c \in DOMAIN ch /\ Siblings(ch, c) = {}
    BY <1>2 DEF ChannelsAfterCleanup
  <2>2. DOMAIN kept = DOMAIN ch \ {c}
    BY <2>1, RemoveDomain
  <2>3. Sound(RemoveChannels(ch, {c}, ch[c].parent), L \ {c})
    BY <2>1, RemoveSound DEF Siblings
  <2>4. L \ (DOMAIN ch \ DOMAIN kept) = L \ {c}
    BY <2>1, <2>2
  <2> QED BY <2>1, <2>3, <2>4
<1> QED
  BY <1>1, <1>2

\* Leaving a channel and the cleanup that follows keep table and types.
LEMMA SettleStep ==
    ASSUME Sound(channels, loose), NEW w \in [Clients -> 0..MaxChannelId], NEW c,
           SettleAfterLeaving(w, c)
    PROVE  Sound(channels', loose') /\ where' \in [Clients -> 0..MaxChannelId]
<1>1. Sound(channels', loose')
  BY CleanupSound DEF SettleAfterLeaving, Mended
<1>2. where' \in [Clients -> 0..MaxChannelId]
  BY MaxChannelIdAssumption DEF SettleAfterLeaving, WhereAfterCleanup
<1> QED
  BY <1>1, <1>2

\* An edit that passes the checks keeps a sound table, and if it moves the
\* channel, the new link is a checked one.
LEMMA EditSound ==
    ASSUME Sound(channels, loose), NEW c \in DOMAIN channels, NEW d \in BOOLEAN, NEW p, NEW o,
           ~ EditPositionRefused(c, p, o)
    PROVE  LET fl == Flagged(c, d)
               L  == IF EditMoves(fl, c, p, o) THEN loose \ {c} ELSE loose
           IN  /\ Sound(Repositioned(fl, c, p, o), L)
               /\ DOMAIN Repositioned(fl, c, p, o) = DOMAIN channels
               /\ Sound(fl, loose)
               /\ DOMAIN fl = DOMAIN channels
               /\ EditMoves(fl, c, p, o) => ParentAllowed(fl, c, EditParent(c, p))
<1> DEFINE fl == Flagged(c, d)
<1>1. /\ Sound(fl, loose) /\ DOMAIN fl = DOMAIN channels
      /\ \A x \in DOMAIN fl : fl[x].parent = channels[x].parent
  <2>1. CASE d
    <3>1. fl = FlagAsDefault(channels, c)
      BY <2>1 DEF Flagged
    <3>2. Sound(fl, loose) /\ DOMAIN fl = DOMAIN channels
      BY <3>1, FlagSound
    <3>3. \A x \in DOMAIN channels : fl[x].parent = channels[x].parent
      BY <3>1, FlagLinks DEF Sound
    <3> QED BY <3>2, <3>3
  <2>2. CASE ~ d
    BY <2>2 DEF Flagged
  <2> QED BY <2>1, <2>2
<1> HIDE DEF fl
<1>2. EditMoves(fl, c, p, o) => ParentAllowed(fl, c, EditParent(c, p))
  <2> SUFFICES ASSUME EditMoves(fl, c, p, o) PROVE ParentAllowed(fl, c, EditParent(c, p))
    OBVIOUS
  <2>1. ParentAllowed(channels, c, EditParent(c, p))
    BY DEF EditPositionRefused, EditMoves
  <2> QED
    BY <1>1, <2>1 DEF ParentAllowed, ChannelIsDescendant, UpClosed
<1>3. CASE EditMoves(fl, c, p, o)
  <2>1. Sound(MoveBelow(fl, c, EditParent(c, p), o), loose \ {c})
    BY <1>1, <1>2, <1>3, MoveSound
  <2>2. DOMAIN MoveBelow(fl, c, EditParent(c, p), o) = DOMAIN channels
    BY <1>1, MoveDomain
  <2> QED BY <1>1, <1>2, <1>3, <2>1, <2>2 DEF Repositioned, fl
<1>4. CASE ~ EditMoves(fl, c, p, o)
  BY <1>1, <1>4 DEF Repositioned, fl
<1> QED
  BY <1>3, <1>4

\* Every command keeps the table sound and the positions in their type.
LEMMA TableInductive ==
    IInv /\ [Next]_vars =>
        Sound(channels', loose') /\ where' \in [Clients -> 0..MaxChannelId]
<1> SUFFICES ASSUME IInv, [Next]_vars
             PROVE  Sound(channels', loose') /\ where' \in [Clients -> 0..MaxChannelId]
  OBVIOUS
<1>s. Sound(channels, loose)
  BY DEF IInv
<1>t. Table(channels) /\ where \in [Clients -> 0..MaxChannelId] /\ deleting \subseteq Deletion
  BY DEF IInv, TypeOK, Sound
<1>1. ASSUME NEW p, NEW o, NEW k \in KindsUsed, NEW d \in BOOLEAN, ChannelCreate(p, o, k, d)
      PROVE  Sound(channels', loose') /\ where' \in [Clients -> 0..MaxChannelId]
  <2>1. PICK c \in ChannelIds : /\ IsNextChannelId(channels, c)
                                /\ p = 0 \/ p \in DOMAIN channels
                                /\ channels' = AddChannel(channels, c, p, o, k, d)
                                /\ loose' = loose \ {c}
                                /\ UNCHANGED where
    BY <1>1 DEF ChannelCreate, Mended
  <2>2. c \notin DOMAIN channels /\ k \in Kinds
    BY <2>1, KindsAssumption, MaxChannelIdAssumption DEF IsNextChannelId, ChannelIds
  <2> QED
    BY <2>1, <2>2, <1>s, <1>t, AddSound
<1>2. ASSUME NEW c, NEW f \in ForceValues, ChannelDelete(c, f)
      PROVE  Sound(channels', loose') /\ where' \in [Clients -> 0..MaxChannelId]
  <2> DEFINE D == IF f = 1 THEN Subtree(channels, c) ELSE {c}
  <2>1. \A x \in DOMAIN channels \ D : channels[x].parent \notin D
    <3>1. CASE f = 1
      BY <3>1, SubtreeTakesChildren
    <3>2. CASE f # 1
      BY <3>2, <1>2, ForceAssumption DEF ChannelDelete, Siblings
    <3> QED BY <3>1, <3>2
  <2>2. /\ channels' = RemoveChannels(channels, D, channels[c].parent)
        /\ where' = WhereAfterDelete(where, Bots, D, channels[c].kind, DefaultChannelId(channels))
        /\ loose' = loose \ D
    BY <1>2 DEF ChannelDelete, Mended
  <2> HIDE DEF D
  <2>3. Sound(channels', loose')
    BY <1>s, <2>1, <2>2, RemoveSound
  <2>4. where' \in [Clients -> 0..MaxChannelId]
    BY <2>2, <1>t, DefaultChannelIsId, MaxChannelIdAssumption DEF WhereAfterDelete
  <2> QED BY <2>3, <2>4
<1>3. ASSUME NEW c, NEW d \in BOOLEAN, NEW p, NEW o, NEW k \in {"same"} \union KindsUsed,
             ChannelEdit(c, d, p, o, k)
      PROVE  Sound(channels', loose') /\ where' \in [Clients -> 0..MaxChannelId]
  <2> DEFINE fl == Flagged(c, d)
             re == Repositioned(fl, c, p, o)
             kd == EditedKind(c, d, k)
             L  == IF EditMoves(fl, c, p, o) THEN loose \ {c} ELSE loose
  <2>1. c \in DOMAIN channels /\ ~ EditPositionRefused(c, p, o)
    BY <1>3 DEF ChannelEdit
  <2>2. Sound(re, L) /\ DOMAIN re = DOMAIN channels
    BY <1>s, <2>1, EditSound
  <2>3. kd \in Kinds
    <3>1. channels[c] \in Channel
      BY <2>1, <1>t DEF Table
    <3> QED BY <3>1, KindsAssumption DEF EditedKind, Kinds, Channel
  <2>4. channels' = [re EXCEPT ![c].kind = kd] /\ where' = where /\ loose' = L
    BY <1>3 DEF ChannelEdit, Mended
  <2> HIDE DEF re, kd, L
  <2> QED
    BY <2>1, <2>2, <2>3, <2>4, <1>t, KindSound
<1>4. ASSUME NEW c, NEW d, NEW p, NEW o, ChannelEditRefused(c, d, p, o)
      PROVE  Sound(channels', loose') /\ where' \in [Clients -> 0..MaxChannelId]
  BY <1>4, <1>s, <1>t, FlagSound DEF ChannelEditRefused, Flagged, links
<1>5. ASSUME NEW c, NEW p, NEW o, ChannelMove(c, p, o)
      PROVE  Sound(channels', loose') /\ where' \in [Clients -> 0..MaxChannelId]
  BY <1>5, <1>s, <1>t, MoveSound DEF ChannelMove, Mended
<1>6. ASSUME NEW p \in RawIds, NEW o \in RawIds, NEW k \in KindsUsed, NEW d \in BOOLEAN,
             UdpChannelCreate(p, o, k, d)
      PROVE  Sound(channels', loose') /\ where' \in [Clients -> 0..MaxChannelId]
  <2>1. PICK c \in ChannelIds :
           /\ IsNextChannelId(channels, c)
           /\ channels' = UdpAdd(channels, c, p, o, k, d)
           /\ loose' = IF p \in {0} \union DOMAIN channels THEN loose ELSE loose \union {c}
           /\ UNCHANGED where
    BY <1>6 DEF UdpChannelCreate
  <2>2. c \notin DOMAIN channels /\ k \in Kinds /\ p \in 0..MaxChannelId /\ o \in 0..MaxChannelId
    BY <2>1, KindsAssumption, RawIdsAssumption, MaxChannelIdAssumption DEF IsNextChannelId, ChannelIds
  <2> QED
    BY <2>1, <2>2, <1>s, <1>t, UdpAddSound
<1>7. ASSUME NEW c, NEW d \in BOOLEAN, NEW o \in {None} \union RawIds,
             NEW k \in {"same"} \union KindsUsed, UdpChannelEdit(c, d, o, k)
      PROVE  Sound(channels', loose') /\ where' \in [Clients -> 0..MaxChannelId]
  <2>1. o \in {None} \union 0..MaxChannelId /\ k \in {"same"} \union Kinds
    BY KindsAssumption, RawIdsAssumption
  <2> QED
    BY <1>7, <2>1, <1>s, <1>t, UdpEditSound DEF UdpChannelEdit
<1>8. ASSUME NEW k, NEW dialect, NEW c, UdpChannelDelete(k, dialect, c)
      PROVE  Sound(channels', loose') /\ where' \in [Clients -> 0..MaxChannelId]
  BY <1>8, <1>s, <1>t, UdpDeleteSound DEF UdpChannelDelete
<1>9. CASE UdpVacate
  <2>1. PICK d, w :
           /\ d \in deleting
           /\ channels' = channels \/ channels' = ChannelsAfterCleanup(channels, w, Bots, d.c)
           /\ loose' = loose \ (DOMAIN channels \ DOMAIN channels')
           /\ where' = Vacated(where, d)
    <3>1. PICK d \in deleting :
             LET bots == {k \in Bots \cap d.moved : d.temp /\ where[k] = d.c}
                 w    == [k \in Clients |-> IF k \in bots THEN 0 ELSE where[k]]
                 kept == IF bots = {} THEN channels ELSE ChannelsAfterCleanup(channels, w, Bots, d.c)
             IN  /\ channels' = kept
                 /\ loose' = loose \ (DOMAIN channels \ DOMAIN kept)
                 /\ where' = Vacated(where, d)
      BY <1>9 DEF UdpVacate
    <3> DEFINE bots == {k \in Bots \cap d.moved : d.temp /\ where[k] = d.c}
               w    == [k \in Clients |-> IF k \in bots THEN 0 ELSE where[k]]
    <3>2. channels' = channels \/ channels' = ChannelsAfterCleanup(channels, w, Bots, d.c)
      BY <3>1
    <3>3. loose' = loose \ (DOMAIN channels \ DOMAIN channels') /\ where' = Vacated(where, d)
      BY <3>1
    <3> HIDE DEF bots, w
    <3> QED BY <3>2, <3>3
  <2>2. Sound(channels', loose')
    <3>1. CASE channels' = channels
      <4>1. loose' = loose
        BY <2>1, <3>1
      <4> QED BY <1>s, <3>1, <4>1
    <3>2. CASE channels' = ChannelsAfterCleanup(channels, w, Bots, d.c)
      BY <1>s, <2>1, <3>2, CleanupSound
    <3> QED BY <2>1, <3>1, <3>2
  <2>3. where' \in [Clients -> 0..MaxChannelId]
    <3>1. d.home \in 0..MaxChannelId
      BY <1>t, <2>1, MaxChannelIdAssumption DEF Deletion, ChannelIds
    <3> QED BY <1>t, <2>1, <3>1, MaxChannelIdAssumption DEF Vacated
  <2> QED BY <2>2, <2>3
<1>10. ASSUME NEW k \in Clients, ClientPutBack(k)
       PROVE  Sound(channels', loose') /\ where' \in [Clients -> 0..MaxChannelId]
  BY <1>10, <1>s, <1>t, MaxChannelIdAssumption DEF ClientPutBack, links
<1>11. ASSUME NEW k \in Clients, NEW c \in ChannelIds, UdpClientMove(k, c)
       PROVE  Sound(channels', loose') /\ where' \in [Clients -> 0..MaxChannelId]
  BY <1>11, <1>s, <1>t, MaxChannelIdAssumption DEF UdpClientMove, links, ChannelIds
<1>12. ASSUME NEW k \in Clients, NEW c \in ChannelIds, ClientEnter(k, c)
       PROVE  Sound(channels', loose') /\ where' \in [Clients -> 0..MaxChannelId]
  BY <1>12, <1>s, <1>t, MaxChannelIdAssumption DEF ClientEnter, links, ChannelIds
<1>13. ASSUME NEW k \in Clients, NEW c \in ChannelIds, ClientMove(k, c)
       PROVE  Sound(channels', loose') /\ where' \in [Clients -> 0..MaxChannelId]
  <2>1. [where EXCEPT ![k] = c] \in [Clients -> 0..MaxChannelId]
    BY <1>t, MaxChannelIdAssumption DEF ChannelIds
  <2> QED
    BY <1>13, <1>s, <2>1, SettleStep DEF ClientMove
<1>14. ASSUME NEW k \in Clients, ClientKickFromChannel(k)
       PROVE  Sound(channels', loose') /\ where' \in [Clients -> 0..MaxChannelId]
  <2>1. [where EXCEPT ![k] = DefaultChannelId(channels)] \in [Clients -> 0..MaxChannelId]
    BY <1>t, DefaultChannelIsId, MaxChannelIdAssumption
  <2> QED
    BY <1>14, <1>s, <2>1, SettleStep DEF ClientKickFromChannel
<1>15. ASSUME NEW k \in Clients, ClientLeave(k)
       PROVE  Sound(channels', loose') /\ where' \in [Clients -> 0..MaxChannelId]
  <2>1. [where EXCEPT ![k] = 0] \in [Clients -> 0..MaxChannelId]
    BY <1>t, MaxChannelIdAssumption
  <2> QED
    BY <1>15, <1>s, <2>1, SettleStep DEF ClientLeave
<1>16. ASSUME NEW k \in Clients, ClientQuit(k)
       PROVE  Sound(channels', loose') /\ where' \in [Clients -> 0..MaxChannelId]
  BY <1>16, <1>s, <1>t, MaxChannelIdAssumption DEF ClientQuit, links
<1>17. ASSUME NEW c, CleanupTemporaryChannel(c)
       PROVE  Sound(channels', loose') /\ where' \in [Clients -> 0..MaxChannelId]
  BY <1>17, <1>s, <1>t, SettleStep DEF CleanupTemporaryChannel
<1>18. CASE UNCHANGED vars
  BY <1>18, <1>s, <1>t DEF vars, links
<1> QED
  BY <1>1, <1>2, <1>3, <1>4, <1>5, <1>6, <1>7, <1>8, <1>9, <1>10, <1>11, <1>12, <1>13,
     <1>14, <1>15, <1>16, <1>17, <1>18 DEF Next

\* Every command keeps the books about UDP deletes, commands and orders.
LEMMA BooksInductive ==
    IInv /\ [Next]_vars => /\ deleting' \subseteq Deletion /\ Deletions(deleting')
                           /\ commands' \in 0..MaxCommands
                           /\ unlinked' \subseteq 0..MaxChannelId
<1> SUFFICES ASSUME IInv, [Next]_vars
             PROVE  /\ deleting' \subseteq Deletion /\ Deletions(deleting')
                    /\ commands' \in 0..MaxCommands
                    /\ unlinked' \subseteq 0..MaxChannelId
  OBVIOUS
<1> DEFINE Counted == Command \/ commands' = commands
           Deleted == \/ deleting' = deleting \/ deleting' = {}
                      \/ deleting' \subseteq Deletion /\ Deletions(deleting')
           Noted   == unlinked' \subseteq 0..MaxChannelId
<1>t. /\ Table(channels) /\ deleting \subseteq Deletion /\ Deletions(deleting)
      /\ commands \in 0..MaxCommands /\ unlinked \subseteq 0..MaxChannelId
      /\ \A c \in DOMAIN channels : channels[c].parent \in 0..MaxChannelId
  BY DEF IInv, TypeOK, Sound, Table, Channel
<1>1. ASSUME NEW w, NEW c, SettleAfterLeaving(w, c)
      PROVE  Counted /\ Deleted /\ Noted
  BY <1>1, <1>t DEF SettleAfterLeaving, Mended
<1>2. ASSUME \/ \E p, o, k, d : ChannelCreate(p, o, k, d)
             \/ \E c, f : ChannelDelete(c, f)
             \/ \E c, d, p, o, k : ChannelEdit(c, d, p, o, k)
             \/ \E c, d, p, o : ChannelEditRefused(c, d, p, o)
             \/ \E c, p, o : ChannelMove(c, p, o)
      PROVE  Counted /\ Deleted /\ Noted
  <2> DEFINE Mends == Command /\ deleting' = deleting /\ unlinked' \subseteq unlinked
  <2>1. ASSUME \E p, o, k, d : ChannelCreate(p, o, k, d)  PROVE  Mends
    BY <2>1 DEF ChannelCreate, Mended
  <2>2. ASSUME \E c, f : ChannelDelete(c, f)  PROVE  Mends
    BY <2>2 DEF ChannelDelete, Mended
  <2>3. ASSUME \E c, d, p, o, k : ChannelEdit(c, d, p, o, k)  PROVE  Mends
    BY <2>3 DEF ChannelEdit, Mended
  <2>4. ASSUME \E c, d, p, o : ChannelEditRefused(c, d, p, o)  PROVE  Mends
    BY <2>4 DEF ChannelEditRefused, links
  <2>5. ASSUME \E c, p, o : ChannelMove(c, p, o)  PROVE  Mends
    BY <2>5 DEF ChannelMove, Mended
  <2> QED BY <1>2, <2>1, <2>2, <2>3, <2>4, <2>5, <1>t
<1>3. ASSUME NEW p \in RawIds, NEW o, NEW k, NEW d, UdpChannelCreate(p, o, k, d)
      PROVE  Counted /\ Deleted /\ Noted
  BY <1>3, <1>t, RawIdsAssumption DEF UdpChannelCreate, UdpCommand
<1>4. ASSUME NEW c, NEW d, NEW o, NEW k, UdpChannelEdit(c, d, o, k)
      PROVE  Counted /\ Deleted /\ Noted
  BY <1>4, <1>t DEF UdpChannelEdit, UdpCommand
<1>5. ASSUME NEW k \in Clients, NEW dialect, NEW c, UdpChannelDelete(k, dialect, c)
      PROVE  Counted /\ Deleted /\ Noted
  <2> DEFINE home  == DefaultChannelId(channels)
             moved == {k} \union (IF dialect = "teaspeak" THEN Bots ELSE {})
             temp  == channels[c].kind = "temporary"
  <2>1. /\ c \in DOMAIN channels /\ k \notin Bots /\ Command
        /\ deleting' = {[c |-> c, home |-> home, moved |-> moved, temp |-> temp]}
        /\ unlinked' = unlinked \union {channels[c].parent}
    BY <1>5 DEF UdpChannelDelete, UdpCommand
  <2>2. c \in ChannelIds /\ home \in ChannelIds /\ moved \in SUBSET Clients /\ temp \in BOOLEAN
    BY <1>t, <2>1, DefaultChannelIsId, BotsAssumption DEF Table, ChannelIds
  <2>3. moved \cap Bots # {} => Bots \subseteq moved
    BY <2>1
  <2> HIDE DEF home, moved, temp
  <2>4. deleting' \subseteq Deletion
    BY <2>1, <2>2 DEF Deletion
  <2>5. Deletions(deleting')
    BY <2>1, <2>3 DEF Deletions
  <2> QED BY <1>t, <2>1, <2>4, <2>5
<1>6. ASSUME UdpVacate
      PROVE  Counted /\ Deleted /\ Noted
  <2>1. deleting' = {} /\ commands' = commands /\ unlinked' \subseteq unlinked
    BY <1>6 DEF UdpVacate
  <2> QED BY <1>t, <2>1
<1>7. ASSUME \/ \E k : ClientPutBack(k) \/ ClientQuit(k)
             \/ \E k, c : UdpClientMove(k, c) \/ ClientEnter(k, c)
             \/ UNCHANGED vars
      PROVE  Counted /\ Deleted /\ Noted
  <2>1. commands' = commands /\ deleting' = deleting /\ unlinked' = unlinked
    BY <1>7 DEF ClientPutBack, ClientQuit, UdpClientMove, ClientEnter, vars, links
  <2> QED BY <1>t, <2>1
<1>8. Counted /\ Deleted /\ Noted
  <2>1. ASSUME \/ \E k \in Clients, c \in ChannelIds : ClientMove(k, c)
               \/ \E k \in Clients : ClientKickFromChannel(k)
               \/ \E k \in Clients : ClientLeave(k)
               \/ \E c \in ChannelIds : CleanupTemporaryChannel(c)
        PROVE  \E w, c : SettleAfterLeaving(w, c)
    BY <2>1 DEF ClientMove, ClientKickFromChannel, ClientLeave, CleanupTemporaryChannel
  <2> HIDE DEF Counted, Deleted, Noted
  <2> QED
    BY <1>1, <1>2, <1>3, <1>4, <1>5, <1>6, <1>7, <2>1 DEF Next
<1>9. commands' \in 0..MaxCommands
  BY <1>8, <1>t, UdpAssumption DEF Command
<1>10. deleting' \subseteq Deletion /\ Deletions(deleting')
  BY <1>8, <1>t DEF Deletions
<1> QED
  BY <1>8, <1>9, <1>10

\* Every command and every change of occupants preserves IInv.
LEMMA Inductive == IInv /\ [Next]_vars => IInv'
<1> SUFFICES ASSUME IInv, [Next]_vars PROVE IInv'
  OBVIOUS
<1>1. Sound(channels', loose') /\ where' \in [Clients -> 0..MaxChannelId]
  BY TableInductive
<1>2. /\ deleting' \subseteq Deletion /\ Deletions(deleting')
      /\ commands' \in 0..MaxCommands /\ unlinked' \subseteq 0..MaxChannelId
  BY BooksInductive
<1> QED
  BY <1>1, <1>2 DEF IInv, TypeOK, Sound, Table, ChannelIds, Channel, Deletion, Deletions,
                    ParentsExist, Acyclic, OneDefault

\* The seeded store satisfies the invariant.
LEMMA InitSound == Init => IInv
<1> SUFFICES ASSUME Init PROVE IInv
  OBVIOUS
<1>1. DOMAIN channels = 1..2 /\ Table(channels)
  BY MaxChannelIdAssumption DEF Init, Table, ChannelIds, Channel, Kinds
<1>2. \A c \in 1..2 : channels[c].parent = 0 /\ channels[c].dflt = (c = 1)
  BY DEF Init
<1>3. ParentsExist(channels, loose)
  BY <1>1, <1>2 DEF ParentsExist
<1>4. Acyclic(channels, loose)
  BY <1>1, <1>2 DEF Acyclic
<1>5. OneDefault(channels)
  BY <1>1, <1>2 DEF OneDefault
<1>6. TypeOK /\ Deletions(deleting)
  BY <1>1, MaxChannelIdAssumption, UdpAssumption DEF TypeOK, Table, Init, Deletions
<1> QED
  BY <1>1, <1>3, <1>4, <1>5, <1>6 DEF IInv, Sound, Init

\* The channel table, the positions of the clients and the books of the model
\* keep their types.
THEOREM TypeCorrect == Spec => []TypeOK
<1>1. IInv => TypeOK
  BY DEF IInv
<1> QED
  BY <1>1, InitSound, Inductive, PTL DEF Spec

\* Whatever UDP commands have written, the links that they have not left
\* unchecked lead to channels that exist and close no cycle among themselves:
\* no create, edit, move, forced delete or cleanup of the runtime adds a link
\* that dangles or closes a cycle.
THEOREM TreeStaysWellFormed == Spec => []TreeWellFormed
<1>1. IInv => TreeWellFormed
  <2> SUFFICES ASSUME IInv PROVE TreeWellFormed
    OBVIOUS
  <2> DEFINE sub == [c \in DOMAIN channels \ loose |-> channels[c]]
  <2>1. ParentsExist(channels, loose) /\ Acyclic(channels, loose)
    BY DEF IInv, Sound
  <2>2. DOMAIN sub = DOMAIN channels \ loose /\ \A c \in DOMAIN sub : sub[c] = channels[c]
    OBVIOUS
  <2> HIDE DEF sub
  <2>3. NoCycle(sub)
    BY <2>1, <2>2 DEF NoCycle, Acyclic
  <2> QED BY <2>1, <2>3 DEF TreeWellFormed, ParentsExist, sub
<1> QED
  BY <1>1, InitSound, Inductive, PTL DEF Spec

\* flag_default never marks two channels, whichever handlers set it.
THEOREM DefaultStaysUnique == Spec => []AtMostOneDefault
<1>1. IInv => AtMostOneDefault
  BY DEF IInv, Sound, AtMostOneDefault
<1> QED
  BY <1>1, InitSound, Inductive, PTL DEF Spec

\* Who stands in a channel that exists is not stranded by the cleanup of c.
LEMMA SettleStrandsNobody ==
    ASSUME NEW w \in [Clients -> 0..MaxChannelId], NEW c, SettleAfterLeaving(w, c),
           NEW k \in Clients, Placed(channels, w, deleting, k)
    PROVE  Placed(channels', where', deleting', k)
<1>1. /\ channels' = ChannelsAfterCleanup(channels, w, Bots, c)
      /\ where' = WhereAfterCleanup(channels, w, Bots, c)
      /\ deleting' = deleting
  BY DEF SettleAfterLeaving, Mended
<1>2. CASE channels' = channels
  BY <1>1, <1>2 DEF WhereAfterCleanup, Placed
<1>3. CASE channels' # channels
  <2>1. DOMAIN channels' = DOMAIN channels \ {c}
    BY <1>1, <1>3, RemoveDomain DEF ChannelsAfterCleanup
  <2>2. where' = [j \in Clients |-> IF w[j] = c THEN 0 ELSE w[j]]
    BY <1>1, <1>3 DEF ChannelsAfterCleanup, WhereAfterCleanup
  <2> QED
    BY <1>1, <2>1, <2>2 DEF Placed
<1> QED
  BY <1>2, <1>3

\* The second part of a UDP channeldelete strands nobody who has a place before
\* it, except those it moves to a default channel that is gone by then.
LEMMA VacateStrandsNobody ==
    ASSUME IInv, UdpVacate, NEW j \in Clients, Placed(channels, where, deleting, j)
    PROVE  \/ Placed(channels', where', deleting', j)
           \/ \E d \in deleting \ deleting' : where[j] = d.c /\ d.home \notin DOMAIN channels'
<1>t. where \in [Clients -> 0..MaxChannelId] /\ Deletions(deleting)
  BY DEF IInv, TypeOK
<1>1. PICK d \in deleting :
         LET bots == {k \in Bots \cap d.moved : d.temp /\ where[k] = d.c}
             w    == [k \in Clients |-> IF k \in bots THEN 0 ELSE where[k]]
             kept == IF bots = {} THEN channels ELSE ChannelsAfterCleanup(channels, w, Bots, d.c)
         IN  channels' = kept /\ where' = Vacated(where, d) /\ deleting' = {}
  BY DEF UdpVacate
<1> DEFINE bots == {k \in Bots \cap d.moved : d.temp /\ where[k] = d.c}
           w    == [k \in Clients |-> IF k \in bots THEN 0 ELSE where[k]]
           kept == IF bots = {} THEN channels ELSE ChannelsAfterCleanup(channels, w, Bots, d.c)
<1>2. channels' = kept /\ where' = Vacated(where, d) /\ deleting' = {}
  BY <1>1
<1>3. (where[j] = d.c /\ j \in d.moved) \/ where[j] \in {0} \union DOMAIN channels
  BY <1>t DEF Placed, Deletions
<1>4. CASE where[j] = d.c /\ j \in d.moved
  <2>1. where'[j] = 0 \/ where'[j] = d.home
    BY <1>2, <1>4 DEF Vacated
  <2>2. CASE d.home \in DOMAIN channels'
    BY <2>1, <2>2 DEF Placed
  <2>3. CASE d.home \notin DOMAIN channels'
    BY <1>2, <1>4, <2>3
  <2> QED BY <2>2, <2>3
<1>5. CASE ~ (where[j] = d.c /\ j \in d.moved)
  <2>1. where'[j] = where[j] /\ where[j] \in {0} \union DOMAIN channels
    BY <1>2, <1>3, <1>5 DEF Vacated
  <2>2. CASE channels' = channels
    BY <2>1, <2>2 DEF Placed
  <2>3. CASE channels' # channels
    <3>1. /\ bots # {} /\ channels' = ChannelsAfterCleanup(channels, w, Bots, d.c)
          /\ Bots \subseteq d.moved
      BY <1>2, <1>t, <2>3 DEF Deletions
    <3>2. w \in [Clients -> 0..MaxChannelId] /\ (w[j] = where[j] \/ j \in Bots)
      BY <1>t, MaxChannelIdAssumption
    <3> HIDE DEF bots, w, kept
    <3>3. DOMAIN channels' = DOMAIN channels \ {d.c} /\ Occupants(w, d.c) \subseteq Bots
      BY <2>3, <3>1, RemoveDomain DEF ChannelsAfterCleanup
    <3>4. where[j] # d.c
      BY <1>5, <3>1, <3>2, <3>3 DEF Occupants
    <3> QED BY <2>1, <3>3, <3>4 DEF Placed
  <2> QED BY <2>2, <2>3
<1> QED
  BY <1>4, <1>5

\* While the channel that serves as the default survives the step, nobody who
\* has a place loses it but by the three steps that NobodyStranded names.
THEOREM NobodyIsStranded == Spec => NobodyStranded
<1> DEFINE Excused(k) ==
              \/ deleting = {} /\ \E d \in deleting' : where[k] = d.c
              \/ \E d \in deleting \ deleting' : where[k] = d.c /\ d.home \notin DOMAIN channels'
              \/ ClientPutBack(k)
           Stays(k) == Placed(channels', where', deleting', k)
           Safe == DefaultChannelId(channels) \in DOMAIN channels' =>
                     \A k \in Clients : Placed(channels, where, deleting, k) =>
                        \/ Placed(channels', where', deleting', k)
                        \/ deleting = {} /\ \E d \in deleting' : where[k] = d.c
                        \/ \E d \in deleting \ deleting' :
                              where[k] = d.c /\ d.home \notin DOMAIN channels'
                        \/ ClientPutBack(k)
<1>1. IInv /\ [Next]_vars => [Safe]_vars
  <2> SUFFICES ASSUME IInv, Next, DefaultChannelId(channels) \in DOMAIN channels',
                      NEW j \in Clients, Placed(channels, where, deleting, j)
               PROVE  Stays(j) \/ Excused(j)
    OBVIOUS
  <2>t. where \in [Clients -> 0..MaxChannelId] /\ Table(channels)
    BY DEF IInv, TypeOK, Sound
  <2>0. ASSUME DOMAIN channels \subseteq DOMAIN channels', deleting' = deleting, where' = where
        PROVE  Stays(j)
    BY <2>0 DEF Placed
  <2>1. ASSUME NEW p, NEW o, NEW k, NEW d \in BOOLEAN, ChannelCreate(p, o, k, d)
        PROVE  Stays(j)
    <3>1. PICK c : /\ channels' = AddChannel(channels, c, p, o, k, d)
                   /\ where' = where /\ deleting' = deleting
      BY <2>1 DEF ChannelCreate, Mended
    <3>2. DOMAIN channels' = DOMAIN channels \union {c}
      BY <3>1, RelinkDomain DEF AddChannel
    <3> QED
      BY <3>1, <3>2, <2>0
  <2>2. ASSUME NEW c, NEW f, ChannelDelete(c, f)
        PROVE  Stays(j)
    <3>1. PICK D : /\ channels' = RemoveChannels(channels, D, channels[c].parent)
                   /\ where' = WhereAfterDelete(where, Bots, D, channels[c].kind,
                                                DefaultChannelId(channels))
                   /\ deleting' = deleting
      BY <2>2 DEF ChannelDelete, Mended
    <3>2. DOMAIN channels' = DOMAIN channels \ D
      BY <3>1, RemoveDomain
    <3> QED
      BY <2>t, <3>1, <3>2 DEF WhereAfterDelete, Placed
  <2>3. ASSUME NEW c, NEW d, NEW p, NEW o, NEW k, ChannelEdit(c, d, p, o, k)
        PROVE  Stays(j)
    <3>1. DOMAIN Flagged(c, d) = DOMAIN channels
      BY FlagDomain DEF Flagged
    <3>2. DOMAIN Repositioned(Flagged(c, d), c, p, o) = DOMAIN channels
      BY <3>1, MoveDomain DEF Repositioned
    <3>3. DOMAIN channels' = DOMAIN channels /\ where' = where /\ deleting' = deleting
      BY <2>3, <3>2 DEF ChannelEdit, Mended
    <3> QED
      BY <3>3, <2>0
  <2>4. ASSUME NEW c, NEW d, NEW p, NEW o, ChannelEditRefused(c, d, p, o)
        PROVE  Stays(j)
    BY <2>4, <2>0, FlagDomain DEF ChannelEditRefused, Flagged
  <2>5. ASSUME NEW c, NEW p, NEW o, ChannelMove(c, p, o)
        PROVE  Stays(j)
    BY <2>5, <2>0, MoveDomain DEF ChannelMove, Mended
  <2>6. ASSUME NEW p, NEW o, NEW k, NEW d, UdpChannelCreate(p, o, k, d)
        PROVE  Stays(j)
    BY <2>6, <2>0 DEF UdpChannelCreate, UdpAdd
  <2>7. ASSUME NEW c, NEW d, NEW o, NEW k, UdpChannelEdit(c, d, o, k)
        PROVE  Stays(j)
    BY <2>7, <2>0 DEF UdpChannelEdit, UdpEdit
  <2>8. ASSUME NEW k, NEW dialect, NEW c, UdpChannelDelete(k, dialect, c)
        PROVE  Stays(j) \/ Excused(j)
    <3>1. /\ deleting = {} /\ where' = where /\ DOMAIN channels' = DOMAIN channels \ {c}
          /\ \E d \in deleting' : d.c = c
      BY <2>8 DEF UdpChannelDelete, UdpCommand
    <3> QED
      BY <3>1 DEF Placed
  <2>9. CASE UdpVacate
    BY <2>9, VacateStrandsNobody
  <2>10. ASSUME NEW k \in Clients, ClientPutBack(k)
         PROVE  Stays(j) \/ Excused(j)
    <3>1. CASE k = j
      BY <2>10, <3>1
    <3>2. CASE k # j
      BY <2>10, <2>t, <3>2 DEF ClientPutBack, Placed
    <3> QED BY <3>1, <3>2
  <2>11. ASSUME NEW k \in Clients, NEW c, UdpClientMove(k, c)
         PROVE  Stays(j)
    BY <2>11, <2>t DEF UdpClientMove, Placed
  <2>12. ASSUME NEW k \in Clients, NEW c, ClientEnter(k, c)
         PROVE  Stays(j)
    BY <2>12, <2>t DEF ClientEnter, Placed
  <2>13. ASSUME NEW k \in Clients, NEW c \in ChannelIds, ClientMove(k, c)
         PROVE  Stays(j)
    <3>1. [where EXCEPT ![k] = c] \in [Clients -> 0..MaxChannelId]
      BY <2>t, MaxChannelIdAssumption DEF ChannelIds
    <3>2. Placed(channels, [where EXCEPT ![k] = c], deleting, j)
      BY <2>13, <2>t DEF ClientMove, Placed
    <3> QED
      BY <2>13, <3>1, <3>2, SettleStrandsNobody DEF ClientMove
  <2>14. ASSUME NEW k \in Clients, ClientKickFromChannel(k)
         PROVE  Stays(j)
    <3> DEFINE w == [where EXCEPT ![k] = DefaultChannelId(channels)]
    <3>1. w \in [Clients -> 0..MaxChannelId]
      BY <2>t, DefaultChannelIsId, MaxChannelIdAssumption
    <3>2. DOMAIN channels' \subseteq DOMAIN channels
      <4>1. channels' = ChannelsAfterCleanup(channels, w, Bots, where[k])
        BY <2>14 DEF ClientKickFromChannel, SettleAfterLeaving
      <4> HIDE DEF w
      <4> QED
        BY <4>1, CleanupDomain
    <3>3. Placed(channels, w, deleting, j)
      BY <2>t, <3>2 DEF Placed
    <3> QED
      BY <2>14, <3>1, <3>3, SettleStrandsNobody DEF ClientKickFromChannel
  <2>15. ASSUME NEW k \in Clients, ClientLeave(k)
         PROVE  Stays(j)
    <3>1. [where EXCEPT ![k] = 0] \in [Clients -> 0..MaxChannelId]
      BY <2>t, MaxChannelIdAssumption
    <3>2. Placed(channels, [where EXCEPT ![k] = 0], deleting, j)
      BY <2>t DEF Placed
    <3> QED
      BY <2>15, <3>1, <3>2, SettleStrandsNobody DEF ClientLeave
  <2>16. ASSUME NEW k \in Clients, ClientQuit(k)
         PROVE  Stays(j)
    BY <2>16, <2>t DEF ClientQuit, Placed
  <2>17. ASSUME NEW c, CleanupTemporaryChannel(c)
         PROVE  Stays(j)
    BY <2>17, <2>t, SettleStrandsNobody DEF CleanupTemporaryChannel
  <2> HIDE DEF Stays, Excused
  <2> QED
    BY <2>1, <2>2, <2>3, <2>4, <2>5, <2>6, <2>7, <2>8, <2>9, <2>10, <2>11, <2>12, <2>13,
       <2>14, <2>15, <2>16, <2>17 DEF Next
<1> QED
  BY <1>1, InitSound, Inductive, PTL DEF Spec, NobodyStranded
-----------------------------------------------------------------------------
(* The order chains of the siblings.                                       *)

\* Counting up from 0, every step of which leads from a good number to the
\* next one, meets good numbers only.
LEMMA CountUp ==
    ASSUME NEW n \in Nat, NEW good, 0 \in good, \A i \in 1..n : i - 1 \in good => i \in good
    PROVE  \A i \in 0..n : i \in good
<1> DEFINE bad == (0..n) \ good
<1> SUFFICES ASSUME bad # {} PROVE FALSE
  OBVIOUS
<1>1. PICK x \in bad : \A y \in bad : x <= y
  <2>1. bad \in SUBSET Nat
    OBVIOUS
  <2> HIDE DEF bad
  <2> QED
    BY <2>1, LeastOf
<1>2. x \in 1..n /\ x - 1 \in 0..n /\ x - 1 \notin good
  OBVIOUS
<1>3. x - 1 \in bad /\ ~ (x <= x - 1)
  BY <1>2
<1> QED
  BY <1>1, <1>3

\* Different members of S in a sequence.
Listed(ids, S) ==
    /\ ids \in Seq(S)
    /\ \A i, j \in 1..Len(ids) : ids[i] = ids[j] => i = j

\* Every member of S once.
Enumerates(ids, S) == Listed(ids, S) /\ S \subseteq ToSet(ids)

\* The ids in a list.
LEMMA InToSet ==
    ASSUME NEW S, NEW ids \in Seq(S)
    PROVE  /\ \A x : x \in ToSet(ids) <=> \E i \in 1..Len(ids) : ids[i] = x
           /\ ToSet(ids) \subseteq S
BY DEF ToSet

\* One turn of either loop of ordered_sibling_ids puts one more sibling on the
\* list, unless it finds none.
LEMMA ExtendedListed ==
    ASSUME NEW S \in SUBSET ChannelIds, NEW ids, Listed(ids, S),
           NEW more \in SUBSET (S \ ToSet(ids))
    PROVE  /\ Listed(Extended(ids, more), S)
           /\ more # {} => /\ Least(more) \in more
                           /\ ToSet(Extended(ids, more)) = ToSet(ids) \union {Least(more)}
<1>1. CASE more = {}
  BY <1>1 DEF Extended
<1>2. CASE more # {}
  <2> DEFINE x == Least(more)
             new == Append(ids, x)
  <2>1. x \in more
    BY <1>2, LeastChannel
  <2>2. x \in S /\ x \notin ToSet(ids) /\ ids \in Seq(S)
    BY <2>1 DEF Listed
  <2> HIDE DEF x
  <2>3. /\ new \in Seq(S) /\ Len(new) = Len(ids) + 1
        /\ \A i \in 1..Len(ids) : new[i] = ids[i]
        /\ new[Len(ids) + 1] = x
    BY <2>2, AppendProperties
  <2>4. Len(ids) \in Nat
    BY <2>2, LenProperties
  <2>5. \A i \in 1..Len(ids) : ids[i] # x
    BY <2>2, InToSet
  <2> HIDE DEF new
  <2>6. Listed(new, S)
    BY <2>3, <2>4, <2>5 DEF Listed
  <2>7. ToSet(new) = ToSet(ids) \union {x}
    <3>1. \A y : y \in ToSet(new) <=> \E i \in 1..Len(new) : new[i] = y
      BY <2>3, InToSet
    <3>2. \A y : y \in ToSet(ids) <=> \E i \in 1..Len(ids) : ids[i] = y
      BY <2>2, InToSet
    <3>3. \A i : i \in 1..Len(new) <=> i \in 1..Len(ids) \/ i = Len(ids) + 1
      BY <2>3, <2>4
    <3>4. \A y : y \in ToSet(new) <=> y \in ToSet(ids) \/ y = x
      BY <2>3, <3>1, <3>2, <3>3
    <3> QED BY <3>4
  <2> QED
    BY <1>2, <2>1, <2>6, <2>7 DEF Extended, x, new
<1> QED
  BY <1>1, <1>2

\* What a turn of the first loop (loop = "chain") or the second one chooses from.
Eligible(ch, S, loop, ids) ==
    IF loop = "chain" THEN {c \in S \ ToSet(ids) : ch[c].order = IF ids = <<>> THEN 0 ELSE Last(ids)}
    ELSE S \ ToSet(ids)

\* One turn of the first loop, or of the second one.
Turn(ch, S, loop, ids) == Extended(ids, Eligible(ch, S, loop, ids))

\* f is the course of a loop over S that starts with the list base.
Runs(f, ch, S, loop, base, n) ==
    f = [i \in 0..n |-> IF i = 0 THEN base ELSE Turn(ch, S, loop, f[i-1])]

\* Such a course exists: each turn is settled by the one before it.
LEMMA RunExists ==
    ASSUME NEW ch, NEW S, NEW loop, NEW base, NEW n \in Nat
    PROVE  \E f : Runs(f, ch, S, loop, base, n)
<1> DEFINE good == {m \in Nat : \E f : Runs(f, ch, S, loop, base, m)}
<1>1. 0 \in good
  <2> DEFINE f == [i \in 0..0 |-> base]
  <2>1. f = [i \in 0..0 |-> IF i = 0 THEN base ELSE Turn(ch, S, loop, f[i-1])]
    <3>1. \A i \in 0..0 : i = 0
      OBVIOUS
    <3> QED BY <3>1
  <2> HIDE DEF f
  <2> QED
    BY <2>1 DEF Runs
<1>2. ASSUME NEW m \in 1..n, m - 1 \in good
      PROVE  m \in good
  <2>1. PICK h : Runs(h, ch, S, loop, base, m - 1)
    BY <1>2
  <2>2. /\ DOMAIN h = 0..(m - 1)
        /\ \A i \in 0..(m - 1) : h[i] = IF i = 0 THEN base ELSE Turn(ch, S, loop, h[i-1])
    BY <2>1 DEF Runs
  <2> DEFINE f == [i \in 0..m |-> IF i = m THEN Turn(ch, S, loop, h[m-1]) ELSE h[i]]
             g == [i \in 0..m |-> IF i = 0 THEN base ELSE Turn(ch, S, loop, f[i-1])]
  <2>3. ASSUME NEW i \in 0..m PROVE f[i] = g[i]
    <3>1. CASE i = 0
      BY <2>2, <3>1
    <3>2. CASE i # 0
      <4>1. i - 1 \in 0..m /\ i - 1 # m /\ i - 1 \in 0..(m - 1)
        BY <3>2
      <4>2. f[i-1] = h[i-1] /\ g[i] = Turn(ch, S, loop, h[i-1])
        BY <3>2, <4>1
      <4>3. CASE i = m
        BY <4>2, <4>3
      <4>4. CASE i # m
        <5>1. i \in 0..(m - 1)
          BY <4>4
        <5>2. f[i] = h[i] /\ h[i] = Turn(ch, S, loop, h[i-1])
          BY <2>2, <3>2, <4>4, <5>1
        <5> QED BY <4>2, <5>2
      <4> QED BY <4>3, <4>4
    <3> QED BY <3>1, <3>2
  <2>4. f = g
    BY <2>3
  <2>5. Runs(f, ch, S, loop, base, m)
    <3> HIDE DEF f
    <3> QED BY <2>4 DEF Runs
  <2> QED BY <2>5
<1> HIDE DEF good
<1>3. n \in good
  BY <1>1, <1>2, CountUp
<1> QED
  BY <1>3 DEF good

\* The turns of a loop, one by one.
LEMMA RunTurns ==
    ASSUME NEW ch, NEW S, NEW loop, NEW base, NEW n \in Nat, NEW f,
           Runs(f, ch, S, loop, base, n)
    PROVE  /\ f[0] = base
           /\ \A i \in 1..n : f[i] = Turn(ch, S, loop, f[i-1])
<1>1. \A i \in 0..n : f[i] = IF i = 0 THEN base ELSE Turn(ch, S, loop, f[i-1])
  BY DEF Runs
<1> QED
  BY <1>1

\* No loop lists a sibling twice.
LEMMA RunListed ==
    ASSUME NEW ch, NEW S \in SUBSET ChannelIds, NEW loop, NEW base, Listed(base, S),
           NEW n \in Nat, NEW f, Runs(f, ch, S, loop, base, n)
    PROVE  \A i \in 0..n : Listed(f[i], S)
<1> DEFINE good == {i \in 0..n : Listed(f[i], S)}
<1>1. 0 \in good
  <2>1. f[0] = base
    BY RunTurns
  <2> QED BY <2>1
<1>2. ASSUME NEW i \in 1..n, i - 1 \in good
      PROVE  i \in good
  <2>1. f[i] = Turn(ch, S, loop, f[i-1]) /\ Listed(f[i-1], S)
    BY <1>2, RunTurns
  <2>2. Eligible(ch, S, loop, f[i-1]) \in SUBSET (S \ ToSet(f[i-1]))
    BY DEF Eligible
  <2> QED
    BY <2>1, <2>2, ExtendedListed DEF Turn
<1> HIDE DEF good
<1>3. \A i \in 0..n : i \in good
  BY <1>1, <1>2, CountUp
<1> QED
  BY <1>3 DEF good

\* The second loop of ordered_sibling_ids leaves nobody out.
LEMMA RunCovers ==
    ASSUME NEW ch, NEW S \in SUBSET ChannelIds, NEW base, Listed(base, S),
           NEW f, Runs(f, ch, S, "rest", base, Cardinality(S))
    PROVE  Enumerates(f[Cardinality(S)], S)
<1> DEFINE n == Cardinality(S)
           Left(i) == S \ ToSet(f[i])
           good == {i \in 0..n : Cardinality(Left(i)) + i <= n \/ Left(i) = {}}
<1>1. IsFiniteSet(S) /\ n \in Nat
  <2>1. IsFiniteSet(ChannelIds)
    BY FS_Interval, MaxChannelIdAssumption DEF ChannelIds
  <2> QED BY <2>1, FS_Subset, FS_CardinalityType
<1> HIDE DEF n
<1>2. \A T \in SUBSET S : IsFiniteSet(T) /\ Cardinality(T) \in Nat /\ Cardinality(T) <= n
  BY <1>1, FS_Subset, FS_CardinalityType DEF n
<1>3. Runs(f, ch, S, "rest", base, n)
  BY DEF n
<1>4. \A i \in 0..n : Listed(f[i], S)
  BY <1>1, <1>3, RunListed
<1>5. 0 \in good
  BY <1>1, <1>2
<1>6. ASSUME NEW i \in 1..n, i - 1 \in good
      PROVE  i \in good
  <2>1. f[i] = Extended(f[i-1], Left(i-1)) /\ i - 1 \in 0..n
    <3>1. f[i] = Turn(ch, S, "rest", f[i-1])
      BY <1>1, <1>3, RunTurns
    <3> QED BY <1>1, <3>1 DEF Turn, Eligible
  <2>2. CASE Left(i-1) = {}
    <3>1. f[i] = f[i-1]
      BY <2>1, <2>2 DEF Extended
    <3> QED BY <2>2, <3>1
  <2>3. CASE Left(i-1) # {}
    <3>1. PICK x \in Left(i-1) : ToSet(f[i]) = ToSet(f[i-1]) \union {x}
      BY <2>1, <2>3, <1>4, ExtendedListed
    <3>2. Left(i) = Left(i-1) \ {x}
      BY <3>1
    <3>3. Cardinality(Left(i)) = Cardinality(Left(i-1)) - 1
      <4>1. IsFiniteSet(Left(i-1))
        BY <1>2
      <4> HIDE DEF Left
      <4> QED BY <3>1, <3>2, <4>1, FS_RemoveElement
    <3>4. Cardinality(Left(i-1)) + (i - 1) <= n
      BY <1>6, <2>3
    <3>5. Cardinality(Left(i-1)) \in Nat
      BY <1>2
    <3> HIDE DEF Left
    <3> QED BY <1>1, <3>3, <3>4, <3>5
  <2> QED BY <2>2, <2>3
<1> HIDE DEF good
<1>7. n \in good
  BY <1>1, <1>5, <1>6, CountUp
<1>8. Left(n) = {}
  <2>1. Cardinality(Left(n)) + n <= n \/ Left(n) = {}
    BY <1>7 DEF good
  <2>2. Cardinality(Left(n)) \in Nat /\ IsFiniteSet(Left(n))
    BY <1>2
  <2>3. Cardinality(Left(n)) = 0 => Left(n) = {}
    BY <2>2, FS_EmptySet
  <2> HIDE DEF Left
  <2> QED BY <1>1, <2>1, <2>2, <2>3
<1> QED
  BY <1>1, <1>4, <1>8 DEF Enumerates, n

\* The empty list.
LEMMA NothingListed == ASSUME NEW S PROVE Listed(<<>>, S)
<1>1. <<>> \in Seq(S) /\ Len(<<>>) = 0
  BY EmptySeq
<1> QED
  BY <1>1 DEF Listed

\* What ordered_sibling_ids returns is the outcome of the two loops.
LEMMA TwoLoops ==
    ASSUME NEW ch, NEW p, NEW x, NEW S, S = Siblings(ch, p) \ {x}, S \in SUBSET ChannelIds
    PROVE  \E w, r : /\ Runs(w, ch, S, "chain", <<>>, Cardinality(S))
                     /\ Runs(r, ch, S, "rest", w[Cardinality(S)], Cardinality(S))
                     /\ OrderedSiblingIds(ch, p, x) = r[Cardinality(S)]
<1> DEFINE n == Cardinality(S)
           Remaining(ids) == S \ ToSet(ids)
           Followers(ids) ==
               {c \in Remaining(ids) : ch[c].order = IF ids = <<>> THEN 0 ELSE Last(ids)}
           W(g) == [i \in 0..n |-> IF i = 0 THEN <<>> ELSE Extended(g[i-1], Followers(g[i-1]))]
           walk == CHOOSE g : g = W(g)
           R(g) == [i \in 0..n |-> IF i = 0 THEN walk[n] ELSE Extended(g[i-1], Remaining(g[i-1]))]
           rest == CHOOSE g : g = R(g)
<1>1. OrderedSiblingIds(ch, p, x) = rest[n]
  BY DEF OrderedSiblingIds
<1>2. n \in Nat
  <2>1. IsFiniteSet(ChannelIds)
    BY FS_Interval, MaxChannelIdAssumption DEF ChannelIds
  <2> QED BY <2>1, FS_Subset, FS_CardinalityType
<1>3. \A g : Runs(g, ch, S, "chain", <<>>, n) <=> g = W(g)
  BY DEF Runs, Turn, Eligible
<1>4. walk = W(walk)
  <2>1. \E g : g = W(g)
    <3>1. \E g : Runs(g, ch, S, "chain", <<>>, n)
      BY <1>2, RunExists
    <3> HIDE DEF W
    <3> QED BY <1>3, <3>1, Zenon
  <2> HIDE DEF W
  <2> QED BY <2>1, Zenon
<1> HIDE DEF walk
<1>5. \A g : Runs(g, ch, S, "rest", walk[n], n) <=> g = R(g)
  BY DEF Runs, Turn, Eligible
<1>6. rest = R(rest)
  <2>1. \E g : g = R(g)
    <3>1. \E g : Runs(g, ch, S, "rest", walk[n], n)
      BY <1>2, RunExists
    <3> HIDE DEF R
    <3> QED BY <1>5, <3>1, Zenon
  <2> HIDE DEF R
  <2> QED BY <2>1, Zenon
<1> HIDE DEF rest
<1> QED
  BY <1>1, <1>3, <1>4, <1>5, <1>6

\* ordered_sibling_ids lists every sibling once, however broken the order
\* links are.
LEMMA OrderedEnumerates ==
    ASSUME NEW ch, Table(ch), NEW p, NEW x
    PROVE  Enumerates(OrderedSiblingIds(ch, p, x), Siblings(ch, p) \ {x})
<1> DEFINE S == Siblings(ch, p) \ {x}
<1>1. S \in SUBSET ChannelIds
  BY DEF Siblings, Table
<1>s. S = Siblings(ch, p) \ {x}
  OBVIOUS
<1> HIDE DEF S
<1>2. PICK w, r : /\ Runs(w, ch, S, "chain", <<>>, Cardinality(S))
                  /\ Runs(r, ch, S, "rest", w[Cardinality(S)], Cardinality(S))
                  /\ OrderedSiblingIds(ch, p, x) = r[Cardinality(S)]
  BY <1>1, <1>s, TwoLoops
<1>3. Cardinality(S) \in Nat
  <2>1. IsFiniteSet(ChannelIds)
    BY FS_Interval, MaxChannelIdAssumption DEF ChannelIds
  <2> QED BY <1>1, <2>1, FS_Subset, FS_CardinalityType
<1>4. Listed(w[Cardinality(S)], S)
  <2>1. Listed(<<>>, S)
    BY NothingListed
  <2>2. \A i \in 0..Cardinality(S) : Listed(w[i], S)
    BY <1>1, <1>2, <1>3, <2>1, RunListed
  <2> QED BY <1>3, <2>2
<1>5. Enumerates(r[Cardinality(S)], S)
  BY <1>1, <1>2, <1>4, RunCovers
<1> QED
  BY <1>2, <1>5 DEF S
\* s is the order chain of the children of p: it holds each of them once, and
\* each names the one before it.
Links(ch, p, s) ==
    /\ Enumerates(s, Siblings(ch, p))
    /\ \A i \in 1..Len(s) : ch[s[i]].order = IF i = 1 THEN 0 ELSE s[i-1]

\* ids are the first i ids of s.
Begins(ids, s, i) ==
    /\ Len(ids) = i
    /\ \A j \in 1..i : ids[j] = s[j]

\* Along an order chain the one follower of a member is the next member.
LEMMA NextInChain ==
    ASSUME NEW ch, NEW p, NEW s, Links(ch, p, s), NEW S \in SUBSET ChannelIds, S = Siblings(ch, p),
           NEW i \in 0..Len(s), i # Len(s), NEW ids \in Seq(S), Begins(ids, s, i)
    PROVE  Eligible(ch, S, "chain", ids) = {s[i+1]}
<1> DEFINE before == IF ids = <<>> THEN 0 ELSE Last(ids)
<1>1. /\ s \in Seq(S) /\ Len(s) \in Nat
      /\ \A j, k \in 1..Len(s) : s[j] = s[k] => j = k
      /\ \A x \in S : \E k \in 1..Len(s) : s[k] = x
      /\ \A k \in 1..Len(s) : s[k] \in S
  <2>1. s \in Seq(S)
    BY DEF Links, Enumerates, Listed
  <2>2. Len(s) \in Nat /\ \A k \in 1..Len(s) : s[k] \in S
    BY <2>1, LenProperties, ElementOfSeq
  <2>3. \A x \in S : \E k \in 1..Len(s) : s[k] = x
    BY <2>1, InToSet DEF Links, Enumerates
  <2> QED BY <2>1, <2>2, <2>3 DEF Links, Enumerates, Listed
<1>2. before = IF i = 0 THEN 0 ELSE s[i]
  <2>1. CASE i = 0
    <3>1. ids = <<>>
      BY <2>1, EmptySeq DEF Begins
    <3> QED BY <2>1, <3>1
  <2>2. CASE i # 0
    <3>1. ids # <<>>
      BY <2>2, EmptySeq DEF Begins
    <3>2. Last(ids) = s[i]
      <4>1. Len(ids) = i /\ i \in 1..i
        BY <1>1, <2>2 DEF Begins
      <4>2. ids[i] = s[i]
        BY <4>1 DEF Begins
      <4> QED BY <4>1, <4>2 DEF Last
    <3> QED BY <2>2, <3>1, <3>2
  <2> QED BY <2>1, <2>2
<1> HIDE DEF before
<1>3. i \in Nat /\ i + 1 \in 1..Len(s) /\ i + 1 # i
  BY <1>1
<1>4. \A x : x \in ToSet(ids) <=> \E k \in 1..i : s[k] = x
  <2>1. \A x : x \in ToSet(ids) <=> \E k \in 1..Len(ids) : ids[k] = x
    BY InToSet
  <2> QED BY <2>1 DEF Begins
<1>5. s[i+1] \in S \ ToSet(ids)
  <2>1. \A k \in 1..i : k \in 1..Len(s) /\ k # i + 1
    BY <1>1, <1>3
  <2>2. \A k \in 1..i : s[k] # s[i+1]
    BY <1>1, <1>3, <2>1
  <2>3. s[i+1] \in S
    BY <1>1, <1>3
  <2>4. s[i+1] \notin ToSet(ids)
    BY <1>4, <2>2
  <2> QED BY <2>3, <2>4
<1>6. ch[s[i+1]].order = before
  BY <1>2, <1>3 DEF Links
<1>7. ASSUME NEW x \in S \ ToSet(ids), ch[x].order = before
      PROVE  x = s[i+1]
  <2>1. PICK k \in 1..Len(s) : s[k] = x
    BY <1>1
  <2>2. ch[x].order = IF k = 1 THEN 0 ELSE s[k-1]
    BY <2>1 DEF Links
  <2>3. \A j \in 1..Len(s) : s[j] # 0
    <3>1. \A y \in S : y # 0
      BY MaxChannelIdAssumption DEF ChannelIds
    <3> QED BY <1>1, <3>1
  <2>4. CASE i = 0
    <3>1. k = 1 \/ k - 1 \in 1..Len(s)
      BY <1>1
    <3>2. k = 1
      BY <1>2, <1>7, <2>2, <2>3, <2>4, <3>1
    <3> QED BY <2>1, <2>4, <3>2
  <2>5. CASE i # 0
    <3>1. i \in 1..Len(s) /\ ch[x].order = s[i]
      BY <1>1, <1>2, <1>7, <2>5
    <3>2. k # 1
      BY <2>2, <2>3, <3>1
    <3>3. Len(s) \in Nat /\ k \in 1..Len(s) /\ i \in 1..Len(s)
      BY <1>1, <3>1
    <3>4. k - 1 \in 1..Len(s)
      BY <3>2, <3>3
    <3>5. k - 1 = i
      BY <1>1, <2>2, <3>1, <3>2, <3>4
    <3>6. k = i + 1
      BY <3>3, <3>5
    <3> QED BY <2>1, <3>6
  <2> QED BY <2>4, <2>5
<1> QED
  BY <1>5, <1>6, <1>7 DEF Eligible, before

\* ordered_sibling_ids walks an order chain from one end to the other.
LEMMA ChainFollowed ==
    ASSUME NEW ch, Table(ch), NEW p, NEW s, Links(ch, p, s)
    PROVE  OrderedSiblingIds(ch, p, None) = s
<1> DEFINE S == Siblings(ch, p)
           n == Len(s)
<1>1. S \in SUBSET ChannelIds /\ S = Siblings(ch, p) \ {None}
  BY MaxChannelIdAssumption DEF Siblings, Table, None, ChannelIds
<1>s. S = Siblings(ch, p)
  OBVIOUS
<1> HIDE DEF S
<1>2. /\ s \in Seq(S) /\ n \in Nat /\ s \in [1..n -> S]
      /\ \A j, k \in 1..n : s[j] = s[k] => j = k
      /\ \A x \in S : \E k \in 1..n : s[k] = x
  <2>1. s \in Seq(S)
    BY <1>s DEF Links, Enumerates, Listed
  <2>2. \A x \in S : \E k \in 1..n : s[k] = x
    BY <1>s, <2>1, InToSet DEF Links, Enumerates
  <2> QED BY <2>1, <2>2, LenProperties DEF Links, Enumerates, Listed
<1> HIDE DEF n
<1>3. Cardinality(S) = n
  <2>1. s \in Bijection(1..n, S)
    BY <1>2 DEF Bijection, Injection, Surjection, IsInjective
  <2> QED BY <1>2, <2>1, FS_CountingElements DEF ExistsBijection
<1>4. PICK w, r : /\ Runs(w, ch, S, "chain", <<>>, n)
                  /\ Runs(r, ch, S, "rest", w[n], n)
                  /\ OrderedSiblingIds(ch, p, None) = r[n]
  BY <1>1, <1>s, <1>3, TwoLoops
<1>t. /\ w[0] = <<>>
      /\ \A i \in 1..n : w[i] = Turn(ch, S, "chain", w[i-1])
      /\ r[0] = w[n]
      /\ \A i \in 1..n : r[i] = Turn(ch, S, "rest", r[i-1])
  <2>1. n \in Nat /\ Runs(w, ch, S, "chain", <<>>, n) /\ Runs(r, ch, S, "rest", w[n], n)
    BY <1>2, <1>4
  <2>2. w[0] = <<>> /\ \A i \in 1..n : w[i] = Turn(ch, S, "chain", w[i-1])
    <3>1. \A i \in 0..n : w[i] = IF i = 0 THEN <<>> ELSE Turn(ch, S, "chain", w[i-1])
      BY <2>1 DEF Runs
    <3> QED BY <2>1, <3>1
  <2>3. r[0] = w[n] /\ \A i \in 1..n : r[i] = Turn(ch, S, "rest", r[i-1])
    <3>1. \A i \in 0..n : r[i] = IF i = 0 THEN w[n] ELSE Turn(ch, S, "rest", r[i-1])
      BY <2>1 DEF Runs
    <3> QED BY <2>1, <3>1
  <2> QED BY <2>2, <2>3
<1>5. \A i \in 0..n : w[i] \in Seq(S) /\ Begins(w[i], s, i)
  <2> DEFINE good == {i \in 0..n : w[i] \in Seq(S) /\ Begins(w[i], s, i)}
  <2>1. 0 \in good
    <3>1. w[0] \in Seq(S) /\ Len(w[0]) = 0
      BY <1>t, EmptySeq
    <3>2. Begins(w[0], s, 0)
      BY <3>1 DEF Begins
    <3>3. 0 \in 0..n
      BY <1>2
    <3> QED BY <3>1, <3>2, <3>3
  <2>2. ASSUME NEW i \in 1..n, i - 1 \in good
        PROVE  i \in good
    <3>1. w[i] = Turn(ch, S, "chain", w[i-1])
      BY <1>t
    <3>2. w[i-1] \in Seq(S) /\ Begins(w[i-1], s, i-1)
      BY <2>2
    <3>3. Eligible(ch, S, "chain", w[i-1]) = {s[i]}
      <4>1. i - 1 \in 0..n /\ i - 1 # n /\ (i - 1) + 1 = i
        BY <1>2
      <4>2. Eligible(ch, S, "chain", w[i-1]) = {s[(i-1)+1]}
        <5> DEFINE k == i - 1
        <5>1. k \in 0..Len(s) /\ k # Len(s) /\ w[k] \in Seq(S) /\ Begins(w[k], s, k)
          BY <3>2, <4>1 DEF n
        <5> HIDE DEF k
        <5>2. Eligible(ch, S, "chain", w[k]) = {s[k+1]}
          <6> DEFINE ids == w[k]
          <6>1. ids \in Seq(S) /\ Begins(ids, s, k)
            BY <5>1
          <6> HIDE DEF ids
          <6>2. S \in SUBSET ChannelIds /\ S = Siblings(ch, p) /\ k \in 0..Len(s) /\ k # Len(s)
            BY <1>1, <1>s, <5>1
          <6>3. Eligible(ch, S, "chain", ids) = {s[k+1]}
            BY <6>1, <6>2, NextInChain
          <6> QED BY <6>3 DEF ids
        <5> QED BY <5>2 DEF k
      <4> QED BY <4>1, <4>2
    <3>4. s[i] \in S /\ Least({s[i]}) = s[i]
      <4>1. s[i] \in S
        BY <1>2
      <4>2. {s[i]} \in SUBSET ChannelIds
        BY <1>1, <4>1
      <4> QED BY <4>1, <4>2, LeastChannel
    <3>5. w[i] = Append(w[i-1], s[i])
      BY <3>1, <3>3, <3>4 DEF Turn, Extended
    <3>6. /\ w[i] \in Seq(S) /\ Len(w[i]) = Len(w[i-1]) + 1
          /\ \A j \in 1..Len(w[i-1]) : w[i][j] = w[i-1][j]
          /\ w[i][Len(w[i-1]) + 1] = s[i]
      BY <3>2, <3>4, <3>5, AppendProperties
    <3>7. Len(w[i-1]) = i - 1 /\ \A j \in 1..(i-1) : w[i-1][j] = s[j]
      BY <3>2 DEF Begins
    <3>8. Len(w[i]) = i /\ \A j \in 1..i : w[i][j] = s[j]
      <4>1. \A j \in 1..i : j \in 1..(i-1) \/ j = i
        BY <1>2
      <4>2. Len(w[i]) = i /\ Len(w[i-1]) + 1 = i
        BY <1>2, <3>6, <3>7
      <4> QED BY <3>6, <3>7, <4>1, <4>2
    <3> QED BY <3>6, <3>8 DEF Begins
  <2> HIDE DEF good
  <2>3. \A i \in 0..n : i \in good
    BY <1>2, <2>1, <2>2, CountUp
  <2> QED BY <2>3 DEF good
<1>6. w[n] = s
  <2>1. n \in 0..n
    BY <1>2
  <2>2. w[n] \in Seq(S) /\ Len(w[n]) = Len(s) /\ \A j \in 1..Len(s) : w[n][j] = s[j]
    BY <1>5, <2>1 DEF Begins, n
  <2> QED BY <1>2, <2>2, SeqEqual
<1>7. \A i \in 0..n : r[i] = s
  <2> DEFINE good == {i \in 0..n : r[i] = s}
  <2>1. 0 \in good
    <3>1. r[0] = s
      BY <1>t, <1>6
    <3> QED BY <1>2, <3>1
  <2>2. ASSUME NEW i \in 1..n, i - 1 \in good
        PROVE  i \in good
    <3>1. r[i] = Turn(ch, S, "rest", s)
      BY <1>t, <2>2
    <3>2. S \ ToSet(s) = {}
      BY <1>s DEF Links, Enumerates
    <3> QED BY <3>1, <3>2 DEF Turn, Eligible, Extended
  <2> HIDE DEF good
  <2>3. \A i \in 0..n : i \in good
    BY <1>2, <2>1, <2>2, CountUp
  <2> QED BY <2>3 DEF good
<1>8. n \in 0..n
  BY <1>2
<1> QED
  BY <1>4, <1>7, <1>8

\* A list with one more id somewhere in it.
LEMMA OneMore ==
    ASSUME NEW S, NEW c \in S, NEW ids, Enumerates(ids, S \ {c}), NEW new \in Seq(S),
           Len(new) = Len(ids) + 1, NEW i \in 0..Len(ids),
           \A j \in 1..Len(new) : new[j] = IF j <= i THEN ids[j] ELSE IF j = i + 1 THEN c ELSE ids[j-1]
    PROVE  Enumerates(new, S)
<1> DEFINE n == Len(ids)
<1>1. ids \in Seq(S \ {c}) /\ n \in Nat /\ i \in Nat /\ i <= n /\ Len(new) = n + 1
  BY LenProperties DEF Enumerates, Listed
<1>2. /\ \A j, k \in 1..n : ids[j] = ids[k] => j = k
      /\ \A j \in 1..n : ids[j] \in S \ {c}
      /\ \A x \in S \ {c} : \E j \in 1..n : ids[j] = x
  <2>1. \A j \in 1..n : ids[j] \in S \ {c}
    BY <1>1, ElementOfSeq
  <2>2. \A x \in S \ {c} : \E j \in 1..n : ids[j] = x
    BY <1>1, InToSet DEF Enumerates
  <2> QED BY <2>1, <2>2 DEF Enumerates, Listed
<1> HIDE DEF n
<1> DEFINE old(j) == IF j <= i THEN j ELSE j - 1
<1>3. ASSUME NEW j \in 1..(n + 1)
      PROVE  /\ j # i + 1 => old(j) \in 1..n /\ new[j] = ids[old(j)]
             /\ j = i + 1 => new[j] = c
  BY <1>1
<1>4. ASSUME NEW j \in 1..(n + 1), NEW k \in 1..(n + 1), new[j] = new[k]
      PROVE  j = k
  <2>1. CASE j = i + 1 \/ k = i + 1
    BY <1>2, <1>3, <1>4, <2>1
  <2>2. CASE j # i + 1 /\ k # i + 1
    <3>1. old(j) = old(k)
      BY <1>2, <1>3, <1>4, <2>2
    <3> QED BY <1>1, <2>2, <3>1
  <2> QED BY <2>1, <2>2
<1>5. ASSUME NEW x \in S
      PROVE  \E j \in 1..(n + 1) : new[j] = x
  <2>1. CASE x = c
    <3>1. i + 1 \in 1..(n + 1)
      BY <1>1
    <3> QED BY <1>3, <2>1, <3>1
  <2>2. CASE x # c
    <3>1. PICK k \in 1..n : ids[k] = x
      BY <1>2, <2>2
    <3>2. CASE k <= i
      <4>1. k \in 1..(n + 1) /\ k # i + 1 /\ old(k) = k
        BY <1>1, <3>2
      <4> QED BY <1>3, <3>1, <4>1
    <3>3. CASE ~ (k <= i)
      <4>1. k + 1 \in 1..(n + 1) /\ k + 1 # i + 1 /\ old(k + 1) = k
        BY <1>1, <3>3
      <4> QED BY <1>3, <3>1, <4>1
    <3> QED BY <3>2, <3>3
  <2> QED BY <2>1, <2>2
<1>6. Listed(new, S)
  BY <1>1, <1>4 DEF Listed
<1>7. S \subseteq ToSet(new)
  BY <1>1, <1>5, InToSet
<1> QED
  BY <1>6, <1>7 DEF Enumerates

\* Wherever resolve_insert_index puts it, the new sibling is on the list once.
LEMMA InsertEnumerates ==
    ASSUME NEW S, NEW c \in S, NEW ids, Enumerates(ids, S \ {c}), NEW order
    PROVE  Enumerates(InsertAtAnchor(ids, order, c), S)
<1> DEFINE n == Len(ids)
           one == <<c>>
<1>1. ids \in Seq(S) /\ n \in Nat
  <2>1. ids \in Seq(S \ {c})
    BY DEF Enumerates, Listed
  <2> QED BY <2>1, SeqMonotonic, LenProperties
<1>2. one \in Seq(S) /\ Len(one) = 1 /\ one[1] = c
  OBVIOUS
<1> HIDE DEF one, n
<1>3. CASE order = 0
  <2> DEFINE new == one \o ids
  <2>1. /\ new \in Seq(S) /\ Len(new) = n + 1
        /\ \A j \in 1..(n + 1) : new[j] = IF j <= 1 THEN one[j] ELSE ids[j - 1]
    <3>1. /\ new \in Seq(S) /\ Len(new) = Len(one) + Len(ids)
          /\ \A j \in 1..(Len(one) + Len(ids)) :
                new[j] = IF j <= Len(one) THEN one[j] ELSE ids[j - Len(one)]
      BY <1>1, <1>2, ConcatProperties
    <3>2. Len(one) = 1 /\ Len(ids) = n /\ 1 + n = n + 1
      BY <1>1, <1>2 DEF n
    <3> HIDE DEF new
    <3> QED BY <3>1, <3>2
  <2> HIDE DEF new
  <2>2. \A j \in 1..Len(new) : new[j] = IF j <= 0 THEN ids[j] ELSE IF j = 0 + 1 THEN c ELSE ids[j-1]
    <3>1. ASSUME NEW j \in 1..(n + 1)
          PROVE  new[j] = IF j <= 0 THEN ids[j] ELSE IF j = 0 + 1 THEN c ELSE ids[j-1]
      <4>1. ~ (j <= 0) /\ (j <= 1 <=> j = 0 + 1) /\ (j <= 1 => j = 1)
        BY <1>1
      <4>2. new[j] = IF j <= 1 THEN one[j] ELSE ids[j-1]
        BY <2>1
      <4> QED BY <1>2, <4>1, <4>2
    <3> QED BY <2>1, <3>1
  <2>3. 0 \in 0..Len(ids) /\ Len(new) = Len(ids) + 1
    BY <1>1, <2>1 DEF n
  <2>4. Enumerates(new, S)
    BY <2>1, <2>2, <2>3, OneMore
  <2> QED BY <1>3, <2>4 DEF InsertAtAnchor, new, one, None
<1>4. CASE order = None
  <2> DEFINE new == Append(ids, c)
  <2>1. /\ new \in Seq(S) /\ Len(new) = n + 1
        /\ \A j \in 1..n : new[j] = ids[j]
        /\ new[n + 1] = c
    BY <1>1, AppendProperties DEF n
  <2> HIDE DEF new
  <2>2. \A j \in 1..Len(new) : new[j] = IF j <= n THEN ids[j] ELSE IF j = n + 1 THEN c ELSE ids[j-1]
    BY <1>1, <2>1
  <2>3. n \in 0..Len(ids) /\ Len(new) = Len(ids) + 1
    BY <1>1, <2>1 DEF n
  <2>4. Enumerates(new, S)
    BY <2>1, <2>2, <2>3, OneMore
  <2> QED BY <1>4, <2>4 DEF InsertAtAnchor, new, None
<1>5. CASE order # 0 /\ order # None
  <2> DEFINE I == {j \in 1..Len(ids) : ids[j] = order}
             i == SelectInSeq(ids, LAMBDA x : x = order)
             left == SubSeq(ids, 1, i)
             right == SubSeq(ids, i + 1, Len(ids))
             new == left \o one \o right
  <2>1. i \in 0..n
    <3>1. i = IF I # {} THEN Min(I) ELSE 0
      BY DEF SelectInSeq
    <3>2. I # {} => Min(I) \in 1..n
      <4> SUFFICES ASSUME I # {} PROVE Min(I) \in 1..n
        OBVIOUS
      <4>1. I \in SUBSET Nat /\ I \in SUBSET (1..n)
        BY DEF n
      <4> HIDE DEF I
      <4>2. \E x \in I : \A y \in I : x <= y
        BY <4>1, LeastOf
      <4>3. Min(I) \in I
        BY <4>2 DEF Min
      <4> QED BY <4>1, <4>3
    <3> HIDE DEF i, I
    <3> QED BY <1>1, <3>1, <3>2
  <2> HIDE DEF i
  <2>i. i \in Nat /\ i <= n /\ n = Len(ids)
    BY <1>1, <2>1 DEF n
  <2>e. \A j \in 1..n : ids[j] \in S
    BY <1>1, ElementOfSeq DEF n
  <2>2. /\ left \in Seq(S) /\ Len(left) = i
        /\ \A j \in 1..i : left[j] = ids[j]
    <3>1. \A j \in 1..i : ids[j] \in S
      BY <1>1, <2>i, <2>e
    <3>2. /\ left \in Seq(S) /\ Len(left) = IF 1 <= i THEN i - 1 + 1 ELSE 0
          /\ \A j \in 1..(i - 1 + 1) : left[j] = ids[1 + j - 1]
      BY <2>i, <3>1, SubSeqProperties
    <3> HIDE DEF left
    <3>3. Len(left) = i
      BY <2>i, <3>2
    <3>4. \A j \in 1..i : j \in 1..(i - 1 + 1) /\ 1 + j - 1 = j
      BY <2>i
    <3> QED BY <3>2, <3>3, <3>4
  <2>3. /\ right \in Seq(S) /\ Len(right) = n - i
        /\ \A j \in 1..(n - i) : right[j] = ids[i + j]
    <3>1. \A j \in (i + 1)..n : ids[j] \in S
      BY <1>1, <2>i, <2>e
    <3>2. /\ right \in Seq(S) /\ Len(right) = IF i + 1 <= n THEN n - (i + 1) + 1 ELSE 0
          /\ \A j \in 1..(n - (i + 1) + 1) : right[j] = ids[(i + 1) + j - 1]
      BY <1>1, <2>i, <3>1, SubSeqProperties
    <3> HIDE DEF right
    <3>3. Len(right) = n - i
      BY <1>1, <2>i, <3>2
    <3>4. \A j \in 1..(n - i) : j \in 1..(n - (i + 1) + 1) /\ (i + 1) + j - 1 = i + j
      BY <1>1, <2>i
    <3> QED BY <3>2, <3>3, <3>4
  <2> HIDE DEF left, right
  <2>4. /\ left \o one \in Seq(S) /\ Len(left \o one) = i + 1
        /\ \A j \in 1..(i + 1) : (left \o one)[j] = IF j <= i THEN ids[j] ELSE c
    <3>1. /\ left \o one \in Seq(S) /\ Len(left \o one) = i + 1
          /\ \A j \in 1..(i + 1) : (left \o one)[j] = IF j <= i THEN left[j] ELSE one[j - i]
      <4>1. /\ left \o one \in Seq(S) /\ Len(left \o one) = Len(left) + Len(one)
            /\ \A j \in 1..(Len(left) + Len(one)) :
                  (left \o one)[j] = IF j <= Len(left) THEN left[j] ELSE one[j - Len(left)]
        BY <1>2, <2>2, ConcatProperties
      <4>2. Len(left) = i /\ Len(one) = 1
        BY <1>2, <2>2
      <4> QED BY <4>1, <4>2
    <3>2. \A j \in 1..(i + 1) : IF j <= i THEN j \in 1..i ELSE j - i = 1
      BY <2>i
    <3> QED BY <1>2, <2>2, <3>1, <3>2
  <2> DEFINE front == left \o one
  <2> HIDE DEF front
  <2>5. /\ new \in Seq(S) /\ Len(new) = n + 1
        /\ \A j \in 1..(n + 1) : new[j] = IF j <= i + 1 THEN front[j] ELSE right[j - (i + 1)]
    <3>1. front \in Seq(S) /\ Len(front) = i + 1 /\ new = front \o right
      BY <2>4 DEF front
    <3>2. /\ front \o right \in Seq(S) /\ Len(front \o right) = (i + 1) + (n - i)
          /\ \A j \in 1..((i + 1) + (n - i)) :
                (front \o right)[j] = IF j <= i + 1 THEN front[j] ELSE right[j - (i + 1)]
      <4>1. /\ front \o right \in Seq(S) /\ Len(front \o right) = Len(front) + Len(right)
            /\ \A j \in 1..(Len(front) + Len(right)) :
                  (front \o right)[j] = IF j <= Len(front) THEN front[j] ELSE right[j - Len(front)]
        BY <2>3, <3>1, ConcatProperties
      <4>2. Len(front) = i + 1 /\ Len(right) = n - i
        BY <2>3, <3>1
      <4> HIDE DEF new
      <4> QED BY <4>1, <4>2
    <3>3. (i + 1) + (n - i) = n + 1
      BY <1>1, <2>i
    <3> HIDE DEF new
    <3> QED BY <3>1, <3>2, <3>3
  <2> HIDE DEF new
  <2>6. ASSUME NEW j \in 1..(n + 1)
        PROVE  new[j] = IF j <= i THEN ids[j] ELSE IF j = i + 1 THEN c ELSE ids[j-1]
    <3>1. CASE j <= i + 1
      <4>1. j \in 1..(i + 1)
        BY <2>i, <3>1
      <4>2. new[j] = IF j <= i THEN ids[j] ELSE c
        BY <2>4, <2>5, <3>1, <4>1 DEF front
      <4> QED BY <2>i, <3>1, <4>2
    <3>2. CASE ~ (j <= i + 1)
      <4>1. j - (i + 1) \in 1..(n - i) /\ i + (j - (i + 1)) = j - 1 /\ ~ (j <= i) /\ j # i + 1
        BY <1>1, <2>i, <3>2
      <4>2. new[j] = ids[j - 1]
        BY <2>3, <2>5, <3>2, <4>1
      <4> QED BY <4>1, <4>2
    <3> QED BY <3>1, <3>2
  <2>7. Enumerates(new, S)
    <3>1. Len(new) = Len(ids) + 1 /\ i \in 0..Len(ids) /\ new \in Seq(S)
      BY <2>1, <2>5 DEF n
    <3>2. \A j \in 1..Len(new) : new[j] = IF j <= i THEN ids[j] ELSE IF j = i + 1 THEN c ELSE ids[j-1]
      BY <2>5, <2>6
    <3> QED BY <3>1, <3>2, OneMore
  <2> QED BY <1>5, <2>7 DEF InsertAtAnchor, new, left, right, i, one
<1> QED
  BY <1>3, <1>4, <1>5

\* relink_sibling_orders turns a list of the children of p into their order chain.
LEMMA RelinkLinks ==
    ASSUME NEW ch, Table(ch), NEW p, NEW ids, Enumerates(ids, Siblings(ch, p))
    PROVE  Links(RelinkSiblingOrders(ch, p, ids), p, ids)
<1> DEFINE S == Siblings(ch, p)
           new == RelinkSiblingOrders(ch, p, ids)
           Before(c) == {d \in S : \E i \in 1..(Len(ids) - 1) : ids[i] = d /\ ids[i+1] = c}
           o(c) == IF Before(c) = {} THEN 0 ELSE CHOOSE d \in Before(c) : TRUE
<1>1. /\ ids \in Seq(S) /\ Len(ids) \in Nat
      /\ \A i \in 1..Len(ids) : ids[i] \in S
      /\ \A i, j \in 1..Len(ids) : ids[i] = ids[j] => i = j
  BY LenProperties, ElementOfSeq DEF Enumerates, Listed
<1>2. Siblings(new, p) = S
  <2>1. SameLinks(ch, new)
    BY RelinkKeepsLinks
  <2> HIDE DEF new
  <2> QED BY <2>1 DEF SameLinks, Siblings
<1>3. ASSUME NEW i \in 1..Len(ids)
      PROVE  new[ids[i]].order = IF i = 1 THEN 0 ELSE ids[i-1]
  <2>1. ids[i] \in DOMAIN ch /\ ch[ids[i]].parent = p /\ Contains(ids, ids[i])
    BY <1>1 DEF Siblings, Contains
  <2>2. ch[ids[i]] \in Channel
    BY <2>1 DEF Table
  <2>3. new[ids[i]] = [ch[ids[i]] EXCEPT !.order = o(ids[i])]
    BY <2>1 DEF RelinkSiblingOrders
  <2>4. o(ids[i]) = IF i = 1 THEN 0 ELSE ids[i-1]
    <3>1. CASE i = 1
      <4>1. Before(ids[i]) = {}
        <5> SUFFICES ASSUME NEW j \in 1..(Len(ids) - 1), ids[j+1] = ids[i] PROVE FALSE
          OBVIOUS
        <5>1. j + 1 \in 1..Len(ids) /\ j + 1 # 1
          BY <1>1
        <5> QED BY <1>1, <3>1, <5>1
      <4> QED BY <3>1, <4>1
    <3>2. CASE i # 1
      <4>1. i - 1 \in 1..(Len(ids) - 1) /\ i - 1 \in 1..Len(ids) /\ (i - 1) + 1 = i
        BY <1>1, <3>2
      <4>2. ids[i-1] \in Before(ids[i])
        BY <1>1, <4>1
      <4>3. ASSUME NEW d \in Before(ids[i]) PROVE d = ids[i-1]
        <5>1. PICK j \in 1..(Len(ids) - 1) : ids[j] = d /\ ids[j+1] = ids[i]
          BY <4>3
        <5>2. j + 1 \in 1..Len(ids) /\ j \in Nat
          BY <1>1
        <5>3. j + 1 = i
          BY <1>1, <5>1, <5>2
        <5>4. j = i - 1
          BY <5>2, <5>3
        <5> QED BY <5>1, <5>4
      <4> HIDE DEF Before
      <4>4. (CHOOSE d \in Before(ids[i]) : TRUE) = ids[i-1]
        BY <4>2, <4>3
      <4> QED BY <3>2, <4>2, <4>4
    <3> QED BY <3>1, <3>2
  <2> HIDE DEF o, new
  <2> QED BY <2>2, <2>3, <2>4 DEF Channel
<1> HIDE DEF new, o
<1>4. Links(new, p, ids)
  BY <1>2, <1>3 DEF Links
<1> QED
  BY <1>4 DEF new

\* The children of p form one order chain.
Level(ch, p) == \E s : Links(ch, p, s)

\* Those below every parent outside U do.
Chained(ch, U) == \A p \in (0..MaxChannelId) \ U : Level(ch, p)

\* A chain lasts as long as the same channels hang there in the same order.
LEMMA LevelKept ==
    ASSUME NEW a, NEW b, NEW p, Level(a, p), Siblings(b, p) = Siblings(a, p),
           \A c \in Siblings(a, p) : b[c].order = a[c].order
    PROVE  Level(b, p)
<1>1. PICK s : Links(a, p, s)
  BY DEF Level
<1>2. s \in Seq(Siblings(a, p)) /\ Enumerates(s, Siblings(b, p))
  BY <1>1 DEF Links, Enumerates, Listed
<1>3. \A i \in 1..Len(s) : s[i] \in Siblings(a, p)
  BY <1>2, ElementOfSeq
<1>4. \A i \in 1..Len(s) : b[s[i]].order = IF i = 1 THEN 0 ELSE s[i-1]
  BY <1>1, <1>3 DEF Links
<1> QED
  BY <1>2, <1>4 DEF Links, Level

\* relink_sibling_orders touches the children of one channel only.
LEMMA RelinkElsewhere ==
    ASSUME NEW ch, Table(ch), NEW p, NEW ids, NEW q, q # p, Level(ch, q)
    PROVE  Level(RelinkSiblingOrders(ch, p, ids), q)
<1> DEFINE new == RelinkSiblingOrders(ch, p, ids)
<1>1. SameLinks(ch, new)
  BY RelinkKeepsLinks
<1>2. \A c \in Siblings(ch, q) : new[c] = ch[c]
  BY DEF RelinkSiblingOrders, Siblings
<1> HIDE DEF new
<1>3. Siblings(new, q) = Siblings(ch, q)
  BY <1>1 DEF SameLinks, Siblings
<1>4. Level(new, q)
  BY <1>2, <1>3, LevelKept
<1> QED
  BY <1>4 DEF new

\* Relinking mends the one level that a command has disturbed.
LEMMA RelinkChained ==
    ASSUME NEW ch, Table(ch), NEW U, NEW p, NEW ids, Enumerates(ids, Siblings(ch, p)),
           \A q \in (0..MaxChannelId) \ U : q # p => Level(ch, q)
    PROVE  Chained(RelinkSiblingOrders(ch, p, ids), U \ {p})
<1>1. Level(RelinkSiblingOrders(ch, p, ids), p)
  BY RelinkLinks DEF Level
<1>2. \A q \in (0..MaxChannelId) \ U : q # p => Level(RelinkSiblingOrders(ch, p, ids), q)
  BY RelinkElsewhere
<1> QED
  BY <1>1, <1>2 DEF Chained

\* channelcreate inserts the new channel into the chain of its siblings.
LEMMA AddChained ==
    ASSUME NEW ch, Table(ch), NEW U, Chained(ch, U), NEW c \in ChannelIds, c \notin DOMAIN ch,
           NEW p, p = 0 \/ p \in DOMAIN ch, NEW order,
           NEW kind \in Kinds, NEW dflt \in BOOLEAN
    PROVE  Chained(AddChannel(ch, c, p, order, kind, dflt), U \ {p})
<1> DEFINE cleared == IF dflt THEN ClearDefault(ch) ELSE ch
           rec == [parent |-> p, order |-> 0, dflt |-> dflt,
                   kind |-> IF dflt THEN "permanent" ELSE kind]
           added == [d \in DOMAIN ch \union {c} |-> IF d = c THEN rec ELSE cleared[d]]
           ids == InsertAtAnchor(OrderedSiblingIds(ch, p, None), order, c)
<1>1. p \in 0..MaxChannelId /\ 0 \in 0..MaxChannelId /\ p # c
  BY MaxChannelIdAssumption DEF Table, ChannelIds
<1>2. rec \in Channel /\ rec.parent = p
  BY <1>1 DEF Channel, Kinds
<1>3. ASSUME NEW d \in DOMAIN ch
      PROVE  /\ cleared[d] \in Channel
             /\ cleared[d].parent = ch[d].parent
             /\ cleared[d].order = ch[d].order
  <2>1. ch[d] \in Channel
    BY DEF Table
  <2>2. CASE dflt
    <3>1. cleared[d] = [ch[d] EXCEPT !.dflt = FALSE]
      BY <2>2 DEF ClearDefault
    <3> QED BY <2>1, <3>1 DEF Channel
  <2>3. CASE ~ dflt
    BY <2>1, <2>3 DEF Channel
  <2> QED BY <2>2, <2>3
<1> HIDE DEF rec, cleared
<1>4. /\ DOMAIN added = DOMAIN ch \union {c}
      /\ added[c] = rec
      /\ \A d \in DOMAIN ch : added[d] = cleared[d]
  OBVIOUS
<1>5. Table(added)
  BY <1>2, <1>3 DEF Table
<1> HIDE DEF added
<1>6. Siblings(added, p) = Siblings(ch, p) \union {c}
  BY <1>2, <1>3, <1>4 DEF Siblings
<1>7. Enumerates(ids, Siblings(added, p))
  <2>1. Siblings(ch, p) \ {None} = Siblings(added, p) \ {c}
    BY <1>6, MaxChannelIdAssumption DEF Siblings, Table, ChannelIds, None
  <2>2. Enumerates(OrderedSiblingIds(ch, p, None), Siblings(added, p) \ {c})
    <3>1. Enumerates(OrderedSiblingIds(ch, p, None), Siblings(ch, p) \ {None})
      BY OrderedEnumerates
    <3> QED BY <2>1, <3>1
  <2> QED BY <1>6, <2>2, InsertEnumerates
<1>8. ASSUME NEW q \in (0..MaxChannelId) \ U, q # p
      PROVE  Level(added, q)
  <2>1. Siblings(added, q) = Siblings(ch, q)
    BY <1>2, <1>3, <1>4, <1>8 DEF Siblings
  <2>2. \A d \in Siblings(ch, q) : added[d].order = ch[d].order
    BY <1>3, <1>4 DEF Siblings
  <2> QED BY <2>1, <2>2, LevelKept DEF Chained
<1> HIDE DEF ids
<1>9. Chained(RelinkSiblingOrders(added, p, ids), U \ {p})
  BY <1>5, <1>7, <1>8, RelinkChained
<1> QED
  BY <1>9 DEF AddChannel, added, rec, cleared, ids

\* A move closes the gap it leaves and opens one where it leads to.
LEMMA MoveChained ==
    ASSUME NEW ch, Table(ch), NEW U, Chained(ch, U), NEW c \in DOMAIN ch, NEW p, NEW order,
           ParentAllowed(ch, c, p)
    PROVE  Chained(MoveBelow(ch, c, p, order), U \ {ch[c].parent, p})
<1> DEFINE hung == [ch EXCEPT ![c].parent = p]
           old == ch[c].parent
           ids == InsertAtAnchor(OrderedSiblingIds(ch, p, c), order, c)
           moved == RelinkSiblingOrders(hung, p, ids)
<1>1. p \in 0..MaxChannelId
  BY MaxChannelIdAssumption DEF ParentAllowed, Table, ChannelIds
<1>2. ASSUME NEW d \in DOMAIN ch
      PROVE  /\ hung[d] \in Channel
             /\ hung[d].parent = IF d = c THEN p ELSE ch[d].parent
             /\ hung[d].order = ch[d].order
  <2>1. ch[d] \in Channel
    BY DEF Table
  <2> QED BY <1>1, <2>1 DEF Channel
<1>3. DOMAIN hung = DOMAIN ch /\ Table(hung)
  BY <1>2 DEF Table
<1> HIDE DEF hung
<1>4. Siblings(hung, p) \ {c} = Siblings(ch, p) \ {c} /\ c \in Siblings(hung, p)
  BY <1>2, <1>3 DEF Siblings
<1>5. Enumerates(ids, Siblings(hung, p))
  <2>1. Enumerates(OrderedSiblingIds(ch, p, c), Siblings(hung, p) \ {c})
    <3>1. Enumerates(OrderedSiblingIds(ch, p, c), Siblings(ch, p) \ {c})
      BY OrderedEnumerates
    <3> QED BY <1>4, <3>1
  <2> QED BY <1>4, <2>1, InsertEnumerates
<1> HIDE DEF ids
<1>6. ASSUME NEW q \in (0..MaxChannelId) \ U, q # p, q # old
      PROVE  Level(hung, q)
  <2>1. Siblings(hung, q) = Siblings(ch, q)
    BY <1>2, <1>3, <1>6 DEF Siblings
  <2>2. \A d \in Siblings(ch, q) : hung[d].order = ch[d].order
    BY <1>2 DEF Siblings
  <2> QED BY <2>1, <2>2, LevelKept DEF Chained
<1>7. CASE old = p
  <2>1. Chained(moved, U \ {p})
    BY <1>3, <1>5, <1>6, <1>7, RelinkChained
  <2> QED BY <1>7, <2>1 DEF MoveBelow, Chained, moved, hung, ids
<1>8. CASE old # p
  <2>1. Table(moved) /\ SameLinks(hung, moved)
    BY <1>3, RelinkKeepsLinks
  <2>2. Level(moved, p)
    BY <1>3, <1>5, RelinkLinks DEF Level
  <2>3. \A q \in (0..MaxChannelId) \ (U \ {p}) : q # old => Level(moved, q)
    BY <1>3, <1>6, <2>2, RelinkElsewhere
  <2> HIDE DEF moved
  <2>4. Siblings(moved, old) \ {c} = Siblings(moved, old)
    BY <1>2, <1>3, <1>8, <2>1 DEF Siblings, SameLinks
  <2>5. Enumerates(OrderedSiblingIds(moved, old, c), Siblings(moved, old))
    BY <2>1, <2>4, OrderedEnumerates
  <2>6. Chained(RelinkSiblingOrders(moved, old, OrderedSiblingIds(moved, old, c)), (U \ {p}) \ {old})
    BY <2>1, <2>3, <2>5, RelinkChained
  <2> QED BY <1>8, <2>6 DEF MoveBelow, Chained, moved, hung, ids
<1> QED
  BY <1>7, <1>8

\* Channels that go leave a gap in one chain at most, and that is closed.
LEMMA RemoveChained ==
    ASSUME NEW ch, Table(ch), NEW U, Chained(ch, U), NEW D, NEW p,
           \A x \in DOMAIN ch \ D : ch[x].parent \notin D,
           \A x \in DOMAIN ch \cap D : ch[x].parent \in D \union {p}
    PROVE  Chained(RemoveChannels(ch, D, p), U \ {p})
<1> DEFINE kept == [c \in DOMAIN ch \ D |-> ch[c]]
           ids == OrderedSiblingIds(kept, p, None)
<1>1. DOMAIN kept = DOMAIN ch \ D /\ \A c \in DOMAIN kept : kept[c] = ch[c]
  OBVIOUS
<1>2. Table(kept)
  BY DEF Table
<1> HIDE DEF kept
<1>3. Enumerates(ids, Siblings(kept, p))
  <2>1. Siblings(kept, p) \ {None} = Siblings(kept, p)
    BY <1>2, MaxChannelIdAssumption DEF Siblings, Table, ChannelIds, None
  <2>2. Enumerates(ids, Siblings(kept, p) \ {None})
    BY <1>2, OrderedEnumerates
  <2> QED BY <2>1, <2>2
<1>4. ASSUME NEW q \in (0..MaxChannelId) \ U, q # p
      PROVE  Level(kept, q)
  <2>1. CASE q \in D
    <3>1. Siblings(kept, q) = {}
      BY <1>1, <2>1 DEF Siblings
    <3>2. Links(kept, q, <<>>)
      <4>1. Listed(<<>>, Siblings(kept, q)) /\ Len(<<>>) = 0
        BY NothingListed, EmptySeq
      <4> QED BY <3>1, <4>1 DEF Links, Enumerates
    <3> QED BY <3>2 DEF Level
  <2>2. CASE q \notin D
    <3>1. Siblings(kept, q) = Siblings(ch, q)
      BY <1>1, <1>4, <2>2 DEF Siblings
    <3>2. \A c \in Siblings(ch, q) : kept[c].order = ch[c].order
      BY <1>1, <3>1 DEF Siblings
    <3> QED BY <3>1, <3>2, LevelKept DEF Chained
  <2> QED BY <2>1, <2>2
<1> HIDE DEF ids
<1>5. Chained(RelinkSiblingOrders(kept, p, ids), U \ {p})
  BY <1>2, <1>3, <1>4, RelinkChained
<1> QED
  BY <1>5 DEF RemoveChannels, kept, ids

\* A forced delete takes whole families: whoever goes, but for the root of the
\* subtree, hangs below one that goes too.
LEMMA SubtreeHangsTogether ==
    ASSUME NEW ch, NEW c, NEW d \in Subtree(ch, c), d # c
    PROVE  ch[d].parent \in Subtree(ch, c)
<1> DEFINE e == ch[d].parent
<1>1. d \in DOMAIN ch /\ \A A \in SUBSET DOMAIN ch : d \in A /\ UpClosed(ch, A) => c \in A
  BY DEF Subtree, ChannelIsDescendant
<1>2. e \in DOMAIN ch
  <2> SUFFICES ASSUME e \notin DOMAIN ch PROVE FALSE
    OBVIOUS
  <2>1. UpClosed(ch, {d})
    BY DEF UpClosed
  <2>2. {d} \in SUBSET DOMAIN ch
    BY <1>1
  <2> QED BY <1>1, <2>1, <2>2
<1>3. ASSUME NEW A \in SUBSET DOMAIN ch, e \in A, UpClosed(ch, A)
      PROVE  c \in A
  <2>1. UpClosed(ch, A \union {d})
    BY <1>3 DEF UpClosed
  <2>2. A \union {d} \in SUBSET DOMAIN ch
    BY <1>1
  <2> QED BY <1>1, <2>1, <2>2
<1> QED
  BY <1>2, <1>3 DEF Subtree, ChannelIsDescendant

\* The flag and the kind of a channel have no say in the order.
LEMMA SameOrdersChained ==
    ASSUME NEW a, NEW b, NEW U, Chained(a, U), DOMAIN b = DOMAIN a,
           \A c \in DOMAIN a : b[c].parent = a[c].parent /\ b[c].order = a[c].order
    PROVE  Chained(b, U)
<1> SUFFICES ASSUME NEW p \in (0..MaxChannelId) \ U PROVE Level(b, p)
  BY DEF Chained
<1>1. Siblings(b, p) = Siblings(a, p) /\ \A c \in Siblings(a, p) : b[c].order = a[c].order
  BY DEF Siblings
<1> QED
  BY <1>1, LevelKept DEF Chained

\* channeledit's early write of flag_default reorders nothing.
LEMMA FlagChained ==
    ASSUME NEW ch, Table(ch), NEW U, Chained(ch, U), NEW c
    PROVE  Chained(FlagAsDefault(ch, c), U)
<1> DEFINE new == FlagAsDefault(ch, c)
<1>1. ASSUME NEW d \in DOMAIN ch
      PROVE  new[d].parent = ch[d].parent /\ new[d].order = ch[d].order
  <2>1. ch[d] \in Channel
    BY DEF Table
  <2> QED BY <2>1 DEF FlagAsDefault, Channel
<1>2. DOMAIN new = DOMAIN ch
  BY FlagDomain
<1> HIDE DEF new
<1>3. Chained(new, U)
  BY <1>1, <1>2, SameOrdersChained
<1> QED
  BY <1>3 DEF new

\* Nor does a change of kind.
LEMMA KindChained ==
    ASSUME NEW ch, Table(ch), NEW U, Chained(ch, U), NEW c \in DOMAIN ch, NEW kind
    PROVE  Chained([ch EXCEPT ![c].kind = kind], U)
<1> DEFINE new == [ch EXCEPT ![c].kind = kind]
<1>1. ASSUME NEW d \in DOMAIN ch
      PROVE  new[d].parent = ch[d].parent /\ new[d].order = ch[d].order
  <2>1. ch[d] \in Channel
    BY DEF Table
  <2> QED BY <2>1 DEF Channel
<1>2. DOMAIN new = DOMAIN ch
  OBVIOUS
<1> HIDE DEF new
<1>3. Chained(new, U)
  BY <1>1, <1>2, SameOrdersChained
<1> QED
  BY <1>3 DEF new

\* cleanup_temporary_channel closes the gap of the channel it removes.
LEMMA CleanupChained ==
    ASSUME NEW ch, Table(ch), NEW U, Chained(ch, U), NEW w, NEW c, NEW kept,
           kept = ChannelsAfterCleanup(ch, w, Bots, c)
    PROVE  Chained(kept, U \ {ch[e].parent : e \in DOMAIN ch \ DOMAIN kept})
<1>1. CASE kept = ch
  BY <1>1 DEF Chained
<1>2. CASE kept # ch
  <2>1. /\ kept = RemoveChannels(ch, {c}, ch[c].parent)
        /\ c \in DOMAIN ch /\ Siblings(ch, c) = {}
    BY <1>2 DEF ChannelsAfterCleanup
  <2>d. DOMAIN kept = DOMAIN ch \ {c}
    BY <2>1, RemoveDomain
  <2>2. DOMAIN ch \ DOMAIN kept = {c}
    BY <2>1, <2>d
  <2>3. Chained(RemoveChannels(ch, {c}, ch[c].parent), U \ {ch[c].parent})
    BY <2>1, RemoveChained DEF Siblings
  <2>4. {ch[e].parent : e \in DOMAIN ch \ DOMAIN kept} = {ch[c].parent}
    BY <2>2
  <2> QED BY <2>1, <2>3, <2>4
<1> QED
  BY <1>1, <1>2

\* Leaving a channel and the cleanup that follows keep the chains.
LEMMA SettleChained ==
    ASSUME Table(channels), Chained(channels, unlinked), NEW w, NEW c, SettleAfterLeaving(w, c)
    PROVE  Chained(channels', unlinked')
BY CleanupChained DEF SettleAfterLeaving, Mended

\* An edit that passes the checks chains the siblings it touches.
LEMMA EditChained ==
    ASSUME Sound(channels, loose), Chained(channels, unlinked), NEW c \in DOMAIN channels,
           NEW d \in BOOLEAN, NEW p, NEW o, ~ EditPositionRefused(c, p, o)
    PROVE  LET fl == Flagged(c, d)
               U  == IF EditMoves(fl, c, p, o)
                     THEN unlinked \ {channels[c].parent, EditParent(c, p)} ELSE unlinked
           IN  Chained(Repositioned(fl, c, p, o), U)
<1> DEFINE fl == Flagged(c, d)
<1>1. Chained(fl, unlinked) /\ fl[c].parent = channels[c].parent
  <2>1. CASE d
    BY <2>1, FlagChained, FlagLinks DEF Flagged, Sound
  <2>2. CASE ~ d
    BY <2>2 DEF Flagged
  <2> QED BY <2>1, <2>2
<1>2. /\ Table(fl) /\ c \in DOMAIN fl
      /\ EditMoves(fl, c, p, o) => ParentAllowed(fl, c, EditParent(c, p))
  BY EditSound DEF Sound
<1> HIDE DEF fl
<1>3. CASE EditMoves(fl, c, p, o)
  <2>1. Chained(MoveBelow(fl, c, EditParent(c, p), o), unlinked \ {fl[c].parent, EditParent(c, p)})
    BY <1>1, <1>2, <1>3, MoveChained
  <2> QED BY <1>1, <1>3, <2>1 DEF Repositioned, fl
<1>4. CASE ~ EditMoves(fl, c, p, o)
  BY <1>1, <1>4 DEF Repositioned, fl
<1> QED
  BY <1>3, <1>4

\* The channel that a UDP channelcreate adds disturbs one level.
LEMMA UdpAddChained ==
    ASSUME NEW ch, Table(ch), NEW U, Chained(ch, U), NEW c, c \notin DOMAIN ch,
           NEW p, NEW order, NEW kind, NEW dflt
    PROVE  Chained(UdpAdd(ch, c, p, order, kind, dflt), U \union {p})
<1> DEFINE new == UdpAdd(ch, c, p, order, kind, dflt)
<1>1. ASSUME NEW d \in DOMAIN ch
      PROVE  new[d].parent = ch[d].parent /\ new[d].order = ch[d].order
  <2>1. ch[d] \in Channel /\ d # c
    BY DEF Table
  <2>2. new[d] = [ch[d] EXCEPT !.dflt = ch[d].dflt /\ ~ dflt]
    BY <2>1 DEF UdpAdd
  <2> QED BY <2>1, <2>2 DEF Channel
<1>2. DOMAIN new = DOMAIN ch \union {c} /\ new[c].parent = p
  BY DEF UdpAdd
<1> HIDE DEF new
<1>3. ASSUME NEW q \in (0..MaxChannelId) \ (U \union {p})
      PROVE  Level(new, q)
  <2>1. Siblings(new, q) = Siblings(ch, q) /\ \A d \in Siblings(ch, q) : new[d].order = ch[d].order
    BY <1>1, <1>2, <1>3 DEF Siblings
  <2> QED BY <2>1, LevelKept DEF Chained
<1>4. Chained(new, U \union {p})
  BY <1>3 DEF Chained
<1> QED
  BY <1>4 DEF new

\* A UDP channeledit with an order disturbs the level of the channel.
LEMMA UdpEditChained ==
    ASSUME NEW ch, Table(ch), NEW U, Chained(ch, U), NEW c, NEW dflt, NEW order, NEW kind,
           NEW V, V = IF c \in DOMAIN ch /\ order # None THEN U \union {ch[c].parent} ELSE U
    PROVE  Chained(UdpEdit(ch, c, dflt, order, kind), V)
<1> DEFINE base == IF dflt THEN FlagAsDefault(ch, c) ELSE ch
           new == UdpEdit(ch, c, dflt, order, kind)
<1>1. ASSUME NEW d \in DOMAIN ch
      PROVE  /\ new[d].parent = ch[d].parent
             /\ d # c \/ order = None => new[d].order = ch[d].order
  <2>1. ch[d] \in Channel
    BY DEF Table
  <2>2. base[d].parent = ch[d].parent /\ base[d].order = ch[d].order
        /\ DOMAIN base[d] = DOMAIN ch[d]
    BY <2>1 DEF FlagAsDefault, Channel
  <2>3. new[d] = IF d # c THEN base[d]
                 ELSE [base[d] EXCEPT !.order = IF order = None THEN @ ELSE order,
                                      !.kind = IF kind = "same" THEN @ ELSE kind]
    BY DEF UdpEdit
  <2> HIDE DEF base, new
  <2>4. CASE d # c
    BY <2>2, <2>3, <2>4
  <2>5. CASE d = c
    BY <2>2, <2>3, <2>5
  <2> QED BY <2>4, <2>5
<1>2. DOMAIN new = DOMAIN ch
  BY DEF UdpEdit
<1> HIDE DEF new
<1>3. ASSUME NEW q \in (0..MaxChannelId) \ V
      PROVE  Level(new, q)
  <2>1. q \notin U /\ Siblings(new, q) = Siblings(ch, q)
    BY <1>1, <1>2 DEF Siblings
  <2>2. \A d \in Siblings(ch, q) : new[d].order = ch[d].order
    BY <1>1, <1>3 DEF Siblings
  <2> QED BY <2>1, <2>2, LevelKept DEF Chained
<1>4. Chained(new, V)
  BY <1>3 DEF Chained
<1> QED
  BY <1>4 DEF new

\* A UDP channeldelete leaves a gap in one level.
LEMMA UdpDeleteChained ==
    ASSUME NEW ch, Table(ch), NEW U, Chained(ch, U), NEW c \in DOMAIN ch, NEW kept,
           kept = [d \in DOMAIN ch \ {c} |-> ch[d]]
    PROVE  Chained(kept, U \union {ch[c].parent})
<1> SUFFICES ASSUME NEW q \in (0..MaxChannelId) \ (U \union {ch[c].parent}) PROVE Level(kept, q)
  BY DEF Chained
<1>1. DOMAIN kept = DOMAIN ch \ {c} /\ \A d \in DOMAIN kept : kept[d] = ch[d]
  OBVIOUS
<1>2. Siblings(kept, q) = Siblings(ch, q) /\ \A d \in Siblings(ch, q) : kept[d].order = ch[d].order
  BY <1>1 DEF Siblings
<1> QED
  BY <1>2, LevelKept DEF Chained

\* Every command keeps every chain of siblings whole, or notes the parent.
LEMMA ChainInductive ==
    IInv /\ Chained(channels, unlinked) /\ [Next]_vars => Chained(channels', unlinked')
<1> SUFFICES ASSUME IInv, Chained(channels, unlinked), [Next]_vars
             PROVE  Chained(channels', unlinked')
  OBVIOUS
<1>s. Sound(channels, loose) /\ Table(channels)
  BY DEF IInv, Sound
<1>1. ASSUME NEW p, NEW o, NEW k \in KindsUsed, NEW d \in BOOLEAN, ChannelCreate(p, o, k, d)
      PROVE  Chained(channels', unlinked')
  <2>1. PICK c \in ChannelIds : /\ IsNextChannelId(channels, c)
                                /\ p = 0 \/ p \in DOMAIN channels
                                /\ channels' = AddChannel(channels, c, p, o, k, d)
                                /\ unlinked' = unlinked \ {p}
    BY <1>1 DEF ChannelCreate, Mended
  <2>2. c \notin DOMAIN channels /\ k \in Kinds
    BY <2>1, KindsAssumption, MaxChannelIdAssumption DEF IsNextChannelId, ChannelIds
  <2> QED
    BY <2>1, <2>2, <1>s, AddChained
<1>2. ASSUME NEW c, NEW f \in ForceValues, ChannelDelete(c, f)
      PROVE  Chained(channels', unlinked')
  <2> DEFINE D == IF f = 1 THEN Subtree(channels, c) ELSE {c}
             p == channels[c].parent
  <2>1. /\ \A x \in DOMAIN channels \ D : channels[x].parent \notin D
        /\ \A x \in DOMAIN channels \cap D : channels[x].parent \in D \union {p}
    <3>1. CASE f = 1
      BY <3>1, SubtreeTakesChildren, SubtreeHangsTogether
    <3>2. CASE f # 1
      BY <3>2, <1>2, ForceAssumption DEF ChannelDelete, Siblings
    <3> QED BY <3>1, <3>2
  <2>2. channels' = RemoveChannels(channels, D, p) /\ unlinked' = unlinked \ {p}
    BY <1>2 DEF ChannelDelete, Mended
  <2> HIDE DEF D, p
  <2> QED
    BY <1>s, <2>1, <2>2, RemoveChained
<1>3. ASSUME NEW c, NEW d \in BOOLEAN, NEW p, NEW o, NEW k \in {"same"} \union KindsUsed,
             ChannelEdit(c, d, p, o, k)
      PROVE  Chained(channels', unlinked')
  <2> DEFINE fl == Flagged(c, d)
             re == Repositioned(fl, c, p, o)
             U  == IF EditMoves(fl, c, p, o)
                   THEN unlinked \ {channels[c].parent, EditParent(c, p)} ELSE unlinked
  <2>1. c \in DOMAIN channels /\ ~ EditPositionRefused(c, p, o)
    BY <1>3 DEF ChannelEdit
  <2>2. Chained(re, U)
    BY <1>s, <2>1, EditChained
  <2>3. Table(re) /\ DOMAIN re = DOMAIN channels
    BY <1>s, <2>1, EditSound DEF Sound
  <2>4. channels' = [re EXCEPT ![c].kind = EditedKind(c, d, k)] /\ unlinked' = U
    BY <1>3 DEF ChannelEdit, Mended
  <2> HIDE DEF re, U
  <2> QED
    BY <2>1, <2>2, <2>3, <2>4, KindChained
<1>4. ASSUME NEW c, NEW d, NEW p, NEW o, ChannelEditRefused(c, d, p, o)
      PROVE  Chained(channels', unlinked')
  BY <1>4, <1>s, FlagChained DEF ChannelEditRefused, Flagged, links
<1>5. ASSUME NEW c, NEW p, NEW o, ChannelMove(c, p, o)
      PROVE  Chained(channels', unlinked')
  BY <1>5, <1>s, MoveChained DEF ChannelMove, Mended
<1>6. ASSUME NEW p, NEW o, NEW k, NEW d, UdpChannelCreate(p, o, k, d)
      PROVE  Chained(channels', unlinked')
  <2>1. PICK c \in ChannelIds : /\ IsNextChannelId(channels, c)
                                /\ channels' = UdpAdd(channels, c, p, o, k, d)
                                /\ unlinked' = unlinked \union {p}
    BY <1>6 DEF UdpChannelCreate
  <2>2. c \notin DOMAIN channels
    BY <2>1, <1>s, MaxChannelIdAssumption DEF IsNextChannelId, ChannelIds
  <2> QED
    BY <2>1, <2>2, <1>s, UdpAddChained
<1>7. ASSUME NEW c, NEW d, NEW o, NEW k, UdpChannelEdit(c, d, o, k)
      PROVE  Chained(channels', unlinked')
  BY <1>7, <1>s, UdpEditChained DEF UdpChannelEdit
<1>8. ASSUME NEW k, NEW dialect, NEW c, UdpChannelDelete(k, dialect, c)
      PROVE  Chained(channels', unlinked')
  BY <1>8, <1>s, UdpDeleteChained DEF UdpChannelDelete
<1>9. CASE UdpVacate
  <2>1. PICK c, w :
           /\ channels' = channels \/ channels' = ChannelsAfterCleanup(channels, w, Bots, c)
           /\ unlinked' = unlinked \ {channels[e].parent : e \in DOMAIN channels \ DOMAIN channels'}
    <3>1. PICK d \in deleting :
             LET bots == {k \in Bots \cap d.moved : d.temp /\ where[k] = d.c}
                 w    == [k \in Clients |-> IF k \in bots THEN 0 ELSE where[k]]
                 kept == IF bots = {} THEN channels ELSE ChannelsAfterCleanup(channels, w, Bots, d.c)
                 gone == DOMAIN channels \ DOMAIN kept
             IN  /\ channels' = kept
                 /\ unlinked' = unlinked \ {channels[e].parent : e \in gone}
      BY <1>9 DEF UdpVacate
    <3> DEFINE bots == {k \in Bots \cap d.moved : d.temp /\ where[k] = d.c}
               w    == [k \in Clients |-> IF k \in bots THEN 0 ELSE where[k]]
    <3>2. channels' = channels \/ channels' = ChannelsAfterCleanup(channels, w, Bots, d.c)
      BY <3>1
    <3>3. unlinked' = unlinked \ {channels[e].parent : e \in DOMAIN channels \ DOMAIN channels'}
      BY <3>1
    <3> HIDE DEF bots, w
    <3> QED BY <3>2, <3>3
  <2>2. CASE channels' = channels
    BY <2>1, <2>2 DEF Chained
  <2>3. CASE channels' = ChannelsAfterCleanup(channels, w, Bots, c)
    BY <1>s, <2>1, <2>3, CleanupChained
  <2> QED BY <2>1, <2>2, <2>3
<1>10. ASSUME \/ \E k : ClientPutBack(k) \/ ClientQuit(k)
              \/ \E k, c : UdpClientMove(k, c) \/ ClientEnter(k, c)
              \/ UNCHANGED vars
       PROVE  Chained(channels', unlinked')
  <2>1. channels' = channels /\ unlinked' = unlinked
    BY <1>10 DEF ClientPutBack, ClientQuit, UdpClientMove, ClientEnter, vars, links
  <2> QED BY <2>1
<1>11. ASSUME \/ \E k \in Clients, c \in ChannelIds : ClientMove(k, c)
              \/ \E k \in Clients : ClientKickFromChannel(k)
              \/ \E k \in Clients : ClientLeave(k)
              \/ \E c \in ChannelIds : CleanupTemporaryChannel(c)
       PROVE  Chained(channels', unlinked')
  <2>1. \E w, c : SettleAfterLeaving(w, c)
    BY <1>11 DEF ClientMove, ClientKickFromChannel, ClientLeave, CleanupTemporaryChannel
  <2> QED BY <2>1, <1>s, SettleChained
<1> QED
  BY <1>1, <1>2, <1>3, <1>4, <1>5, <1>6, <1>7, <1>8, <1>9, <1>10, <1>11 DEF Next

\* The two channels of the seeded store follow one another.
LEMMA InitChained == Init => Chained(channels, unlinked)
<1> SUFFICES ASSUME Init, NEW p \in 0..MaxChannelId PROVE Level(channels, p)
  BY DEF Chained
<1>1. /\ DOMAIN channels = 1..2
      /\ \A c \in 1..2 : channels[c].parent = 0 /\ channels[c].order = c - 1
  BY DEF Init
<1>2. CASE p = 0
  <2> DEFINE s == [i \in 1..2 |-> i]
  <2>1. Siblings(channels, p) = 1..2
    BY <1>1, <1>2 DEF Siblings
  <2>2. s \in Seq(1..2) /\ Len(s) = 2 /\ s[1] = 1 /\ s[2] = 2
    OBVIOUS
  <2> HIDE DEF s
  <2>3. Enumerates(s, 1..2)
    <3>1. Listed(s, 1..2)
      BY <2>2 DEF Listed
    <3>2. 1..2 \subseteq ToSet(s)
      BY <2>2, InToSet
    <3> QED BY <3>1, <3>2 DEF Enumerates
  <2>4. Links(channels, p, s)
    BY <1>1, <2>1, <2>2, <2>3 DEF Links
  <2> QED BY <2>4 DEF Level
<1>3. CASE p # 0
  <2>1. Siblings(channels, p) = {}
    BY <1>1, <1>3 DEF Siblings
  <2>2. Links(channels, p, <<>>)
    <3>1. Listed(<<>>, Siblings(channels, p)) /\ Len(<<>>) = 0
      BY NothingListed, EmptySeq
    <3> QED BY <2>1, <3>1 DEF Links, Enumerates
  <2> QED BY <2>2 DEF Level
<1> QED
  BY <1>2, <1>3

\* ordered_sibling_ids meets nothing but the chain when there is one.
LEMMA LevelComplete ==
    ASSUME NEW ch, Table(ch), NEW p, Level(ch, p)
    PROVE  CompleteChain(ch, p)
<1>1. PICK s : Links(ch, p, s)
  BY DEF Level
<1>2. OrderedSiblingIds(ch, p, None) = s
  BY <1>1, ChainFollowed
<1> QED
  BY <1>1, <1>2 DEF Links, CompleteChain

\* Wherever no UDP command was the last to write, the siblings form one order
\* chain: the runtime's next command below a parent mends whatever order UDP
\* commands have left there, and tears or forks no other.
THEOREM SiblingsStayChained == Spec => []SiblingChain
<1>1. IInv /\ Chained(channels, unlinked) => SiblingChain
  <2> SUFFICES ASSUME IInv, Chained(channels, unlinked),
                      NEW p \in ({0} \union DOMAIN channels) \ unlinked
               PROVE  CompleteChain(channels, p)
    BY DEF SiblingChain
  <2>1. Table(channels) /\ p \in (0..MaxChannelId) \ unlinked
    BY MaxChannelIdAssumption DEF IInv, Sound, Table, ChannelIds
  <2> QED BY <2>1, LevelComplete DEF Chained
<1>2. Init => IInv /\ Chained(channels, unlinked)
  BY InitSound, InitChained
<1>3. IInv /\ Chained(channels, unlinked) /\ [Next]_vars
         => IInv' /\ Chained(channels, unlinked)'
  BY Inductive, ChainInductive DEF Chained, Level, Links, Enumerates, Listed
<1> QED
  BY <1>1, <1>2, <1>3, PTL DEF Spec
=============================================================================
