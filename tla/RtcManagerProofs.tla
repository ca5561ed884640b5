-------------------------- MODULE RtcManagerProofs --------------------------
(***************************************************************************)
(* For every set of broadcasts and every number of slots, the tables of    *)
(* the rtc manager stay sound: the slots show what is on air, the tables   *)
(* of tracks agree, and nobody's broadcast is pushed out of view.          *)
(***************************************************************************)
EXTENDS RtcManager, WellFoundedInduction, TLAPS

Shown == Broadcasts \union {None}

\* Slots as the answer and the re-offer make them.
SlotTable(s) == \E n \in {0, FirstSlots, TargetSlots} : s \in [1..n -> Shown]

\* What a slot shows is on air or has an excuse; two slots that show the same, too.
SlotsTrue(s, on, excused, dup) ==
    /\ \A i \in DOMAIN s : s[i] # None => s[i] \in on \union excused
    /\ \A i, j \in DOMAIN s : i # j /\ s[i] # None /\ s[i] = s[j] => dup

\* Only slots that a re-offer may add to are copied.
Negotiation ==
    {g \in [at : {"answer", "answered", "copied", "done"},
            copy : UNION {[1..n -> Shown] : n \in {0, FirstSlots, TargetSlots}}] :
        g.at = "copied" => g.copy \in [1..0 -> Shown] \union [1..FirstSlots -> Shown]}

SlotsInv ==
    /\ active \subseteq Broadcasts /\ join \in Shown /\ ops \in 0..MaxOps
    /\ SlotTable(slots) /\ nego \in Seq(Negotiation)
    /\ copied \in BOOLEAN /\ SlotsTrue(slots, active, off, copied)

TypeTable(ty)  == ty \in [Ssrcs -> Bts \union {None}]
TrackTable(tr) == tr \in [Bts -> Ssrcs \union {None}]

\* The track of a type has that type, a type that is in use has a track, and the
\* tracks that share one leave the other to somebody.
Agree(ty, tr) ==
    \A b \in Bts :
        /\ tr[b] # None => ty[tr[b]] = b
        /\ \A s \in Ssrcs : ty[s] = b => tr[b] # None
        /\ \A s, r \in Ssrcs : s # r /\ ty[s] = b /\ ty[r] = b => \E q \in Ssrcs : ty[q] = 1 - b

\* The types once those that wait are entered.
Settled == [s \in Ssrcs |-> IF given[s] # None THEN given[s] ELSE types[s]]

\* A track that is resolved has no type yet, and with the one it is given the
\* tables agree.
ResolveInv ==
    /\ fresh \subseteq Ssrcs /\ TypeTable(given)
    /\ \A s \in fresh : given[s] = None
    /\ ~ raced => /\ \A s \in Ssrcs : s \in fresh \/ given[s] # None => types[s] = None
                  /\ Agree(Settled, tracks)

TracksInv ==
    TypeTable(types) /\ TrackTable(tracks) /\ raced \in BOOLEAN /\ ResolveInv

IInv == SlotsInv /\ TracksInv

-----------------------------------------------------------------------------
(* The types of tracks.                                                    *)

\* Tables of tracks, and tables that are as sound as those of tt.
Tables(t)     == TypeTable(t.types) /\ TrackTable(t.tracks)
AsSound(t, tt) == Tables(t) /\ (Agree(tt.types, tt.tracks) => Agree(t.types, t.tracks))

\* There are two types, and neither they nor the tracks are the missing one.
LEMMA TwoTypes == Bts = {0, 1} /\ None \notin Ssrcs /\ None \notin Bts
BY NoneAssumption DEF Bts

\* The tracks that lose their type to another one are given the other type, so
\* that the two tables agree again: whoever still has the other type has a track
\* there, or the registered one was the only track that had it.
LEMMA RegisteredSound ==
    ASSUME NEW tt, Tables(tt), NEW ssrc \in Ssrcs, NEW bt \in Bts,
           NEW t \in Registered(tt, ssrc, bt)
    PROVE  AsSound(t, tt)
<1> DEFINE other == 1 - bt
           displaced == {s \in Ssrcs \ {ssrc} : tt.types[s] = bt}
           last == IF displaced # {} THEN displaced ELSE {tt.tracks[other]} \ {ssrc}
<1>1. other \in Bts /\ other # bt /\ 1 - other = bt /\ \A b \in Bts : b = bt \/ b = other
  BY TwoTypes
<1>2. PICK d \in (IF last # {} THEN last ELSE {None}) :
        t = [types  |-> [s \in Ssrcs |-> IF s = ssrc THEN bt
                                         ELSE IF s \in displaced THEN other ELSE tt.types[s]],
             tracks |-> [b \in Bts |-> IF b = bt THEN ssrc ELSE d]]
  BY Zenon DEF Registered
<1>3. tt.tracks \in [Bts -> Ssrcs \union {None}] /\ tt.types \in [Ssrcs -> Bts \union {None}]
  BY DEF Tables, TrackTable, TypeTable
<1>4. d \in Ssrcs \union {None} /\ d # ssrc
  <2>1. CASE displaced # {}
    BY <1>2, <2>1
  <2>2. CASE displaced = {}
    BY <1>1, <1>2, <1>3, <2>2, TwoTypes
  <2> QED BY <2>1, <2>2
<1>5. displaced # {} => d \in displaced
  BY <1>2
<1>6. displaced = {} => d = IF tt.tracks[other] = ssrc THEN None ELSE tt.tracks[other]
  BY <1>2
<1>7. \A s \in Ssrcs : s \in displaced <=> s # ssrc /\ tt.types[s] = bt
  OBVIOUS
<1> HIDE DEF last, displaced, other
<1>8. /\ \A s \in Ssrcs : t.types[s] = IF s = ssrc THEN bt
                                       ELSE IF s \in displaced THEN other ELSE tt.types[s]
      /\ t.tracks[bt] = ssrc /\ t.tracks[other] = d
  BY <1>1, <1>2
<1>9. Tables(t)
  BY <1>1, <1>2, <1>3, <1>4 DEF Tables, TypeTable, TrackTable
<1>10. ASSUME Agree(tt.types, tt.tracks) PROVE Agree(t.types, t.tracks)
  <2>1. \A b \in Bts : /\ tt.tracks[b] # None => tt.types[tt.tracks[b]] = b
                       /\ \A s \in Ssrcs : tt.types[s] = b => tt.tracks[b] # None
                       /\ \A s, r \in Ssrcs : s # r /\ tt.types[s] = b /\ tt.types[r] = b
                                                => \E q \in Ssrcs : tt.types[q] = 1 - b
    BY <1>10 DEF Agree
  <2>2. \A s \in Ssrcs : s # ssrc => t.types[s] # bt
    BY <1>1, <1>7, <1>8
  <2>3. d # None => t.types[d] = other
    BY <1>1, <1>3, <1>4, <1>5, <1>6, <1>8, <2>1
  <2>4. ASSUME NEW s \in Ssrcs, t.types[s] = other PROVE d # None
    <3>1. CASE displaced # {}
      BY <1>5, <1>7, <3>1, TwoTypes DEF displaced
    <3>2. CASE displaced = {}
      <4>1. s # ssrc /\ tt.types[s] = other
        BY <1>1, <1>8, <2>4, <3>2
      <4>2. tt.tracks[other] # None
        BY <1>1, <2>1, <4>1
      <4>3. tt.tracks[other] # ssrc
        <5> SUFFICES ASSUME tt.tracks[other] = ssrc PROVE FALSE
          OBVIOUS
        <5>1. tt.types[ssrc] = other
          BY <1>1, <2>1, <4>2
        <5>2. PICK q \in Ssrcs : tt.types[q] = bt
          BY <1>1, <2>1, <4>1, <5>1
        <5> QED
          BY <1>1, <1>7, <3>2, <5>1, <5>2
      <4> QED BY <1>6, <3>2, <4>2, <4>3
    <3> QED BY <3>1, <3>2
  <2>5. t.types[ssrc] = bt
    BY <1>8
  <2>6. ASSUME NEW b \in Bts
        PROVE  /\ t.tracks[b] # None => t.types[t.tracks[b]] = b
               /\ \A s \in Ssrcs : t.types[s] = b => t.tracks[b] # None
               /\ \A s, r \in Ssrcs : s # r /\ t.types[s] = b /\ t.types[r] = b
                                        => \E q \in Ssrcs : t.types[q] = 1 - b
    <3>1. CASE b = bt
      BY <1>8, <2>2, <2>5, <3>1, TwoTypes
    <3>2. CASE b = other
      BY <1>1, <1>8, <2>3, <2>4, <2>5, <3>2
    <3> QED BY <1>1, <3>1, <3>2
  <2> QED BY <2>6 DEF Agree
<1> QED BY <1>9, <1>10 DEF AsSound

\* A set of numbers has a lowest one.
LEMMA Lowest ==
    ASSUME NEW S \in SUBSET Nat, S # {}
    PROVE  Min(S) \in S /\ \A y \in S : Min(S) <= y
<1>1. PICK x \in S : \A y \in S : ~ (<<y, x>> \in OpToRel(<, Nat))
  BY NatLessThanWellFounded, WFMin
<1>2. \A a, b \in Nat : a < b => <<a, b>> \in OpToRel(<, Nat)
  BY Zenon DEF OpToRel
<1>3. \A y \in S : ~ (y < x)
  BY <1>1, <1>2, Zenon
<1>4. \A y \in S : x <= y
  BY <1>3
<1> QED
  BY <1>4 DEF Min

\* Counting up from 0 reaches every number.
LEMMA CountUp ==
    ASSUME NEW n \in Nat, NEW good, 0 \in good, \A i \in 1..n : i - 1 \in good => i \in good
    PROVE  \A i \in 0..n : i \in good
<1> DEFINE bad == (0..n) \ good
<1> SUFFICES ASSUME bad # {} PROVE FALSE
  OBVIOUS
<1>1. PICK x \in bad : \A y \in bad : x <= y
  <2>1. bad \in SUBSET Nat
    OBVIOUS
  <2> HIDE DEF bad
  <2>2. Min(bad) \in bad /\ \A y \in bad : Min(bad) <= y
    BY <2>1, Lowest
  <2> QED BY <2>2
<1>2. x \in 1..n /\ x - 1 \in bad
  OBVIOUS
<1> QED BY <1>1, <1>2

\* The tables after the next section of an offer.
NextSection(ssrcs, i, before) ==
    IF ssrcs[i] = None THEN before
    ELSE UNION {Registered(t, ssrcs[i], IF i = 1 THEN 0 ELSE 1) : t \in before}

\* f holds the tables after each section of an offer.
Sections(f, tt, ssrcs, n) ==
    f = [i \in 0..n |-> IF i = 0 THEN {tt} ELSE NextSection(ssrcs, i, f[i - 1])]

\* There is such a course: each section is settled by the one before it.
LEMMA SectionsExist ==
    ASSUME NEW tt, NEW ssrcs, NEW n \in Nat
    PROVE  \E f : Sections(f, tt, ssrcs, n)
<1> DEFINE good == {m \in Nat : \E f : Sections(f, tt, ssrcs, m)}
<1>1. 0 \in good
  <2> DEFINE f == [i \in 0..0 |-> {tt}]
  <2>1. f = [i \in 0..0 |-> IF i = 0 THEN {tt} ELSE NextSection(ssrcs, i, f[i - 1])]
    <3>1. \A i \in 0..0 : i = 0
      OBVIOUS
    <3> QED BY <3>1
  <2> HIDE DEF f
  <2> QED BY <2>1 DEF Sections
<1>2. ASSUME NEW m \in 1..n, m - 1 \in good PROVE m \in good
  <2>1. PICK h : Sections(h, tt, ssrcs, m - 1)
    BY <1>2
  <2>2. \A i \in 0..(m - 1) : h[i] = IF i = 0 THEN {tt} ELSE NextSection(ssrcs, i, h[i - 1])
    BY <2>1 DEF Sections
  <2> DEFINE f == [i \in 0..m |-> IF i = m THEN NextSection(ssrcs, m, h[m - 1]) ELSE h[i]]
             g == [i \in 0..m |-> IF i = 0 THEN {tt} ELSE NextSection(ssrcs, i, f[i - 1])]
  <2>3. ASSUME NEW i \in 0..m PROVE f[i] = g[i]
    <3>1. CASE i = 0
      BY <2>2, <3>1
    <3>2. CASE i # 0
      <4>1. i - 1 \in 0..m /\ i - 1 # m
        BY <3>2
      <4>2. f[i - 1] = h[i - 1] /\ g[i] = NextSection(ssrcs, i, h[i - 1])
        BY <3>2, <4>1
      <4>3. CASE i = m
        BY <4>2, <4>3
      <4>4. CASE i # m
        <5>1. i \in 0..(m - 1)
          BY <4>4
        <5>2. f[i] = h[i] /\ h[i] = NextSection(ssrcs, i, h[i - 1])
          BY <2>2, <3>2, <4>4, <5>1
        <5> QED BY <4>2, <5>2
      <4> QED BY <4>3, <4>4
    <3> QED BY <3>1, <3>2
  <2>4. f = g
    BY <2>3
  <2>5. Sections(f, tt, ssrcs, m)
    <3> HIDE DEF f
    <3> QED BY <2>4 DEF Sections
  <2> QED BY <2>5
<1> HIDE DEF good
<1>3. n \in good
  BY <1>1, <1>2, CountUp
<1> QED BY <1>3 DEF good

\* An offer keeps the tables sound, however many sections it has.
LEMMA OfferSound ==
    ASSUME NEW tt, Tables(tt), NEW ssrcs \in Offers, NEW t \in RegisteredOffer(tt, ssrcs)
    PROVE  AsSound(t, tt)
<1> DEFINE n == Len(ssrcs)
           after == CHOOSE f : Sections(f, tt, ssrcs, n)
           good == {i \in 0..n : \A u \in after[i] : AsSound(u, tt)}
<1>1. n \in Nat /\ \A i \in 1..n : ssrcs[i] \in Ssrcs \union {None}
  BY OffersAssumption
<1>2. RegisteredOffer(tt, ssrcs) = after[n]
  BY Zenon DEF RegisteredOffer, Sections, NextSection
<1> HIDE DEF n
<1>3. Sections(after, tt, ssrcs, n)
  BY <1>1, SectionsExist
<1> HIDE DEF after
<1>4. \A i \in 0..n : after[i] = IF i = 0 THEN {tt} ELSE NextSection(ssrcs, i, after[i - 1])
  BY <1>3 DEF Sections
<1>5. 0 \in good
  <2>1. after[0] = {tt}
    BY <1>1, <1>4
  <2> QED BY <1>1, <2>1 DEF AsSound
<1>6. ASSUME NEW i \in 1..n, i - 1 \in good PROVE i \in good
  <2>1. after[i] = NextSection(ssrcs, i, after[i - 1])
    BY <1>1, <1>4
  <2>2. \A u \in after[i - 1] : AsSound(u, tt)
    BY <1>6
  <2>3. ASSUME NEW u \in after[i] PROVE AsSound(u, tt)
    <3>1. CASE ssrcs[i] = None
      BY <2>1, <2>2, <3>1 DEF NextSection
    <3>2. CASE ssrcs[i] # None
      <4> DEFINE bt == IF i = 1 THEN 0 ELSE 1
      <4>1. bt \in Bts /\ ssrcs[i] \in Ssrcs
        BY <1>1, <3>2, TwoTypes
      <4>2. PICK w \in after[i - 1] : u \in Registered(w, ssrcs[i], bt)
        BY <2>1, <2>3, <3>2 DEF NextSection
      <4> HIDE DEF bt
      <4>3. AsSound(w, tt)
        BY <2>2
      <4>4. AsSound(u, w)
        BY <4>1, <4>2, <4>3, RegisteredSound DEF AsSound
      <4> QED BY <4>3, <4>4 DEF AsSound
    <3> QED BY <3>1, <3>2
  <2> QED BY <1>1, <2>3
<1> HIDE DEF good
<1>7. n \in good
  BY <1>1, <1>5, <1>6, CountUp
<1> QED BY <1>2, <1>7 DEF good

\* A registration keeps the tables, and spoils no resolve but those it is
\* charged to.
LEMMA RegistrationKeepsTracks ==
    ASSUME TracksInv, NEW tt, TypesBecome(tt), AsSound(tt, TypesNow)
    PROVE  TracksInv'
<1>1. /\ types' = tt.types /\ tracks' = tt.tracks /\ fresh' = fresh /\ given' = given
      /\ raced' = (raced \/ Resolving)
  BY DEF TypesBecome, resolving
<1>2. TypeTable(types') /\ TrackTable(tracks')
  BY <1>1 DEF AsSound, Tables
<1>3. raced' \in BOOLEAN
  BY <1>1 DEF TracksInv, Resolving
<1>4. ASSUME ~ raced' PROVE fresh' = {} /\ (\A s \in Ssrcs : given'[s] = None) /\ Agree(Settled', tracks')
  <2>1. ~ raced /\ fresh = {} /\ \A s \in Ssrcs : given[s] = None
    BY <1>1, <1>4 DEF Resolving
  <2>2. Settled = types
    BY <2>1 DEF Settled, TracksInv, TypeTable
  <2>3. Settled' = types'
    BY <1>1, <1>2, <2>1 DEF Settled, TypeTable
  <2>4. Agree(types, tracks)
    BY <2>1, <2>2 DEF TracksInv, ResolveInv
  <2>5. Agree(types', tracks')
    BY <1>1, <2>4 DEF AsSound, TypesNow
  <2> QED BY <1>1, <2>1, <2>3, <2>5
<1>5. ResolveInv'
  BY <1>1, <1>4 DEF TracksInv, ResolveInv, TypeTable
<1> QED BY <1>2, <1>3, <1>5 DEF TracksInv

\* The first packet of a track: the steps of resolve_or_assign_incoming_bt.
LEMMA ResolveKeepsTracks ==
    ASSUME TracksInv, NEW s \in Ssrcs,
           ResolveKnown(s) \/ StartResolve(s) \/ ResolveTrack(s) \/ ResolveType(s)
    PROVE  TracksInv'
<1>t. /\ types \in [Ssrcs -> Bts \union {None}] /\ tracks \in [Bts -> Ssrcs \union {None}]
      /\ given \in [Ssrcs -> Bts \union {None}] /\ fresh \subseteq Ssrcs /\ raced \in BOOLEAN
      /\ \A r \in fresh : given[r] = None
  BY DEF TracksInv, ResolveInv, TypeTable, TrackTable
<1>i. ~ raced => /\ \A r \in Ssrcs : r \in fresh \/ given[r] # None => types[r] = None
                 /\ Agree(Settled, tracks)
  BY DEF TracksInv, ResolveInv
<1>1. CASE ResolveKnown(s)
  <2>1. /\ types[s] # None /\ given[s] = None /\ tracks' = [tracks EXCEPT ![types[s]] = s]
        /\ UNCHANGED <<types, fresh, given, raced>>
    BY <1>1 DEF ResolveKnown, resolving
  <2>2. types[s] \in Bts /\ Settled[s] = types[s] /\ Settled' = Settled
    BY <1>t, <2>1 DEF Settled
  <2>3. tracks' \in [Bts -> Ssrcs \union {None}]
    BY <1>t, <2>1, <2>2
  <2>4. ASSUME ~ raced PROVE Agree(Settled, tracks')
    <3>1. \A b \in Bts : tracks'[b] = IF b = Settled[s] THEN s ELSE tracks[b]
      BY <1>t, <2>1, <2>2
    <3> QED BY <1>i, <2>4, <3>1, TwoTypes DEF Agree
  <2> QED BY <1>t, <1>i, <2>1, <2>2, <2>3, <2>4 DEF TracksInv, ResolveInv, TypeTable, TrackTable
<1>2. CASE StartResolve(s)
  <2>1. /\ types[s] = None /\ given[s] = None /\ fresh' = fresh \union {s}
        /\ UNCHANGED <<types, tracks, given, raced>>
    BY <1>2 DEF StartResolve
  <2>2. Settled' = Settled
    BY <2>1 DEF Settled
  <2> QED BY <1>t, <1>i, <2>1, <2>2 DEF TracksInv, ResolveInv, TypeTable, TrackTable
<1>3. CASE ResolveTrack(s)
  <2> DEFINE bt == IF tracks[0] = None \/ tracks[1] # None THEN 0 ELSE 1
  <2>1. /\ s \in fresh /\ fresh' = fresh \ {s} /\ tracks' = [tracks EXCEPT ![bt] = s]
        /\ given' = [given EXCEPT ![s] = bt] /\ UNCHANGED <<types, raced>>
    BY <1>3 DEF ResolveTrack
  <2>2. bt \in Bts /\ 1 - bt \in Bts /\ 1 - bt # bt
    BY TwoTypes
  <2>a. tracks[bt] # None => tracks[1 - bt] # None
    BY TwoTypes
  <2> HIDE DEF bt
  <2>3. tracks' \in [Bts -> Ssrcs \union {None}] /\ given' \in [Ssrcs -> Bts \union {None}]
    BY <1>t, <2>1, <2>2
  <2>4. \A r \in fresh' : given'[r] = None
    BY <1>t, <2>1
  <2>5. ASSUME ~ raced PROVE \A r \in Ssrcs : r \in fresh' \/ given'[r] # None => types'[r] = None
    BY <1>t, <1>i, <2>1, <2>5
  <2>6. ASSUME ~ raced PROVE Agree(Settled', tracks')
    <3>1. \A r \in Ssrcs : Settled'[r] = IF r = s THEN bt ELSE Settled[r]
      BY <1>t, <2>1, <2>2, TwoTypes DEF Settled
    <3>2. \A b \in Bts : tracks'[b] = IF b = bt THEN s ELSE tracks[b]
      BY <1>t, <2>1
    <3>3. Settled[s] = None
      BY <1>t, <1>i, <2>1, <2>6 DEF Settled
    <3>4. \A b \in Bts : /\ tracks[b] # None => Settled[tracks[b]] = b
                         /\ \A r \in Ssrcs : Settled[r] = b => tracks[b] # None
                         /\ \A r, q \in Ssrcs : r # q /\ Settled[r] = b /\ Settled[q] = b
                                                  => \E p \in Ssrcs : Settled[p] = 1 - b
      BY <1>i, <2>6 DEF Agree
    <3>5. \A b \in Bts : b # bt => b = 1 - bt /\ 1 - b = bt
      BY <2>2, TwoTypes
    <3>6. ASSUME NEW b \in Bts
          PROVE  /\ tracks'[b] # None => Settled'[tracks'[b]] = b
                 /\ \A r \in Ssrcs : Settled'[r] = b => tracks'[b] # None
                 /\ \A r, q \in Ssrcs : r # q /\ Settled'[r] = b /\ Settled'[q] = b
                                          => \E p \in Ssrcs : Settled'[p] = 1 - b
      <4>1. CASE b = bt
        <5>1. tracks'[b] = s /\ Settled'[s] = b /\ s # None
          BY <3>1, <3>2, <4>1, TwoTypes
        <5>2. ASSUME NEW r \in Ssrcs, r # s, Settled'[r] = b
              PROVE  \E p \in Ssrcs : Settled'[p] = 1 - b
          <6>1. Settled[r] = bt
            BY <3>1, <4>1, <5>2
          <6>2. tracks[1 - bt] # None
            BY <2>2, <2>a, <3>4, <6>1
          <6>3. tracks[1 - bt] \in Ssrcs /\ Settled[tracks[1 - bt]] = 1 - bt
            BY <1>t, <2>2, <3>4, <6>2
          <6>4. tracks[1 - bt] # s
            BY <2>2, <3>3, <6>3, TwoTypes
          <6> QED BY <3>1, <4>1, <6>3, <6>4
        <5> QED BY <5>1, <5>2
      <4>2. CASE b # bt
        <5>1. tracks'[b] = tracks[b] /\ 1 - b = bt
          BY <3>2, <3>5, <4>2
        <5>2. tracks[b] # s
          BY <3>3, <3>4, TwoTypes
        <5>3. \A r \in Ssrcs : Settled'[r] = b => r # s /\ Settled[r] = b
          BY <3>1, <4>2
        <5>4. Settled'[s] = 1 - b
          BY <3>1, <5>1
        <5>5. tracks[b] # None => Settled'[tracks[b]] = b
          BY <1>t, <3>1, <3>4, <5>2
        <5> QED BY <3>4, <5>1, <5>3, <5>4, <5>5
      <4> QED BY <4>1, <4>2
    <3> QED BY <3>6 DEF Agree
  <2>7. ResolveInv'
    BY <1>t, <2>1, <2>3, <2>4, <2>5, <2>6 DEF ResolveInv, TypeTable
  <2> QED BY <1>t, <2>1, <2>3, <2>7 DEF TracksInv, TypeTable, TrackTable
<1>4. CASE ResolveType(s)
  <2>1. /\ given[s] # None /\ types' = [types EXCEPT ![s] = given[s]]
        /\ given' = [given EXCEPT ![s] = None] /\ UNCHANGED <<tracks, fresh, raced>>
    BY <1>4 DEF ResolveType
  <2>2. types' \in [Ssrcs -> Bts \union {None}] /\ given' \in [Ssrcs -> Bts \union {None}]
    BY <1>t, <2>1
  <2>3. Settled' = Settled
    BY <1>t, <2>1 DEF Settled
  <2>4. \A r \in fresh' : given'[r] = None
    BY <1>t, <2>1
  <2>5. ASSUME ~ raced PROVE \A r \in Ssrcs : r \in fresh' \/ given'[r] # None => types'[r] = None
    BY <1>t, <1>i, <2>1, <2>5
  <2>6. ResolveInv'
    BY <1>t, <1>i, <2>1, <2>2, <2>3, <2>4, <2>5 DEF ResolveInv, TypeTable
  <2> QED BY <1>t, <2>1, <2>2, <2>6 DEF TracksInv, TypeTable, TrackTable
<1> QED BY <1>1, <1>2, <1>3, <1>4

-----------------------------------------------------------------------------
(* The slots.                                                              *)

\* Slots are a sequence of broadcasts and gaps.
LEMMA SlotFacts ==
    ASSUME NEW s, SlotTable(s)
    PROVE  /\ Len(s) \in {0, FirstSlots, TargetSlots} /\ Len(s) \in Nat /\ DOMAIN s = 1..Len(s)
           /\ s \in [1..Len(s) -> Shown] /\ s \in Seq(Shown)
           /\ \A i \in DOMAIN s : s[i] \in Shown
<1>1. PICK n \in {0, FirstSlots, TargetSlots} : s \in [1..n -> Shown]
  BY DEF SlotTable
<1>2. n \in Nat
  BY RtcBounds
<1>3. s \in Seq(Shown) /\ Len(s) = n /\ DOMAIN s = 1..n
  BY <1>1, <1>2
<1> QED
  BY <1>1, <1>2, <1>3

\* A change of the slots keeps them true if it is excused.
LEMMA ChangeKeepsSlots ==
    ASSUME SlotsInv, NEW s, NEW newOff, NEW newCopied \in BOOLEAN, SlotsBecome(s, newOff, newCopied),
           SlotTable(s),
           \A i \in DOMAIN s : s[i] # None => s[i] \in active' \union off \union newOff,
           \A i, j \in DOMAIN s : i # j /\ s[i] # None /\ s[i] = s[j] => copied \/ newCopied
    PROVE  SlotTable(slots') /\ copied' \in BOOLEAN /\ SlotsTrue(slots', active', off', copied')
<1>1. /\ slots' = s /\ off' = ((off \union newOff) \cap Range(s)) \ active'
      /\ copied' = ((copied \/ newCopied)
                    /\ \E i, j \in DOMAIN s : i # j /\ s[i] # None /\ s[i] = s[j])
  BY DEF SlotsBecome
<1>2. \A i \in DOMAIN s : s[i] # None => s[i] \in active' \union off'
  BY <1>1 DEF Range
<1>3. \A i, j \in DOMAIN s : i # j /\ s[i] # None /\ s[i] = s[j] => copied'
  BY <1>1
<1>4. copied' \in BOOLEAN
  BY <1>1
<1> QED
  BY <1>1, <1>2, <1>3, <1>4 DEF SlotsTrue

\* Slots that are freed.
LEMMA FreedSlots ==
    ASSUME NEW s, SlotTable(s), NEW keys
    PROVE  /\ SlotTable(Without(s, keys)) /\ DOMAIN Without(s, keys) = DOMAIN s
           /\ \A i \in DOMAIN s : Without(s, keys)[i] = IF s[i] \in keys THEN None ELSE s[i]
<1>1. DOMAIN Without(s, keys) = DOMAIN s
      /\ \A i \in DOMAIN s : Without(s, keys)[i] = IF s[i] \in keys THEN None ELSE s[i]
  BY DEF Without
<1>2. PICK n \in {0, FirstSlots, TargetSlots} : s \in [1..n -> Shown]
  BY DEF SlotTable
<1>3. Without(s, keys) \in [1..n -> Shown]
  BY <1>2 DEF Without, Shown
<1> QED
  BY <1>1, <1>2, <1>3 DEF SlotTable

\* Slots that are merged with the ones there were.
LEMMA MergedFacts ==
    ASSUME NEW old, SlotTable(old), NEW n \in {0, FirstSlots, TargetSlots}, NEW new \in [1..n -> Shown]
    PROVE  /\ SlotTable(MergedSlots(old, new)) /\ DOMAIN MergedSlots(old, new) = 1..n
           /\ Len(MergedSlots(old, new)) = n
           /\ \A i \in 1..n : MergedSlots(old, new)[i] =
                 IF new[i] = None /\ i \in DOMAIN old THEN old[i] ELSE new[i]
<1>1. \A i \in DOMAIN old : old[i] \in Shown
  BY SlotFacts
<1>2. DOMAIN new = 1..n /\ n \in Nat
  BY RtcBounds
<1>3. MergedSlots(old, new) \in [1..n -> Shown]
  BY <1>1, <1>2 DEF MergedSlots
<1>4. Len(MergedSlots(old, new)) = n
  BY <1>2, <1>3
<1>5. \A i \in 1..n : MergedSlots(old, new)[i] = IF new[i] = None /\ i \in DOMAIN old THEN old[i] ELSE new[i]
  BY <1>2 DEF MergedSlots
<1> QED
  BY <1>3, <1>4, <1>5 DEF SlotTable

\* assign_viewer_slot gives a slot there is, or none; one that shows somebody
\* else's broadcast only to a broadcast of another one, when no slot is free or
\* shows the viewer's own.
LEMMA SlotChosen ==
    ASSUME NEW s, SlotTable(s), s # <<>>, NEW k \in Broadcasts
    PROVE  LET i == SlotFor(s, k)
           IN  /\ i = 0 \/ i \in DOMAIN s
               /\ i # 0 /\ Remote(s[i]) => Remote(k) /\ \A j \in DOMAIN s : Remote(s[j])
<1> DEFINE free == {i \in DOMAIN s : s[i] = None}
           high == {i \in free : i > 2}
           pref == IF k[2] + 1 <= Len(s) THEN k[2] + 1 ELSE Len(s)
           own  == {i \in DOMAIN s : Own(s[i])}
           foreign == {i \in DOMAIN s : s[i][1] # k[1]}
           i == SlotFor(s, k)
<1>1. DOMAIN s = 1..Len(s) /\ Len(s) \in Nat /\ \A j \in DOMAIN s : s[j] \in Shown
  BY SlotFacts
<1>2. free \subseteq Nat /\ high \subseteq Nat /\ own \subseteq Nat /\ foreign \subseteq Nat
  BY <1>1
<1>3. /\ free # {} => Min(free) \in free
      /\ high # {} => Min(high) \in high
      /\ own # {} => Min(own) \in own
      /\ foreign # {} => Min(foreign) \in foreign
  <2> HIDE DEF free, high, own, foreign
  <2> QED
    BY <1>2, Lowest
<1>4. pref \in DOMAIN s
  <2>1. Len(s) # 0
    BY SlotFacts
  <2>2. k[2] \in {0, 1}
    BY RtcBounds
  <2> HIDE DEF i
  <2> QED
    BY <1>1, <2>1, <2>2
<1>5. k # None
  BY NoneAssumption
<1>6. i = CASE Own(k) /\ Len(s) > 2 /\ high # {} -> Min(high)
            [] ~ (Own(k) /\ Len(s) > 2 /\ high # {}) /\ pref \in free -> pref
            [] OTHER -> IF free # {} THEN Min(free)
                        ELSE IF own # {} THEN Min(own)
                        ELSE IF Own(k) THEN 0
                        ELSE IF foreign # {} THEN Min(foreign) ELSE pref
  BY DEF SlotFor
<1>7. high \subseteq free /\ free \subseteq DOMAIN s /\ own \subseteq DOMAIN s /\ foreign \subseteq DOMAIN s
  OBVIOUS
<1>8. \/ i \in free \/ i \in own
      \/ free = {} /\ own = {} /\ (i = 0 \/ (~ Own(k) /\ i \in DOMAIN s))
  <2> HIDE DEF free, high, own, foreign, i, pref
  <2> QED
    BY <1>3, <1>4, <1>6, <1>7
<1>9. free = {} /\ own = {} => \A j \in DOMAIN s : Remote(s[j])
  BY DEF Own, Remote
<1>10. i \in free => ~ Remote(s[i])
  <2> HIDE DEF i
  <2> QED
    BY DEF Remote
<1>11. i \in own => ~ Remote(s[i])
  <2> HIDE DEF i
  <2> QED
    BY DEF Own, Remote
<1>12. ~ Own(k) => Remote(k)
  BY <1>5 DEF Own, Remote
<1> HIDE DEF free, own, i
<1>13. /\ i = 0 \/ i \in DOMAIN s
       /\ i # 0 /\ Remote(s[i]) => Remote(k) /\ \A j \in DOMAIN s : Remote(s[j])
  BY <1>7, <1>8, <1>9, <1>10, <1>11, <1>12
<1> QED
  BY <1>13 DEF i

\* Giving the joined broadcast its slot.
LEMMA JoinKeepsSlots == ASSUME SlotsInv, JoinAssigned PROVE SlotsInv'
<1> DEFINE i == IF slots = <<>> \/ join \in Range(slots) THEN 0 ELSE SlotFor(slots, join)
           s == IF i = 0 THEN slots ELSE [slots EXCEPT ![i] = join]
<1>1. /\ join # None /\ join' = None /\ active' = active /\ UNCHANGED <<nego, ops>>
      /\ SlotsBecome(s, {join}, FALSE)
  BY DEF JoinAssigned
<1>2. SlotTable(slots) /\ SlotsTrue(slots, active, off, copied) /\ join \in Broadcasts
  BY <1>1 DEF SlotsInv, Shown
<1>3. i # 0 => i \in DOMAIN slots /\ join \notin Range(slots)
  BY <1>2, SlotChosen
<1> HIDE DEF i
<1>4. SlotTable(s)
  <2>1. PICK n \in {0, FirstSlots, TargetSlots} : slots \in [1..n -> Shown]
    BY <1>2 DEF SlotTable
  <2>2. s \in [1..n -> Shown]
    BY <1>2, <2>1 DEF Shown
  <2> QED
    BY <2>1, <2>2 DEF SlotTable
<1>5. DOMAIN s = DOMAIN slots /\ \A j \in DOMAIN s : s[j] = IF j = i THEN join ELSE slots[j]
  BY <1>2, <1>3, SlotFacts
<1>6. \A j \in DOMAIN s : s[j] # None => s[j] \in active' \union off \union {join}
  BY <1>1, <1>2, <1>5 DEF SlotsTrue
<1>7. \A j, l \in DOMAIN s : j # l /\ s[j] # None /\ s[j] = s[l] => copied
  BY <1>2, <1>3, <1>5 DEF SlotsTrue, Range
<1> HIDE DEF s
<1>8. SlotTable(slots') /\ copied' \in BOOLEAN /\ SlotsTrue(slots', active', off', copied')
  BY <1>1, <1>4, <1>6, <1>7, ChangeKeepsSlots
<1> QED
  BY <1>1, <1>8 DEF SlotsInv, Shown

\* Freeing the slots that show some of the broadcasts.
LEMMA FreeKeepsSlots ==
    ASSUME SlotsInv, NEW keys, SlotsBecome(Without(slots, keys), {}, FALSE),
           active' \subseteq active, active \ active' \subseteq keys
    PROVE  SlotTable(slots') /\ copied' \in BOOLEAN /\ SlotsTrue(slots', active', off', copied')
<1> DEFINE s == Without(slots, keys)
<1>1. SlotTable(slots) /\ SlotsTrue(slots, active, off, copied)
  BY DEF SlotsInv
<1>2. /\ SlotTable(s) /\ DOMAIN s = DOMAIN slots
      /\ \A i \in DOMAIN slots : s[i] = IF slots[i] \in keys THEN None ELSE slots[i]
  BY <1>1, FreedSlots
<1> HIDE DEF s
<1>3. \A i \in DOMAIN s : s[i] # None => s[i] \in active' \union off \union {}
  BY <1>1, <1>2 DEF SlotsTrue
<1>4. \A i, j \in DOMAIN s : i # j /\ s[i] # None /\ s[i] = s[j] => copied \/ FALSE
  BY <1>1, <1>2 DEF SlotsTrue
<1>5. SlotsBecome(s, {}, FALSE)
  BY DEF s
<1> QED
  BY <1>2, <1>3, <1>4, <1>5, ChangeKeepsSlots

\* Slots that stay while broadcasts begin, and perhaps one ends that is excused.
LEMMA StayKeepsSlots ==
    ASSUME SlotsInv, NEW gone, SlotsBecome(slots, gone, FALSE), active \subseteq active' \union gone
    PROVE  SlotTable(slots') /\ copied' \in BOOLEAN /\ SlotsTrue(slots', active', off', copied')
<1>1. SlotTable(slots) /\ SlotsTrue(slots, active, off, copied)
  BY DEF SlotsInv
<1>2. \A i \in DOMAIN slots : slots[i] # None => slots[i] \in active' \union off \union gone
  BY <1>1 DEF SlotsTrue
<1>3. \A i, j \in DOMAIN slots : i # j /\ slots[i] # None /\ slots[i] = slots[j] => copied \/ FALSE
  BY <1>1 DEF SlotsTrue
<1> QED
  BY <1>1, <1>2, <1>3, ChangeKeepsSlots

\* What happens to a negotiation.
LEMMA NegotiationKept ==
    ASSUME nego \in Seq(Negotiation), NEW n \in DOMAIN nego, NEW g \in Negotiation
    PROVE  [nego EXCEPT ![n] = g] \in Seq(Negotiation)
OBVIOUS

\* A finished negotiation.
LEMMA DoneIsNegotiation == Done \in Negotiation
<1>1. <<>> \in [1..0 -> Shown]
  OBVIOUS
<1> QED
  BY <1>1 DEF Done, Negotiation

\* The steps of a negotiation.
LEMMA NegotiationKeepsSlots ==
    ASSUME SlotsInv, NEW n \in DOMAIN nego, Answered(n) \/ Reoffer(n) \/ Reoffered(n)
    PROVE  SlotsInv'
<1>t. /\ SlotTable(slots) /\ SlotsTrue(slots, active, off, copied) /\ nego \in Seq(Negotiation)
      /\ nego[n] \in Negotiation
  BY DEF SlotsInv
<1>f. FirstSlots \in Nat /\ TargetSlots \in Nat /\ FirstSlots < TargetSlots /\ 0 < FirstSlots
  BY RtcBounds
<1>n. None \in Shown
  BY DEF Shown
<1>1. ASSUME Answered(n) PROVE SlotsInv'
  <2> DEFINE new == [i \in 1..FirstSlots |-> None]
             s == MergedSlots(slots, new)
  <2>1. /\ nego[n].at = "answer" /\ active' = active /\ UNCHANGED <<join, ops>>
        /\ SlotsBecome(s, {}, FALSE)
        /\ nego' = [nego EXCEPT ![n].at = "answered"]
    BY <1>1 DEF Answered
  <2>2. [nego[n] EXCEPT !.at = "answered"] \in Negotiation
    BY <1>t DEF Negotiation
  <2>3. nego' \in Seq(Negotiation)
    BY <1>t, <2>1, <2>2
  <2>4. new \in [1..FirstSlots -> Shown]
    BY <1>n
  <2>5. /\ SlotTable(s) /\ DOMAIN s = 1..FirstSlots
        /\ \A i \in 1..FirstSlots : s[i] = IF new[i] = None /\ i \in DOMAIN slots THEN slots[i] ELSE new[i]
    <3>1. FirstSlots \in {0, FirstSlots, TargetSlots}
      OBVIOUS
    <3> HIDE DEF new
    <3> QED BY <1>t, <2>4, <3>1, MergedFacts
  <2> HIDE DEF s
  <2>6. \A i \in DOMAIN s : s[i] # None => i \in DOMAIN slots /\ s[i] = slots[i]
    BY <2>5
  <2>7. \A i \in DOMAIN s : s[i] # None => s[i] \in active' \union off \union {}
    BY <1>t, <2>1, <2>6 DEF SlotsTrue
  <2>8. \A i, j \in DOMAIN s : i # j /\ s[i] # None /\ s[i] = s[j] => copied \/ FALSE
    BY <1>t, <2>6 DEF SlotsTrue
  <2>9. SlotTable(slots') /\ copied' \in BOOLEAN /\ SlotsTrue(slots', active', off', copied')
    BY <2>1, <2>5, <2>7, <2>8, ChangeKeepsSlots
  <2> QED
    BY <2>1, <2>3, <2>9 DEF SlotsInv
<1>2. ASSUME Reoffer(n) PROVE SlotsInv'
  <2> DEFINE g == IF Len(slots) >= TargetSlots THEN Done ELSE [at |-> "copied", copy |-> slots]
  <2>1. nego' = [nego EXCEPT ![n] = g] /\ UNCHANGED <<active, slots, off, copied, join, ops>>
    BY <1>2 DEF Reoffer
  <2>2. g \in Negotiation
    <3>1. CASE Len(slots) >= TargetSlots
      BY <3>1, DoneIsNegotiation
    <3>2. CASE ~ (Len(slots) >= TargetSlots)
      <4>1. Len(slots) \in {0, FirstSlots} /\ slots \in [1..Len(slots) -> Shown]
        BY <1>t, <1>f, <3>2, SlotFacts
      <4>2. slots \in [1..0 -> Shown] \union [1..FirstSlots -> Shown]
        BY <4>1
      <4> QED
        BY <3>2, <4>2 DEF Negotiation
    <3> QED
      BY <3>1, <3>2
  <2>3. nego' \in Seq(Negotiation)
    BY <1>t, <2>1, <2>2, NegotiationKept
  <2> QED
    BY <2>1, <2>3 DEF SlotsInv
<1>3. ASSUME Reoffered(n) PROVE SlotsInv'
  <2> DEFINE copy == nego[n].copy
             new  == [i \in 1..TargetSlots |-> IF i \in DOMAIN copy THEN copy[i] ELSE None]
             s == MergedSlots(slots, new)
  <2>1. /\ nego[n].at = "copied" /\ active' = active /\ UNCHANGED <<join, ops>>
        /\ SlotsBecome(s, Range(copy), copy # slots)
        /\ nego' = [nego EXCEPT ![n] = Done]
    BY <1>3 DEF Reoffered
  <2>2. nego' \in Seq(Negotiation)
    BY <1>t, <2>1, DoneIsNegotiation, NegotiationKept
  <2>3. copy \in [1..0 -> Shown] \union [1..FirstSlots -> Shown]
    BY <1>t, <2>1 DEF Negotiation
  <2> HIDE DEF copy
  <2>4. new \in [1..TargetSlots -> Shown]
    BY <1>n, <1>f, <2>3
  <2>a. \A i \in 1..TargetSlots : new[i] = IF i \in DOMAIN copy THEN copy[i] ELSE None
    OBVIOUS
  <2> HIDE DEF new
  <2>5. /\ SlotTable(s) /\ DOMAIN s = 1..TargetSlots
        /\ \A i \in 1..TargetSlots : s[i] = IF new[i] = None /\ i \in DOMAIN slots THEN slots[i] ELSE new[i]
    BY <1>t, <2>4, MergedFacts
  <2> HIDE DEF s
  <2>6. \A i \in DOMAIN s : s[i] # None => \/ i \in DOMAIN slots /\ s[i] = slots[i]
                                           \/ i \in DOMAIN copy /\ s[i] = copy[i]
    BY <2>a, <2>5
  <2>7. \A i \in DOMAIN s : s[i] # None => s[i] \in active' \union off \union Range(copy)
    BY <1>t, <2>1, <2>6 DEF SlotsTrue, Range
  <2>8. \A i, j \in DOMAIN s : i # j /\ s[i] # None /\ s[i] = s[j] => copied \/ copy # slots
    BY <1>t, <2>6 DEF SlotsTrue
  <2>9. SlotTable(slots') /\ copied' \in BOOLEAN /\ SlotsTrue(slots', active', off', copied')
    BY <2>1, <2>5, <2>7, <2>8, ChangeKeepsSlots
  <2> QED
    BY <2>1, <2>2, <2>9 DEF SlotsInv
<1> QED
  BY <1>1, <1>2, <1>3

\* An operation is counted.
LEMMA CountedOps == ASSUME ops \in 0..MaxOps, ops < MaxOps, ops' = ops + 1 PROVE ops' \in 0..MaxOps
BY RtcBounds

\* Every step keeps what is known of the slots.
LEMMA SlotsInductive == ASSUME SlotsInv, Next PROVE SlotsInv'
<1>1. ASSUME NEW s \in Ssrcs,
             ResolveKnown(s) \/ StartResolve(s) \/ ResolveTrack(s) \/ ResolveType(s)
      PROVE  SlotsInv'
  <2>1. UNCHANGED <<active, view, join>> /\ (ops' = ops \/ (ops < MaxOps /\ ops' = ops + 1))
    BY <1>1 DEF ResolveKnown, StartResolve, ResolveTrack, ResolveType
  <2>2. ops' \in 0..MaxOps
    BY <2>1, CountedOps DEF SlotsInv
  <2> QED
    BY <2>1, <2>2 DEF SlotsInv, view
<1>2. ASSUME NEW k \in Broadcasts, Join(k) PROVE SlotsInv'
  <2>1. UNCHANGED <<active, view>> /\ ops < MaxOps /\ ops' = ops + 1 /\ join' = k
    BY <1>2 DEF Join
  <2>2. ops' \in 0..MaxOps
    BY <2>1, CountedOps DEF SlotsInv
  <2> QED
    BY <2>1, <2>2 DEF SlotsInv, view, Shown
<1>3. ASSUME NEW keys, LeaveBroadcasts(keys) PROVE SlotsInv'
  <2>1. /\ active' = active /\ UNCHANGED <<nego, join>> /\ ops < MaxOps /\ ops' = ops + 1
        /\ SlotsBecome(Without(slots, keys), {}, FALSE)
    BY <1>3 DEF LeaveBroadcasts
  <2>2. ops' \in 0..MaxOps
    BY <2>1, CountedOps DEF SlotsInv
  <2>3. SlotTable(slots') /\ copied' \in BOOLEAN /\ SlotsTrue(slots', active', off', copied')
    BY <2>1, FreeKeepsSlots
  <2> QED
    BY <2>1, <2>2, <2>3 DEF SlotsInv
<1>4. ASSUME NEW k \in Broadcasts, BroadcastOff(k) PROVE SlotsInv'
  <2>1. /\ active' = active \ {k} /\ UNCHANGED <<nego, join>> /\ ops < MaxOps /\ ops' = ops + 1
        /\ SlotsBecome(Without(slots, {k}), {}, FALSE)
    BY <1>4 DEF BroadcastOff
  <2>2. ops' \in 0..MaxOps
    BY <2>1, CountedOps DEF SlotsInv
  <2>3. SlotTable(slots') /\ copied' \in BOOLEAN /\ SlotsTrue(slots', active', off', copied')
    BY <2>1, FreeKeepsSlots
  <2> QED
    BY <2>1, <2>2, <2>3 DEF SlotsInv
<1>5. ASSUME NEW k \in Broadcasts, StreamSwitched(k) PROVE SlotsInv'
  <2>1. /\ active' \in {active \ {k}, active \union {k}} /\ UNCHANGED <<nego, join>>
        /\ ops < MaxOps /\ ops' = ops + 1
        /\ SlotsBecome(slots, {k}, FALSE)
    BY <1>5 DEF StreamSwitched
  <2>2. ops' \in 0..MaxOps
    BY <2>1, CountedOps DEF SlotsInv
  <2>3. SlotTable(slots') /\ copied' \in BOOLEAN /\ SlotsTrue(slots', active', off', copied')
    BY <2>1, StayKeepsSlots
  <2> QED
    BY <2>1, <2>2, <2>3 DEF SlotsInv
<1>6. ASSUME NEW k \in Broadcasts, NEW s, BroadcastOn(k, s) PROVE SlotsInv'
  <2>1. /\ active' = active \union {k} /\ UNCHANGED <<nego, join>> /\ ops < MaxOps /\ ops' = ops + 1
        /\ SlotsBecome(slots, {}, FALSE)
    BY <1>6 DEF BroadcastOn
  <2>2. ops' \in 0..MaxOps
    BY <2>1, CountedOps DEF SlotsInv
  <2>3. SlotTable(slots') /\ copied' \in BOOLEAN /\ SlotsTrue(slots', active', off', copied')
    BY <2>1, StayKeepsSlots
  <2> QED
    BY <2>1, <2>2, <2>3 DEF SlotsInv
<1>7. ASSUME NEW ssrcs, Describe(ssrcs) PROVE SlotsInv'
  <2>1. /\ UNCHANGED <<active, slots, off, copied, join>> /\ ops < MaxOps /\ ops' = ops + 1
        /\ nego' = Append(nego, [at |-> "answer", copy |-> <<>>])
    BY <1>7 DEF Describe
  <2>2. ops' \in 0..MaxOps
    BY <2>1, CountedOps DEF SlotsInv
  <2>3. <<>> \in [1..0 -> Shown]
    OBVIOUS
  <2>4. [at |-> "answer", copy |-> <<>>] \in Negotiation
    BY <2>3 DEF Negotiation
  <2>5. nego' \in Seq(Negotiation)
    BY <2>1, <2>4 DEF SlotsInv
  <2> QED
    BY <2>1, <2>2, <2>5 DEF SlotsInv
<1>8. ASSUME NEW c, ClearMedia(c) PROVE SlotsInv'
  <2> DEFINE shown == {k \in Broadcasts : k[1] = c}
             keys == IF c = Viewer THEN Broadcasts ELSE shown
  <2>1. /\ active' = active \ shown /\ UNCHANGED <<nego, join>> /\ ops < MaxOps /\ ops' = ops + 1
        /\ SlotsBecome(Without(slots, keys), {}, FALSE)
    BY <1>8 DEF ClearMedia
  <2>2. ops' \in 0..MaxOps
    BY <2>1, CountedOps DEF SlotsInv
  <2>3. active' \subseteq active /\ active \ active' \subseteq keys
    BY <2>1
  <2> HIDE DEF keys
  <2>4. SlotTable(slots') /\ copied' \in BOOLEAN /\ SlotsTrue(slots', active', off', copied')
    BY <2>1, <2>3, FreeKeepsSlots
  <2> QED
    BY <2>1, <2>2, <2>4 DEF SlotsInv
<1>9. ASSUME JoinAssigned PROVE SlotsInv'
  BY <1>9, JoinKeepsSlots
<1>10. ASSUME NEW n \in DOMAIN nego, Answered(n) \/ Reoffer(n) \/ Reoffered(n) PROVE SlotsInv'
  BY <1>10, NegotiationKeepsSlots
<1> QED
  BY <1>1, <1>2, <1>3, <1>4, <1>5, <1>6, <1>7, <1>8, <1>9, <1>10 DEF Next

\* Every step keeps what is known of the tracks.
LEMMA TracksInductive == ASSUME TracksInv, Next PROVE TracksInv'
<1>1. ASSUME NEW s \in Ssrcs,
             ResolveKnown(s) \/ StartResolve(s) \/ ResolveTrack(s) \/ ResolveType(s)
      PROVE  TracksInv'
  BY <1>1, ResolveKeepsTracks
<1>2. ASSUME UNCHANGED rtc PROVE TracksInv'
  <2>1. UNCHANGED <<types, tracks, fresh, given, raced>>
    BY <1>2 DEF rtc, resolving
  <2>2. UNCHANGED Settled
    BY <2>1 DEF Settled
  <2> QED
    BY <2>1, <2>2 DEF TracksInv, ResolveInv, TypeTable, TrackTable, Agree
<1>t. Tables(TypesNow)
  BY DEF TracksInv, TypesNow, Tables
<1>3. ASSUME NEW k \in Broadcasts, NEW s \in Ssrcs, BroadcastOn(k, s) PROVE TracksInv'
  <2>1. UNCHANGED rtc \/ \E tt \in Registered(TypesNow, s, k[2]) : TypesBecome(tt)
    BY <1>3 DEF BroadcastOn
  <2>2. k[2] \in Bts
    BY RtcBounds DEF Bts
  <2>3. ASSUME NEW tt \in Registered(TypesNow, s, k[2]), TypesBecome(tt) PROVE TracksInv'
    <3>1. AsSound(tt, TypesNow)
      BY <1>t, <2>2, RegisteredSound
    <3> QED BY <2>3, <3>1, RegistrationKeepsTracks
  <2> QED
    BY <1>2, <2>1, <2>3
<1>4. ASSUME NEW ssrcs \in Offers, Describe(ssrcs) PROVE TracksInv'
  <2>1. PICK tt \in RegisteredOffer(TypesNow, ssrcs) : TypesBecome(tt)
    BY <1>4 DEF Describe
  <2>2. AsSound(tt, TypesNow)
    BY <1>t, OfferSound
  <2> QED
    BY <2>1, <2>2, RegistrationKeepsTracks
<1>5. \/ \E s \in Ssrcs : ResolveKnown(s) \/ StartResolve(s) \/ ResolveTrack(s) \/ ResolveType(s)
      \/ UNCHANGED rtc
      \/ \E k \in Broadcasts, s \in Ssrcs : BroadcastOn(k, s)
      \/ \E ssrcs \in Offers : Describe(ssrcs)
  BY DEF Next, JoinAssigned, Join, LeaveBroadcasts, BroadcastOff, StreamSwitched,
         Answered, Reoffer, Reoffered, ClearMedia
<1> QED
  BY <1>1, <1>2, <1>3, <1>4, <1>5

\* The invariant holds at the start.
LEMMA InitSound == Init => IInv
<1> SUFFICES ASSUME Init PROVE IInv
  OBVIOUS
<1>1. slots = <<>> /\ slots \in [1..0 -> Shown] /\ DOMAIN slots = {}
  BY DEF Init
<1>2. SlotTable(slots) /\ SlotsTrue(slots, active, off, copied)
  BY <1>1 DEF SlotTable, SlotsTrue
<1>3. SlotsInv
  <2>1. nego \in Seq(Negotiation)
    BY DEF Init
  <2>2. active \subseteq Broadcasts /\ join \in Shown /\ copied \in BOOLEAN
    BY Zenon DEF Init, Shown
  <2>3. ops \in 0..MaxOps
    BY RtcBounds DEF Init
  <2> QED
    BY <1>2, <2>1, <2>2, <2>3 DEF SlotsInv
<1>4. TypeTable(types) /\ TrackTable(tracks) /\ TypeTable(given) /\ fresh = {} /\ raced = FALSE
  BY DEF Init, TypeTable, TrackTable
<1>5. Agree(Settled, tracks)
  <2>1. (\A s \in Ssrcs : Settled[s] = None) /\ \A b \in Bts : tracks[b] = None
    BY DEF Init, Settled
  <2> QED BY <2>1, TwoTypes DEF Agree
<1>6. \A s \in Ssrcs : given[s] = None
  BY DEF Init
<1>7. ResolveInv
  BY <1>4, <1>5, <1>6 DEF ResolveInv
<1> QED
  BY <1>3, <1>4, <1>7 DEF IInv, TracksInv

\* Every step keeps the invariant.
LEMMA Inductive == IInv /\ [Next]_vars => IInv'
<1>1. ASSUME IInv, Next PROVE IInv'
  BY <1>1, SlotsInductive, TracksInductive DEF IInv
<1>2. ASSUME IInv, UNCHANGED vars PROVE IInv'
  <2>1. UNCHANGED <<active, slots, nego, off, copied, join, ops, types, tracks, fresh, given, raced>>
    BY <1>2 DEF vars, view, rtc, resolving
  <2>2. SlotsInv'
    BY <1>2, <2>1 DEF IInv, SlotsInv
  <2>3. TracksInv'
    BY <1>2, <2>1 DEF IInv, TracksInv, ResolveInv, Settled
  <2> QED
    BY <2>2, <2>3 DEF IInv
<1> QED
  BY <1>1, <1>2

\* Slots, tracks and the resolve under way keep their types, and there are never
\* more slots than TARGET_TOTAL_SLOTS.
THEOREM TypeCorrect == Spec => []TypeOK
<1>1. IInv => TypeOK
  <2> SUFFICES ASSUME IInv PROVE TypeOK
    OBVIOUS
  <2>1. Len(slots) \in {0, FirstSlots, TargetSlots} /\ Range(slots) \subseteq Shown
    BY SlotFacts DEF IInv, SlotsInv, Range
  <2> QED
    BY <2>1 DEF IInv, SlotsInv, TracksInv, ResolveInv, TypeTable, TrackTable, TypeOK, Shown
<1> QED
  BY <1>1, InitSound, Inductive, PTL DEF Spec

\* set_viewer_slots, assign_viewer_slot and unassign_broadcaster never leave a slot
\* on a broadcast that ended, nor one broadcast in two slots, without one of the
\* excuses.
THEOREM SlotsAreTrue == Spec => []SlotsShowBroadcasts
<1>1. IInv => SlotsShowBroadcasts
  BY DEF IInv, SlotsInv, SlotsTrue, SlotsShowBroadcasts
<1> QED
  BY <1>1, InitSound, Inductive, PTL DEF Spec

\* However many tracks a client sends and however many sections its offers have:
\* whenever no resolve is under way, incoming_track_ssrcs has a track of each type
\* that incoming_ssrc_types gives out, and the tracks are not all of one type,
\* unless a resolve was overtaken by a registration.
THEOREM TablesOfTracksAgree == Spec => []TracksKeepTypes
<1>1. IInv => TracksKeepTypes
  <2> SUFFICES ASSUME IInv, ~ Resolving, ~ raced, NEW b \in Bts
               PROVE  /\ tracks[b] # None => tracks[b] \in {s \in Ssrcs : types[s] = b}
                      /\ {s \in Ssrcs : types[s] = b} # {} => tracks[b] # None
                      /\ \A s, r \in {q \in Ssrcs : types[q] = b} :
                            s # r => {q \in Ssrcs : types[q] = 1 - b} # {}
    BY Zenon DEF TracksKeepTypes
  <2>1. types \in [Ssrcs -> Bts \union {None}] /\ tracks \in [Bts -> Ssrcs \union {None}]
    BY DEF IInv, TracksInv, TypeTable, TrackTable
  <2>2. Settled = types
    BY <2>1 DEF Settled, Resolving
  <2>3. Agree(types, tracks)
    BY <2>2 DEF IInv, TracksInv, ResolveInv
  <2> QED
    BY <2>1, <2>3 DEF Agree
<1> QED
  BY <1>1, InitSound, Inductive, PTL DEF Spec

\* A broadcast that stays on air is not pushed out of the slots by the preview of
\* the viewer's own camera, nor lost by a re-offer of the slots as they are.
THEOREM RemoteViewsAreKept == Spec => RemoteViewsKept
<1> DEFINE Excuse == \/ join # None /\ Remote(join) /\ \A i \in DOMAIN slots : Remote(slots[i])
                     \/ \E keys \in SUBSET Broadcasts : LeaveBroadcasts(keys)
                     \/ ClearMedia(Viewer)
                     \/ Len(slots') < Len(slots)
                     \/ \E n \in DOMAIN nego : Reoffered(n) /\ nego[n].copy # slots
           Kept == \A k \in active \cap active' :
                      Remote(k) /\ k \in Range(slots) /\ k \notin Range(slots') => Excuse
<1>1. ASSUME IInv, Next, NEW k \in active \cap active', Remote(k), k \in Range(slots), k \notin Range(slots')
      PROVE  Excuse
  <2>t. SlotTable(slots) /\ nego \in Seq(Negotiation) /\ join \in Shown
    BY <1>1 DEF IInv, SlotsInv
  <2>k. PICK i \in DOMAIN slots : slots[i] = k
    BY <1>1 DEF Range
  <2>n. k # None
    BY <1>1 DEF Remote
  <2>s. slots' # slots
    BY <1>1
  <2>1. ASSUME NEW keys, keys \subseteq Broadcasts, LeaveBroadcasts(keys) PROVE Excuse
    BY <2>1
  <2>2. ASSUME NEW l \in Broadcasts, BroadcastOff(l) PROVE Excuse
    <3>1. active' = active \ {l} /\ slots' = Without(slots, {l})
      BY <2>2 DEF BroadcastOff, SlotsBecome
    <3>2. DOMAIN slots' = DOMAIN slots /\ slots'[i] = slots[i]
      BY <1>1, <2>t, <2>k, <3>1, FreedSlots
    <3> QED
      BY <1>1, <2>k, <3>2 DEF Range
  <2>3. ASSUME NEW c, ClearMedia(c) PROVE Excuse
    <3>1. CASE c = Viewer
      BY <2>3, <3>1
    <3>2. CASE c # Viewer
      <4>1. /\ active' = active \ {l \in Broadcasts : l[1] = c}
            /\ slots' = Without(slots, {l \in Broadcasts : l[1] = c})
        BY <2>3, <3>2 DEF ClearMedia, SlotsBecome
      <4>2. DOMAIN slots' = DOMAIN slots /\ slots'[i] = slots[i]
        BY <1>1, <2>t, <2>k, <4>1, FreedSlots
      <4> QED
        BY <1>1, <2>k, <4>2 DEF Range
    <3> QED
      BY <3>1, <3>2
  <2>4. ASSUME JoinAssigned PROVE Excuse
    <3> DEFINE j == IF slots = <<>> \/ join \in Range(slots) THEN 0 ELSE SlotFor(slots, join)
    <3>1. join # None /\ slots' = IF j = 0 THEN slots ELSE [slots EXCEPT ![j] = join]
      BY <2>4 DEF JoinAssigned, SlotsBecome
    <3>2. join \in Broadcasts
      BY <2>t, <3>1 DEF Shown
    <3>3. j # 0
      BY <2>s, <3>1
    <3>4. /\ j \in DOMAIN slots
          /\ Remote(slots[j]) => Remote(join) /\ \A l \in DOMAIN slots : Remote(slots[l])
      BY <2>t, <3>2, <3>3, SlotChosen
    <3> HIDE DEF j
    <3>5. DOMAIN slots' = DOMAIN slots /\ \A l \in DOMAIN slots : l # j => slots'[l] = slots[l]
      BY <3>1, <3>3
    <3>6. i = j
      BY <1>1, <2>k, <3>5 DEF Range
    <3> QED
      BY <1>1, <2>k, <3>1, <3>4, <3>6
  <2>5. ASSUME NEW n \in DOMAIN nego, Answered(n) PROVE Excuse
    <3> DEFINE new == [l \in 1..FirstSlots |-> None]
    <3>1. slots' = MergedSlots(slots, new)
      BY <2>5 DEF Answered, SlotsBecome
    <3>2. new \in [1..FirstSlots -> Shown]
      BY DEF Shown
    <3>a. \A l \in 1..FirstSlots : new[l] = None
      OBVIOUS
    <3> HIDE DEF new
    <3>3. /\ DOMAIN slots' = 1..FirstSlots /\ Len(slots') = FirstSlots
          /\ \A l \in 1..FirstSlots : l \in DOMAIN slots => slots'[l] = slots[l]
      BY <2>t, <3>1, <3>2, <3>a, MergedFacts
    <3>4. i \notin 1..FirstSlots
      BY <1>1, <2>k, <3>3 DEF Range
    <3>5. Len(slots') < Len(slots)
      BY <2>t, <3>3, <3>4, SlotFacts, RtcBounds
    <3> QED
      BY <3>5
  <2>6. ASSUME NEW n \in DOMAIN nego, Reoffered(n) PROVE Excuse
    <3>1. CASE nego[n].copy # slots
      BY <2>6, <3>1
    <3>2. CASE nego[n].copy = slots
      <4> DEFINE new  == [l \in 1..TargetSlots |-> IF l \in DOMAIN slots THEN slots[l] ELSE None]
      <4>1. slots' = MergedSlots(slots, new)
        BY <2>6, <3>2 DEF Reoffered, SlotsBecome
      <4>2. new \in [1..TargetSlots -> Shown] /\ DOMAIN slots \subseteq 1..TargetSlots
        BY <2>t, SlotFacts, RtcBounds DEF Shown
      <4>3. new[i] = slots[i] /\ i \in 1..TargetSlots
        BY <4>2
      <4> HIDE DEF new
      <4>4. DOMAIN slots' = 1..TargetSlots /\ slots'[i] = slots[i]
        BY <2>t, <4>1, <4>2, <4>3, MergedFacts
      <4> QED
        BY <1>1, <2>k, <4>3, <4>4 DEF Range
    <3> QED
      BY <3>1, <3>2
  <2>7. \/ slots' = slots
        \/ \E keys : keys \subseteq Broadcasts /\ LeaveBroadcasts(keys)
        \/ \E l \in Broadcasts : BroadcastOff(l) \/ ClearMedia(l[1])
        \/ JoinAssigned
        \/ \E n \in DOMAIN nego : Answered(n) \/ Reoffered(n)
    BY <1>1 DEF Next, ResolveKnown, StartResolve, ResolveTrack, ResolveType, Join, StreamSwitched, BroadcastOn,
                Describe, Reoffer, SlotsBecome, view
  <2> HIDE DEF Excuse
  <2> QED
    BY <2>s, <2>1, <2>2, <2>3, <2>4, <2>5, <2>6, <2>7
<1>2. IInv /\ [Next]_vars => [Kept]_vars
  <2> HIDE DEF Excuse
  <2> QED
    BY <1>1
<1>3. IInv /\ [Next]_vars => [\A k \in active \cap active' :
          Remote(k) /\ k \in Range(slots) /\ k \notin Range(slots')
            => \/ join # None /\ Remote(join) /\ \A i \in DOMAIN slots : Remote(slots[i])
               \/ \E keys \in SUBSET Broadcasts : LeaveBroadcasts(keys)
               \/ ClearMedia(Viewer)
               \/ Len(slots') < Len(slots)
               \/ \E n \in DOMAIN nego : Reoffered(n) /\ nego[n].copy # slots]_vars
  BY <1>2
<1> QED
  BY <1>3, InitSound, Inductive, PTL DEF Spec, RemoteViewsKept
=============================================================================
