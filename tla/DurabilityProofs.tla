------------------------- MODULE DurabilityProofs ---------------------------
(***************************************************************************)
(* Proofs about Durability, for any number of clients, keys, complaints,   *)
(* messages and accounts.  The invariant has a part for the keys, one for  *)
(* complaints and messages and one for the accounts; each says the same of *)
(* the memory of a serving runtime and of a whole file, since a start      *)
(* makes the first out of the second and a save the second out of the      *)
(* first.                                                                  *)
(***************************************************************************)
EXTENDS Durability, FiniteSetTheorems, WellFoundedInduction, TLAPS

Whole == json.file = "whole"
Serving == step # Down

\* What the promises P say of tables of keys, complaints, messages and accounts;
\* an id that is gone has been passed by its counter.
KeysKept(P, tk, g, nx) ==
    /\ \A t \in TokenIds : <<"key", t>> \in P => t \in DOMAIN tk
    /\ \A t \in TokenIds : <<"gone", t>> \in P => t \notin DOMAIN tk /\ t < nx
    /\ \A c \in Clients, t \in TokenIds : <<"grant", c, t>> \in P => t \in g[c]

DeskKept(P, cs, ml, nx) ==
    /\ \A c \in Accused \X Identities :
           /\ <<"complaint", c>> \in P => c \in cs
           /\ <<"settled", c>> \in P => c \notin cs
    /\ \A i \in MailIds :
           /\ <<"mail", i>> \in P => i \in DOMAIN ml
           /\ <<"lost", i>> \in P => i \notin DOMAIN ml /\ i < nx
           /\ \A read \in BOOLEAN : <<"read", i, read>> \in P => i \in DOMAIN ml /\ ml[i] = read

AccountsKept(P, acs) ==
    \A l \in Logins :
        /\ \A id \in DbIds : <<"account", l, id>> \in P => l \in DOMAIN acs /\ acs[l].id = id
        /\ <<"no account", l>> \in P => l \notin DOMAIN acs

\* Ids are given below the counters.
KeysBelow(tk, g, nx) ==
    (\A t \in DOMAIN tk : t < nx) /\ (\A c \in Clients : \A t \in g[c] : t < nx)

\* The promises of replies, and of the reply that waits for the file.
KeyPromises ==
    /\ json = Absent => promises = {}
    /\ Whole => KeysKept(promises, json.tokens, json.granted, json.next)
    /\ Serving => KeysKept(promises, tokens, granted, nextToken)
    /\ step.at = "save" => KeysKept(step.promises, tokens, granted, nextToken)

DeskPromises ==
    /\ json = Absent => promises = {}
    /\ Whole => DeskKept(promises, json.complaints, json.mail, json.nextMail)
    /\ Serving => DeskKept(promises, complaints, mail, nextMail)
    /\ step.at = "save" => DeskKept(step.promises, complaints, mail, nextMail)
    /\ Whole => \A i \in DOMAIN json.mail : i < json.nextMail
    /\ Serving => \A i \in DOMAIN mail : i < nextMail

AccountPromises ==
    /\ json = Absent => promises = {}
    /\ Whole => AccountsKept(promises, json.accounts)
    /\ Serving => AccountsKept(promises, accounts)
    /\ step.at = "save" => AccountsKept(step.promises, accounts)

KeyCounters ==
    /\ Whole => KeysBelow(json.tokens, json.granted, json.next)
    /\ Serving => KeysBelow(tokens, granted, nextToken)
    /\ Serving /\ Whole => json.next <= nextToken
    /\ Serving /\ json = Absent => \A t \in DOMAIN sqlite : t < nextToken

\* The key was limited at all times; mx are the limits that it had.
Limited(mx) == mx # {} /\ 0 \notin mx
Allowed(n, mx) == \E m \in mx : n <= m

\* Who holds key t in the grants g by a redemption that is not among X.
Held(g, t, X) == {c \in Clients : t \in g[c] /\ <<t, c>> \notin X}

\* A limited key has counted the holders outside X, and counted no more than was
\* allowed.
CountedKey(mx, X, tk, g, t) ==
    Limited(mx[t]) =>
        /\ Allowed(Cardinality(Held(g, t, X)), mx[t])
        /\ t \in DOMAIN tk =>
               /\ Cardinality(Held(g, t, X)) <= tk[t].uses
               /\ Allowed(tk[t].uses, mx[t]) /\ tk[t].max \in mx[t]

Counted(mx, X, tk, g) == \A t \in TokenIds : CountedKey(mx, X, tk, g, t)

\* Every key of the table has had a limit.
HaveLimits(mx, tk) == \A t \in DOMAIN tk : mx[t] # {}

\* The member's redemption whose groups are in the memory while its use is not.
InFlight == IF step.at \in {"grant", "count"} THEN {<<step.token, step.member>>} ELSE {}

\* Uses are counted but for the redemptions that a crash cut, or would cut now.
KeyUses ==
    /\ Counted(maxima, cut \union InFlight, tokens, granted)
    /\ Whole => Counted(maxima, cut \union HalfDone, json.tokens, json.granted)
    /\ json = Absent => Counted(maxima, cut, sqlite, NoGrants)
    /\ HaveLimits(maxima, tokens) /\ HaveLimits(maxima, sqlite)
    /\ Whole => HaveLimits(maxima, json.tokens)

\* A database id stands for one account or bot unless a querycreate named it, and
\* ids that were not named are below the counter.
IdsApart(named, acs, bots, nx) ==
    /\ \A l, m \in DOMAIN acs : l # m /\ acs[l].id = acs[m].id => acs[l].id \in named
    /\ \A l \in DOMAIN acs : acs[l].id \in bots => acs[l].id \in named
    /\ \A l \in DOMAIN acs : acs[l].id \in named \/ acs[l].id < nx
    /\ \A b \in bots : b < nx

\* The accounts that are not among X have their record in the table rec.
HaveRecords(X, acs, rec) ==
    \A l \in DOMAIN acs :
        <<acs[l].id, acs[l].born>> \notin X =>
            acs[l].id \in DOMAIN rec /\ rec[acs[l].id] = acs[l].born

Records ==
    /\ Whole => /\ IdsApart(asked, json.accounts, json.bots, json.nextDbId)
                /\ HaveRecords(foreign, json.accounts, rows)
    /\ Serving => /\ IdsApart(asked, accounts, botIds, nextDbId)
                  /\ HaveRecords(foreign, accounts, rows)
                  /\ HaveRecords(foreign, accounts, clients)

\* The types, by the part of the state they are about.
FileType == json \in {Absent, Torn} \/ Whole

StepType ==
    \/ step \in {Idle, Down} \/ step.at = "save"
    \/ /\ step \in [at : {"grant", "count"}, member : Members, token : DOMAIN tokens]
       /\ step.token \in granted[step.member] /\ Redeemable(step.token) /\ tokens[step.token].uses < MaxUses

KeyType ==
    /\ KeyTypes(tokens, granted, nextToken) /\ TokenTable(sqlite)
    /\ Whole => KeyTypes(json.tokens, json.granted, json.next)
    /\ StepType
    /\ maxima \in [TokenIds -> SUBSET (0..MaxUses)]

DeskType ==
    /\ DeskTypes(complaints, mail, nextMail)
    /\ bans \subseteq BanIds /\ nextBan \in 1..(MaxBanId + 1)
    /\ Whole => DeskTypes(json.complaints, json.mail, json.nextMail)

PeopleType ==
    /\ PeopleTypes(accounts, botIds, nextDbId) /\ RecordTable(clients) /\ RecordTable(rows)
    /\ Whole => PeopleTypes(json.accounts, json.bots, json.nextDbId)

KeyInv    == FileType /\ KeyType /\ KeyPromises /\ KeyCounters /\ KeyUses
DeskInv   == DeskType /\ DeskPromises
PeopleInv == PeopleType /\ AccountPromises /\ Records

\* What is inductive.
IInv == KeyInv /\ DeskInv /\ PeopleInv

-----------------------------------------------------------------------------
(* Counters.                                                               *)

\* The seed of a table with ids up to N is above every id of the table.
LEMMA SeedAbove ==
    ASSUME NEW N \in Nat, NEW tk, DOMAIN tk \subseteq 1..N
    PROVE  Seed(tk) \in 1..(N + 1) /\ \A t \in DOMAIN tk : t < Seed(tk)
<1>1. CASE DOMAIN tk = {}
  BY <1>1 DEF Seed
<1>2. CASE DOMAIN tk # {}
  <2> DEFINE D == {N - t : t \in DOMAIN tk}
  <2>1. D \in SUBSET Nat /\ D # {}
    BY <1>2
  <2>2. PICK x \in D : \A y \in D : ~ (<<y, x>> \in OpToRel(<, Nat))
    BY <2>1, NatLessThanWellFounded, WFMin
  <2>3. \A a, b \in Nat : a < b => <<a, b>> \in OpToRel(<, Nat)
    BY Zenon DEF OpToRel
  <2>4. \A y \in D : ~ (y < x)
    BY <2>1, <2>2, <2>3, Zenon
  <2>5. PICK t \in DOMAIN tk : x = N - t
    BY <2>2
  <2>6. \A u \in DOMAIN tk : u <= t
    BY <2>4, <2>5
  <2> DEFINE m == CHOOSE v \in DOMAIN tk : \A u \in DOMAIN tk : u <= v
  <2>7. m \in DOMAIN tk /\ \A u \in DOMAIN tk : u <= m
    BY <2>6
  <2>8. Seed(tk) = 1 + m
    BY <1>2 DEF Seed
  <2> HIDE DEF m
  <2> QED
    BY <2>7, <2>8
<1> QED
  BY <1>1, <1>2

\* The larger of two counters is one, and at least as large as both.
LEMMA LargerIsUpper ==
    ASSUME NEW M \in Nat, NEW m \in 1..M, NEW n \in 1..M
    PROVE  Larger(m, n) \in 1..M /\ m <= Larger(m, n) /\ n <= Larger(m, n)
BY DEF Larger

-----------------------------------------------------------------------------
(* Counting holders.                                                       *)

\* The holders are finitely many.
LEMMA HeldFinite ==
    ASSUME NEW g, NEW t, NEW X
    PROVE  IsFiniteSet(Held(g, t, X)) /\ Cardinality(Held(g, t, X)) \in Nat
<1>1. IsFiniteSet(Clients)
  BY FiniteAssumption, FS_Union DEF Clients
<1>2. Held(g, t, X) \in SUBSET Clients
  BY DEF Held
<1> QED
  BY <1>1, <1>2, FS_Subset, FS_CardinalityType

\* Fewer holders count less.
LEMMA HeldMonotone ==
    ASSUME NEW g, NEW X, NEW h, NEW Y, NEW t, Held(h, t, Y) \subseteq Held(g, t, X)
    PROVE  Cardinality(Held(h, t, Y)) <= Cardinality(Held(g, t, X))
BY HeldFinite, FS_Subset

\* One more holder counts at most one more.
LEMMA HeldOneMore ==
    ASSUME NEW g, NEW X, NEW h, NEW Y, NEW t, NEW c,
           Held(h, t, Y) \subseteq Held(g, t, X) \union {c}
    PROVE  Cardinality(Held(h, t, Y)) <= Cardinality(Held(g, t, X)) + 1
<1> DEFINE U == Held(g, t, X) \union {c}
<1>1. /\ IsFiniteSet(U) /\ Cardinality(U) \in Nat
      /\ Cardinality(U) <= Cardinality(Held(g, t, X)) + 1
  BY HeldFinite, FS_AddElement, FS_CardinalityType
<1>2. Cardinality(Held(h, t, Y)) <= Cardinality(U)
  BY <1>1, FS_Subset
<1> QED
  BY <1>1, <1>2, HeldFinite

\* A key that nobody holds and whose count is as new is counted.
LEMMA NobodyHolds ==
    ASSUME NEW g, NEW X, NEW t, \A c \in Clients : t \notin g[c]
    PROVE  Cardinality(Held(g, t, X)) = 0
<1>1. Held(g, t, X) = {}
  BY DEF Held
<1> QED
  BY <1>1, FS_EmptySet

\* What is counted stays counted when redemptions are set apart or groups taken.
LEMMA CountedFewer ==
    ASSUME NEW mx, NEW X, NEW Y, NEW tk, NEW g, NEW h, Counted(mx, X, tk, g),
           TokenTable(tk), mx \in [TokenIds -> SUBSET (0..MaxUses)],
           \A t \in TokenIds : Held(h, t, Y) \subseteq Held(g, t, X)
    PROVE  Counted(mx, Y, tk, h)
<1> SUFFICES ASSUME NEW t \in TokenIds, Limited(mx[t])
             PROVE  CountedKey(mx, Y, tk, h, t)
  BY DEF Counted, CountedKey
<1>1. Cardinality(Held(h, t, Y)) <= Cardinality(Held(g, t, X))
  BY HeldMonotone
<1>2. Cardinality(Held(h, t, Y)) \in Nat /\ Cardinality(Held(g, t, X)) \in Nat
  BY HeldFinite
<1>3. mx[t] \subseteq Nat /\ (t \in DOMAIN tk => tk[t].uses \in Nat)
  BY BoundsAssumption DEF TokenTable, Token
<1>4. CountedKey(mx, X, tk, g, t)
  BY DEF Counted
<1> QED
  BY <1>1, <1>2, <1>3, <1>4 DEF CountedKey, Allowed

\* A key that was made anew is counted, in a table that has it and in one that
\* does not.
LEMMA CountedAdd ==
    ASSUME NEW mx, NEW X, NEW tk, NEW g, Counted(mx, X, tk, g),
           mx \in [TokenIds -> SUBSET (0..MaxUses)],
           NEW t \in TokenIds, NEW max \in 0..MaxUses, NEW admin,
           \A c \in Clients : t \notin g[c]
    PROVE  /\ Counted([mx EXCEPT ![t] = {max}], X, WithToken(tk, t, max, admin), g)
           /\ t \notin DOMAIN tk => Counted([mx EXCEPT ![t] = {max}], X, tk, g)
<1> DEFINE new == WithToken(tk, t, max, admin)
           nmx == [mx EXCEPT ![t] = {max}]
<1>1. /\ DOMAIN new = DOMAIN tk \union {t}
      /\ new[t].uses = 0 /\ new[t].max = max
      /\ \A u \in DOMAIN tk \ {t} : new[u] = tk[u]
  BY DEF WithToken
<1>2. nmx[t] = {max} /\ \A u \in TokenIds \ {t} : nmx[u] = mx[u]
  OBVIOUS
<1>3. Cardinality(Held(g, t, X)) = 0 /\ 0 <= max
  BY NobodyHolds, BoundsAssumption
<1> HIDE DEF new, nmx
<1>4. CountedKey(nmx, X, new, g, t) /\ (t \notin DOMAIN tk => CountedKey(nmx, X, tk, g, t))
  BY <1>1, <1>2, <1>3 DEF CountedKey, Allowed
<1>5. \A u \in TokenIds \ {t} : CountedKey(nmx, X, new, g, u) /\ CountedKey(nmx, X, tk, g, u)
  BY <1>1, <1>2 DEF Counted, CountedKey
<1>6. Counted(nmx, X, new, g) /\ (t \notin DOMAIN tk => Counted(nmx, X, tk, g))
  BY <1>4, <1>5 DEF Counted
<1> QED
  BY <1>6 DEF new, nmx

\* A limit that an edit brings is one more limit the key had.
LEMMA CountedEdit ==
    ASSUME NEW mx, NEW X, NEW tk, NEW g, Counted(mx, X, tk, g),
           mx \in [TokenIds -> SUBSET (0..MaxUses)],
           NEW t \in TokenIds, NEW max,
           NEW nw, DOMAIN nw = DOMAIN tk,
           \A u \in DOMAIN tk : nw[u].uses = tk[u].uses /\ (nw[u].max = tk[u].max \/ (u = t /\ nw[u].max = max)),
           mx[t] # {}
    PROVE  Counted([mx EXCEPT ![t] = @ \union {max}], X, nw, g)
<1> DEFINE nmx == [mx EXCEPT ![t] = @ \union {max}]
<1>1. nmx[t] = mx[t] \union {max} /\ \A u \in TokenIds \ {t} : nmx[u] = mx[u]
  OBVIOUS
<1> HIDE DEF nmx
<1>2. \A u \in TokenIds : CountedKey(mx, X, tk, g, u)
  BY DEF Counted
<1>3. \A u \in TokenIds \ {t} : CountedKey(nmx, X, nw, g, u)
  BY <1>1, <1>2 DEF CountedKey
<1>4. CountedKey(nmx, X, nw, g, t)
  BY <1>1, <1>2 DEF CountedKey, Allowed, Limited
<1> QED
  BY <1>3, <1>4 DEF Counted, nmx

\* A use that is counted pays for one more holder: the count is still within the
\* limits, because the key was redeemable.
LEMMA UsePays ==
    ASSUME NEW mx, NEW X, NEW tk, NEW g,
           TokenTable(tk), mx \in [TokenIds -> SUBSET (0..MaxUses)],
           NEW t \in DOMAIN tk, CountedKey(mx, X, tk, g, t), tk[t].max = 0 \/ tk[t].uses < tk[t].max,
           NEW h, NEW Y, NEW c, Held(h, t, Y) \subseteq Held(g, t, X) \union {c},
           Limited(mx[t])
    PROVE  /\ Cardinality(Held(h, t, Y)) <= tk[t].uses + 1
           /\ Allowed(Cardinality(Held(h, t, Y)), mx[t])
           /\ Allowed(tk[t].uses + 1, mx[t]) /\ tk[t].max \in mx[t]
<1>1. Cardinality(Held(h, t, Y)) <= Cardinality(Held(g, t, X)) + 1
  BY HeldOneMore
<1>2. Cardinality(Held(h, t, Y)) \in Nat /\ Cardinality(Held(g, t, X)) \in Nat
  BY HeldFinite
<1>3. tk[t].uses \in Nat /\ tk[t].max \in Nat
  BY BoundsAssumption DEF TokenTable, Token
<1>4. Cardinality(Held(g, t, X)) <= tk[t].uses /\ tk[t].max \in mx[t]
  BY DEF CountedKey
<1>5. tk[t].uses + 1 <= tk[t].max
  BY <1>3, <1>4 DEF Limited
<1>6. Allowed(tk[t].uses + 1, mx[t])
  BY <1>4, <1>5 DEF Allowed
<1>7. Cardinality(Held(h, t, Y)) <= tk[t].max
  BY <1>1, <1>2, <1>3, <1>4, <1>5
<1>8. Allowed(Cardinality(Held(h, t, Y)), mx[t])
  BY <1>4, <1>7 DEF Allowed
<1> QED
  BY <1>1, <1>2, <1>3, <1>4, <1>6, <1>8

\* CountUse keeps the memory counted, and the rows of SQLite.
LEMMA CountedUse ==
    ASSUME NEW X, NEW g, Counted(maxima, X, tokens, g), KeyType,
           NEW t \in DOMAIN tokens, Redeemable(t), CountUse(t),
           NEW h, NEW Y, NEW c, Held(h, t, Y) \subseteq Held(g, t, X) \union {c},
           \A u \in TokenIds \ {t} : Held(h, u, Y) \subseteq Held(g, u, X)
    PROVE  /\ Counted(maxima, Y, tokens', h)
           /\ Counted(maxima, cut, sqlite, NoGrants) => Counted(maxima, cut, sqlite', NoGrants)
<1>0. /\ TokenTable(tokens) /\ maxima \in [TokenIds -> SUBSET (0..MaxUses)]
      /\ DOMAIN tokens \subseteq TokenIds
  BY DEF KeyType, KeyTypes, TokenTable
<1>1. Used(t).uses = tokens[t].uses + 1 /\ Used(t).max = tokens[t].max
  BY <1>0 DEF Used, TokenTable, Token
<1>2. /\ DOMAIN tokens' \subseteq DOMAIN tokens
      /\ \A u \in DOMAIN tokens' \ {t} : tokens'[u] = tokens[u]
      /\ t \in DOMAIN tokens' => tokens'[t] = Used(t)
  BY <1>0 DEF CountUse, WithoutToken, TokenTable
<1>3. /\ DOMAIN sqlite' = DOMAIN sqlite \union {t}
      /\ \A u \in DOMAIN sqlite \ {t} : sqlite'[u] = sqlite[u]
      /\ sqlite'[t] = Used(t)
  BY DEF CountUse
<1>4. tokens[t].max = 0 \/ tokens[t].uses < tokens[t].max
  BY DEF Redeemable
<1>5. Limited(maxima[t]) =>
          /\ Cardinality(Held(h, t, Y)) <= tokens[t].uses + 1
          /\ Allowed(Cardinality(Held(h, t, Y)), maxima[t])
          /\ Allowed(tokens[t].uses + 1, maxima[t]) /\ tokens[t].max \in maxima[t]
  BY <1>0, <1>4, UsePays DEF Counted
<1>6. CountedKey(maxima, Y, tokens', h, t)
  BY <1>1, <1>2, <1>5 DEF CountedKey
<1>7. ASSUME NEW u \in TokenIds \ {t}
      PROVE  CountedKey(maxima, Y, tokens', h, u)
  <2>1. CountedKey(maxima, X, tokens, g, u)
    BY DEF Counted
  <2>2. /\ Cardinality(Held(h, u, Y)) <= Cardinality(Held(g, u, X))
        /\ Cardinality(Held(h, u, Y)) \in Nat /\ Cardinality(Held(g, u, X)) \in Nat
    BY <1>7, HeldMonotone, HeldFinite
  <2>3. maxima[u] \subseteq Nat /\ (u \in DOMAIN tokens => tokens[u].uses \in Nat)
    BY <1>0, BoundsAssumption DEF TokenTable, Token
  <2> QED
    BY <1>2, <2>1, <2>2, <2>3 DEF CountedKey, Allowed
<1>8. Counted(maxima, Y, tokens', h)
  BY <1>6, <1>7 DEF Counted
<1>9. ASSUME Counted(maxima, cut, sqlite, NoGrants)
      PROVE  Counted(maxima, cut, sqlite', NoGrants)
  <2>1. Cardinality(Held(NoGrants, t, cut)) = 0
    BY NobodyHolds DEF NoGrants
  <2>2. tokens[t].uses \in Nat
    BY <1>0, BoundsAssumption DEF TokenTable, Token
  <2>3. CountedKey(maxima, cut, sqlite', NoGrants, t)
    BY <1>0, <1>1, <1>3, <1>5, <1>9, <2>1, <2>2 DEF Counted, CountedKey, Allowed
  <2>4. \A u \in TokenIds \ {t} : CountedKey(maxima, cut, sqlite', NoGrants, u)
    BY <1>3, <1>9 DEF Counted, CountedKey
  <2> QED
    BY <2>3, <2>4 DEF Counted
<1> QED
  BY <1>8, <1>9

-----------------------------------------------------------------------------
(* The keys.                                                               *)

NoKeyPromise(P) ==
    /\ \A t \in TokenIds : <<"key", t>> \notin P /\ <<"gone", t>> \notin P
    /\ \A c \in Clients, t \in TokenIds : <<"grant", c, t>> \notin P

\* What the steps of the runtime look like.
LEMMA StepShapes ==
    /\ Idle.at = "idle" /\ Down.at = "down" /\ Idle # Down
    /\ \A p, h : /\ SavingHalf(p, h).at = "save" /\ SavingHalf(p, h).promises = p
                 /\ SavingHalf(p, h).half = h /\ SavingHalf(p, h) # Down
                 /\ SavingHalf(p, h) # Idle
    /\ \A p : Saving(p) = SavingHalf(p, {})
BY DEF Idle, Down, Saving, SavingHalf

\* Nothing is half done between commands, nor in most of them.
LEMMA NothingHalfDone ==
    /\ step \in {Idle, Down} => HalfDone = {} /\ InFlight = {}
    /\ \A p : step = Saving(p) => HalfDone = {} /\ InFlight = {}
BY DEF HalfDone, InFlight, Idle, Down, Saving, SavingHalf

\* Fewer promises are easier to keep.
LEMMA KeysKeptFewer ==
    ASSUME NEW P, NEW Q, Q \subseteq P, NEW tk, NEW g, NEW nx, KeysKept(P, tk, g, nx)
    PROVE  KeysKept(Q, tk, g, nx)
BY DEF KeysKept

\* A command that leaves the keys alone.
LEMMA KeyFrame ==
    ASSUME KeyInv, step = Idle, UNCHANGED <<keys, json, sqlite, maxima, cut>>,
           promises' \subseteq promises,
           step' = Idle \/ \E p : step' = Saving(p) /\ NoKeyPromise(p)
    PROVE  KeyInv'
<1>0. /\ UNCHANGED <<tokens, granted, nextToken, json, sqlite, maxima, cut>>
      /\ Whole' = Whole /\ Serving /\ Serving'
  BY StepShapes DEF keys, Whole, Serving
<1>1. FileType'
  BY <1>0 DEF KeyInv, FileType
<1>2. KeyType'
  BY <1>0, StepShapes DEF KeyInv, KeyType, StepType
<1>3. KeyPromises'
  <2>1. step'.at = "save" => NoKeyPromise(step'.promises)
    BY StepShapes
  <2>2. step'.at = "save" => KeysKept(step'.promises, tokens, granted, nextToken)
    BY <2>1 DEF NoKeyPromise, KeysKept
  <2> QED
    BY <1>0, <2>2, KeysKeptFewer DEF KeyInv, KeyPromises
<1>4. KeyCounters'
  BY <1>0 DEF KeyInv, KeyCounters
<1>5. KeyUses'
  <2>1. HalfDone = {} /\ InFlight = {} /\ HalfDone' = {} /\ InFlight' = {}
    <3>1. HalfDone = {} /\ InFlight = {}
      BY NothingHalfDone
    <3>2. step' = Idle \/ \E p : step' = Saving(p)
      OBVIOUS
    <3>3. HalfDone' = {} /\ InFlight' = {}
      BY <3>2 DEF HalfDone, InFlight, Idle, Saving, SavingHalf
    <3> QED
      BY <3>1, <3>3
  <2> QED
    BY <1>0, <2>1 DEF KeyInv, KeyUses
<1> QED
  BY <1>1, <1>2, <1>3, <1>4, <1>5 DEF KeyInv

\* The keys as a start loads them.
LEMMA LoadedKeys ==
    ASSUME KeyInv, TokenTable(sqlite), json # Torn, step = Down
    PROVE  /\ KeyTypes(Loaded.tokens, Loaded.granted, Loaded.next)
           /\ KeysKept(promises, Loaded.tokens, Loaded.granted, Loaded.next)
           /\ KeysBelow(Loaded.tokens, Loaded.granted, Loaded.next)
           /\ Whole => json.next <= Loaded.next
           /\ json = Absent => \A t \in DOMAIN sqlite : t < Loaded.next
           /\ Counted(maxima, cut, Loaded.tokens, Loaded.granted)
           /\ HaveLimits(maxima, Loaded.tokens)
<1>0. HalfDone = {}
  BY NothingHalfDone
<1>m. MaxTokenId \in Nat /\ MaxTokenId + 1 \in Nat
  BY BoundsAssumption
<1>1. CASE json = Absent
  <2>1. Loaded.tokens = sqlite /\ Loaded.granted = NoGrants /\ Loaded.next = Seed(sqlite)
    BY <1>1 DEF Loaded
  <2>2. Seed(sqlite) \in 1..(MaxTokenId + 1) /\ \A t \in DOMAIN sqlite : t < Seed(sqlite)
    BY <1>m, SeedAbove DEF TokenTable, TokenIds
  <2>3. ~ Whole
    BY <1>1 DEF Absent, Whole
  <2>4. promises = {}
    BY <1>1 DEF KeyInv, KeyPromises
  <2>5. KeysKept(promises, sqlite, NoGrants, Seed(sqlite))
    BY <2>4 DEF KeysKept
  <2>6. NoGrants \in [Clients -> SUBSET TokenIds] /\ \A c \in Clients : NoGrants[c] = {}
    BY DEF NoGrants
  <2>7. Counted(maxima, cut, sqlite, NoGrants) /\ HaveLimits(maxima, sqlite)
    BY <1>1 DEF KeyInv, KeyUses
  <2> QED
    BY <2>1, <2>2, <2>3, <2>5, <2>6, <2>7 DEF KeyTypes, KeysBelow
<1>2. CASE json # Absent
  <2>1. Whole
    BY <1>2 DEF KeyInv, FileType
  <2>2. /\ Loaded.tokens = json.tokens /\ Loaded.granted = json.granted
        /\ Loaded.next = Larger(json.next, Seed(json.tokens))
    BY <1>2 DEF Loaded
  <2>3. KeyTypes(json.tokens, json.granted, json.next)
    BY <2>1 DEF KeyInv, KeyType
  <2>4. Seed(json.tokens) \in 1..(MaxTokenId + 1)
    BY <1>m, <2>3, SeedAbove DEF KeyTypes, TokenTable, TokenIds
  <2>5. Loaded.next \in 1..(MaxTokenId + 1) /\ json.next <= Loaded.next
    BY <1>m, <2>2, <2>3, <2>4, LargerIsUpper DEF KeyTypes
  <2>6. KeysKept(promises, json.tokens, json.granted, json.next) /\ KeysBelow(json.tokens, json.granted, json.next)
    BY <2>1 DEF KeyInv, KeyPromises, KeyCounters
  <2>7. KeysKept(promises, json.tokens, json.granted, Loaded.next)
    BY <2>3, <2>5, <2>6, <1>m DEF KeysKept, KeyTypes, TokenIds
  <2>8. KeysBelow(json.tokens, json.granted, Loaded.next)
    <3>1. DOMAIN json.tokens \subseteq TokenIds /\ \A c \in Clients : json.granted[c] \subseteq TokenIds
      BY <2>3 DEF KeyTypes, TokenTable
    <3>2. TokenIds \subseteq Nat /\ json.next \in Nat /\ Loaded.next \in Nat
      BY <2>3, <2>5, <1>m DEF TokenIds, KeyTypes
    <3>3. \A t \in TokenIds : t < json.next => t < Loaded.next
      BY <2>5, <3>2
    <3> QED
      BY <2>6, <3>1, <3>3 DEF KeysBelow
  <2>9. Counted(maxima, cut \union {}, json.tokens, json.granted) /\ HaveLimits(maxima, json.tokens)
    BY <1>0, <2>1 DEF KeyInv, KeyUses
  <2>10. Counted(maxima, cut, json.tokens, json.granted)
    <3>1. cut \union {} = cut
      OBVIOUS
    <3> QED
      BY <2>9, <3>1
  <2> QED
    BY <1>2, <2>2, <2>3, <2>5, <2>7, <2>8, <2>9, <2>10 DEF KeyTypes
<1> QED
  BY <1>1, <1>2

\* A new key, under an id that the counter has not passed.
LEMMA AddKey ==
    ASSUME NEW tk, NEW g, NEW nx, KeyTypes(tk, g, nx), KeysBelow(tk, g, nx),
           NEW t \in TokenIds, nx <= t, NEW max \in 0..MaxUses, NEW admin \in BOOLEAN
    PROVE  LET new == WithToken(tk, t, max, admin)
           IN  /\ KeyTypes(new, g, t + 1) /\ KeysBelow(new, g, t + 1)
               /\ KeysKept({<<"key", t>>}, new, g, t + 1)
               /\ \A P : KeysKept(P, tk, g, nx) => KeysKept(P, new, g, t + 1)
               /\ \A mx : HaveLimits(mx, tk) /\ mx \in [TokenIds -> SUBSET (0..MaxUses)] =>
                      HaveLimits([mx EXCEPT ![t] = {max}], new)
               /\ t \notin DOMAIN tk /\ \A c \in Clients : t \notin g[c]
<1> DEFINE new == WithToken(tk, t, max, admin)
<1>0. /\ DOMAIN new = DOMAIN tk \union {t}
      /\ \A u \in DOMAIN new : new[u] = IF u = t THEN [max |-> max, uses |-> 0, admin |-> admin] ELSE tk[u]
      /\ new = [u \in DOMAIN new |-> new[u]]
  BY DEF WithToken
<1> HIDE DEF new
<1>1. TokenIds \subseteq Nat /\ nx \in Nat /\ t + 1 \in 1..(MaxTokenId + 1) /\ t < t + 1 /\ 0 \in 0..MaxUses
  BY BoundsAssumption DEF TokenIds, KeyTypes
<1>2. /\ DOMAIN tk \subseteq TokenIds /\ \A u \in DOMAIN tk : tk[u] \in Token
      /\ g \in [Clients -> SUBSET TokenIds]
  BY DEF KeyTypes, TokenTable
<1>3. \A u \in DOMAIN new : new[u] \in Token
  BY <1>0, <1>1, <1>2 DEF Token
<1>4. KeyTypes(new, g, t + 1)
  BY <1>0, <1>1, <1>2, <1>3 DEF KeyTypes, TokenTable
<1>5. \A u \in TokenIds : u < nx => u < t + 1 /\ u # t
  BY <1>1
<1>6. KeysBelow(new, g, t + 1) /\ t \notin DOMAIN tk /\ \A c \in Clients : t \notin g[c]
  BY <1>0, <1>1, <1>2, <1>5 DEF KeysBelow
<1>7. KeysKept({<<"key", t>>}, new, g, t + 1)
  BY <1>0 DEF KeysKept
<1>8. ASSUME NEW P, KeysKept(P, tk, g, nx) PROVE KeysKept(P, new, g, t + 1)
  BY <1>0, <1>5, <1>8 DEF KeysKept
<1>9. ASSUME NEW mx, HaveLimits(mx, tk), mx \in [TokenIds -> SUBSET (0..MaxUses)]
      PROVE  HaveLimits([mx EXCEPT ![t] = {max}], new)
  BY <1>0, <1>2, <1>9 DEF HaveLimits
<1> QED
  BY <1>4, <1>6, <1>7, <1>8, <1>9 DEF new

\* A table that does not have the new key keeps its limits.
LEMMA LimitsKept ==
    ASSUME NEW mx \in [TokenIds -> SUBSET (0..MaxUses)], NEW tk, HaveLimits(mx, tk),
           DOMAIN tk \subseteq TokenIds, NEW t \in TokenIds, NEW S, S # {}
    PROVE  HaveLimits([mx EXCEPT ![t] = S], tk)
BY DEF HaveLimits

\* A start that finds an administrator's key.
LEMMA StartWithKeys ==
    ASSUME KeyInv, StartWithAdminToken
    PROVE  KeyInv'
<1>1. /\ step = Down /\ json # Torn /\ step' = Idle
      /\ tokens' = Loaded.tokens /\ granted' = Loaded.granted /\ nextToken' = Loaded.next
      /\ UNCHANGED <<json, sqlite, promises, maxima, cut>>
  BY DEF StartWithAdminToken, history
<1>2. TokenTable(sqlite) /\ maxima \in [TokenIds -> SUBSET (0..MaxUses)]
  BY DEF KeyInv, KeyType
<1>3. /\ KeyTypes(tokens', granted', nextToken')
      /\ KeysKept(promises, tokens', granted', nextToken')
      /\ KeysBelow(tokens', granted', nextToken')
      /\ Whole => json.next <= nextToken'
      /\ json = Absent => \A t \in DOMAIN sqlite : t < nextToken'
      /\ Counted(maxima, cut, tokens', granted')
      /\ HaveLimits(maxima, tokens')
  BY <1>1, <1>2, LoadedKeys
<1>4. /\ HalfDone = {} /\ HalfDone' = {} /\ InFlight' = {} /\ Whole' = Whole
      /\ cut \union {} = cut
  BY <1>1, NothingHalfDone DEF HalfDone, InFlight, Idle, Whole
<1>5. FileType' /\ KeyType'
  BY <1>1, <1>3, <1>4 DEF KeyInv, FileType, KeyType, StepType
<1>6. KeyPromises'
  BY <1>1, <1>3, <1>4, StepShapes DEF KeyInv, KeyPromises, Serving
<1>7. KeyCounters'
  BY <1>1, <1>3, <1>4 DEF KeyInv, KeyCounters
<1>8. KeyUses'
  BY <1>1, <1>3, <1>4 DEF KeyInv, KeyUses
<1> QED
  BY <1>5, <1>6, <1>7, <1>8 DEF KeyInv

\* A step that makes a key, from the tables tk and g with the counter nx.
LEMMA NewKeyStep ==
    ASSUME KeyInv, NEW tk, NEW g, NEW nx,
           KeyTypes(tk, g, nx), KeysBelow(tk, g, nx), KeysKept(promises', tk, g, nx),
           Whole => json.next <= nx, json = Absent => \A u \in DOMAIN sqlite : u < nx,
           Counted(maxima, cut, tk, g), HaveLimits(maxima, tk),
           step \in {Idle, Down},
           NEW t \in TokenIds, nx <= t, NEW max \in 0..MaxUses, NEW admin \in BOOLEAN,
           tokens' = WithToken(tk, t, max, admin), granted' = g, nextToken' = t + 1,
           maxima' = [maxima EXCEPT ![t] = {max}],
           sqlite' \in {sqlite, WithToken(sqlite, t, max, admin)},
           UNCHANGED <<json, cut>>, promises' \subseteq promises,
           step' \in {Saving({}), Saving({<<"key", t>>})}
    PROVE  KeyInv'
<1>2. /\ TokenTable(sqlite) /\ maxima \in [TokenIds -> SUBSET (0..MaxUses)]
      /\ MaxTokenId \in Nat /\ HaveLimits(maxima, sqlite)
  BY BoundsAssumption DEF KeyInv, KeyType, KeyUses
<1>5. /\ KeyTypes(tokens', granted', nextToken') /\ KeysBelow(tokens', granted', nextToken')
      /\ KeysKept(promises', tokens', granted', nextToken') /\ HaveLimits(maxima', tokens')
      /\ KeysKept({<<"key", t>>}, tokens', granted', nextToken')
      /\ \A c \in Clients : t \notin g[c]
  BY <1>2, AddKey
<1>6. /\ HalfDone = {} /\ HalfDone' = {} /\ InFlight' = {} /\ Whole' = Whole
      /\ cut \union {} = cut
  BY NothingHalfDone DEF HalfDone, InFlight, Saving, SavingHalf, Whole
<1>7. TokenTable(sqlite') /\ maxima' \in [TokenIds -> SUBSET (0..MaxUses)] /\ HaveLimits(maxima', sqlite')
  <2>1. CASE sqlite' = sqlite
    BY <1>2, <2>1, LimitsKept DEF TokenTable
  <2>2. CASE sqlite' = WithToken(sqlite, t, max, admin)
    <3>1. \A u \in DOMAIN sqlite' : sqlite'[u] \in Token
      BY <2>2, <1>2, BoundsAssumption DEF TokenTable, Token, WithToken
    <3>2. DOMAIN sqlite' \subseteq TokenIds /\ sqlite' = [u \in DOMAIN sqlite' |-> sqlite'[u]]
      BY <2>2, <1>2 DEF TokenTable, WithToken
    <3>3. HaveLimits(maxima', sqlite')
      BY <1>2, <2>2 DEF HaveLimits, WithToken, TokenTable
    <3> QED
      BY <1>2, <3>1, <3>2, <3>3 DEF TokenTable
  <2> QED
    BY <2>1, <2>2
<1>8. FileType' /\ KeyType'
  BY <1>5, <1>6, <1>7, StepShapes DEF KeyInv, FileType, KeyType, StepType
<1>9. KeyPromises'
  <2>1. step'.promises \in {{}, {<<"key", t>>}}
    BY StepShapes
  <2>2. KeysKept(step'.promises, tokens', granted', nextToken')
    BY <1>5, <2>1, KeysKeptFewer
  <2>3. /\ json = Absent => promises' = {}
        /\ Whole => KeysKept(promises', json.tokens, json.granted, json.next)
    BY KeysKeptFewer DEF KeyInv, KeyPromises
  <2> QED
    BY <1>5, <1>6, <2>2, <2>3 DEF KeyPromises
<1>10. Whole => KeyTypes(json.tokens, json.granted, json.next) /\ KeysBelow(json.tokens, json.granted, json.next)
  BY DEF KeyInv, KeyType, KeyCounters
<1>11. KeyCounters'
  <2>1. t \in Nat /\ nx \in Nat /\ TokenIds \subseteq Nat
    BY <1>2 DEF TokenIds, KeyTypes
  <2>2. Whole => json.next <= t + 1
    BY <1>2, <1>10, <2>1 DEF KeyTypes
  <2>3. json = Absent => \A u \in DOMAIN sqlite' : u < t + 1
    BY <1>2, <2>1 DEF WithToken, TokenTable
  <2> QED
    BY <1>5, <1>6, <1>10, <2>2, <2>3 DEF KeyCounters
<1>12. KeyUses'
  <2>1. Counted(maxima', cut, tokens', granted')
    BY <1>2, <1>5, CountedAdd
  <2>2. Whole => Counted(maxima', cut, json.tokens, json.granted)
    <3>1. Whole => Counted(maxima, cut, json.tokens, json.granted)
      BY <1>6 DEF KeyInv, KeyUses
    <3>2. Whole => t \notin DOMAIN json.tokens /\ \A c \in Clients : t \notin json.granted[c]
      <4>1. Whole => ~ (t < json.next)
        BY <1>10, <1>2 DEF KeyTypes, TokenIds
      <4> QED
        BY <4>1, <1>10 DEF KeysBelow
    <3> QED
      BY <1>2, <3>1, <3>2, CountedAdd
  <2>3. json = Absent => Counted(maxima', cut, sqlite', NoGrants)
    <3>1. json = Absent => Counted(maxima, cut, sqlite, NoGrants)
      BY DEF KeyInv, KeyUses
    <3>2. \A c \in Clients : t \notin NoGrants[c]
      BY DEF NoGrants
    <3>3. json = Absent => t \notin DOMAIN sqlite
      BY <1>2 DEF TokenIds, KeyTypes
    <3>4. json = Absent => /\ Counted(maxima', cut, WithToken(sqlite, t, max, admin), NoGrants)
                           /\ Counted(maxima', cut, sqlite, NoGrants)
      BY <1>2, <3>1, <3>2, <3>3, CountedAdd
    <3> QED
      BY <3>4
  <2>5. Whole => HaveLimits(maxima', json.tokens)
    BY <1>2, <1>10, LimitsKept DEF KeyInv, KeyUses, KeyTypes, TokenTable
  <2> QED
    BY <1>5, <1>6, <1>7, <2>1, <2>2, <2>3, <2>5 DEF KeyUses
<1> QED
  BY <1>8, <1>9, <1>11, <1>12 DEF KeyInv

\* A start that makes an administrator's key.
LEMMA StartMakesKey ==
    ASSUME KeyInv, StartAndMakeAdminToken
    PROVE  KeyInv'
<1> DEFINE t == Larger(Loaded.next, Seed(Loaded.tokens))
<1>1. /\ step = Down /\ json # Torn /\ step' = Saving({})
      /\ t \in TokenIds
      /\ tokens' = WithToken(Loaded.tokens, t, 1, TRUE)
      /\ sqlite' = WithToken(sqlite, t, 1, TRUE)
      /\ granted' = Loaded.granted /\ nextToken' = t + 1
      /\ maxima' = [maxima EXCEPT ![t] = {1}]
      /\ UNCHANGED <<json, promises, cut>>
  BY DEF StartAndMakeAdminToken
<1>2. TokenTable(sqlite) /\ 1 \in 0..MaxUses /\ MaxTokenId \in Nat
  BY BoundsAssumption DEF KeyInv, KeyType
<1>3. /\ KeyTypes(Loaded.tokens, Loaded.granted, Loaded.next)
      /\ KeysKept(promises, Loaded.tokens, Loaded.granted, Loaded.next)
      /\ KeysBelow(Loaded.tokens, Loaded.granted, Loaded.next)
      /\ Whole => json.next <= Loaded.next
      /\ json = Absent => \A u \in DOMAIN sqlite : u < Loaded.next
      /\ Counted(maxima, cut, Loaded.tokens, Loaded.granted)
      /\ HaveLimits(maxima, Loaded.tokens)
  BY <1>1, <1>2, LoadedKeys
<1>4. Loaded.next <= t
  <2>1. Loaded.next \in 1..(MaxTokenId + 1) /\ Seed(Loaded.tokens) \in 1..(MaxTokenId + 1)
    BY <1>2, <1>3, SeedAbove DEF KeyTypes, TokenTable, TokenIds
  <2> QED
    BY <1>2, <2>1, LargerIsUpper
<1> HIDE DEF t
<1>5. KeysKept(promises', Loaded.tokens, Loaded.granted, Loaded.next) /\ promises' \subseteq promises
  BY <1>1, <1>3
<1> QED
  BY <1>1, <1>2, <1>3, <1>4, <1>5, NewKeyStep

\* The memory of a runtime between two commands.
LEMMA IdleKeys ==
    ASSUME KeyInv, step = Idle
    PROVE  /\ KeyTypes(tokens, granted, nextToken) /\ KeysBelow(tokens, granted, nextToken)
           /\ KeysKept(promises, tokens, granted, nextToken)
           /\ Whole => json.next <= nextToken
           /\ json = Absent => \A u \in DOMAIN sqlite : u < nextToken
           /\ Counted(maxima, cut, tokens, granted) /\ HaveLimits(maxima, tokens)
           /\ maxima \in [TokenIds -> SUBSET (0..MaxUses)]
           /\ \A t : t = Larger(nextToken, Seed(tokens)) => nextToken <= t
<1>1. Serving /\ InFlight = {} /\ cut \union {} = cut
  BY NothingHalfDone, StepShapes DEF Serving
<1>2. KeyTypes(tokens, granted, nextToken) /\ MaxTokenId \in Nat /\ MaxTokenId + 1 \in Nat
  BY BoundsAssumption DEF KeyInv, KeyType
<1>3. nextToken \in 1..(MaxTokenId + 1) /\ Seed(tokens) \in 1..(MaxTokenId + 1)
  BY <1>2, SeedAbove DEF KeyTypes, TokenTable, TokenIds
<1>4. nextToken <= Larger(nextToken, Seed(tokens))
  BY <1>2, <1>3, LargerIsUpper
<1> QED
  BY <1>1, <1>2, <1>4 DEF KeyInv, KeyType, KeyPromises, KeyCounters, KeyUses

\* tokenadd.
LEMMA TokenAddKeys ==
    ASSUME KeyInv, NEW max \in MaxUsesValues, NEW admin \in BOOLEAN, TokenAdd(max, admin)
    PROVE  KeyInv'
<1> DEFINE t == Larger(nextToken, Seed(tokens))
<1>1. /\ step = Idle /\ t \in TokenIds
      /\ tokens' = WithToken(tokens, t, max, admin) /\ nextToken' = t + 1 /\ granted' = granted
      /\ maxima' = [maxima EXCEPT ![t] = {max}] /\ step' = Saving({<<"key", t>>})
      /\ UNCHANGED <<json, sqlite, promises, cut>>
  BY DEF TokenAdd, Command
<1>2. nextToken <= t /\ max \in 0..MaxUses
  BY <1>1, IdleKeys, BoundsAssumption
<1> HIDE DEF t
<1>3. KeysKept(promises', tokens, granted, nextToken) /\ promises' \subseteq promises
  BY <1>1, IdleKeys
<1> QED
  BY <1>1, <1>2, <1>3, IdleKeys, NewKeyStep

\* permreset takes all groups, and the promises about them, and makes a key.
LEMMA PermResetKeys ==
    ASSUME KeyInv, PermReset
    PROVE  KeyInv'
<1> DEFINE t == Larger(nextToken, Seed(tokens))
           R == {<<"grant", c, u>> : c \in Clients, u \in TokenIds}
<1>1. /\ step = Idle /\ t \in TokenIds
      /\ tokens' = WithToken(tokens, t, 1, TRUE) /\ nextToken' = t + 1 /\ granted' = NoGrants
      /\ sqlite' = WithToken(sqlite, t, 1, TRUE)
      /\ maxima' = [maxima EXCEPT ![t] = {1}] /\ step' = Saving({<<"key", t>>})
      /\ promises' = promises \ R /\ UNCHANGED <<json, cut>>
  BY DEF PermReset, Command, Revoke
<1>2. nextToken <= t /\ 1 \in 0..MaxUses
  BY <1>1, IdleKeys, BoundsAssumption
<1>3. KeysKept(promises', tokens, NoGrants, nextToken)
  <2>1. KeysKept(promises, tokens, granted, nextToken)
    BY <1>1, IdleKeys
  <2> QED
    BY <1>1, <2>1 DEF KeysKept
<1> HIDE DEF t, R
<1>4. KeyTypes(tokens, NoGrants, nextToken) /\ KeysBelow(tokens, NoGrants, nextToken)
  BY <1>1, IdleKeys DEF KeyTypes, KeysBelow, NoGrants
<1>5. Counted(maxima, cut, tokens, NoGrants)
  <2>1. \A u \in TokenIds : Held(NoGrants, u, cut) \subseteq Held(granted, u, cut)
    BY DEF Held, NoGrants
  <2> QED
    BY <1>1, <2>1, IdleKeys, CountedFewer DEF KeyTypes
<1>6. promises' \subseteq promises
  BY <1>1
<1> QED
  BY <1>1, <1>2, <1>3, <1>4, <1>5, <1>6, IdleKeys, NewKeyStep

\* tokendelete.
LEMMA TokenDeleteKeys ==
    ASSUME KeyInv, NEW t \in TokenIds, TokenDelete(t)
    PROVE  KeyInv'
<1>1. /\ step = Idle /\ t \in DOMAIN tokens
      /\ tokens' = WithoutToken(tokens, t) /\ step' = Saving({<<"gone", t>>})
      /\ promises' = promises \ {<<"key", t>>}
      /\ UNCHANGED <<granted, nextToken, json, sqlite, maxima, cut>>
  BY DEF TokenDelete, Command, Revoke
<1>2. DOMAIN tokens' = DOMAIN tokens \ {t} /\ \A u \in DOMAIN tokens' : tokens'[u] = tokens[u]
  BY <1>1 DEF WithoutToken
<1>3. /\ KeyTypes(tokens, granted, nextToken) /\ KeysBelow(tokens, granted, nextToken)
      /\ KeysKept(promises, tokens, granted, nextToken)
      /\ Counted(maxima, cut, tokens, granted) /\ HaveLimits(maxima, tokens)
  BY <1>1, IdleKeys
<1>4. /\ HalfDone = {} /\ HalfDone' = {} /\ InFlight' = {} /\ Whole' = Whole
      /\ cut \union {} = cut /\ Serving /\ Serving'
  BY <1>1, NothingHalfDone, StepShapes DEF HalfDone, InFlight, Saving, SavingHalf, Whole, Serving
<1>5. KeyTypes(tokens', granted', nextToken')
  BY <1>1, <1>3 DEF KeyTypes, TokenTable, WithoutToken
<1>6. FileType' /\ KeyType'
  BY <1>1, <1>4, <1>5, StepShapes DEF KeyInv, FileType, KeyType, StepType
<1>7. KeyPromises'
  <2>1. step'.promises = {<<"gone", t>>}
    BY <1>1, StepShapes
  <2>2. t < nextToken
    BY <1>1, <1>3 DEF KeysBelow
  <2>3. KeysKept({<<"gone", t>>}, tokens', granted', nextToken')
    BY <1>1, <1>2, <2>2 DEF KeysKept
  <2>4. KeysKept(promises', tokens', granted', nextToken')
    BY <1>1, <1>2, <1>3 DEF KeysKept
  <2>5. promises' \subseteq promises
    BY <1>1
  <2> QED
    BY <1>1, <1>4, <2>1, <2>3, <2>4, <2>5, KeysKeptFewer DEF KeyInv, KeyPromises
<1>8. KeyCounters'
  BY <1>1, <1>2, <1>3, <1>4 DEF KeyInv, KeyCounters, KeysBelow
<1>9. KeyUses'
  <2>1. Counted(maxima, cut, tokens', granted) /\ HaveLimits(maxima, tokens')
    BY <1>2, <1>3 DEF Counted, CountedKey, HaveLimits
  <2> QED
    BY <1>1, <1>4, <2>1 DEF KeyInv, KeyUses
<1> QED
  BY <1>6, <1>7, <1>8, <1>9 DEF KeyInv

\* tokenedit.
LEMMA TokenEditKeys ==
    ASSUME KeyInv, NEW t \in TokenIds, NEW max \in MaxUsesValues, NEW admin \in BOOLEAN,
           TokenEdit(t, max, admin)
    PROVE  KeyInv'
<1>1. /\ step = Idle /\ t \in DOMAIN tokens /\ step' = Saving({})
      /\ tokens' = [tokens EXCEPT ![t].max = max, ![t].admin = admin]
      /\ maxima' = [maxima EXCEPT ![t] = @ \union {max}]
      /\ UNCHANGED <<granted, nextToken, json, sqlite, promises, cut>>
  BY DEF TokenEdit, Command
<1>3. /\ KeyTypes(tokens, granted, nextToken) /\ KeysBelow(tokens, granted, nextToken)
      /\ KeysKept(promises, tokens, granted, nextToken)
      /\ Counted(maxima, cut, tokens, granted) /\ HaveLimits(maxima, tokens)
      /\ maxima \in [TokenIds -> SUBSET (0..MaxUses)] /\ max \in 0..MaxUses
  BY <1>1, IdleKeys, BoundsAssumption
<1>2. /\ DOMAIN tokens' = DOMAIN tokens
      /\ \A u \in DOMAIN tokens : /\ tokens'[u].uses = tokens[u].uses /\ tokens'[u] \in Token
                                  /\ tokens'[u].max = tokens[u].max \/ (u = t /\ tokens'[u].max = max)
      /\ tokens' = [u \in DOMAIN tokens |-> tokens'[u]]
  BY <1>1, <1>3 DEF KeyTypes, TokenTable, Token
<1>4. /\ HalfDone = {} /\ HalfDone' = {} /\ InFlight' = {} /\ Whole' = Whole
      /\ cut \union {} = cut /\ Serving /\ Serving'
  BY <1>1, NothingHalfDone, StepShapes DEF HalfDone, InFlight, Saving, SavingHalf, Whole, Serving
<1>5. KeyTypes(tokens', granted', nextToken') /\ maxima' \in [TokenIds -> SUBSET (0..MaxUses)]
  BY <1>1, <1>2, <1>3 DEF KeyTypes, TokenTable
<1>6. FileType' /\ KeyType'
  BY <1>1, <1>4, <1>5, StepShapes DEF KeyInv, FileType, KeyType, StepType
<1>7. KeyPromises'
  <2>1. step'.promises = {}
    BY <1>1, StepShapes
  <2>4. KeysKept(promises', tokens', granted', nextToken') /\ KeysKept({}, tokens', granted', nextToken')
    BY <1>1, <1>2, <1>3 DEF KeysKept
  <2> QED
    BY <1>1, <1>4, <2>1, <2>4 DEF KeyInv, KeyPromises
<1>8. KeyCounters'
  BY <1>1, <1>2, <1>3, <1>4 DEF KeyInv, KeyCounters, KeysBelow
<1>9. KeyUses'
  <2>0. maxima[t] # {}
    BY <1>1, <1>3 DEF HaveLimits
  <2>1. Counted(maxima', cut, tokens', granted)
    <3>1. maxima' = [maxima EXCEPT ![t] = @ \union {max}]
      BY <1>1
    <3>2. /\ DOMAIN tokens' = DOMAIN tokens
          /\ \A u \in DOMAIN tokens : /\ tokens'[u].uses = tokens[u].uses
                                      /\ tokens'[u].max = tokens[u].max \/ (u = t /\ tokens'[u].max = max)
      BY <1>2
    <3> QED
      BY <1>3, <2>0, <3>1, <3>2, CountedEdit
  <2>2. ASSUME NEW X, NEW tk, NEW g, Counted(maxima, X, tk, g)
        PROVE  Counted(maxima', X, tk, g)
    <3>1. \A u \in DOMAIN tk : tk[u].uses = tk[u].uses /\ (tk[u].max = tk[u].max \/ (u = t /\ tk[u].max = max))
      OBVIOUS
    <3> QED
      BY <1>1, <1>3, <2>0, <2>2, <3>1, CountedEdit
  <2>3. ASSUME NEW tk, HaveLimits(maxima, tk), DOMAIN tk \subseteq TokenIds
        PROVE  HaveLimits(maxima', tk)
    BY <1>1, <1>3, <2>3 DEF HaveLimits
  <2>4. /\ DOMAIN tokens \subseteq TokenIds /\ DOMAIN sqlite \subseteq TokenIds
        /\ Whole => DOMAIN json.tokens \subseteq TokenIds
    BY DEF KeyInv, KeyType, KeyTypes, TokenTable
  <2>5. HaveLimits(maxima', tokens')
    BY <1>2, <1>3, <2>3, <2>4 DEF HaveLimits
  <2>6. /\ HaveLimits(maxima', sqlite) /\ (Whole => HaveLimits(maxima', json.tokens))
        /\ Whole => Counted(maxima', cut, json.tokens, json.granted)
        /\ json = Absent => Counted(maxima', cut, sqlite, NoGrants)
    BY <1>4, <2>2, <2>3, <2>4 DEF KeyInv, KeyUses
  <2> QED
    BY <1>1, <1>4, <2>1, <2>5, <2>6 DEF KeyUses
<1> QED
  BY <1>6, <1>7, <1>8, <1>9 DEF KeyInv

\* CountUse, with client c given the groups of the key in this step or before.
LEMMA CountUseKeys ==
    ASSUME KeyInv, Serving, NEW t \in DOMAIN tokens, tokens[t].uses < MaxUses, CountUse(t),
           NEW c \in Clients, granted' \in [Clients -> SUBSET TokenIds], t \in granted'[c],
           \A d \in Clients : granted[d] \subseteq granted'[d] /\ granted'[d] \subseteq granted[d] \union {t},
           nextToken' = nextToken
    PROVE  /\ KeyTypes(tokens', granted', nextToken') /\ TokenTable(sqlite')
           /\ KeysBelow(tokens', granted', nextToken')
           /\ KeysKept(promises', tokens', granted', nextToken')
           /\ KeysKept(UsePromises(c, t), tokens', granted', nextToken')
           /\ HaveLimits(maxima, tokens') /\ HaveLimits(maxima, sqlite')
           /\ json = Absent => \A u \in DOMAIN sqlite' : u < nextToken'
           /\ promises' \subseteq promises
<1>1. /\ KeyTypes(tokens, granted, nextToken) /\ TokenTable(sqlite) /\ KeysBelow(tokens, granted, nextToken)
      /\ KeysKept(promises, tokens, granted, nextToken)
      /\ HaveLimits(maxima, tokens) /\ HaveLimits(maxima, sqlite)
      /\ json = Absent => \A u \in DOMAIN sqlite : u < nextToken
  BY DEF KeyInv, KeyType, KeyPromises, KeyCounters, KeyUses
<1>2. Used(t) \in Token /\ t \in TokenIds /\ t < nextToken
  <2>1. tokens[t] \in Token /\ t \in TokenIds /\ t < nextToken
    BY <1>1 DEF KeyTypes, TokenTable, KeysBelow
  <2> QED
    BY <2>1, BoundsAssumption DEF Used, Token
<1>3. /\ tokens' = IF Exhausted(t) THEN WithoutToken(tokens, t) ELSE [tokens EXCEPT ![t] = Used(t)]
      /\ sqlite' = [u \in DOMAIN sqlite \union {t} |-> IF u = t THEN Used(t) ELSE sqlite[u]]
      /\ promises' = IF Exhausted(t) THEN promises \ {<<"key", t>>} ELSE promises
  BY DEF CountUse, Revoke
<1>4. TokenTable(tokens') /\ TokenTable(sqlite')
  BY <1>1, <1>2, <1>3 DEF KeyTypes, TokenTable, WithoutToken
<1>5. DOMAIN tokens' = IF Exhausted(t) THEN DOMAIN tokens \ {t} ELSE DOMAIN tokens
  BY <1>1, <1>3 DEF KeyTypes, TokenTable, WithoutToken
<1>6. KeysBelow(tokens', granted', nextToken')
  BY <1>1, <1>2, <1>5 DEF KeysBelow
<1>7. KeysKept(promises', tokens', granted', nextToken')
  BY <1>1, <1>3, <1>5 DEF KeysKept
<1>8. KeysKept(UsePromises(c, t), tokens', granted', nextToken')
  BY <1>2, <1>5 DEF KeysKept, UsePromises
<1>9. HaveLimits(maxima, tokens') /\ HaveLimits(maxima, sqlite')
  BY <1>1, <1>3, <1>5 DEF HaveLimits
<1>10. json = Absent => \A u \in DOMAIN sqlite' : u < nextToken'
  BY <1>1, <1>2, <1>3
<1> QED
  BY <1>1, <1>3, <1>4, <1>6, <1>7, <1>8, <1>9, <1>10 DEF KeyTypes

\* tokenuse by an account.
LEMMA TokenUseByAccountKeys ==
    ASSUME KeyInv, NEW a \in Accounts, NEW t \in TokenIds, TokenUseByAccount(a, t)
    PROVE  KeyInv'
<1>1. /\ step = Idle /\ t \in DOMAIN tokens /\ Redeemable(t) /\ tokens[t].uses < MaxUses
      /\ granted' = [granted EXCEPT ![a] = @ \union {t}] /\ CountUse(t)
      /\ step' = Saving(UsePromises(a, t))
      /\ UNCHANGED <<nextToken, json, maxima, cut>>
  BY DEF TokenUseByAccount, Command
<1>2. /\ a \in Clients /\ granted \in [Clients -> SUBSET TokenIds]
      /\ Counted(maxima, cut, tokens, granted)
  BY <1>1, IdleKeys DEF Clients, KeyTypes
<1>3. /\ granted' \in [Clients -> SUBSET TokenIds] /\ t \in granted'[a]
      /\ \A d \in Clients : granted[d] \subseteq granted'[d] /\ granted'[d] \subseteq granted[d] \union {t}
      /\ \A d \in Clients \ {a} : granted'[d] = granted[d]
  BY <1>1, <1>2
<1>4. /\ HalfDone = {} /\ HalfDone' = {} /\ InFlight' = {} /\ Whole' = Whole
      /\ cut \union {} = cut /\ Serving /\ Serving'
  BY <1>1, NothingHalfDone, StepShapes DEF HalfDone, InFlight, Saving, SavingHalf, Whole, Serving
<1>5. /\ KeyTypes(tokens', granted', nextToken') /\ TokenTable(sqlite')
      /\ KeysBelow(tokens', granted', nextToken')
      /\ KeysKept(promises', tokens', granted', nextToken')
      /\ KeysKept(UsePromises(a, t), tokens', granted', nextToken')
      /\ HaveLimits(maxima, tokens') /\ HaveLimits(maxima, sqlite')
      /\ json = Absent => \A u \in DOMAIN sqlite' : u < nextToken'
      /\ promises' \subseteq promises
  BY <1>1, <1>2, <1>3, <1>4, CountUseKeys
<1>6. FileType' /\ KeyType'
  BY <1>1, <1>4, <1>5, StepShapes DEF KeyInv, FileType, KeyType, StepType
<1>7. KeyPromises'
  BY <1>1, <1>4, <1>5, StepShapes, KeysKeptFewer DEF KeyInv, KeyPromises
<1>8. KeyCounters'
  BY <1>1, <1>4, <1>5 DEF KeyInv, KeyCounters
<1>9. KeyUses'
  <2>1. Held(granted', t, cut) \subseteq Held(granted, t, cut) \union {a}
    BY <1>3 DEF Held
  <2>2. \A u \in TokenIds \ {t} : Held(granted', u, cut) \subseteq Held(granted, u, cut)
    BY <1>3 DEF Held
  <2>3. /\ Counted(maxima, cut, tokens', granted')
        /\ Counted(maxima, cut, sqlite, NoGrants) => Counted(maxima, cut, sqlite', NoGrants)
    BY <1>1, <1>2, <2>1, <2>2, CountedUse DEF KeyInv
  <2> QED
    BY <1>1, <1>4, <1>5, <2>3 DEF KeyInv, KeyUses
<1> QED
  BY <1>6, <1>7, <1>8, <1>9 DEF KeyInv

\* tokenuse by a member: the groups are there, the use is not counted.
LEMMA TokenUseByMemberKeys ==
    ASSUME KeyInv, NEW m \in Members, NEW t \in TokenIds, TokenUseByMember(m, t)
    PROVE  KeyInv'
<1>1. /\ step = Idle /\ t \in DOMAIN tokens /\ Redeemable(t) /\ tokens[t].uses < MaxUses
      /\ granted' = [granted EXCEPT ![m] = @ \union {t}]
      /\ step' = [at |-> "grant", member |-> m, token |-> t]
      /\ UNCHANGED <<tokens, nextToken, json, sqlite, promises, maxima, cut>>
  BY DEF TokenUseByMember, Command, history
<1>2. /\ m \in Clients /\ KeyTypes(tokens, granted, nextToken)
      /\ KeysBelow(tokens, granted, nextToken)
      /\ KeysKept(promises, tokens, granted, nextToken)
      /\ Counted(maxima, cut, tokens, granted)
      /\ maxima \in [TokenIds -> SUBSET (0..MaxUses)]
  BY <1>1, IdleKeys DEF Clients
<1>3. /\ KeyTypes(tokens, granted', nextToken)
      /\ \A d \in Clients : granted[d] \subseteq granted'[d] /\ granted'[d] \subseteq granted[d] \union {t}
      /\ \A d \in Clients \ {m} : granted'[d] = granted[d]
  BY <1>1, <1>2 DEF KeyTypes
<1>4. /\ HalfDone = {} /\ HalfDone' = {} /\ InFlight' = {<<t, m>>} /\ Whole' = Whole
      /\ cut \union {} = cut /\ Serving /\ Serving'
  BY <1>1, NothingHalfDone DEF HalfDone, InFlight, Whole, Serving, Idle, Down
<1>5. FileType'
  BY <1>1, <1>4 DEF KeyInv, FileType
<1>6. StepType' /\ step'.at # "save"
  BY <1>1, <1>2 DEF KeyTypes,  StepType, Redeemable
<1>7. KeyType'
  BY <1>1, <1>3, <1>4, <1>6 DEF KeyInv, KeyType
<1>8. KeyPromises'
  <2>1. KeysKept(promises, tokens, granted', nextToken)
    BY <1>2, <1>3 DEF KeysKept
  <2> QED
    BY <1>1, <1>4, <1>6, <2>1 DEF KeyInv, KeyPromises
<1>9. KeyCounters'
  <2>1. KeysBelow(tokens, granted', nextToken)
    BY <1>1, <1>2, <1>3 DEF KeysBelow
  <2> QED
    BY <1>1, <1>4, <2>1 DEF KeyInv, KeyCounters
<1>10. KeyUses'
  <2>1. \A u \in TokenIds : Held(granted', u, cut \union {<<t, m>>}) \subseteq Held(granted, u, cut)
    BY <1>3 DEF Held
  <2>2. Counted(maxima, cut \union {<<t, m>>}, tokens, granted')
    BY <1>2, <2>1, CountedFewer DEF KeyTypes
  <2> QED
    BY <1>1, <1>4, <2>2 DEF KeyInv, KeyUses
<1> QED
  BY <1>5, <1>7, <1>8, <1>9, <1>10 DEF KeyInv

\* The second half of a member's tokenuse.
LEMMA CountMemberUseKeys ==
    ASSUME KeyInv, CountMemberUse
    PROVE  KeyInv'
<1> DEFINE t == step.token
           m == step.member
<1>0. /\ m \in Members /\ t \in DOMAIN tokens /\ t \in granted[m] /\ Redeemable(t) /\ tokens[t].uses < MaxUses
      /\ step.at = "count"
  BY DEF KeyInv, KeyType, StepType, CountMemberUse, Idle, Down
<1>1. /\ CountUse(t) /\ step' = SavingHalf(UsePromises(m, t), {<<t, m>>})
      /\ UNCHANGED <<granted, nextToken, json, maxima, cut>>
  BY DEF CountMemberUse
<1>2. /\ HalfDone = {<<t, m>>} /\ InFlight = {<<t, m>>} /\ HalfDone' = {<<t, m>>} /\ InFlight' = {}
      /\ Whole' = Whole /\ cut \union {} = cut /\ Serving /\ Serving'
  <2>1. HalfDone' = {<<t, m>>} /\ InFlight' = {} /\ Serving'
    BY <1>1, StepShapes DEF HalfDone, InFlight, Serving
  <2>2. HalfDone = {<<t, m>>} /\ InFlight = {<<t, m>>} /\ Serving
    BY <1>0 DEF HalfDone, InFlight, Serving, Down
  <2> QED
    BY <1>1, <2>1, <2>2 DEF Whole
<1> HIDE DEF t, m
<1>3. /\ KeyTypes(tokens, granted, nextToken) /\ m \in Clients
      /\ KeysKept(promises, tokens, granted, nextToken)
      /\ Counted(maxima, cut \union {<<t, m>>}, tokens, granted)
  BY <1>0, <1>2 DEF KeyInv, KeyType, KeyPromises, KeyUses, Clients
<1>4. /\ granted' \in [Clients -> SUBSET TokenIds] /\ t \in granted'[m]
      /\ \A d \in Clients : granted[d] \subseteq granted'[d] /\ granted'[d] \subseteq granted[d] \union {t}
  BY <1>0, <1>1, <1>3 DEF KeyTypes
<1>5. /\ KeyTypes(tokens', granted', nextToken') /\ TokenTable(sqlite')
      /\ KeysBelow(tokens', granted', nextToken')
      /\ KeysKept(promises', tokens', granted', nextToken')
      /\ KeysKept(UsePromises(m, t), tokens', granted', nextToken')
      /\ HaveLimits(maxima, tokens') /\ HaveLimits(maxima, sqlite')
      /\ json = Absent => \A u \in DOMAIN sqlite' : u < nextToken'
      /\ promises' \subseteq promises
  BY <1>0, <1>1, <1>2, <1>3, <1>4, CountUseKeys
<1>6. FileType' /\ KeyType'
  BY <1>1, <1>2, <1>5, StepShapes DEF KeyInv, FileType, KeyType, StepType
<1>7. KeyPromises'
  BY <1>1, <1>2, <1>5, StepShapes, KeysKeptFewer DEF KeyInv, KeyPromises
<1>8. KeyCounters'
  BY <1>1, <1>2, <1>5 DEF KeyInv, KeyCounters
<1>9. KeyUses'
  <2>1. Held(granted, t, cut) \subseteq Held(granted, t, cut \union {<<t, m>>}) \union {m}
    BY DEF Held
  <2>2. \A u \in TokenIds \ {t} : Held(granted, u, cut) \subseteq Held(granted, u, cut \union {<<t, m>>})
    BY DEF Held
  <2>3. /\ Counted(maxima, cut, tokens', granted)
        /\ Counted(maxima, cut, sqlite, NoGrants) => Counted(maxima, cut, sqlite', NoGrants)
    BY <1>0, <1>1, <1>3, <2>1, <2>2, CountedUse DEF KeyInv
  <2> QED
    BY <1>1, <1>2, <1>5, <2>3 DEF KeyInv, KeyUses
<1> QED
  BY <1>6, <1>7, <1>8, <1>9 DEF KeyInv

\* A rewrite of the file, at the end of a command or within a member's tokenuse.
LEMMA SaveKeys ==
    ASSUME KeyInv, Save \/ SaveGrant
    PROVE  KeyInv'
<1> DEFINE Q == IF step.at = "save" THEN step.promises ELSE {}
<1>1. /\ UNCHANGED <<tokens, granted, nextToken, sqlite, maxima, cut>>
      /\ json' = Image /\ promises' = promises \union Q
  BY DEF Save, SaveGrant, memory, keys, history
<1>2. /\ json'.tokens = tokens /\ json'.granted = granted /\ json'.next = nextToken
      /\ Whole' /\ json' # Absent /\ json' # Torn
  BY <1>1 DEF Image, Whole, Absent, Torn
<1>3. /\ Serving /\ Serving' /\ step'.at # "save"
      /\ InFlight' = HalfDone' /\ InFlight' = InFlight /\ StepType'
  <2>1. CASE Save
    <3>1. step.at = "save" /\ step' = Idle
      BY <2>1 DEF Save
    <3> QED
      BY <3>1 DEF InFlight, HalfDone, StepType, Serving, Idle, Down
  <2>2. CASE SaveGrant
    <3>1. step.at = "grant" /\ step' = [step EXCEPT !.at = "count"]
      BY <2>2 DEF SaveGrant
    <3>2. /\ step \in [at : {"grant", "count"}, member : Members, token : DOMAIN tokens]
          /\ step.token \in granted[step.member] /\ Redeemable(step.token)
          /\ tokens[step.token].uses < MaxUses
      BY <3>1 DEF KeyInv, KeyType, StepType, Idle, Down
    <3>3. /\ step' \in [at : {"grant", "count"}, member : Members, token : DOMAIN tokens]
          /\ step'.at = "count" /\ step'.token = step.token /\ step'.member = step.member
      BY <3>1, <3>2
    <3>4. StepType'
      BY <1>1, <3>2, <3>3 DEF StepType, Redeemable
    <3> QED
      BY <3>1, <3>3, <3>4 DEF InFlight, HalfDone, Serving, Down
  <2> QED
    BY <2>1, <2>2
<1>4. KeyTypes(tokens, granted, nextToken)
  BY DEF KeyInv, KeyType
<1>5. FileType' /\ KeyType'
  BY <1>1, <1>2, <1>3, <1>4 DEF KeyInv, FileType, KeyType
<1>6. KeyPromises'
  <2>1. KeysKept(promises, tokens, granted, nextToken) /\ KeysKept(Q, tokens, granted, nextToken)
    BY <1>3 DEF KeyInv, KeyPromises, KeysKept
  <2>2. KeysKept(promises', tokens, granted, nextToken)
    BY <1>1, <2>1 DEF KeysKept
  <2> QED
    BY <1>1, <1>2, <1>3, <2>2 DEF KeyPromises
<1>7. KeyCounters'
  <2>1. nextToken \in Nat
    BY <1>4, BoundsAssumption DEF KeyTypes
  <2> QED
    BY <1>1, <1>2, <1>3, <2>1 DEF KeyInv, KeyCounters
<1>8. KeyUses'
  BY <1>1, <1>2, <1>3 DEF KeyInv, KeyUses
<1> QED
  BY <1>5, <1>6, <1>7, <1>8 DEF KeyInv

\* A crash: what was half done becomes a redemption that was cut.
LEMMA CrashKeys ==
    ASSUME KeyInv, Crash
    PROVE  KeyInv'
<1>1. /\ json' \in {json, Torn} /\ cut' = cut \union HalfDone /\ step' = Down
      /\ tokens' = NoTokens /\ granted' = NoGrants /\ nextToken' = 1
      /\ UNCHANGED <<sqlite, promises, maxima>>
  BY DEF Crash
<1>2. /\ ~ Serving' /\ step'.at = "down" /\ InFlight' = {} /\ HalfDone' = {}
      /\ Whole' => Whole /\ json' = json
      /\ json' = Absent => json = Absent
  BY <1>1 DEF Serving, Whole, Down, InFlight, HalfDone, Absent, Torn
<1>3. KeyTypes(NoTokens, NoGrants, 1)
  BY BoundsAssumption DEF KeyTypes, TokenTable, NoTokens, NoGrants, TokenIds
<1>4. FileType' /\ KeyType'
  BY <1>1, <1>2, <1>3 DEF KeyInv, FileType, KeyType, StepType, Whole, Torn
<1>5. KeyPromises'
  BY <1>1, <1>2 DEF KeyInv, KeyPromises
<1>6. KeyCounters'
  BY <1>1, <1>2 DEF KeyInv, KeyCounters
<1>7. KeyUses'
  <2>0. maxima \in [TokenIds -> SUBSET (0..MaxUses)] /\ TokenTable(sqlite) /\ cut' \union {} = cut'
    BY DEF KeyInv, KeyType
  <2>1. Counted(maxima, cut', NoTokens, NoGrants) /\ HaveLimits(maxima, NoTokens)
    <3>1. \A t \in TokenIds : Cardinality(Held(NoGrants, t, cut')) = 0
      BY NobodyHolds DEF NoGrants
    <3>2. \A t \in TokenIds : maxima[t] \subseteq Nat
      BY <2>0, BoundsAssumption
    <3>3. DOMAIN NoTokens = {}
      BY DEF NoTokens
    <3>4. \A t \in TokenIds : Limited(maxima[t]) => Allowed(0, maxima[t])
      BY <3>2 DEF Limited, Allowed
    <3> QED
      BY <3>1, <3>3, <3>4 DEF Counted, CountedKey, HaveLimits
  <2>2. Whole => Counted(maxima, cut', json.tokens, json.granted)
    BY <1>1 DEF KeyInv, KeyUses
  <2>3. json = Absent => Counted(maxima, cut', sqlite, NoGrants)
    <3>1. \A t \in TokenIds : Held(NoGrants, t, cut') \subseteq Held(NoGrants, t, cut)
      BY DEF Held, NoGrants
    <3> QED
      BY <2>0, <3>1, CountedFewer DEF KeyInv, KeyUses
  <2> QED
    BY <1>1, <1>2, <2>0, <2>1, <2>2, <2>3 DEF KeyInv, KeyUses
<1> QED
  BY <1>4, <1>5, <1>6, <1>7 DEF KeyInv

-----------------------------------------------------------------------------
(* Complaints and messages.                                                *)

NoDeskPromise(P) ==
    /\ \A c \in Accused \X Identities : <<"complaint", c>> \notin P /\ <<"settled", c>> \notin P
    /\ \A i \in MailIds : /\ <<"mail", i>> \notin P /\ <<"lost", i>> \notin P
                          /\ \A read \in BOOLEAN : <<"read", i, read>> \notin P

\* Fewer promises are easier to keep.
LEMMA DeskKeptFewer ==
    ASSUME NEW P, NEW Q, Q \subseteq P, NEW cs, NEW ml, NEW nx, DeskKept(P, cs, ml, nx)
    PROVE  DeskKept(Q, cs, ml, nx)
BY DEF DeskKept

\* A step that leaves complaints, messages and the file alone.
LEMMA DeskFrame ==
    ASSUME DeskInv, Serving, Serving', UNCHANGED <<desk, json>>, promises' \subseteq promises,
           step'.at = "save" => NoDeskPromise(step'.promises)
    PROVE  DeskInv'
<1>1. UNCHANGED <<bans, nextBan, complaints, mail, nextMail, json>> /\ Whole' = Whole
  BY DEF desk, Whole
<1>2. step'.at = "save" => DeskKept(step'.promises, complaints, mail, nextMail)
  BY DEF NoDeskPromise, DeskKept
<1> QED
  BY <1>1, <1>2, DeskKeptFewer DEF DeskInv, DeskType, DeskPromises

\* A rewrite of the file.
LEMMA SaveDesk ==
    ASSUME KeyInv, DeskInv, Save \/ SaveGrant
    PROVE  DeskInv'
<1> DEFINE Q == IF step.at = "save" THEN step.promises ELSE {}
<1>1. /\ UNCHANGED <<bans, nextBan, complaints, mail, nextMail>>
      /\ json' = Image /\ promises' = promises \union Q
  BY DEF Save, SaveGrant, memory, desk, history
<1>2. /\ json'.complaints = complaints /\ json'.mail = mail /\ json'.nextMail = nextMail
      /\ Whole' /\ json' # Absent
  BY <1>1 DEF Image, Whole, Absent
<1>3. Serving /\ Serving' /\ step'.at # "save"
  BY DEF Save, SaveGrant, Serving, Idle, Down, KeyInv, KeyType, StepType
<1>4. DeskKept(promises, complaints, mail, nextMail) /\ DeskKept(Q, complaints, mail, nextMail)
  BY <1>3 DEF DeskInv, DeskPromises, DeskKept
<1>5. DeskKept(promises', complaints, mail, nextMail)
  BY <1>1, <1>4 DEF DeskKept
<1> QED
  BY <1>1, <1>2, <1>3, <1>5 DEF DeskInv, DeskType, DeskPromises

\* A start.
LEMMA StartDesk ==
    ASSUME KeyInv, DeskInv, StartWithAdminToken \/ StartAndMakeAdminToken
    PROVE  DeskInv'
<1>1. /\ json # Torn /\ LoadDesk /\ UNCHANGED <<json, promises>> /\ step' \in {Idle, Saving({})}
  BY DEF StartWithAdminToken, StartAndMakeAdminToken, history
<1>2. /\ complaints' = Loaded.complaints /\ mail' = Loaded.mail /\ nextMail' = Loaded.nextMail
      /\ UNCHANGED <<bans, nextBan>> /\ Whole' = Whole
      /\ MaxMailId \in Nat /\ MaxMailId + 1 \in Nat
  BY <1>1, BoundsAssumption DEF LoadDesk, Whole
<1>3. step'.at = "save" => step'.promises = {}
  BY <1>1, StepShapes
<1>4. /\ DeskTypes(complaints', mail', nextMail')
      /\ DeskKept(promises, complaints', mail', nextMail')
      /\ \A i \in DOMAIN mail' : i < nextMail'
  <2>1. CASE json = Absent
    <3>1. complaints' = {} /\ mail' = NoMail /\ nextMail' = 1 /\ DOMAIN mail' = {}
      BY <1>2, <2>1 DEF Loaded, NoMail
    <3>2. promises = {}
      BY <2>1 DEF DeskInv, DeskPromises
    <3>3. DeskTypes(complaints', mail', nextMail')
      BY <1>2, <3>1 DEF DeskTypes, NoMail
    <3> QED
      BY <3>1, <3>2, <3>3 DEF DeskKept
  <2>2. CASE json # Absent
    <3>1. Whole
      BY <1>1, <2>2 DEF KeyInv, FileType
    <3>2. /\ complaints' = json.complaints /\ mail' = json.mail
          /\ nextMail' = Larger(json.nextMail, Seed(json.mail))
      BY <1>2, <2>2 DEF Loaded
    <3>3. DeskTypes(json.complaints, json.mail, json.nextMail)
      BY <3>1 DEF DeskInv, DeskType
    <3>4. Seed(json.mail) \in 1..(MaxMailId + 1)
      BY <1>2, <3>3, SeedAbove DEF DeskTypes, MailIds
    <3>5. nextMail' \in 1..(MaxMailId + 1) /\ json.nextMail <= nextMail'
      BY <1>2, <3>2, <3>3, <3>4, LargerIsUpper DEF DeskTypes
    <3>6. \A i \in MailIds : i < json.nextMail => i < nextMail'
      BY <1>2, <3>3, <3>5 DEF DeskTypes, MailIds
    <3>7. DeskKept(promises, json.complaints, json.mail, json.nextMail) /\ \A i \in DOMAIN json.mail : i < json.nextMail
      BY <3>1 DEF DeskInv, DeskPromises
    <3>8. DeskKept(promises, json.complaints, json.mail, nextMail')
      BY <3>6, <3>7 DEF DeskKept
    <3> QED
      BY <3>2, <3>3, <3>5, <3>6, <3>7, <3>8 DEF DeskTypes
  <2> QED
    BY <2>1, <2>2
<1>5. step'.at = "save" => DeskKept(step'.promises, complaints', mail', nextMail')
  BY <1>3, <1>4, DeskKeptFewer
<1> QED
  BY <1>1, <1>2, <1>4, <1>5 DEF DeskInv, DeskType, DeskPromises

\* A crash.
LEMMA CrashDesk ==
    ASSUME DeskInv, Crash
    PROVE  DeskInv'
<1>1. /\ json' \in {json, Torn} /\ step' = Down /\ promises' = promises
      /\ bans' = {} /\ nextBan' = 1 /\ complaints' = {} /\ mail' = NoMail /\ nextMail' = 1
  BY DEF Crash
<1>2. /\ ~ Serving' /\ step'.at = "down" /\ (Whole' => Whole /\ json' = json)
      /\ json' = Absent => json = Absent
  BY <1>1 DEF Serving, Whole, Down, Absent, Torn
<1>3. DeskTypes({}, NoMail, 1) /\ 1 \in 1..(MaxBanId + 1)
  BY BoundsAssumption DEF DeskTypes, NoMail
<1> QED
  BY <1>1, <1>2, <1>3 DEF DeskInv, DeskType, DeskPromises

\* A command about bans, complaints or messages: the file is as before, what is
\* promised holds of the new tables, and no promise is left that does not.
LEMMA DeskCommand ==
    ASSUME DeskInv, step = Idle, UNCHANGED json, promises' \subseteq promises,
           step' = Idle \/ \E p : step' = Saving(p) /\ DeskKept(p, complaints', mail', nextMail'),
           bans' \subseteq BanIds, nextBan' \in 1..(MaxBanId + 1),
           DeskTypes(complaints', mail', nextMail'),
           DeskKept(promises', complaints', mail', nextMail'),
           \A i \in DOMAIN mail' : i < nextMail'
    PROVE  DeskInv'
<1>1. Whole' = Whole
  BY DEF Whole
<1>2. step'.at = "save" => DeskKept(step'.promises, complaints', mail', nextMail')
  BY StepShapes
<1> QED
  BY <1>1, <1>2, DeskKeptFewer DEF DeskInv, DeskType, DeskPromises

\* The memory between two commands.
LEMMA IdleDesk ==
    ASSUME DeskInv, step = Idle
    PROVE  /\ DeskTypes(complaints, mail, nextMail)
           /\ bans \subseteq BanIds /\ nextBan \in 1..(MaxBanId + 1)
           /\ DeskKept(promises, complaints, mail, nextMail)
           /\ \A i \in DOMAIN mail : i < nextMail
BY StepShapes DEF DeskInv, DeskType, DeskPromises, Serving

\* banadd, banclient, bandel, bandelall and the end of a ban.
LEMMA BanDesk ==
    ASSUME DeskInv, BanAdd \/ BanDeleteAll \/ \E b \in BanIds : BanDelete(b) \/ BanExpire(b)
    PROVE  DeskInv'
<1>1. /\ step = Idle /\ UNCHANGED <<json, complaints, mail, nextMail>>
      /\ promises' \subseteq promises
  BY DEF BanAdd, BanDeleteAll, BanDelete, BanExpire, Command, Revoke, history
<1>2. bans' \subseteq BanIds /\ nextBan' \in 1..(MaxBanId + 1)
  <2>1. bans \subseteq BanIds /\ nextBan \in 1..(MaxBanId + 1) /\ MaxBanId \in Nat
    BY <1>1, IdleDesk, BoundsAssumption
  <2>2. CASE BanAdd
    BY <2>1, <2>2 DEF BanAdd, NewBan, BanIds
  <2>3. CASE BanDeleteAll \/ \E b \in BanIds : BanDelete(b) \/ BanExpire(b)
    BY <2>1, <2>3 DEF BanDeleteAll, BanDelete, BanExpire
  <2> QED
    BY <2>2, <2>3
<1>3. step' = Idle \/ \E p : step' = Saving(p) /\ (p = {} \/ p = {<<"ban", nextBan>>})
  BY DEF BanAdd, BanDeleteAll, BanDelete, BanExpire, Command
<1>4. \A p : p = {} \/ p = {<<"ban", nextBan>>} => DeskKept(p, complaints', mail', nextMail')
  BY DEF DeskKept
<1>5. step' = Idle \/ \E p : step' = Saving(p) /\ DeskKept(p, complaints', mail', nextMail')
  BY <1>3, <1>4
<1>6. DeskKept(promises', complaints', mail', nextMail')
  BY <1>1, IdleDesk, DeskKeptFewer
<1> QED
  BY <1>1, <1>2, <1>5, <1>6, IdleDesk, DeskCommand

\* complainadd.
LEMMA ComplainAddDesk ==
    ASSUME DeskInv, NEW f \in Identities, NEW x \in Accused, ComplainAdd(f, x)
    PROVE  DeskInv'
<1>0. step = Idle /\ UNCHANGED <<json, mail, nextMail>> /\ f # x /\ <<x, f>> \notin complaints
  BY DEF ComplainAdd, Command
<1>1. CASE AutobanCount > 0 /\ Cardinality(About(x)) + 1 >= AutobanCount
  <2> DEFINE C == About(x)
             p == {<<"ban", nextBan>>} \union {<<"settled", c>> : c \in C}
  <2>1. /\ complaints' = complaints \ C /\ NewBan
        /\ promises' = promises \ {<<"complaint", c>> : c \in C}
        /\ step' = Saving(p)
    BY <1>1 DEF ComplainAdd, Revoke
  <2> HIDE DEF C
  <2>2. DeskTypes(complaints', mail', nextMail')
    BY <1>0, <2>1, IdleDesk DEF DeskTypes
  <2>3. bans' \subseteq BanIds /\ nextBan' \in 1..(MaxBanId + 1)
    BY <1>0, <2>1, IdleDesk, BoundsAssumption DEF NewBan, BanIds
  <2>4. DeskKept(p, complaints', mail', nextMail')
    BY <2>1 DEF DeskKept
  <2> HIDE DEF p
  <2>5. DeskKept(promises, complaints, mail, nextMail)
    BY <1>0, IdleDesk
  <2>6. DeskKept(promises', complaints', mail', nextMail') /\ promises' \subseteq promises
    BY <1>0, <2>1, <2>5 DEF DeskKept
  <2> QED
    BY <1>0, <2>1, <2>2, <2>3, <2>4, <2>6, IdleDesk, DeskCommand
<1>2. CASE ~ (AutobanCount > 0 /\ Cardinality(About(x)) + 1 >= AutobanCount)
  <2> DEFINE p == {<<"complaint", <<x, f>> >>}
  <2>1. /\ complaints' = complaints \union {<<x, f>>} /\ UNCHANGED <<bans, nextBan>>
        /\ promises' = promises \ {<<"settled", <<x, f>> >>}
        /\ step' = Saving(p)
    BY <1>2 DEF ComplainAdd, Revoke
  <2>2. DeskTypes(complaints', mail', nextMail')
    BY <1>0, <2>1, IdleDesk DEF DeskTypes
  <2>3. bans' \subseteq BanIds /\ nextBan' \in 1..(MaxBanId + 1)
    BY <1>0, <2>1, IdleDesk
  <2>4. DeskKept(p, complaints', mail', nextMail')
    BY <2>1 DEF DeskKept
  <2> HIDE DEF p
  <2>5. DeskKept(promises, complaints, mail, nextMail)
    BY <1>0, IdleDesk
  <2>6. DeskKept(promises', complaints', mail', nextMail') /\ promises' \subseteq promises
    BY <1>0, <2>1, <2>5 DEF DeskKept
  <2> QED
    BY <1>0, <2>1, <2>2, <2>3, <2>4, <2>6, IdleDesk, DeskCommand
<1> QED
  BY <1>1, <1>2

\* complaindel and complaindelall.
LEMMA SettleDesk ==
    ASSUME DeskInv, NEW C, Settle(C)
    PROVE  DeskInv'
<1> DEFINE p == {<<"settled", c>> : c \in C}
<1>1. /\ step = Idle /\ UNCHANGED <<json, bans, nextBan, mail, nextMail>>
      /\ complaints' = complaints \ C
      /\ promises' = promises \ {<<"complaint", c>> : c \in C}
      /\ step' = Saving(p)
  BY DEF Settle, Command, Revoke
<1>2. DeskTypes(complaints', mail', nextMail')
  BY <1>1, IdleDesk DEF DeskTypes
<1>3. DeskKept(p, complaints', mail', nextMail')
  BY <1>1 DEF DeskKept
<1> HIDE DEF p
<1>4. DeskKept(promises, complaints, mail, nextMail)
  BY <1>1, IdleDesk
<1>5. DeskKept(promises', complaints', mail', nextMail') /\ promises' \subseteq promises
  BY <1>1, <1>4 DEF DeskKept
<1> QED
  BY <1>1, <1>2, <1>3, <1>5, IdleDesk, DeskCommand

\* messageadd, messageupdateflag, messageget and messagedel.
LEMMA MessageDesk ==
    ASSUME DeskInv,
           \/ MessageAdd
           \/ \E i \in MailIds : MessageDelete(i)
           \/ \E i \in MailIds, read \in BOOLEAN : MessageUpdateFlag(i, read)
    PROVE  DeskInv'
<1>0. /\ step = Idle /\ UNCHANGED <<json, bans, nextBan, complaints>> /\ promises' \subseteq promises
  BY DEF MessageAdd, MessageDelete, MessageUpdateFlag, Command, Revoke, history
<1>1. /\ DeskTypes(complaints, mail, nextMail)
      /\ DeskKept(promises, complaints, mail, nextMail)
      /\ \A i \in DOMAIN mail : i < nextMail
  BY <1>0, IdleDesk
<1>2. MailIds \subseteq Nat /\ nextMail \in Nat /\ MaxMailId \in Nat
  BY <1>1, BoundsAssumption DEF MailIds, DeskTypes
<1> DEFINE Good(p) == /\ DeskTypes(complaints', mail', nextMail')
                      /\ DeskKept(promises', complaints', mail', nextMail')
                      /\ \A i \in DOMAIN mail' : i < nextMail'
                      /\ DeskKept(p, complaints', mail', nextMail') /\ step' = Saving(p)
<1>3. CASE MessageAdd
  <2>1. /\ nextMail \in MailIds /\ nextMail' = nextMail + 1 /\ UNCHANGED promises
        /\ mail' = [i \in DOMAIN mail \union {nextMail} |-> IF i = nextMail THEN FALSE ELSE mail[i]]
        /\ step' = Saving({<<"mail", nextMail>>})
    BY <1>3 DEF MessageAdd, history
  <2>2. DOMAIN mail' = DOMAIN mail \union {nextMail} /\ \A i \in DOMAIN mail : i # nextMail /\ mail'[i] = mail[i]
    <3>1. \A i \in DOMAIN mail : i \in Nat /\ i # nextMail
      BY <1>1, <1>2 DEF DeskTypes
    <3> QED
      BY <2>1, <3>1
  <2>3. DeskTypes(complaints', mail', nextMail')
    <3>1. DOMAIN mail' \subseteq MailIds /\ mail' \in [DOMAIN mail' -> BOOLEAN]
      BY <1>1, <2>1, <2>2 DEF DeskTypes
    <3>2. nextMail' \in 1..(MaxMailId + 1)
      BY <1>2, <2>1 DEF MailIds
    <3> QED
      BY <1>0, <1>1, <3>1, <3>2 DEF DeskTypes
  <2>4. \A i \in MailIds : i < nextMail => i < nextMail' /\ i # nextMail
    BY <1>2, <2>1
  <2>5. \A i \in DOMAIN mail' : i < nextMail'
    BY <1>1, <1>2, <2>1, <2>2, <2>4 DEF DeskTypes
  <2>6. DeskKept(promises', complaints', mail', nextMail')
    BY <1>0, <1>1, <2>1, <2>2, <2>4 DEF DeskKept
  <2>7. DeskKept({<<"mail", nextMail>>}, complaints', mail', nextMail')
    BY <2>2 DEF DeskKept
  <2>8. Good({<<"mail", nextMail>>})
    BY <2>1, <2>3, <2>5, <2>6, <2>7
  <2> QED
    BY <1>0, <2>8, IdleDesk, DeskCommand
<1>4. ASSUME NEW i \in MailIds, MessageDelete(i)
      PROVE  DeskInv'
  <2>1. /\ i \in DOMAIN mail /\ nextMail' = nextMail
        /\ mail' = [j \in DOMAIN mail \ {i} |-> mail[j]]
        /\ promises' = promises \ {<<"mail", i>>, <<"read", i, TRUE>>, <<"read", i, FALSE>>}
        /\ step' = Saving({<<"lost", i>>})
    BY <1>4 DEF MessageDelete, Revoke
  <2>2. DOMAIN mail' = DOMAIN mail \ {i} /\ \A j \in DOMAIN mail' : mail'[j] = mail[j]
    BY <2>1
  <2>3. DeskTypes(complaints', mail', nextMail')
    BY <1>0, <1>1, <2>1 DEF DeskTypes
  <2>4. \A j \in DOMAIN mail' : j < nextMail'
    BY <1>1, <2>1, <2>2
  <2>5. DeskKept(promises', complaints', mail', nextMail')
    <3>1. \A read \in BOOLEAN : <<"read", i, read>> \notin promises'
      BY <2>1
    <3>2. <<"mail", i>> \notin promises'
      BY <2>1
    <3> QED
      BY <1>0, <1>1, <2>1, <2>2, <3>1, <3>2 DEF DeskKept
  <2>6. DeskKept({<<"lost", i>>}, complaints', mail', nextMail')
    BY <1>1, <2>1, <2>2 DEF DeskKept
  <2>7. Good({<<"lost", i>>})
    BY <2>1, <2>3, <2>4, <2>5, <2>6
  <2> QED
    BY <1>0, <2>7, IdleDesk, DeskCommand
<1>5. ASSUME NEW i \in MailIds, NEW read \in BOOLEAN, MessageUpdateFlag(i, read)
      PROVE  DeskInv'
  <2>1. /\ i \in DOMAIN mail /\ nextMail' = nextMail
        /\ mail' = [mail EXCEPT ![i] = read]
        /\ promises' = promises \ {<<"read", i, ~ read>>}
        /\ step' = Saving({<<"read", i, read>>})
    BY <1>5 DEF MessageUpdateFlag, Revoke
  <2>2. /\ DOMAIN mail' = DOMAIN mail /\ \A j \in DOMAIN mail \ {i} : mail'[j] = mail[j]
        /\ mail'[i] = read
    BY <1>1, <2>1 DEF DeskTypes
  <2>3. DeskTypes(complaints', mail', nextMail')
    BY <1>0, <1>1, <2>1 DEF DeskTypes
  <2>4. \A j \in DOMAIN mail' : j < nextMail'
    BY <1>1, <2>1, <2>2
  <2>5. DeskKept(promises', complaints', mail', nextMail')
    <3>1. \A r \in BOOLEAN : <<"read", i, r>> \in promises' => r = read
      BY <2>1
    <3> QED
      BY <1>0, <1>1, <2>1, <2>2, <3>1 DEF DeskKept
  <2>6. DeskKept({<<"read", i, read>>}, complaints', mail', nextMail')
    BY <1>1, <2>1, <2>2 DEF DeskKept
  <2>7. Good({<<"read", i, read>>})
    BY <2>1, <2>3, <2>4, <2>5, <2>6
  <2> QED
    BY <1>0, <2>7, IdleDesk, DeskCommand
<1> QED
  BY <1>3, <1>4, <1>5

-----------------------------------------------------------------------------
(* Accounts and client records.                                            *)

NoAccountPromise(P) ==
    \A l \in Logins : <<"no account", l>> \notin P /\ \A id \in DbIds : <<"account", l, id>> \notin P

\* Fewer promises are easier to keep.
LEMMA AccountsKeptFewer ==
    ASSUME NEW P, NEW Q, Q \subseteq P, NEW acs, AccountsKept(P, acs)
    PROVE  AccountsKept(Q, acs)
BY DEF AccountsKept

\* A step that leaves accounts, records and the file alone.
LEMMA PeopleFrame ==
    ASSUME PeopleInv, Serving, Serving', UNCHANGED <<people, json>>, promises' \subseteq promises,
           step'.at = "save" => NoAccountPromise(step'.promises)
    PROVE  PeopleInv'
<1>1. UNCHANGED <<accounts, clients, botIds, nextDbId, rows, asked, foreign, json>> /\ Whole' = Whole
  BY DEF people, Whole
<1>2. step'.at = "save" => AccountsKept(step'.promises, accounts)
  BY DEF NoAccountPromise, AccountsKept
<1>3. PeopleType' /\ Records'
  BY <1>1 DEF PeopleInv, PeopleType, Records
<1>4. AccountPromises'
  BY <1>1, <1>2, AccountsKeptFewer DEF PeopleInv, AccountPromises
<1> QED
  BY <1>3, <1>4 DEF PeopleInv

\* A rewrite of the file.
LEMMA SavePeople ==
    ASSUME KeyInv, PeopleInv, Save \/ SaveGrant
    PROVE  PeopleInv'
<1> DEFINE Q == IF step.at = "save" THEN step.promises ELSE {}
<1>1. /\ UNCHANGED <<accounts, clients, botIds, nextDbId, rows, asked, foreign>>
      /\ json' = Image /\ promises' = promises \union Q
  BY DEF Save, SaveGrant, memory, people, history
<1>2. /\ json'.accounts = accounts /\ json'.bots = botIds /\ json'.nextDbId = nextDbId
      /\ Whole' /\ json' # Absent
  BY <1>1 DEF Image, Whole, Absent
<1>3. Serving /\ Serving' /\ step'.at # "save"
  BY DEF Save, SaveGrant, Serving, Idle, Down, KeyInv, KeyType, StepType
<1>4. AccountsKept(promises, accounts) /\ AccountsKept(Q, accounts)
  BY <1>3 DEF PeopleInv, AccountPromises, AccountsKept
<1>5. AccountsKept(promises', accounts)
  BY <1>1, <1>4 DEF AccountsKept
<1>6. PeopleType' /\ Records'
  BY <1>1, <1>2, <1>3 DEF PeopleInv, PeopleType, Records
<1>7. AccountPromises'
  BY <1>1, <1>2, <1>3, <1>5 DEF AccountPromises
<1> QED
  BY <1>6, <1>7 DEF PeopleInv

\* A start: the accounts of the file with the records of SQLite.
LEMMA StartPeople ==
    ASSUME KeyInv, PeopleInv, StartWithAdminToken \/ StartAndMakeAdminToken
    PROVE  PeopleInv'
<1>1. /\ json # Torn /\ LoadPeople /\ UNCHANGED <<json, promises>> /\ step' \in {Idle, Saving({})}
  BY DEF StartWithAdminToken, StartAndMakeAdminToken, history
<1>2. /\ accounts' = Loaded.accounts /\ botIds' = Loaded.bots /\ nextDbId' = Loaded.nextDbId
      /\ clients' = rows /\ UNCHANGED <<rows, asked, foreign>> /\ Whole' = Whole
      /\ MaxDbId \in Nat /\ MaxDbId + 1 \in Nat /\ RecordTable(rows)
  BY <1>1, BoundsAssumption DEF LoadPeople, Whole, PeopleInv, PeopleType
<1>3. step'.at = "save" => step'.promises = {}
  BY <1>1, StepShapes
<1>4. /\ PeopleTypes(accounts', botIds', nextDbId')
      /\ AccountsKept(promises, accounts')
      /\ IdsApart(asked, accounts', botIds', nextDbId')
      /\ HaveRecords(foreign, accounts', rows)
  <2>1. CASE json = Absent
    <3>1. accounts' = NoAccounts /\ botIds' = {} /\ nextDbId' = Seed(rows) /\ DOMAIN accounts' = {}
      BY <1>2, <2>1 DEF Loaded, NoAccounts
    <3>2. promises = {}
      BY <2>1 DEF PeopleInv, AccountPromises
    <3>3. Seed(rows) \in 1..(MaxDbId + 1)
      BY <1>2, SeedAbove DEF RecordTable, DbIds
    <3>4. accounts' \in [DOMAIN accounts' -> [id : DbIds, born : Logins]]
      BY <3>1 DEF NoAccounts
    <3> QED
      BY <3>1, <3>2, <3>3, <3>4 DEF PeopleTypes, AccountsKept, IdsApart, HaveRecords
  <2>2. CASE json # Absent
    <3>1. Whole
      BY <1>1, <2>2 DEF KeyInv, FileType
    <3>2. /\ accounts' = json.accounts /\ botIds' = json.bots
          /\ nextDbId' = Larger(json.nextDbId, DatabaseSeed(json.accounts))
      BY <1>2, <2>2 DEF Loaded
    <3>3. PeopleTypes(json.accounts, json.bots, json.nextDbId)
      BY <3>1 DEF PeopleInv, PeopleType
    <3>4. DatabaseSeed(json.accounts) \in 1..(MaxDbId + 1)
      <4> DEFINE f == [i \in {json.accounts[l].id : l \in DOMAIN json.accounts} |-> i]
      <4>1. DOMAIN f \subseteq 1..MaxDbId
        BY <3>3 DEF PeopleTypes, DbIds
      <4> HIDE DEF f
      <4>2. Seed(f) \in 1..(MaxDbId + 1)
        BY <1>2, <4>1, SeedAbove
      <4> QED
        BY <4>2 DEF DatabaseSeed, f
    <3>5. nextDbId' \in 1..(MaxDbId + 1) /\ json.nextDbId <= nextDbId'
      BY <1>2, <3>2, <3>3, <3>4, LargerIsUpper DEF PeopleTypes
    <3>6. \A i \in DbIds : i < json.nextDbId => i < nextDbId'
      BY <1>2, <3>3, <3>5 DEF PeopleTypes, DbIds
    <3>7. /\ AccountsKept(promises, json.accounts)
          /\ IdsApart(asked, json.accounts, json.bots, json.nextDbId)
          /\ HaveRecords(foreign, json.accounts, rows)
      BY <3>1 DEF PeopleInv, AccountPromises, Records
    <3>8. (\A l \in DOMAIN json.accounts : json.accounts[l].id \in DbIds) /\ json.bots \subseteq DbIds
      BY <3>3 DEF PeopleTypes
    <3>9. IdsApart(asked, json.accounts, json.bots, nextDbId')
      BY <3>6, <3>7, <3>8 DEF IdsApart
    <3> QED
      BY <3>2, <3>3, <3>5, <3>7, <3>9 DEF PeopleTypes
  <2> QED
    BY <2>1, <2>2
<1>5. step'.at = "save" => AccountsKept(step'.promises, accounts')
  BY <1>3, <1>4, AccountsKeptFewer
<1>6. PeopleType'
  BY <1>1, <1>2, <1>4 DEF PeopleInv, PeopleType
<1>7. AccountPromises'
  BY <1>1, <1>2, <1>4, <1>5 DEF PeopleInv, AccountPromises
<1>8. Records'
  BY <1>1, <1>2, <1>4 DEF PeopleInv, Records
<1> QED
  BY <1>6, <1>7, <1>8 DEF PeopleInv

\* A crash.
LEMMA CrashPeople ==
    ASSUME PeopleInv, Crash
    PROVE  PeopleInv'
<1>1. /\ json' \in {json, Torn} /\ step' = Down /\ UNCHANGED <<promises, rows, asked, foreign>>
      /\ accounts' = NoAccounts /\ clients' = NoRecords /\ botIds' = {} /\ nextDbId' = 1
  BY DEF Crash
<1>2. /\ ~ Serving' /\ step'.at = "down" /\ (Whole' => Whole /\ json' = json)
      /\ json' = Absent => json = Absent
  BY <1>1 DEF Serving, Whole, Down, Absent, Torn
<1>3. PeopleTypes(NoAccounts, {}, 1) /\ RecordTable(NoRecords)
  BY BoundsAssumption DEF PeopleTypes, RecordTable, NoAccounts, NoRecords
<1> QED
  BY <1>1, <1>2, <1>3 DEF PeopleInv, PeopleType, AccountPromises, Records

\* The memory between two commands.
LEMMA IdlePeople ==
    ASSUME PeopleInv, step = Idle
    PROVE  /\ PeopleTypes(accounts, botIds, nextDbId) /\ RecordTable(clients) /\ RecordTable(rows)
           /\ AccountsKept(promises, accounts)
           /\ IdsApart(asked, accounts, botIds, nextDbId)
           /\ HaveRecords(foreign, accounts, rows) /\ HaveRecords(foreign, accounts, clients)
BY StepShapes DEF PeopleInv, PeopleType, AccountPromises, Records, Serving

\* A command about accounts, records or bots.
LEMMA PeopleCommand ==
    ASSUME PeopleInv, step = Idle, UNCHANGED json, promises' \subseteq promises,
           NEW p, step' = Saving(p), AccountsKept(p, accounts'),
           PeopleTypes(accounts', botIds', nextDbId'), RecordTable(clients'), RecordTable(rows'),
           AccountsKept(promises', accounts'),
           IdsApart(asked', accounts', botIds', nextDbId'), asked \subseteq asked',
           HaveRecords(foreign', accounts', rows'), HaveRecords(foreign', accounts', clients'),
           Whole => HaveRecords(foreign', json.accounts, rows')
    PROVE  PeopleInv'
<1>1. Whole' = Whole
  BY DEF Whole
<1>2. step'.at = "save" => AccountsKept(step'.promises, accounts')
  BY StepShapes
<1>3. Whole => IdsApart(asked', json.accounts, json.bots, json.nextDbId)
  BY DEF PeopleInv, Records, IdsApart
<1>4. PeopleType' /\ Records'
  BY <1>1, <1>3 DEF PeopleInv, PeopleType, Records
<1>5. AccountPromises'
  BY <1>1, <1>2, AccountsKeptFewer DEF PeopleInv, AccountPromises
<1> QED
  BY <1>4, <1>5 DEF PeopleInv

\* The new record stands unless it was in nobody's way that it is not; no record
\* that is there changes.
LEMMA RecordAdded ==
    ASSUME RecordTable(rows), RecordTable(clients), NEW l \in Logins, NEW id \in DbIds,
           CreateAccount(l, id)
    PROVE  /\ RecordTable(rows') /\ RecordTable(clients')
           /\ \A i \in DOMAIN rows : i \in DOMAIN rows' /\ rows'[i] = rows[i]
           /\ \A i \in DOMAIN clients : i \in DOMAIN clients' /\ clients'[i] = clients[i]
           /\ <<id, l>> \notin foreign' => /\ id \in DOMAIN rows' /\ rows'[id] = l
                                           /\ id \in DOMAIN clients' /\ clients'[id] = l
           /\ \A x : x \in foreign /\ x # <<id, l>> => x \in foreign'
<1>1. /\ rows' = SavedClient(id, l)
      /\ clients' = IF id \in DOMAIN clients THEN clients ELSE WithRecord(clients, id, l)
      /\ foreign' = IF Taken(id, l) THEN foreign \union {<<id, l>>} ELSE foreign \ {<<id, l>>}
  BY DEF CreateAccount
<1>2. RecordTable(clients') /\ \A i \in DOMAIN clients : i \in DOMAIN clients' /\ clients'[i] = clients[i]
  BY <1>1 DEF RecordTable, WithRecord
<1>3. RecordTable(rows') /\ \A i \in DOMAIN rows : i \in DOMAIN rows' /\ rows'[i] = rows[i]
  BY <1>1 DEF RecordTable, WithRecord, SavedClient
<1>4. ASSUME <<id, l>> \notin foreign'
      PROVE  /\ id \in DOMAIN rows' /\ rows'[id] = l
             /\ id \in DOMAIN clients' /\ clients'[id] = l
  <2>1. ~ Taken(id, l)
    BY <1>1, <1>4
  <2>2. id \in DOMAIN clients' /\ clients'[id] = l
    BY <1>1, <2>1 DEF Taken, WithRecord
  <2>3. id \in DOMAIN rows' /\ rows'[id] = l
    BY <1>1, <2>1 DEF Taken, SavedClient, WithRecord
  <2> QED
    BY <2>2, <2>3
<1>5. \A x : x \in foreign /\ x # <<id, l>> => x \in foreign'
  BY <1>1
<1> QED
  BY <1>2, <1>3, <1>4, <1>5

\* querycreate, with the database id id.
LEMMA CreateAccountPeople ==
    ASSUME PeopleInv, NEW l \in Logins, NEW id, CreateAccount(l, id),
           \/ id = nextDbId /\ nextDbId' = nextDbId + 1 /\ UNCHANGED asked
           \/ asked' = asked \union {id} /\ UNCHANGED nextDbId
    PROVE  PeopleInv'
<1> DEFINE p == {<<"account", l, id>>}
<1>1. /\ step = Idle /\ id \in DbIds /\ l \notin DOMAIN accounts
      /\ accounts' = WithAccount(accounts, l, id, l)
      /\ promises' = promises \ {<<"no account", l>>} /\ step' = Saving(p)
      /\ UNCHANGED <<botIds, json>>
  BY DEF CreateAccount, Command, Revoke
<1>2. /\ PeopleTypes(accounts, botIds, nextDbId) /\ RecordTable(clients) /\ RecordTable(rows)
      /\ AccountsKept(promises, accounts)
      /\ IdsApart(asked, accounts, botIds, nextDbId)
      /\ HaveRecords(foreign, accounts, rows) /\ HaveRecords(foreign, accounts, clients)
  BY <1>1, IdlePeople
<1>3. /\ DOMAIN accounts' = DOMAIN accounts \union {l}
      /\ accounts'[l].id = id /\ accounts'[l].born = l
      /\ \A k \in DOMAIN accounts : accounts'[k] = accounts[k]
  BY <1>1 DEF WithAccount
<1>4. DbIds \subseteq Nat /\ nextDbId \in Nat /\ botIds \subseteq DbIds /\ MaxDbId \in Nat
      /\ \A k \in DOMAIN accounts : accounts[k].id \in DbIds
  BY <1>2, BoundsAssumption DEF DbIds, PeopleTypes
<1>5. nextDbId' \in 1..(MaxDbId + 1) /\ nextDbId <= nextDbId' /\ nextDbId' \in Nat
  <2>1. id \in 1..MaxDbId /\ nextDbId \in 1..(MaxDbId + 1)
    BY <1>1, <1>2 DEF PeopleTypes, DbIds
  <2> QED
    BY <1>4, <2>1
<1>6. PeopleTypes(accounts', botIds', nextDbId')
  <2>1. accounts' = [m \in DOMAIN accounts' |-> accounts'[m]]
    BY <1>1 DEF WithAccount
  <2>2. \A k \in DOMAIN accounts' : accounts'[k] \in [id : DbIds, born : Logins]
    <3>1. accounts'[l] = [id |-> id, born |-> l]
      BY <1>1 DEF WithAccount
    <3>2. accounts'[l] \in [id : DbIds, born : Logins]
      <4>1. id \in DbIds
        BY <1>1
      <4>2. [id |-> id, born |-> l] \in [id : DbIds, born : Logins]
        BY <4>1
      <4> QED
        BY <3>1, <4>2
    <3>3. \A k \in DOMAIN accounts : accounts[k] \in [id : DbIds, born : Logins]
      BY <1>2 DEF PeopleTypes
    <3> QED
      BY <1>3, <3>2, <3>3
  <2>3. DOMAIN accounts' \subseteq Logins
    BY <1>2, <1>3 DEF PeopleTypes
  <2> QED
    BY <1>1, <1>2, <1>5, <2>1, <2>2, <2>3 DEF PeopleTypes
<1>7. AccountsKept(p, accounts') /\ AccountsKept(promises', accounts') /\ promises' \subseteq promises
  BY <1>1, <1>2, <1>3 DEF AccountsKept
<1>8. IdsApart(asked', accounts', botIds', nextDbId') /\ asked \subseteq asked'
  <2>1. asked \subseteq asked' /\ (id \in asked' \/ (id = nextDbId /\ id < nextDbId'))
    BY <1>4
  <2>2. \A i \in DbIds : i < nextDbId => i < nextDbId' /\ i # nextDbId
    BY <1>4, <1>5
  <2>3. \A k \in DOMAIN accounts : k # l /\ (accounts[k].id = id => id \in asked')
    BY <1>1, <1>2, <1>4, <2>1, <2>2 DEF IdsApart
  <2>4. id \in botIds => id \in asked'
    BY <1>2, <1>4, <2>1, <2>2 DEF IdsApart
  <2>5. \A k \in DOMAIN accounts' : k = l \/ (k \in DOMAIN accounts /\ accounts'[k].id = accounts[k].id)
    BY <1>3
  <2>6. \A k, m \in DOMAIN accounts' : k # m /\ accounts'[k].id = accounts'[m].id => accounts'[k].id \in asked'
    BY <1>2, <1>3, <2>1, <2>3, <2>5 DEF IdsApart
  <2>7. \A k \in DOMAIN accounts' : accounts'[k].id \in botIds => accounts'[k].id \in asked'
    BY <1>2, <1>3, <2>1, <2>4, <2>5 DEF IdsApart
  <2>8. \A k \in DOMAIN accounts' : accounts'[k].id \in asked' \/ accounts'[k].id < nextDbId'
    BY <1>2, <1>3, <1>4, <2>1, <2>2, <2>5 DEF IdsApart
  <2>9. \A b \in botIds : b < nextDbId'
    BY <1>2, <1>4, <2>2 DEF IdsApart
  <2> QED
    BY <1>1, <2>1, <2>6, <2>7, <2>8, <2>9 DEF IdsApart
<1>9. /\ RecordTable(rows') /\ RecordTable(clients')
      /\ \A i \in DOMAIN rows : i \in DOMAIN rows' /\ rows'[i] = rows[i]
      /\ \A i \in DOMAIN clients : i \in DOMAIN clients' /\ clients'[i] = clients[i]
      /\ <<id, l>> \notin foreign' => /\ id \in DOMAIN rows' /\ rows'[id] = l
                                      /\ id \in DOMAIN clients' /\ clients'[id] = l
      /\ \A x : x \in foreign /\ x # <<id, l>> => x \in foreign'
  BY <1>1, <1>2, RecordAdded
<1>10. HaveRecords(foreign', accounts', rows') /\ HaveRecords(foreign', accounts', clients')
  <2>1. \A k \in DOMAIN accounts' : k = l \/ (k \in DOMAIN accounts /\ accounts'[k] = accounts[k])
    BY <1>3
  <2>2. ASSUME NEW k \in DOMAIN accounts, <<accounts[k].id, accounts[k].born>> \notin foreign'
        PROVE  /\ accounts[k].id \in DOMAIN rows' /\ rows'[accounts[k].id] = accounts[k].born
               /\ accounts[k].id \in DOMAIN clients' /\ clients'[accounts[k].id] = accounts[k].born
    BY <1>2, <1>9, <2>2 DEF HaveRecords
  <2> QED
    BY <1>3, <1>9, <2>1, <2>2 DEF HaveRecords
<1>11. Whole => HaveRecords(foreign', json.accounts, rows')
  <2>1. Whole => HaveRecords(foreign, json.accounts, rows)
    BY DEF PeopleInv, Records
  <2> QED
    BY <1>9, <2>1 DEF HaveRecords
<1> HIDE DEF p
<1> QED
  BY <1>1, <1>6, <1>7, <1>8, <1>9, <1>10, <1>11, PeopleCommand

\* queryrename.
LEMMA RenamePeople ==
    ASSUME PeopleInv, NEW l \in Logins, NEW m \in Logins, QueryRename(l, m)
    PROVE  PeopleInv'
<1> DEFINE id == accounts[l].id
           p == {<<"account", m, id>>, <<"no account", l>>}
<1>1. /\ step = Idle /\ l \in DOMAIN accounts /\ m \notin DOMAIN accounts
      /\ accounts' = WithAccount(WithoutAccount(accounts, l), m, id, accounts[l].born)
      /\ promises' = promises \ {<<"account", l, id>>, <<"no account", m>>} /\ step' = Saving(p)
      /\ UNCHANGED <<clients, botIds, nextDbId, rows, asked, foreign, json>>
  BY DEF QueryRename, Command, Revoke
<1>2. /\ PeopleTypes(accounts, botIds, nextDbId) /\ RecordTable(clients) /\ RecordTable(rows)
      /\ AccountsKept(promises, accounts)
      /\ IdsApart(asked, accounts, botIds, nextDbId)
      /\ HaveRecords(foreign, accounts, rows) /\ HaveRecords(foreign, accounts, clients)
      /\ Whole => HaveRecords(foreign, json.accounts, rows)
  BY <1>1, IdlePeople DEF PeopleInv, Records
<1>3. /\ DOMAIN accounts' = (DOMAIN accounts \ {l}) \union {m} /\ l # m
      /\ accounts'[m].id = id /\ accounts'[m].born = accounts[l].born
      /\ \A k \in DOMAIN accounts \ {l} : accounts'[k] = accounts[k]
  BY <1>1 DEF WithAccount, WithoutAccount
<1>4. PeopleTypes(accounts', botIds', nextDbId')
  <2>1. accounts' = [k \in DOMAIN accounts' |-> accounts'[k]] /\ accounts'[m] = [id |-> id, born |-> accounts[l].born]
    BY <1>1 DEF WithAccount, WithoutAccount
  <2>2. \A k \in DOMAIN accounts : accounts[k] \in [id : DbIds, born : Logins]
    BY <1>2 DEF PeopleTypes
  <2>3. id \in DbIds /\ accounts[l].born \in Logins
    BY <1>1, <2>2
  <2>4. accounts'[m] \in [id : DbIds, born : Logins]
    BY <2>1, <2>3
  <2>5. \A k \in DOMAIN accounts' : accounts'[k] \in [id : DbIds, born : Logins]
    BY <1>3, <2>2, <2>4
  <2>6. DOMAIN accounts' \subseteq Logins
    BY <1>2, <1>3 DEF PeopleTypes
  <2> QED
    BY <1>1, <1>2, <2>1, <2>5, <2>6 DEF PeopleTypes
<1>5. AccountsKept(p, accounts')
  BY <1>3 DEF AccountsKept
<1>6. AccountsKept(promises', accounts') /\ promises' \subseteq promises
  <2>1. ASSUME NEW k \in Logins, NEW i \in DbIds, <<"account", k, i>> \in promises'
        PROVE  k \in DOMAIN accounts' /\ accounts'[k].id = i
    <3>1. k \in DOMAIN accounts /\ accounts[k].id = i
      BY <1>1, <1>2, <2>1 DEF AccountsKept
    <3>2. k # l
      BY <1>1, <2>1, <3>1
    <3> QED
      BY <1>3, <3>1, <3>2
  <2>2. ASSUME NEW k \in Logins, <<"no account", k>> \in promises'
        PROVE  k \notin DOMAIN accounts'
    BY <1>1, <1>2, <1>3, <2>2 DEF AccountsKept
  <2> QED
    BY <1>1, <2>1, <2>2 DEF AccountsKept
<1>7. \A k \in DOMAIN accounts' : \E j \in DOMAIN accounts :
          /\ accounts'[k].id = accounts[j].id /\ accounts'[k].born = accounts[j].born
          /\ IF k = m THEN j = l ELSE j = k /\ j # l
  BY <1>1, <1>3
<1> HIDE DEF p, id
<1>8. IdsApart(asked', accounts', botIds', nextDbId')
  <2>1. \A k, h \in DOMAIN accounts' : k # h /\ accounts'[k].id = accounts'[h].id => accounts'[k].id \in asked
    BY <1>2, <1>7 DEF IdsApart
  <2>2. \A k \in DOMAIN accounts' : /\ accounts'[k].id \in botIds => accounts'[k].id \in asked
                                    /\ accounts'[k].id \in asked \/ accounts'[k].id < nextDbId
    BY <1>2, <1>7 DEF IdsApart
  <2> QED
    BY <1>1, <1>2, <2>1, <2>2 DEF IdsApart
<1>9. HaveRecords(foreign', accounts', rows') /\ HaveRecords(foreign', accounts', clients')
  <2>1. HaveRecords(foreign, accounts', rows) /\ HaveRecords(foreign, accounts', clients)
    BY <1>2, <1>7 DEF HaveRecords
  <2> QED
    BY <1>1, <2>1
<1> QED
  BY <1>1, <1>2, <1>4, <1>5, <1>6, <1>8, <1>9, PeopleCommand

\* querydelete.
LEMMA DeletePeople ==
    ASSUME PeopleInv, NEW l \in Logins, QueryDelete(l)
    PROVE  PeopleInv'
<1> DEFINE id == accounts[l].id
           p == {<<"no account", l>>}
<1>1. /\ step = Idle /\ l \in DOMAIN accounts
      /\ accounts' = WithoutAccount(accounts, l)
      /\ promises' = promises \ {<<"account", l, id>>} /\ step' = Saving(p)
      /\ UNCHANGED <<clients, botIds, nextDbId, rows, asked, foreign, json>>
  BY DEF QueryDelete, Command, Revoke
<1>2. /\ PeopleTypes(accounts, botIds, nextDbId) /\ RecordTable(clients) /\ RecordTable(rows)
      /\ AccountsKept(promises, accounts)
      /\ IdsApart(asked, accounts, botIds, nextDbId)
      /\ HaveRecords(foreign, accounts, rows) /\ HaveRecords(foreign, accounts, clients)
      /\ Whole => HaveRecords(foreign, json.accounts, rows)
  BY <1>1, IdlePeople DEF PeopleInv, Records
<1>3. /\ DOMAIN accounts' = DOMAIN accounts \ {l}
      /\ \A k \in DOMAIN accounts' : accounts'[k] = accounts[k]
  BY <1>1 DEF WithoutAccount
<1>4. PeopleTypes(accounts', botIds', nextDbId')
  BY <1>1, <1>2 DEF PeopleTypes, WithoutAccount
<1>5. AccountsKept(p, accounts')
  BY <1>3 DEF AccountsKept
<1>6. AccountsKept(promises', accounts') /\ promises' \subseteq promises
  <2>1. ASSUME NEW k \in Logins, NEW i \in DbIds, <<"account", k, i>> \in promises'
        PROVE  k \in DOMAIN accounts' /\ accounts'[k].id = i
    <3>1. k \in DOMAIN accounts /\ accounts[k].id = i
      BY <1>1, <1>2, <2>1 DEF AccountsKept
    <3>2. k # l
      BY <1>1, <2>1, <3>1
    <3> QED
      BY <1>3, <3>1, <3>2
  <2>2. ASSUME NEW k \in Logins, <<"no account", k>> \in promises'
        PROVE  k \notin DOMAIN accounts'
    BY <1>1, <1>2, <1>3, <2>2 DEF AccountsKept
  <2> QED
    BY <1>1, <2>1, <2>2 DEF AccountsKept
<1> HIDE DEF p, id
<1>7. IdsApart(asked', accounts', botIds', nextDbId')
  BY <1>1, <1>2, <1>3 DEF IdsApart
<1>8. HaveRecords(foreign', accounts', rows') /\ HaveRecords(foreign', accounts', clients')
  BY <1>1, <1>2, <1>3 DEF HaveRecords
<1> QED
  BY <1>1, <1>2, <1>4, <1>5, <1>6, <1>7, <1>8, PeopleCommand

\* clientdbdelete: whoever had the record has it no more, and counts as foreign.
LEMMA ClientDbDeletePeople ==
    ASSUME PeopleInv, NEW id \in DbIds, ClientDbDelete(id)
    PROVE  PeopleInv'
<1>1. /\ step = Idle /\ step' = Saving({})
      /\ clients' = [i \in DOMAIN clients \ {id} |-> clients[i]]
      /\ foreign' = foreign \union {<<id, l>> : l \in Logins}
      /\ UNCHANGED <<accounts, botIds, nextDbId, rows, asked, json, promises>>
  BY DEF ClientDbDelete, Command, history
<1>2. /\ PeopleTypes(accounts, botIds, nextDbId) /\ RecordTable(clients) /\ RecordTable(rows)
      /\ AccountsKept(promises, accounts)
      /\ IdsApart(asked, accounts, botIds, nextDbId)
      /\ HaveRecords(foreign, accounts, rows) /\ HaveRecords(foreign, accounts, clients)
      /\ Whole => HaveRecords(foreign, json.accounts, rows)
  BY <1>1, IdlePeople DEF PeopleInv, Records
<1>3. RecordTable(clients')
  BY <1>1, <1>2 DEF RecordTable
<1>4. HaveRecords(foreign', accounts, clients')
  <2>1. \A l \in DOMAIN accounts : accounts[l].born \in Logins
    BY <1>2 DEF PeopleTypes
  <2>2. ASSUME NEW l \in DOMAIN accounts, <<accounts[l].id, accounts[l].born>> \notin foreign'
        PROVE  accounts[l].id \in DOMAIN clients' /\ clients'[accounts[l].id] = accounts[l].born
    <3>1. accounts[l].id # id /\ <<accounts[l].id, accounts[l].born>> \notin foreign
      BY <1>1, <2>1, <2>2
    <3>2. accounts[l].id \in DOMAIN clients /\ clients[accounts[l].id] = accounts[l].born
      BY <1>2, <3>1 DEF HaveRecords
    <3> QED
      BY <1>1, <3>1, <3>2
  <2> QED
    BY <2>2 DEF HaveRecords
<1>5. HaveRecords(foreign', accounts, rows) /\ (Whole => HaveRecords(foreign', json.accounts, rows))
  BY <1>1, <1>2 DEF HaveRecords
<1>6. AccountsKept({}, accounts)
  BY DEF AccountsKept
<1>7. /\ AccountsKept(promises', accounts') /\ AccountsKept({}, accounts')
      /\ PeopleTypes(accounts', botIds', nextDbId') /\ RecordTable(rows')
      /\ IdsApart(asked', accounts', botIds', nextDbId') /\ asked \subseteq asked'
      /\ HaveRecords(foreign', accounts', rows') /\ HaveRecords(foreign', accounts', clients')
      /\ Whole => HaveRecords(foreign', json.accounts, rows')
      /\ promises' \subseteq promises
  BY <1>1, <1>2, <1>4, <1>5, <1>6
<1> QED
  BY <1>1, <1>3, <1>7, PeopleCommand

\* A refused querycreate, musicbotcreate and musicbotdelete.
LEMMA BotsPeople ==
    ASSUME PeopleInv, QueryCreateRefused \/ MusicBotCreate \/ \E id \in DbIds : MusicBotDelete(id)
    PROVE  PeopleInv'
<1>1. /\ step = Idle /\ step' = Saving({})
      /\ UNCHANGED <<accounts, clients, rows, asked, foreign, json, promises>>
  BY DEF QueryCreateRefused, MusicBotCreate, MusicBotDelete, Command, history
<1>2. /\ PeopleTypes(accounts, botIds, nextDbId) /\ RecordTable(clients) /\ RecordTable(rows)
      /\ AccountsKept(promises, accounts)
      /\ IdsApart(asked, accounts, botIds, nextDbId)
      /\ HaveRecords(foreign, accounts, rows) /\ HaveRecords(foreign, accounts, clients)
      /\ Whole => HaveRecords(foreign, json.accounts, rows)
  BY <1>1, IdlePeople DEF PeopleInv, Records
<1>3. \/ botIds' \subseteq botIds \union {nextDbId} /\ nextDbId \in DbIds /\ nextDbId' = nextDbId + 1
      \/ botIds' \subseteq botIds /\ nextDbId' = nextDbId
  BY DEF QueryCreateRefused, MusicBotCreate, MusicBotDelete
<1>4. /\ nextDbId \in 1..(MaxDbId + 1) /\ botIds \subseteq DbIds /\ MaxDbId \in Nat /\ DbIds = 1..MaxDbId
      /\ \A l \in DOMAIN accounts : accounts[l].id \in DbIds
  BY <1>2, BoundsAssumption DEF PeopleTypes, DbIds
<1>5. /\ nextDbId' \in 1..(MaxDbId + 1) /\ botIds' \subseteq DbIds
      /\ \A i \in DbIds : i < nextDbId => i < nextDbId' /\ i # nextDbId
      /\ \A i \in botIds' : i \in botIds \/ (i = nextDbId /\ i < nextDbId')
  <2>1. CASE botIds' \subseteq botIds \union {nextDbId} /\ nextDbId \in DbIds /\ nextDbId' = nextDbId + 1
    BY <1>4, <2>1
  <2>2. CASE botIds' \subseteq botIds /\ nextDbId' = nextDbId
    BY <1>4, <2>2
  <2> QED
    BY <1>3, <2>1, <2>2
<1>6. PeopleTypes(accounts', botIds', nextDbId')
  BY <1>1, <1>2, <1>5 DEF PeopleTypes
<1>7. IdsApart(asked, accounts, botIds', nextDbId')
  BY <1>2, <1>4, <1>5 DEF IdsApart
<1>8. AccountsKept({}, accounts)
  BY DEF AccountsKept
<1>9. /\ AccountsKept(promises', accounts') /\ AccountsKept({}, accounts')
      /\ RecordTable(rows') /\ RecordTable(clients')
      /\ IdsApart(asked', accounts', botIds', nextDbId') /\ asked \subseteq asked'
      /\ HaveRecords(foreign', accounts', rows') /\ HaveRecords(foreign', accounts', clients')
      /\ Whole => HaveRecords(foreign', json.accounts, rows')
      /\ promises' \subseteq promises
  BY <1>1, <1>2, <1>7, <1>8
<1> QED
  BY <1>1, <1>6, <1>9, PeopleCommand

-----------------------------------------------------------------------------
(* All together.                                                           *)

\* The commands about keys leave complaints, messages, accounts and the file
\* alone, and promise nothing about them.
LEMMA KeyCommandsFrame ==
    ASSUME KeyInv,
           \/ Housekeep \/ CountMemberUse \/ PermReset
           \/ \E max \in MaxUsesValues, admin \in BOOLEAN : TokenAdd(max, admin)
           \/ \E t \in TokenIds : TokenDelete(t)
           \/ \E t \in TokenIds, max \in MaxUsesValues, admin \in BOOLEAN : TokenEdit(t, max, admin)
           \/ \E a \in Accounts, t \in TokenIds : TokenUseByAccount(a, t)
           \/ \E m \in Members, t \in TokenIds : TokenUseByMember(m, t)
    PROVE  /\ Serving /\ Serving' /\ UNCHANGED <<desk, people, json>> /\ promises' \subseteq promises
           /\ step'.at = "save" => NoDeskPromise(step'.promises) /\ NoAccountPromise(step'.promises)
<1> DEFINE Quiet(p) == NoDeskPromise(p) /\ NoAccountPromise(p)
           Still == Serving /\ UNCHANGED <<desk, people, json>> /\ promises' \subseteq promises
           Frame == Still /\ \E p, h : step' = SavingHalf(p, h) /\ Quiet(p)
<1>1. /\ Quiet({}) /\ \A t : Quiet({<<"key", t>>}) /\ Quiet({<<"gone", t>>})
      /\ \A c, t : Quiet(UsePromises(c, t))
  BY DEF NoDeskPromise, NoAccountPromise, UsePromises
<1> HIDE DEF Quiet
<1>0. \A p : step' = Saving(p) /\ Quiet(p) => \E q, h : step' = SavingHalf(q, h) /\ Quiet(q)
  BY DEF Saving
<1>s. ASSUME step = Idle PROVE Serving
  BY <1>s, StepShapes DEF Serving
<1>2. ASSUME Housekeep PROVE Frame
  <2>1. step = Idle /\ step' = Saving({}) /\ UNCHANGED <<desk, people, json, promises>>
    BY <1>2 DEF Housekeep, memory, history
  <2> QED
    BY <1>0, <1>1, <1>s, <2>1
<1>3. ASSUME CountMemberUse PROVE Frame
  <2>1. Serving
    BY <1>3 DEF CountMemberUse, Serving, Down
  <2>2. UNCHANGED <<desk, people, json>> /\ promises' \subseteq promises
    BY <1>3 DEF CountMemberUse, CountUse, Revoke
  <2>3. step' = SavingHalf(UsePromises(step.member, step.token), {<<step.token, step.member>>})
    BY <1>3 DEF CountMemberUse
  <2> QED
    BY <1>1, <2>1, <2>2, <2>3
<1>4. ASSUME PermReset PROVE Frame
  <2>1. step = Idle /\ UNCHANGED <<desk, people, json>> /\ promises' \subseteq promises
    BY <1>4 DEF PermReset, Command, Revoke
  <2>2. \E t : step' = Saving({<<"key", t>>})
    BY <1>4 DEF PermReset
  <2> QED
    BY <1>0, <1>1, <1>s, <2>1, <2>2
<1>5. ASSUME NEW max, NEW admin, TokenAdd(max, admin) PROVE Frame
  <2>1. step = Idle /\ UNCHANGED <<desk, people, json, promises>>
    BY <1>5 DEF TokenAdd, Command
  <2>2. \E t : step' = Saving({<<"key", t>>})
    BY <1>5 DEF TokenAdd
  <2> QED
    BY <1>0, <1>1, <1>s, <2>1, <2>2
<1>6. ASSUME NEW t, TokenDelete(t) PROVE Frame
  <2>1. /\ step = Idle /\ UNCHANGED <<desk, people, json>> /\ promises' \subseteq promises
        /\ step' = Saving({<<"gone", t>>})
    BY <1>6 DEF TokenDelete, Command, Revoke
  <2> QED
    BY <1>0, <1>1, <1>s, <2>1
<1>7. ASSUME NEW t, NEW max, NEW admin, TokenEdit(t, max, admin) PROVE Frame
  <2>1. step = Idle /\ UNCHANGED <<desk, people, json, promises>> /\ step' = Saving({})
    BY <1>7 DEF TokenEdit, Command
  <2> QED
    BY <1>0, <1>1, <1>s, <2>1
<1>8. ASSUME NEW a, NEW t, TokenUseByAccount(a, t) PROVE Frame
  <2>1. step = Idle /\ UNCHANGED <<desk, people, json>> /\ promises' \subseteq promises
    BY <1>8 DEF TokenUseByAccount, Command, CountUse, Revoke
  <2>2. step' = Saving(UsePromises(a, t))
    BY <1>8 DEF TokenUseByAccount
  <2> QED
    BY <1>0, <1>1, <1>s, <2>1, <2>2
<1>9. ASSUME NEW m, NEW t, TokenUseByMember(m, t)
      PROVE  Still /\ step'.at = "grant"
  <2>1. step = Idle /\ step'.at = "grant" /\ UNCHANGED <<desk, people, json, promises>>
    BY <1>9 DEF TokenUseByMember, Command, history
  <2> QED
    BY <1>s, <2>1
<1>10. ASSUME Frame
       PROVE  Serving' /\ (step'.at = "save" => NoDeskPromise(step'.promises) /\ NoAccountPromise(step'.promises))
  <2>1. PICK p, h : step' = SavingHalf(p, h) /\ Quiet(p)
    BY <1>10
  <2>2. step' # Down /\ step'.promises = p
    BY <2>1, StepShapes
  <2>3. Quiet(step'.promises)
    BY <2>1, <2>2
  <2> QED
    BY <2>2, <2>3 DEF Quiet, Serving, Down
<1>11. ASSUME step'.at = "grant" PROVE Serving' /\ step'.at # "save"
  BY <1>11 DEF Serving, Down
<1>12. Frame \/ (Still /\ step'.at = "grant")
  <2> HIDE DEF Frame, Still
  <2> QED
    BY <1>2, <1>3, <1>4, <1>5, <1>6, <1>7, <1>8, <1>9
<1> QED
  BY <1>10, <1>11, <1>12

\* The commands about bans, complaints and messages leave the others alone.
LEMMA DeskCommandsFrame ==
    ASSUME \/ BanAdd \/ BanDeleteAll \/ MessageAdd
           \/ \E b \in BanIds : BanDelete(b) \/ BanExpire(b)
           \/ \E f \in Identities, x \in Accused : ComplainAdd(f, x)
           \/ \E C : Settle(C)
           \/ \E i \in MailIds : MessageDelete(i)
           \/ \E i \in MailIds, read \in BOOLEAN : MessageUpdateFlag(i, read)
    PROVE  /\ step = Idle /\ UNCHANGED <<keys, people, json, sqlite, maxima, cut>>
           /\ promises' \subseteq promises
           /\ step' = Idle \/ \E p : step' = Saving(p) /\ NoKeyPromise(p) /\ NoAccountPromise(p)
<1> DEFINE Quiet(p) == NoKeyPromise(p) /\ NoAccountPromise(p)
           Frame == /\ step = Idle /\ UNCHANGED <<keys, people, json, sqlite, maxima, cut>>
                    /\ promises' \subseteq promises
                    /\ step' = Idle \/ \E p : step' = Saving(p) /\ Quiet(p)
<1>1. /\ Quiet({}) /\ \A b : Quiet({<<"ban", b>>}) /\ \A c : Quiet({<<"complaint", c>>})
      /\ \A C : Quiet({<<"settled", c>> : c \in C})
      /\ \A C, b : Quiet({<<"ban", b>>} \union {<<"settled", c>> : c \in C})
      /\ \A i : Quiet({<<"mail", i>>}) /\ Quiet({<<"lost", i>>}) /\ \A r : Quiet({<<"read", i, r>>})
  BY DEF NoKeyPromise, NoAccountPromise
<1> HIDE DEF Quiet
<1>2. ASSUME BanAdd PROVE Frame
  BY <1>1, <1>2 DEF BanAdd, Command, history
<1>3. ASSUME BanDeleteAll PROVE Frame
  BY <1>1, <1>3 DEF BanDeleteAll, Command, Revoke
<1>4. ASSUME MessageAdd PROVE Frame
  BY <1>1, <1>4 DEF MessageAdd, Command, history
<1>5. ASSUME NEW b, BanDelete(b) \/ BanExpire(b) PROVE Frame
  BY <1>1, <1>5 DEF BanDelete, BanExpire, Command, Revoke
<1>6. ASSUME NEW f, NEW x, ComplainAdd(f, x) PROVE Frame
  BY <1>1, <1>6 DEF ComplainAdd, Command, Revoke
<1>7. ASSUME NEW C, Settle(C) PROVE Frame
  BY <1>1, <1>7 DEF Settle, Command, Revoke
<1>8. ASSUME NEW i, MessageDelete(i) PROVE Frame
  BY <1>1, <1>8 DEF MessageDelete, Command, Revoke
<1>9. ASSUME NEW i, NEW read, MessageUpdateFlag(i, read) PROVE Frame
  BY <1>1, <1>9 DEF MessageUpdateFlag, Command, Revoke
<1> QED
  BY <1>2, <1>3, <1>4, <1>5, <1>6, <1>7, <1>8, <1>9 DEF Quiet

\* So do the commands about accounts, records and bots.
LEMMA PeopleCommandsFrame ==
    ASSUME \/ QueryCreateRefused \/ MusicBotCreate
           \/ \E l \in Logins : QueryCreate(l) \/ QueryDelete(l)
           \/ \E l \in Logins, id \in DbIds : QueryCreateFor(l, id)
           \/ \E l, m \in Logins : QueryRename(l, m)
           \/ \E id \in DbIds : ClientDbDelete(id) \/ MusicBotDelete(id)
    PROVE  /\ step = Idle /\ UNCHANGED <<keys, desk, json, sqlite, maxima, cut>>
           /\ promises' \subseteq promises
           /\ \E p : step' = Saving(p) /\ NoKeyPromise(p) /\ NoDeskPromise(p)
<1> DEFINE Quiet(p) == NoKeyPromise(p) /\ NoDeskPromise(p)
           Frame == /\ step = Idle /\ UNCHANGED <<keys, desk, json, sqlite, maxima, cut>>
                    /\ promises' \subseteq promises
                    /\ \E p : step' = Saving(p) /\ Quiet(p)
<1>1. /\ Quiet({})
      /\ \A l : Quiet({<<"no account", l>>})
      /\ \A l, id : Quiet({<<"account", l, id>>})
      /\ \A l, m, id : Quiet({<<"account", m, id>>, <<"no account", l>>})
  BY DEF NoKeyPromise, NoDeskPromise
<1> HIDE DEF Quiet
<1>2. ASSUME QueryCreateRefused \/ MusicBotCreate PROVE Frame
  BY <1>1, <1>2 DEF QueryCreateRefused, MusicBotCreate, Command, history
<1>3. ASSUME NEW l, NEW id, CreateAccount(l, id) PROVE Frame
  BY <1>1, <1>3 DEF CreateAccount, Command, Revoke
<1>4. ASSUME NEW l, QueryDelete(l) PROVE Frame
  BY <1>1, <1>4 DEF QueryDelete, Command, Revoke
<1>5. ASSUME NEW l, NEW m, QueryRename(l, m) PROVE Frame
  BY <1>1, <1>5 DEF QueryRename, Command, Revoke
<1>6. ASSUME NEW id, ClientDbDelete(id) \/ MusicBotDelete(id) PROVE Frame
  BY <1>1, <1>6 DEF ClientDbDelete, MusicBotDelete, Command, history
<1> QED
  BY <1>2, <1>3, <1>4, <1>5, <1>6 DEF Quiet, QueryCreate, QueryCreateFor

\* Every step keeps the invariant.
LEMMA Inductive == IInv /\ [Next]_vars => IInv'
<1> SUFFICES ASSUME IInv, [Next]_vars PROVE IInv'
  OBVIOUS
<1>0. KeyInv /\ DeskInv /\ PeopleInv
  BY DEF IInv
<1>1. CASE StartWithAdminToken \/ StartAndMakeAdminToken
  BY <1>0, <1>1, StartWithKeys, StartMakesKey, StartDesk, StartPeople DEF IInv
<1>2. CASE Crash
  BY <1>0, <1>2, CrashKeys, CrashDesk, CrashPeople DEF IInv
<1>3. CASE Save \/ SaveGrant
  BY <1>0, <1>3, SaveKeys, SaveDesk, SavePeople DEF IInv
<1>4. CASE \/ Housekeep \/ CountMemberUse \/ PermReset
           \/ \E max \in MaxUsesValues, admin \in BOOLEAN : TokenAdd(max, admin)
           \/ \E t \in TokenIds : TokenDelete(t)
           \/ \E t \in TokenIds, max \in MaxUsesValues, admin \in BOOLEAN : TokenEdit(t, max, admin)
           \/ \E a \in Accounts, t \in TokenIds : TokenUseByAccount(a, t)
           \/ \E m \in Members, t \in TokenIds : TokenUseByMember(m, t)
  <2>1. DeskInv' /\ PeopleInv'
    BY <1>0, <1>4, KeyCommandsFrame, DeskFrame, PeopleFrame
  <2>2. CASE Housekeep
    <3>1. /\ step = Idle /\ UNCHANGED <<keys, json, sqlite, maxima, cut, promises>>
          /\ step' = Saving({}) /\ NoKeyPromise({})
      BY <2>2 DEF Housekeep, memory, history, NoKeyPromise
    <3> QED
      BY <1>0, <2>1, <3>1, KeyFrame DEF IInv
  <2>3. CASE ~ Housekeep
    BY <1>0, <1>4, <2>1, <2>3, CountMemberUseKeys, PermResetKeys, TokenAddKeys, TokenDeleteKeys,
       TokenEditKeys, TokenUseByAccountKeys, TokenUseByMemberKeys DEF IInv
  <2> QED
    BY <2>2, <2>3
<1>5. CASE \/ BanAdd \/ BanDeleteAll \/ MessageAdd
           \/ \E b \in BanIds : BanDelete(b) \/ BanExpire(b)
           \/ \E f \in Identities, x \in Accused : ComplainAdd(f, x)
           \/ \E C : Settle(C)
           \/ \E i \in MailIds : MessageDelete(i)
           \/ \E i \in MailIds, read \in BOOLEAN : MessageUpdateFlag(i, read)
  <2>1. /\ step = Idle /\ UNCHANGED <<keys, people, json, sqlite, maxima, cut>>
        /\ promises' \subseteq promises
        /\ step' = Idle \/ \E p : step' = Saving(p) /\ NoKeyPromise(p) /\ NoAccountPromise(p)
    BY <1>5, DeskCommandsFrame
  <2>2. KeyInv'
    BY <1>0, <2>1, KeyFrame
  <2>3. PeopleInv'
    <3>1. Serving /\ Serving' /\ (step'.at = "save" => NoAccountPromise(step'.promises))
      BY <2>1, StepShapes DEF Serving
    <3> QED
      BY <1>0, <2>1, <3>1, PeopleFrame
  <2>4. DeskInv'
    BY <1>0, <1>5, BanDesk, ComplainAddDesk, SettleDesk, MessageDesk
  <2> QED
    BY <2>2, <2>3, <2>4 DEF IInv
<1>6. CASE \/ QueryCreateRefused \/ MusicBotCreate
           \/ \E l \in Logins : QueryCreate(l) \/ QueryDelete(l)
           \/ \E l \in Logins, id \in DbIds : QueryCreateFor(l, id)
           \/ \E l, m \in Logins : QueryRename(l, m)
           \/ \E id \in DbIds : ClientDbDelete(id) \/ MusicBotDelete(id)
  <2>1. /\ step = Idle /\ UNCHANGED <<keys, desk, json, sqlite, maxima, cut>>
        /\ promises' \subseteq promises
        /\ \E p : step' = Saving(p) /\ NoKeyPromise(p) /\ NoDeskPromise(p)
    BY <1>6, PeopleCommandsFrame
  <2>2. KeyInv'
    BY <1>0, <2>1, KeyFrame
  <2>3. DeskInv'
    <3>1. Serving /\ Serving' /\ (step'.at = "save" => NoDeskPromise(step'.promises))
      BY <2>1, StepShapes DEF Serving
    <3> QED
      BY <1>0, <2>1, <3>1, DeskFrame
  <2>4. PeopleInv'
    <3>1. ASSUME NEW l \in Logins, QueryCreate(l) PROVE PeopleInv'
      BY <1>0, <3>1, CreateAccountPeople DEF QueryCreate
    <3>2. ASSUME NEW l \in Logins, NEW id \in DbIds, QueryCreateFor(l, id) PROVE PeopleInv'
      BY <1>0, <3>2, CreateAccountPeople DEF QueryCreateFor
    <3> QED
      BY <1>0, <1>6, <3>1, <3>2, BotsPeople, DeletePeople, RenamePeople, ClientDbDeletePeople
  <2> QED
    BY <2>2, <2>3, <2>4 DEF IInv
<1>7. CASE UNCHANGED vars
  <2>1. UNCHANGED <<tokens, granted, nextToken, bans, nextBan, complaints, mail, nextMail>>
    BY <1>7 DEF vars, memory, keys, desk
  <2>2. UNCHANGED <<accounts, clients, botIds, nextDbId, rows, asked, foreign>>
    BY <1>7 DEF vars, memory, people
  <2>3. UNCHANGED <<json, sqlite, step, promises, maxima, cut>>
    BY <1>7 DEF vars, history
  <2>4. KeyInv'
    BY <1>0, <2>1, <2>3 DEF KeyInv, FileType, KeyType, StepType, Redeemable, KeyPromises, KeyCounters,
       KeyUses, Whole, Serving, InFlight, HalfDone
  <2>5. DeskInv'
    BY <1>0, <2>1, <2>3 DEF DeskInv, DeskType, DeskPromises, Whole, Serving
  <2>6. PeopleInv'
    BY <1>0, <2>2, <2>3 DEF PeopleInv, PeopleType, AccountPromises, Records, Whole, Serving
  <2> QED
    BY <2>4, <2>5, <2>6 DEF IInv
<1> QED
  BY <1>1, <1>2, <1>3, <1>4, <1>5, <1>6, <1>7 DEF Next, ComplainDelete, ComplainDeleteAll, MessageGet

\* The first start finds no file and no rows.
LEMMA InitSound == Init => IInv
<1> SUFFICES ASSUME Init PROVE IInv
  OBVIOUS
<1>1. /\ step = Down /\ ~ Serving /\ step.at = "down" /\ json = Absent /\ ~ Whole /\ promises = {}
      /\ HalfDone = {} /\ InFlight = {} /\ DOMAIN NoTokens = {}
  BY NothingHalfDone, StepShapes DEF Init, Serving, Whole, Absent, NoTokens
<1>2. TokenTable(NoTokens) /\ KeyTypes(NoTokens, NoGrants, 1)
  BY BoundsAssumption DEF KeyTypes, TokenTable, NoTokens, NoGrants, TokenIds
<1>3. FileType /\ KeyType
  BY <1>1, <1>2 DEF Init, FileType, KeyType, StepType
<1>4. KeyPromises /\ KeyCounters
  BY <1>1 DEF KeyPromises, KeyCounters
<1>5. KeyUses
  <2>1. \A t \in TokenIds : ~ Limited(maxima[t])
    BY DEF Init, Limited
  <2>2. Counted(maxima, cut, NoTokens, NoGrants) /\ cut \union {} = cut
    BY <2>1 DEF Counted, CountedKey
  <2>3. HaveLimits(maxima, NoTokens)
    BY <1>1 DEF HaveLimits
  <2> QED
    BY <1>1, <2>2, <2>3 DEF Init, KeyUses
<1>6. DeskTypes({}, NoMail, 1) /\ 1 \in 1..(MaxBanId + 1)
  BY BoundsAssumption DEF DeskTypes, NoMail
<1>7. DeskInv
  BY <1>1, <1>6 DEF Init, DeskInv, DeskType, DeskPromises
<1>8. PeopleTypes(NoAccounts, {}, 1) /\ RecordTable(NoRecords)
  BY BoundsAssumption DEF PeopleTypes, RecordTable, NoAccounts, NoRecords
<1>9. PeopleInv
  BY <1>1, <1>8 DEF Init, PeopleInv, PeopleType, AccountPromises, Records
<1> QED
  BY <1>3, <1>4, <1>5, <1>7, <1>9 DEF IInv, KeyInv

-----------------------------------------------------------------------------
(* What follows.                                                           *)

\* The tables of the memory, of the file and of SQLite keep their types through
\* commands, saves, crashes and starts.
THEOREM TypeCorrect == Spec => []TypeOK
<1>1. IInv => TypeOK
  BY DEF IInv, KeyInv, DeskInv, PeopleInv, FileType, KeyType, StepType, DeskType, PeopleType, TypeOK, Whole
<1> QED
  BY <1>1, InitSound, Inductive, PTL DEF Spec

\* What a reply of the server confirmed about keys, groups, complaints, messages
\* and accounts holds whenever the server serves again, however often it crashed.
THEOREM RepliesSurvive == Spec => []RepliesSurviveCrashes
<1>1. IInv => RepliesSurviveCrashes
  BY StepShapes DEF IInv, KeyInv, DeskInv, PeopleInv, KeyPromises, DeskPromises, AccountPromises,
     KeysKept, DeskKept, AccountsKept, Serving, RepliesSurviveCrashes
<1> QED
  BY <1>1, InitSound, Inductive, PTL DEF Spec

\* An account loses the client record it was created with, or shares its database
\* id, only where another record or a querycreate with that id was in its way.
THEOREM RecordsSurvive == Spec => []RecordsLostOnlyByCollision
<1>1. IInv => RecordsLostOnlyByCollision
  BY StepShapes DEF IInv, PeopleInv, Records, IdsApart, HaveRecords, Serving, RecordsLostOnlyByCollision
<1> QED
  BY <1>1, InitSound, Inductive, PTL DEF Spec

\* A key reaches no more clients than its limits allowed, except for the members
\* whose redemption a crash cut in two.
THEOREM OnlyCrashesOveruse == Spec => []OverusedOnlyByCrash
<1>1. ASSUME IInv PROVE OverusedOnlyByCrash
  <2> SUFFICES ASSUME NEW t \in TokenIds, Limited(maxima[t])
               PROVE  Allowed(Cardinality(Held(granted, t, cut)), maxima[t])
    BY DEF OverusedOnlyByCrash, Limited, Allowed, Held, Uncut
  <2>0. Counted(maxima, cut \union InFlight, tokens, granted) /\ KeyType
    BY <1>1 DEF IInv, KeyInv, KeyUses
  <2>1. CASE InFlight = {}
    <3>1. cut \union InFlight = cut
      BY <2>1
    <3> QED
      BY <2>0, <3>1 DEF Counted, CountedKey
  <2>2. CASE InFlight # {}
    <3> DEFINE u == step.token
               m == step.member
    <3>1. /\ InFlight = {<<u, m>>} /\ u \in DOMAIN tokens /\ Redeemable(u)
          /\ TokenTable(tokens) /\ maxima \in [TokenIds -> SUBSET (0..MaxUses)]
      BY <2>0, <2>2 DEF InFlight, KeyType, KeyTypes, StepType, Idle, Down
    <3> HIDE DEF u, m
    <3>2. CountedKey(maxima, cut \union {<<u, m>>}, tokens, granted, t)
      BY <2>0, <3>1 DEF Counted
    <3>3. CASE t = u
      <4>1. Held(granted, u, cut) \subseteq Held(granted, u, cut \union {<<u, m>>}) \union {m}
        BY DEF Held
      <4> QED
        BY <3>1, <3>2, <3>3, <4>1, UsePays DEF Redeemable
    <3>4. CASE t # u
      <4>1. Held(granted, t, cut) = Held(granted, t, cut \union {<<u, m>>})
        BY <3>4 DEF Held
      <4> QED
        BY <3>2, <4>1 DEF CountedKey
    <3> QED
      BY <3>3, <3>4
  <2> QED
    BY <2>1, <2>2
<1>2. IInv => OverusedOnlyByCrash
  BY <1>1
<1> QED
  BY <1>2, InitSound, Inductive, PTL DEF Spec
=============================================================================
