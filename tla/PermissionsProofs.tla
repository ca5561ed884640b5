------------------------- MODULE PermissionsProofs -------------------------
(***************************************************************************)
(* For all clients, groups and sequences of commands: nobody has a right   *)
(* that was not given to it, what was given lasts, an account that loses   *)
(* its last group becomes a guest, and the five tiers of permissions       *)
(* decide as promised, with the exceptions the properties name.            *)
(***************************************************************************)
EXTENDS Permissions, NaturalsInduction, WellFoundedInduction, TLAPS

-----------------------------------------------------------------------------
(* The inductive invariant.                                                *)

IsAccount(a) ==
    a = Account(a.groups, a.perms) /\ a.groups \subseteq ServerGroupIds /\ IsPermissionMap(a.perms)
IsList(l)    == l = List(l.groups) /\ l.groups \subseteq ServerGroupIds
IsTarget(t)  ==
    /\ t = Target(t.server, t.perms) /\ t.server \in {0, 1}
    /\ IsPermissionMap(t.perms) /\ DOMAIN t.perms # {}

Groups == GroupTable(sgroups, ServerGroupIds) /\ GroupTable(cgroups, ChannelGroupIds)

\* A target holds a permission, and who is online is in store.clients.
Persons ==
    /\ account = [w \in Ids |-> account[w]] /\ online = [p \in People |-> online[p]]
    /\ saved = [p \in People |-> saved[p]] /\ target = [p \in People |-> target[p]]
    /\ \A w \in Ids : account[w] = NoAccount \/ IsAccount(account[w])
    /\ \A p \in People : /\ online[p] = NoGroups \/ IsList(online[p])
                         /\ saved[p] = NoGroups \/ IsList(saved[p])
                         /\ target[p] = NoTarget \/ IsTarget(target[p])
                         /\ online[p] # NoGroups => p \in clients
    /\ clients \subseteq rows /\ rows \subseteq Ids

Inside ==
    /\ 1 \in channels /\ channels \subseteq ChannelIds
    /\ DOMAIN chperms = ChannelIds /\ \A c \in ChannelIds : IsPermissionMap(chperms[c])
    /\ DOMAIN assigned \subseteq ChannelIds \X Ids /\ DOMAIN ccperms \subseteq ChannelIds \X Ids

Counts == poisoned \in BOOLEAN /\ ops \in 0..MaxOps /\ edits \in 0..MaxEdits

\* What is given is given to somebody, for a group or a permission.
Rights ==
    ({"account", "client"} \X Ids \X ServerGroupIds)
    \union ({"own account", "own", "own, restarted"} \X Ids \X Names)
    \union ({"assigned"} \X ChannelIds \X Ids \X ChannelGroupIds)
    \union ({"in channel"} \X ChannelIds \X Ids \X Names)

Given == given \subseteq Rights

\* The rights of accounts.
AccountRights ==
    /\ \A w \in Ids : account[w] # NoAccount =>
          /\ account[w].groups \subseteq DOMAIN sgroups
          /\ \A g \in account[w].groups \ {6, 7} : <<"account", w, g>> \in given
    /\ \A w, g : <<"account", w, g>> \in given =>
          w \in Ids /\ account[w] # NoAccount /\ g \in account[w].groups
    /\ \A w, n : <<"own account", w, n>> \in given =>
          w \in Ids /\ account[w] # NoAccount /\ n \in DOMAIN account[w].perms

\* The memberships of clients: what was given is for a group that exists and is in
\* the list for the next connection too, and what that list has from before a
\* deletion is stale.
ClientRights ==
    /\ stale \subseteq People \X ServerGroupIds /\ outdated \subseteq stale
    /\ \A p \in People : online[p] # NoGroups =>
          \A g \in online[p].groups \ {8} : <<"client", p, g>> \in given \/ <<p, g>> \in outdated
    /\ \A p \in People : saved[p] # NoGroups =>
          \A g \in saved[p].groups \ {8} : <<"client", p, g>> \in given \/ <<p, g>> \in stale
    /\ \A p, g : <<"client", p, g>> \in given =>
          /\ p \in People /\ saved[p] # NoGroups /\ g \in saved[p].groups
          /\ online[p] # NoGroups => g \in online[p].groups
          /\ g \in DOMAIN sgroups

\* The permissions of clients.
TargetRights ==
    /\ \A p, n : <<"own", p, n>> \in given =>
          /\ p \in People /\ target[p] # NoTarget /\ target[p].server = 1
          /\ n \in DOMAIN target[p].perms
    /\ \A p, n : <<"own, restarted", p, n>> \in given =>
          p \in People /\ target[p] # NoTarget /\ n \in DOMAIN target[p].perms

\* Rights in channels: whoever was given one is known and the channel exists, so
\* that no normalisation drops it.
AssignedGiven ==
    \A k \in DOMAIN assigned :
        /\ assigned[k] \in DOMAIN cgroups
        /\ k \in orphans \/ <<"assigned", k[1], k[2], assigned[k]>> \in given

PermittedGiven ==
    \A k \in DOMAIN ccperms : \A n \in DOMAIN ccperms[k] :
        k \in orphans \/ <<"in channel", k[1], k[2], n>> \in given

AssignedLast ==
    \A c, w, g : <<"assigned", c, w, g>> \in given =>
        /\ c \in channels /\ w \in Ids /\ Known(w)
        /\ <<c, w>> \in DOMAIN assigned /\ assigned[<<c, w>>] = g

PermittedLast ==
    \A c, w, n : <<"in channel", c, w, n>> \in given =>
        /\ c \in channels /\ w \in Ids /\ Known(w)
        /\ <<c, w>> \in DOMAIN ccperms /\ n \in DOMAIN ccperms[<<c, w>>]

ChannelRights == AssignedGiven /\ PermittedGiven /\ AssignedLast /\ PermittedLast

IInv ==
    /\ Groups /\ Persons /\ Inside /\ Counts /\ Given
    /\ AccountRights /\ ClientRights /\ TargetRights /\ ChannelRights

-----------------------------------------------------------------------------
(* Permission maps, tables of groups and records.                          *)

\* BTreeMap::insert and BTreeMap::remove keep a permission map one.
LEMMA MapOps ==
    ASSUME NEW m, IsPermissionMap(m), NEW n
    PROVE  /\ \A a \in Assignment : n \in Names => IsPermissionMap(With(m, n, a))
           /\ \A a : DOMAIN With(m, n, a) = DOMAIN m \union {n}
           /\ IsPermissionMap(Without(m, n)) /\ DOMAIN Without(m, n) = DOMAIN m \ {n}
<1>1. DOMAIN m \subseteq Names /\ \A x \in DOMAIN m : m[x] \in Assignment
  BY DEF IsPermissionMap
<1>2. ASSUME NEW a \in Assignment, n \in Names PROVE IsPermissionMap(With(m, n, a))
  BY <1>1, <1>2 DEF IsPermissionMap, With
<1>3. \A a : DOMAIN With(m, n, a) = DOMAIN m \union {n}
  BY DEF With
<1>4. IsPermissionMap(Without(m, n)) /\ DOMAIN Without(m, n) = DOMAIN m \ {n}
  BY <1>1 DEF IsPermissionMap, Without
<1> QED
  BY <1>2, <1>3, <1>4

\* The maps of the seeds.
LEMMA SeedMaps ==
    ASSUME NEW S \in SUBSET Names
    PROVE  IsPermissionMap([n \in S |-> Plain(1)])
<1>1. Plain(1) \in Assignment
  BY DEF Plain, Assignment, Values
<1> QED
  BY <1>1 DEF IsPermissionMap

\* The map without permissions is the only one with no name in it.
LEMMA EmptyMap ==
    /\ IsPermissionMap(NoPermissions) /\ DOMAIN NoPermissions = {}
    /\ \A m : IsPermissionMap(m) /\ DOMAIN m = {} => m = NoPermissions
<1>1. IsPermissionMap(NoPermissions) /\ DOMAIN NoPermissions = {}
  BY DEF IsPermissionMap, NoPermissions
<1>2. ASSUME NEW m, IsPermissionMap(m), DOMAIN m = {} PROVE m = NoPermissions
  BY <1>2 DEF IsPermissionMap, NoPermissions
<1> QED
  BY <1>1, <1>2

GroupOK(r) == DOMAIN r = {"name", "perms"} /\ IsPermissionMap(r.perms)

\* A group made of a name and a permission map is one.
LEMMA GroupMade ==
    ASSUME NEW name, NEW m, IsPermissionMap(m)
    PROVE  GroupOK(Group(name, m)) /\ Group(name, m).perms = m /\ Group(name, m).name = name
BY DEF GroupOK, Group

\* What a table of groups is, group by group.
LEMMA TableIs ==
    ASSUME NEW gs, NEW ids
    PROVE  GroupTable(gs, ids) <=>
              /\ DOMAIN gs \subseteq ids /\ DOMAIN gs # {} /\ \A x \in DOMAIN gs : GroupOK(gs[x])
BY DEF GroupTable, GroupOK

\* A group more, one less, and one that changes.
LEMMA TableOps ==
    ASSUME NEW gs, NEW ids, GroupTable(gs, ids), NEW g
    PROVE  /\ \A r : g \in ids /\ GroupOK(r) => GroupTable(WithGroup(gs, g, r), ids)
           /\ \A r : DOMAIN WithGroup(gs, g, r) = DOMAIN gs \union {g}
           /\ DOMAIN gs # {g} => GroupTable(WithoutGroup(gs, g), ids)
           /\ DOMAIN WithoutGroup(gs, g) = DOMAIN gs \ {g}
           /\ g \in DOMAIN gs => GroupOK(gs[g]) /\ g \in ids
<1>1. DOMAIN gs \subseteq ids /\ DOMAIN gs # {} /\ \A x \in DOMAIN gs : GroupOK(gs[x])
  BY TableIs
<1>2. ASSUME NEW r, g \in ids, GroupOK(r) PROVE GroupTable(WithGroup(gs, g, r), ids)
  <2> DEFINE t == WithGroup(gs, g, r)
  <2>1. DOMAIN t = DOMAIN gs \union {g} /\ \A x \in DOMAIN t : t[x] = IF x = g THEN r ELSE gs[x]
    BY DEF WithGroup
  <2> HIDE DEF t
  <2>2. \A x \in DOMAIN t : GroupOK(t[x])
    BY <1>1, <1>2, <2>1
  <2>3. GroupTable(t, ids)
    BY <1>1, <1>2, <2>1, <2>2, TableIs
  <2> QED
    BY <2>3 DEF t
<1>3. ASSUME DOMAIN gs # {g} PROVE GroupTable(WithoutGroup(gs, g), ids)
  <2> DEFINE t == WithoutGroup(gs, g)
  <2>1. DOMAIN t = DOMAIN gs \ {g} /\ \A x \in DOMAIN t : t[x] = gs[x]
    BY DEF WithoutGroup
  <2> HIDE DEF t
  <2>2. \A x \in DOMAIN t : GroupOK(t[x])
    BY <1>1, <2>1
  <2>3. GroupTable(t, ids)
    BY <1>1, <1>3, <2>1, <2>2, TableIs
  <2> QED
    BY <2>3 DEF t
<1> QED
  BY <1>1, <1>2, <1>3 DEF WithGroup, WithoutGroup

\* servergroupadd and channelgroupadd: the table keeps the groups it had.
LEMMA TableGrows ==
    ASSUME NEW gs, NEW ids, GroupTable(gs, ids), NEW g \in ids, NEW r, GroupOK(r)
    PROVE  GroupTable(WithGroup(gs, g, r), ids) /\ DOMAIN gs \subseteq DOMAIN WithGroup(gs, g, r)
<1>1. DOMAIN WithGroup(gs, g, r) = DOMAIN gs \union {g}
  BY DEF WithGroup
<1> QED
  BY <1>1, TableOps

\* A table in which every group is as good as before.
LEMMA TableEdited ==
    ASSUME NEW gs, NEW ids, GroupTable(gs, ids), NEW t, DOMAIN t = DOMAIN gs,
           \A x \in DOMAIN gs : GroupOK(gs[x]) => GroupOK(t[x])
    PROVE  GroupTable(t, ids)
BY TableIs

\* [gs EXCEPT ![g].perms = m] and [gs EXCEPT ![g].name = x].
LEMMA GroupEdited ==
    ASSUME NEW gs, NEW ids, GroupTable(gs, ids), NEW g \in DOMAIN gs
    PROVE  /\ \A m : IsPermissionMap(m) => GroupTable([gs EXCEPT ![g].perms = m], ids)
           /\ \A m : DOMAIN [gs EXCEPT ![g].perms = m] = DOMAIN gs
           /\ \A n : GroupTable([gs EXCEPT ![g].name = n], ids)
           /\ \A n : DOMAIN [gs EXCEPT ![g].name = n] = DOMAIN gs
<1>1. ASSUME NEW m, IsPermissionMap(m) PROVE GroupTable([gs EXCEPT ![g].perms = m], ids)
  <2> DEFINE t == [gs EXCEPT ![g].perms = m]
  <2>1. DOMAIN t = DOMAIN gs /\ \A x \in DOMAIN gs : x # g => t[x] = gs[x]
    OBVIOUS
  <2>2. ASSUME GroupOK(gs[g]) PROVE GroupOK(t[g])
    <3>1. t[g] = [gs[g] EXCEPT !.perms = m] /\ DOMAIN gs[g] = {"name", "perms"}
      BY <2>2 DEF GroupOK
    <3>2. DOMAIN t[g] = {"name", "perms"} /\ t[g].perms = m
      BY <3>1
    <3> QED
      BY <1>1, <3>2 DEF GroupOK
  <2> HIDE DEF t
  <2>3. GroupTable(t, ids)
    BY <2>1, <2>2, TableEdited
  <2> QED
    BY <2>3 DEF t
<1>2. ASSUME NEW n PROVE GroupTable([gs EXCEPT ![g].name = n], ids)
  <2> DEFINE t == [gs EXCEPT ![g].name = n]
  <2>1. DOMAIN t = DOMAIN gs /\ \A x \in DOMAIN gs : x # g => t[x] = gs[x]
    OBVIOUS
  <2>2. ASSUME GroupOK(gs[g]) PROVE GroupOK(t[g])
    <3>1. t[g] = [gs[g] EXCEPT !.name = n] /\ DOMAIN gs[g] = {"name", "perms"}
      BY <2>2 DEF GroupOK
    <3>2. DOMAIN t[g] = {"name", "perms"} /\ t[g].perms = gs[g].perms
      BY <3>1
    <3> QED
      BY <2>2, <3>2 DEF GroupOK
  <2> HIDE DEF t
  <2>3. GroupTable(t, ids)
    BY <2>1, <2>2, TableEdited
  <2> QED
    BY <2>3 DEF t
<1> QED
  BY <1>1, <1>2

\* The records of accounts, lists and targets, and what they are not.
LEMMA Records ==
    /\ \A gs, m : /\ Account(gs, m) # NoAccount
                  /\ Account(gs, m).groups = gs /\ Account(gs, m).perms = m
                  /\ gs \subseteq ServerGroupIds /\ IsPermissionMap(m) => IsAccount(Account(gs, m))
    /\ \A gs : /\ List(gs) # NoGroups /\ List(gs).groups = gs
               /\ gs \subseteq ServerGroupIds => IsList(List(gs))
    /\ \A s, m : /\ Target(s, m) # NoTarget /\ Target(s, m).server = s /\ Target(s, m).perms = m
                 /\ s \in {0, 1} /\ IsPermissionMap(m) /\ DOMAIN m # {} => IsTarget(Target(s, m))
<1>1. ASSUME NEW gs, NEW m
      PROVE  /\ Account(gs, m).is = "account" /\ Account(gs, m).groups = gs /\ Account(gs, m).perms = m
             /\ List(gs).is = "list" /\ List(gs).groups = gs
  BY DEF Account, List
<1>2. ASSUME NEW s, NEW m
      PROVE  Target(s, m).is = "target" /\ Target(s, m).server = s /\ Target(s, m).perms = m
  BY DEF Target
<1>3. NoAccount.is = "none" /\ NoGroups.is = "none" /\ NoTarget.is = "none"
  BY DEF NoAccount, NoGroups, NoTarget
<1> QED
  BY <1>1, <1>2, <1>3 DEF IsAccount, IsList, IsTarget

\* An account with other groups, or with other permissions.
LEMMA AccountEdited ==
    ASSUME NEW a, IsAccount(a)
    PROVE  /\ a # NoAccount
           /\ \A gs : [a EXCEPT !.groups = gs] = Account(gs, a.perms)
           /\ \A m : [a EXCEPT !.perms = m] = Account(a.groups, m)
<1>1. a = Account(a.groups, a.perms)
  BY DEF IsAccount
<1>2. a # NoAccount
  BY <1>1, Records
<1>3. ASSUME NEW gs PROVE [a EXCEPT !.groups = gs] = Account(gs, a.perms)
  BY <1>1 DEF Account
<1>4. ASSUME NEW m PROVE [a EXCEPT !.perms = m] = Account(a.groups, m)
  BY <1>1 DEF Account
<1> QED
  BY <1>2, <1>3, <1>4

\* The largest of some ids, which is what the next id is counted from.
LEMMA LargestIs ==
    ASSUME NEW a \in Nat, NEW b \in Nat, NEW S \in SUBSET (a..b), S # {}
    PROVE  Largest(S) \in S /\ \A y \in S : Largest(S) >= y
<1> DEFINE T == {b - x : x \in S}
<1>1. T \in SUBSET Nat /\ T # {}
  OBVIOUS
<1>2. PICK t \in T : \A y \in T : ~ (<<y, t>> \in OpToRel(<, Nat))
  <2> HIDE DEF T
  <2> QED
    BY <1>1, NatLessThanWellFounded, WFMin
<1>3. \A x, y \in Nat : x < y => <<x, y>> \in OpToRel(<, Nat)
  BY Zenon DEF OpToRel
<1>4. \A y \in T : ~ (y < t)
  BY <1>1, <1>2, <1>3, Zenon
<1>5. PICK x \in S : t = b - x
  OBVIOUS
<1>6. ASSUME NEW y \in S PROVE x >= y
  <2>1. b - y \in T
    OBVIOUS
  <2>2. ~ (b - y < b - x)
    BY <1>4, <1>5, <2>1
  <2>3. x \in Int /\ y \in Int
    OBVIOUS
  <2> HIDE DEF T
  <2> QED
    BY <2>2, <2>3
<1> HIDE DEF T
<1> QED
  BY <1>6 DEF Largest

\* The ids of groups are natural numbers, and those of the seeds are among them.
LEMMA Ranges ==
    /\ \A g : g \in ServerGroupIds <=> g \in Nat /\ 6 <= g /\ g <= MaxServerGroup
    /\ \A g : g \in ChannelGroupIds <=> g \in Nat /\ 8 <= g /\ g <= MaxChannelGroup
    /\ {6, 7, 8, 9} \subseteq ServerGroupIds /\ 6..9 \subseteq ServerGroupIds
    /\ 8..10 \subseteq ChannelGroupIds
BY GroupBoundsAssumption DEF ServerGroupIds, ChannelGroupIds

\* The next id, one more than the largest in use, is one as long as the bound allows.
LEMMA NextIds ==
    ASSUME Groups
    PROVE  /\ NextServerGroup <= MaxServerGroup => NextServerGroup \in ServerGroupIds
           /\ NextChannelGroup <= MaxChannelGroup => NextChannelGroup \in ChannelGroupIds
<1>1. /\ DOMAIN sgroups \in SUBSET (6..MaxServerGroup) /\ DOMAIN sgroups # {}
      /\ DOMAIN cgroups \in SUBSET (8..MaxChannelGroup) /\ DOMAIN cgroups # {}
  BY DEF Groups, GroupTable, ServerGroupIds, ChannelGroupIds
<1>2. Largest(DOMAIN sgroups) \in 6..MaxServerGroup /\ Largest(DOMAIN cgroups) \in 8..MaxChannelGroup
  <2>1. MaxServerGroup \in Nat /\ MaxChannelGroup \in Nat /\ 6 \in Nat /\ 8 \in Nat
    BY GroupBoundsAssumption
  <2>2. Largest(DOMAIN sgroups) \in DOMAIN sgroups
    BY <1>1, <2>1, LargestIs
  <2>3. Largest(DOMAIN cgroups) \in DOMAIN cgroups
    BY <1>1, <2>1, LargestIs
  <2> QED
    BY <1>1, <2>2, <2>3
<1> QED
  BY <1>2, GroupBoundsAssumption DEF NextServerGroup, NextChannelGroup, ServerGroupIds, ChannelGroupIds

\* seed_store.
LEMMA Seeds ==
    /\ DOMAIN SeedServerGroups = 6..9 /\ GroupTable(SeedServerGroups, ServerGroupIds)
    /\ DOMAIN SeedChannelGroups = 8..10 /\ GroupTable(SeedChannelGroups, ChannelGroupIds)
    /\ \A g \in 6..9 : GroupOK(SeedServerGroups[g])
<1> DEFINE all    == [n \in {"right", "modify", "member", "needed"} |-> Plain(1)]
           guest  == [n \in {"needed", "auto"} |-> Plain(1)]
           normal == [n \in {"servermember"} |-> Plain(1)]
           power  == [n \in {"needed", "neededmember"} |-> Plain(1)]
<1>1. IsPermissionMap(all) /\ IsPermissionMap(guest) /\ IsPermissionMap(normal) /\ IsPermissionMap(power)
  <2>1. /\ {"right", "modify", "member", "needed"} \in SUBSET Names
        /\ {"needed", "auto"} \in SUBSET Names /\ {"servermember"} \in SUBSET Names
        /\ {"needed", "neededmember"} \in SUBSET Names
    BY DEF Names
  <2> QED
    BY <2>1, SeedMaps
<1>2. \A g \in 6..9 : GroupOK(SeedServerGroups[g])
  <2>1. /\ SeedServerGroups[6] = Group("Admin", all) /\ SeedServerGroups[7] = Group("Guest", guest)
        /\ SeedServerGroups[8] = Group("Normal", normal) /\ SeedServerGroups[9] = Group("Server Admin", all)
    BY DEF SeedServerGroups
  <2> HIDE DEF all, guest, normal, power
  <2>2. \A g \in 6..9 : g = 6 \/ g = 7 \/ g = 8 \/ g = 9
    OBVIOUS
  <2>3. /\ GroupOK(Group("Admin", all)) /\ GroupOK(Group("Guest", guest))
        /\ GroupOK(Group("Normal", normal)) /\ GroupOK(Group("Server Admin", all))
    BY <1>1, GroupMade
  <2> QED
    BY <2>1, <2>2, <2>3
<1>3. \A g \in 8..10 : GroupOK(SeedChannelGroups[g])
  <2>1. /\ SeedChannelGroups[8] = Group("Channel Admin", power)
        /\ SeedChannelGroups[9] = Group("Operator", power)
        /\ SeedChannelGroups[10] = Group("Guest", guest)
    BY DEF SeedChannelGroups
  <2> HIDE DEF all, guest, normal, power
  <2>2. \A g \in 8..10 : g = 8 \/ g = 9 \/ g = 10
    OBVIOUS
  <2>3. /\ GroupOK(Group("Channel Admin", power)) /\ GroupOK(Group("Operator", power))
        /\ GroupOK(Group("Guest", guest))
    BY <1>1, GroupMade
  <2> QED
    BY <2>1, <2>2, <2>3
<1>4. DOMAIN SeedServerGroups = 6..9 /\ DOMAIN SeedChannelGroups = 8..10
  BY DEF SeedServerGroups, SeedChannelGroups
<1> QED
  BY <1>2, <1>3, <1>4, Ranges, TableIs

-----------------------------------------------------------------------------
(* What a step that leaves a part alone keeps.                             *)

\* The rights of one kind are the same after the step.
Same(k) ==
    /\ \A x, y : <<k, x, y>> \in given' <=> <<k, x, y>> \in given
    /\ \A x, y, z : <<k, x, y, z>> \in given' <=> <<k, x, y, z>> \in given

\* The rights of accounts hold if no account and no right of that kind changes.
LEMMA AccountFrame ==
    ASSUME AccountRights, account' = account, DOMAIN sgroups \subseteq DOMAIN sgroups',
           Same("account"), Same("own account")
    PROVE  AccountRights'
BY DEF AccountRights, Same

\* The memberships of clients hold if no list and no right of that kind changes.
LEMMA ClientFrame ==
    ASSUME ClientRights, online' = online, saved' = saved, stale' = stale, outdated' = outdated,
           DOMAIN sgroups \subseteq DOMAIN sgroups', Same("client")
    PROVE  ClientRights'
BY DEF ClientRights, Same

\* The permissions of clients hold if no target and no right of that kind changes.
LEMMA TargetFrame ==
    ASSUME TargetRights, target' = target, Same("own"), Same("own, restarted")
    PROVE  TargetRights'
BY DEF TargetRights, Same

\* The rights in channels hold if their tables stay and nobody becomes unknown.
LEMMA ChannelFrame ==
    ASSUME ChannelRights, assigned' = assigned, ccperms' = ccperms, channels \subseteq channels',
           DOMAIN cgroups \subseteq DOMAIN cgroups', orphans \subseteq orphans',
           \A w \in Ids : Known(w) => Known(w)',
           Same("assigned"), Same("in channel")
    PROVE  ChannelRights'
<1>1. AssignedGiven'
  <2> SUFFICES ASSUME NEW k \in DOMAIN assigned
               PROVE  /\ assigned[k] \in DOMAIN cgroups'
                      /\ k \in orphans' \/ <<"assigned", k[1], k[2], assigned[k]>> \in given'
    BY DEF AssignedGiven
  <2>1. /\ assigned[k] \in DOMAIN cgroups
        /\ k \in orphans \/ <<"assigned", k[1], k[2], assigned[k]>> \in given
    BY DEF ChannelRights, AssignedGiven
  <2> QED
    BY <2>1 DEF Same
<1>2. PermittedGiven'
  <2> SUFFICES ASSUME NEW k \in DOMAIN ccperms, NEW n \in DOMAIN ccperms[k]
               PROVE  k \in orphans' \/ <<"in channel", k[1], k[2], n>> \in given'
    BY DEF PermittedGiven
  <2>1. k \in orphans \/ <<"in channel", k[1], k[2], n>> \in given
    BY DEF ChannelRights, PermittedGiven
  <2> QED
    BY <2>1 DEF Same
<1>3. AssignedLast'
  BY DEF ChannelRights, AssignedLast, Same
<1>4. PermittedLast'
  BY DEF ChannelRights, PermittedLast, Same
<1> QED
  BY <1>1, <1>2, <1>3, <1>4 DEF ChannelRights

\* The counters stay within their bounds.
LEMMA CountsKept ==
    ASSUME Counts, Command \/ Edit \/ Uncounted
    PROVE  Counts'
BY EditsAssumption DEF Counts, Command, Edit, Uncounted

\* A step that leaves the groups alone, and one that leaves the channels alone.
LEMMA GroupsKept ==
    ASSUME IInv, UNCHANGED <<sgroups, cgroups>>, Command \/ Edit \/ Uncounted
    PROVE  Groups' /\ Counts'
<1>1. Groups /\ Counts
  BY DEF IInv
<1>2. Groups'
  BY <1>1 DEF Groups
<1> QED
  BY <1>1, <1>2, CountsKept

\* The tables of channels hold if none of them changes.
LEMMA InsideKept ==
    ASSUME IInv, UNCHANGED <<channels, chperms, assigned, ccperms>>
    PROVE  Inside'
<1>1. Inside
  BY DEF IInv
<1> QED
  BY <1>1 DEF Inside

\* A step that gives nothing and takes nothing back.
LEMMA NothingGiven ==
    ASSUME given' = given
    PROVE  (Given => Given') /\ \A k : Same(k)
BY DEF Given, Same

\* Who is known stays known if the tables of people only grow.
LEMMA KnownKept ==
    ASSUME account' = account, online' = online, saved' = saved, clients \subseteq clients',
           target' = target, NEW w, Known(w)
    PROVE  Known(w)'
BY DEF Known, KnownWithoutTarget, HasAccount, IsOnline, HasSaved

\* A step that only edits the groups and forgets none.
LEMMA GroupsEdited ==
    ASSUME IInv, Groups', Counts', DOMAIN sgroups \subseteq DOMAIN sgroups',
           DOMAIN cgroups \subseteq DOMAIN cgroups', UNCHANGED <<people, inside, history>>
    PROVE  IInv'
<1>1. UNCHANGED <<account, online, saved, clients, rows, target, channels, chperms, assigned, ccperms,
                  given, stale, outdated, orphans>>
  BY DEF people, inside, history
<1>2. Persons' /\ Inside'
  BY <1>1 DEF IInv, Persons, Inside
<1>3. Given' /\ \A k : Same(k)
  BY <1>1, NothingGiven DEF IInv
<1>4. \A w \in Ids : Known(w) => Known(w)'
  BY <1>1, KnownKept
<1>5. AccountRights' /\ ClientRights' /\ TargetRights'
  BY <1>1, <1>3, AccountFrame, ClientFrame, TargetFrame DEF IInv
<1>6. ChannelRights'
  BY <1>1, <1>3, <1>4, ChannelFrame DEF IInv
<1> QED
  BY <1>2, <1>3, <1>5, <1>6 DEF IInv

-----------------------------------------------------------------------------
(* The commands on groups.                                                 *)

\* Requests assign permissions that exist.
LEMMA EditInputs ==
    /\ \A n \in EditNames : n \in Names
    /\ \A a \in EditAssignments : a \in Assignment
BY EditsAssumption

\* The commands on server groups, but for servergroupdel, forget no group.
LEMMA ServerGroupEdits ==
    ASSUME IInv,
           \/ ServerGroupAdd
           \/ \E g, t \in ServerGroupIds : ServerGroupCopy(g, t)
           \/ \E g \in ServerGroupIds, n \in EditNames, a \in EditAssignments : ServerGroupAddPerm(g, n, a)
           \/ \E g \in ServerGroupIds, n \in EditNames : ServerGroupDelPerm(g, n)
           \/ \E g \in ServerGroupIds : ServerGroupRename(g)
           \/ \E n \in EditNames, a \in EditAssignments : ServerGroupAutoAddPerm(n, a)
           \/ \E n \in EditNames : ServerGroupAutoDelPerm(n)
    PROVE  IInv'
<1> DEFINE Table == GroupTable(sgroups, ServerGroupIds)
<1>t. Table /\ GroupTable(cgroups, ChannelGroupIds) /\ Counts
  BY DEF IInv, Groups
<1> SUFFICES ASSUME Command \/ Edit, cgroups' = cgroups, UNCHANGED <<people, inside, history>>
             PROVE  Table' /\ DOMAIN sgroups \subseteq DOMAIN sgroups'
  <2>1. /\ Command \/ Edit
        /\ cgroups' = cgroups /\ UNCHANGED <<people, inside, history>>
    BY DEF ServerGroupAdd, ServerGroupCopy, ServerGroupAddPerm, ServerGroupDelPerm, ServerGroupRename,
           ServerGroupAutoAddPerm, ServerGroupAutoDelPerm, history
  <2>2. Table' /\ DOMAIN sgroups \subseteq DOMAIN sgroups'
    BY <2>1
  <2>3. Groups' /\ Counts'
    BY <1>t, <2>1, <2>2, CountsKept DEF Groups
  <2> QED
    BY <2>1, <2>2, <2>3, GroupsEdited
<1>1. ASSUME ServerGroupAdd PROVE Table' /\ DOMAIN sgroups \subseteq DOMAIN sgroups'
  <2>1. NextServerGroup \in ServerGroupIds /\ GroupOK(Group("other", NoPermissions))
    BY <1>1, NextIds, EmptyMap, GroupMade DEF ServerGroupAdd, IInv
  <2>2. sgroups' = WithGroup(sgroups, NextServerGroup, Group("other", NoPermissions))
    BY <1>1 DEF ServerGroupAdd
  <2> DEFINE u == WithGroup(sgroups, NextServerGroup, Group("other", NoPermissions))
  <2>3. GroupTable(u, ServerGroupIds) /\ DOMAIN sgroups \subseteq DOMAIN u
    BY <1>t, <2>1, TableGrows
  <2> QED
    BY <2>2, <2>3
<1>2. ASSUME NEW g \in ServerGroupIds, NEW t \in ServerGroupIds, ServerGroupCopy(g, t)
      PROVE  Table' /\ DOMAIN sgroups \subseteq DOMAIN sgroups'
  <2> DEFINE r == Group(IF t \in DOMAIN sgroups THEN sgroups[t].name ELSE "other", sgroups[g].perms)
  <2>1. g \in DOMAIN sgroups /\ sgroups' = WithGroup(sgroups, t, r)
    BY <1>2 DEF ServerGroupCopy
  <2>2. GroupOK(sgroups[g])
    BY <1>t, <2>1, TableOps
  <2>3. GroupOK(r)
    BY <2>2, GroupMade DEF GroupOK
  <2> DEFINE u == WithGroup(sgroups, t, r)
  <2> HIDE DEF r
  <2>4. GroupTable(u, ServerGroupIds) /\ DOMAIN sgroups \subseteq DOMAIN u
    BY <1>t, <2>3, TableGrows
  <2> QED
    BY <2>1, <2>4
<1>3. ASSUME NEW g \in ServerGroupIds, NEW n \in EditNames, NEW a \in EditAssignments,
             ServerGroupAddPerm(g, n, a)
      PROVE  Table' /\ DOMAIN sgroups \subseteq DOMAIN sgroups'
  <2> DEFINE m == With(sgroups[g].perms, n, a)
  <2>1. g \in DOMAIN sgroups /\ sgroups' = [sgroups EXCEPT ![g].perms = m]
    BY <1>3 DEF ServerGroupAddPerm
  <2>2. IsPermissionMap(sgroups[g].perms)
    BY <1>t, <2>1, TableOps DEF GroupOK
  <2>3. IsPermissionMap(m)
    BY <2>2, EditInputs, MapOps
  <2> HIDE DEF m
  <2> QED
    BY <1>t, <2>1, <2>3, GroupEdited
<1>4. ASSUME NEW g \in ServerGroupIds, NEW n \in EditNames, ServerGroupDelPerm(g, n)
      PROVE  Table' /\ DOMAIN sgroups \subseteq DOMAIN sgroups'
  <2> DEFINE m == Without(sgroups[g].perms, n)
  <2>1. g \in DOMAIN sgroups /\ sgroups' = [sgroups EXCEPT ![g].perms = m]
    BY <1>4 DEF ServerGroupDelPerm
  <2>2. IsPermissionMap(sgroups[g].perms)
    BY <1>t, <2>1, TableOps DEF GroupOK
  <2>3. IsPermissionMap(m)
    BY <2>2, MapOps
  <2> HIDE DEF m
  <2> QED
    BY <1>t, <2>1, <2>3, GroupEdited
<1>5. ASSUME NEW g \in ServerGroupIds, ServerGroupRename(g)
      PROVE  Table' /\ DOMAIN sgroups \subseteq DOMAIN sgroups'
  <2>1. g \in DOMAIN sgroups /\ sgroups' = [sgroups EXCEPT ![g].name = "other"]
    BY <1>5 DEF ServerGroupRename
  <2> QED
    BY <1>t, <2>1, GroupEdited
<1>6. ASSUME NEW n \in EditNames, NEW a \in EditAssignments, ServerGroupAutoAddPerm(n, a)
      PROVE  Table' /\ DOMAIN sgroups \subseteq DOMAIN sgroups'
  <2> DEFINE t == [g \in DOMAIN sgroups |->
                      IF g \in Automatic THEN Group(sgroups[g].name, With(sgroups[g].perms, n, a))
                      ELSE sgroups[g]]
  <2>1. sgroups' = t
    BY <1>6 DEF ServerGroupAutoAddPerm
  <2>2. ASSUME NEW g \in DOMAIN sgroups, GroupOK(sgroups[g])
        PROVE  GroupOK(Group(sgroups[g].name, With(sgroups[g].perms, n, a)))
    BY <2>2, EditInputs, MapOps, GroupMade DEF GroupOK
  <2>3. DOMAIN t = DOMAIN sgroups /\ \A g \in DOMAIN sgroups : GroupOK(sgroups[g]) => GroupOK(t[g])
    BY <2>2
  <2> HIDE DEF t
  <2> QED
    BY <1>t, <2>1, <2>3, TableEdited
<1>7. ASSUME NEW n \in EditNames, ServerGroupAutoDelPerm(n)
      PROVE  Table' /\ DOMAIN sgroups \subseteq DOMAIN sgroups'
  <2> DEFINE t == [g \in DOMAIN sgroups |->
                      IF g \in Automatic THEN Group(sgroups[g].name, Without(sgroups[g].perms, n))
                      ELSE sgroups[g]]
  <2>1. sgroups' = t
    BY <1>7 DEF ServerGroupAutoDelPerm
  <2>2. ASSUME NEW g \in DOMAIN sgroups, GroupOK(sgroups[g])
        PROVE  GroupOK(Group(sgroups[g].name, Without(sgroups[g].perms, n)))
    BY <2>2, MapOps, GroupMade DEF GroupOK
  <2>3. DOMAIN t = DOMAIN sgroups /\ \A g \in DOMAIN sgroups : GroupOK(sgroups[g]) => GroupOK(t[g])
    BY <2>2
  <2> HIDE DEF t
  <2> QED
    BY <1>t, <2>1, <2>3, TableEdited
<1> QED
  BY <1>1, <1>2, <1>3, <1>4, <1>5, <1>6, <1>7

\* The commands on channel groups, but for channelgroupdel, forget no group.
LEMMA ChannelGroupEdits ==
    ASSUME IInv,
           \/ ChannelGroupAdd
           \/ \E g, t \in ChannelGroupIds : ChannelGroupCopy(g, t)
           \/ \E g \in ChannelGroupIds, n \in EditNames, a \in EditAssignments : ChannelGroupAddPerm(g, n, a)
           \/ \E g \in ChannelGroupIds, n \in EditNames : ChannelGroupDelPerm(g, n)
           \/ \E g \in ChannelGroupIds : ChannelGroupRename(g)
    PROVE  IInv'
<1> DEFINE Table == GroupTable(cgroups, ChannelGroupIds)
<1>t. Table /\ GroupTable(sgroups, ServerGroupIds) /\ Counts
  BY DEF IInv, Groups
<1> SUFFICES ASSUME Command \/ Edit, sgroups' = sgroups, UNCHANGED <<people, inside, history>>
             PROVE  Table' /\ DOMAIN cgroups \subseteq DOMAIN cgroups'
  <2>1. /\ Command \/ Edit
        /\ sgroups' = sgroups /\ UNCHANGED <<people, inside, history>>
    BY DEF ChannelGroupAdd, ChannelGroupCopy, ChannelGroupAddPerm, ChannelGroupDelPerm, ChannelGroupRename,
           history
  <2>2. Table' /\ DOMAIN cgroups \subseteq DOMAIN cgroups'
    BY <2>1
  <2>3. Groups' /\ Counts'
    BY <1>t, <2>1, <2>2, CountsKept DEF Groups
  <2> QED
    BY <2>1, <2>2, <2>3, GroupsEdited
<1>1. ASSUME ChannelGroupAdd PROVE Table' /\ DOMAIN cgroups \subseteq DOMAIN cgroups'
  <2>1. NextChannelGroup \in ChannelGroupIds /\ GroupOK(Group("other", NoPermissions))
    BY <1>1, NextIds, EmptyMap, GroupMade DEF ChannelGroupAdd, IInv
  <2>2. cgroups' = WithGroup(cgroups, NextChannelGroup, Group("other", NoPermissions))
    BY <1>1 DEF ChannelGroupAdd
  <2> DEFINE u == WithGroup(cgroups, NextChannelGroup, Group("other", NoPermissions))
  <2>3. GroupTable(u, ChannelGroupIds) /\ DOMAIN cgroups \subseteq DOMAIN u
    BY <1>t, <2>1, TableGrows
  <2> QED
    BY <2>2, <2>3
<1>2. ASSUME NEW g \in ChannelGroupIds, NEW t \in ChannelGroupIds, ChannelGroupCopy(g, t)
      PROVE  Table' /\ DOMAIN cgroups \subseteq DOMAIN cgroups'
  <2> DEFINE r == Group(IF t \in DOMAIN cgroups THEN cgroups[t].name ELSE "other", cgroups[g].perms)
  <2>1. g \in DOMAIN cgroups /\ cgroups' = WithGroup(cgroups, t, r)
    BY <1>2 DEF ChannelGroupCopy
  <2>2. GroupOK(cgroups[g])
    BY <1>t, <2>1, TableOps
  <2>3. GroupOK(r)
    BY <2>2, GroupMade DEF GroupOK
  <2> DEFINE u == WithGroup(cgroups, t, r)
  <2> HIDE DEF r
  <2>4. GroupTable(u, ChannelGroupIds) /\ DOMAIN cgroups \subseteq DOMAIN u
    BY <1>t, <2>3, TableGrows
  <2> QED
    BY <2>1, <2>4
<1>3. ASSUME NEW g \in ChannelGroupIds, NEW n \in EditNames, NEW a \in EditAssignments,
             ChannelGroupAddPerm(g, n, a)
      PROVE  Table' /\ DOMAIN cgroups \subseteq DOMAIN cgroups'
  <2> DEFINE m == With(cgroups[g].perms, n, a)
  <2>1. g \in DOMAIN cgroups /\ cgroups' = [cgroups EXCEPT ![g].perms = m]
    BY <1>3 DEF ChannelGroupAddPerm
  <2>2. IsPermissionMap(cgroups[g].perms)
    BY <1>t, <2>1, TableOps DEF GroupOK
  <2>3. IsPermissionMap(m)
    BY <2>2, EditInputs, MapOps
  <2> HIDE DEF m
  <2> QED
    BY <1>t, <2>1, <2>3, GroupEdited
<1>4. ASSUME NEW g \in ChannelGroupIds, NEW n \in EditNames, ChannelGroupDelPerm(g, n)
      PROVE  Table' /\ DOMAIN cgroups \subseteq DOMAIN cgroups'
  <2> DEFINE m == Without(cgroups[g].perms, n)
  <2>1. g \in DOMAIN cgroups /\ cgroups' = [cgroups EXCEPT ![g].perms = m]
    BY <1>4 DEF ChannelGroupDelPerm
  <2>2. IsPermissionMap(cgroups[g].perms)
    BY <1>t, <2>1, TableOps DEF GroupOK
  <2>3. IsPermissionMap(m)
    BY <2>2, MapOps
  <2> HIDE DEF m
  <2> QED
    BY <1>t, <2>1, <2>3, GroupEdited
<1>5. ASSUME NEW g \in ChannelGroupIds, ChannelGroupRename(g)
      PROVE  Table' /\ DOMAIN cgroups \subseteq DOMAIN cgroups'
  <2>1. g \in DOMAIN cgroups /\ cgroups' = [cgroups EXCEPT ![g].name = "other"]
    BY <1>5 DEF ChannelGroupRename
  <2> QED
    BY <1>t, <2>1, GroupEdited
<1> QED
  BY <1>1, <1>2, <1>3, <1>4, <1>5

-----------------------------------------------------------------------------
(* The rights given by a step.                                             *)

\* The rights that can be given, one kind after the other.
LEMMA SomeRights ==
    /\ \A w \in Ids, g \in ServerGroupIds : <<"account", w, g>> \in Rights /\ <<"client", w, g>> \in Rights
    /\ \A w \in Ids, n \in Names : /\ <<"own account", w, n>> \in Rights /\ <<"own", w, n>> \in Rights
                                   /\ <<"own, restarted", w, n>> \in Rights
    /\ \A c \in ChannelIds, w \in Ids, g \in ChannelGroupIds : <<"assigned", c, w, g>> \in Rights
    /\ \A c \in ChannelIds, w \in Ids, n \in Names : <<"in channel", c, w, n>> \in Rights
BY DEF Rights

\* The rights there can be are the same after a step.
LEMMA RightsOnly ==
    ASSUME given' \subseteq Rights
    PROVE  Given'
BY DEF Given, Rights

\* The account of w becomes a.
LEMMA AccountSet ==
    ASSUME Persons, NEW w \in Ids, NEW a, a = NoAccount \/ IsAccount(a),
           account' = [account EXCEPT ![w] = a], UNCHANGED <<online, saved, target>>,
           clients \subseteq clients', clients' \subseteq rows', rows' \subseteq Ids
    PROVE  /\ Persons' /\ account'[w] = a
           /\ \A x \in Ids : x # w => account'[x] = account[x]
<1>1. account = [x \in Ids |-> account[x]]
  BY DEF Persons
<1>2. account' = [x \in Ids |-> account'[x]] /\ account'[w] = a /\ \A x \in Ids : x # w => account'[x] = account[x]
  BY <1>1
<1> QED
  BY <1>2 DEF Persons

\* The list of groups of p, for now or for its next connection, becomes l.
LEMMA ListsSet ==
    ASSUME Persons, UNCHANGED <<account, target, clients, rows>>, NEW p \in clients,
           NEW l, l = NoGroups \/ IsList(l),
           online' = [online EXCEPT ![p] = l], saved' \in {saved, [saved EXCEPT ![p] = l]}
    PROVE  Persons'
<1>1. /\ online = [x \in People |-> online[x]] /\ saved = [x \in People |-> saved[x]]
  BY DEF Persons
<1>2. /\ online' = [x \in People |-> online'[x]] /\ saved' = [x \in People |-> saved'[x]]
      /\ \A x \in People : online'[x] = online[x] \/ (x = p /\ online'[x] = l)
      /\ \A x \in People : saved'[x] = saved[x] \/ (x = p /\ saved'[x] = l)
  BY <1>1
<1> QED
  BY <1>2 DEF Persons

\* What one account has becomes a, and the ghost says so.
LEMMA AccountChanges ==
    ASSUME IInv, NEW w \in Ids, NEW a, IsAccount(a), a.groups \subseteq DOMAIN sgroups,
           account' = [account EXCEPT ![w] = a], UNCHANGED <<sgroups, online, saved, target>>,
           clients \subseteq clients', clients' \subseteq rows', rows' \subseteq Ids,
           \A x, y : x # w => (<<"account", x, y>> \in given' <=> <<"account", x, y>> \in given),
           \A x, y : x # w => (<<"own account", x, y>> \in given' <=> <<"own account", x, y>> \in given),
           \A g \in a.groups \ {6, 7} : <<"account", w, g>> \in given',
           \A g : <<"account", w, g>> \in given' => g \in a.groups,
           \A n : <<"own account", w, n>> \in given' => n \in DOMAIN a.perms
    PROVE  Persons' /\ AccountRights' /\ \A x \in Ids : Known(x) => Known(x)'
<1>0. Persons /\ AccountRights
  BY DEF IInv
<1>1. a # NoAccount
  BY AccountEdited
<1>2. Persons' /\ account'[w] = a /\ \A x \in Ids : x # w => account'[x] = account[x]
  BY <1>0, AccountSet
<1>3. AccountRights'
  <2>1. \A x \in Ids : account'[x] # NoAccount =>
          /\ account'[x].groups \subseteq DOMAIN sgroups'
          /\ \A g \in account'[x].groups \ {6, 7} : <<"account", x, g>> \in given'
    BY <1>0, <1>2 DEF AccountRights
  <2>2. \A x, g : <<"account", x, g>> \in given' =>
          x \in Ids /\ account'[x] # NoAccount /\ g \in account'[x].groups
    BY <1>0, <1>1, <1>2 DEF AccountRights
  <2>3. \A x, n : <<"own account", x, n>> \in given' =>
          x \in Ids /\ account'[x] # NoAccount /\ n \in DOMAIN account'[x].perms
    BY <1>0, <1>1, <1>2 DEF AccountRights
  <2> QED
    BY <2>1, <2>2, <2>3 DEF AccountRights
<1>4. \A x \in Ids : Known(x) => Known(x)'
  <2>1. \A x \in Ids : HasAccount(x) => HasAccount(x)'
    BY <1>1, <1>2 DEF HasAccount
  <2> QED
    BY <2>1 DEF Known, KnownWithoutTarget, IsOnline, HasSaved
<1> QED
  BY <1>2, <1>3, <1>4

\* The account of somebody who has one, with other groups or other permissions.
LEMMA AccountOf ==
    ASSUME IInv, NEW w \in Ids, HasAccount(w)
    PROVE  /\ IsAccount(account[w]) /\ IsPermissionMap(account[w].perms)
           /\ account[w].groups \subseteq DOMAIN sgroups
           /\ \A gs : [account EXCEPT ![w].groups = gs] = [account EXCEPT ![w] = Account(gs, account[w].perms)]
           /\ \A m : [account EXCEPT ![w].perms = m] = [account EXCEPT ![w] = Account(account[w].groups, m)]
           /\ \A gs \in SUBSET DOMAIN sgroups : IsAccount(Account(gs, account[w].perms))
           /\ \A m : IsPermissionMap(m) => IsAccount(Account(account[w].groups, m))
<1>1. Persons /\ AccountRights /\ Groups
  BY DEF IInv
<1>2. IsAccount(account[w]) /\ account[w].groups \subseteq DOMAIN sgroups
  BY <1>1 DEF Persons, AccountRights, HasAccount
<1>3. DOMAIN sgroups \subseteq ServerGroupIds
  BY <1>1 DEF Groups, GroupTable
<1>4. IsPermissionMap(account[w].perms)
  BY <1>2 DEF IsAccount
<1>5. ASSUME NEW gs \in SUBSET DOMAIN sgroups PROVE IsAccount(Account(gs, account[w].perms))
  <2>1. gs \subseteq ServerGroupIds
    BY <1>3
  <2> QED
    BY <1>4, <2>1, Records
<1>6. ASSUME NEW m, IsPermissionMap(m) PROVE IsAccount(Account(account[w].groups, m))
  <2>1. account[w].groups \subseteq ServerGroupIds
    BY <1>2, <1>3
  <2> QED
    BY <1>6, <2>1, Records
<1>7. ASSUME NEW gs
      PROVE  [account EXCEPT ![w].groups = gs] = [account EXCEPT ![w] = Account(gs, account[w].perms)]
  BY <1>2, AccountEdited
<1>8. ASSUME NEW m
      PROVE  [account EXCEPT ![w].perms = m] = [account EXCEPT ![w] = Account(account[w].groups, m)]
  BY <1>2, AccountEdited
<1> QED
  BY <1>2, <1>4, <1>5, <1>6, <1>7, <1>8

\* The list of a client that is online becomes gs, and is saved.
LEMMA ListSaved ==
    ASSUME IInv, NEW p, IsOnline(p), NEW gs \in SUBSET ServerGroupIds, SaveGroups(p, gs),
           UNCHANGED <<sgroups, account, target, clients, rows>>,
           \A q, g : q # p => (<<"client", q, g>> \in given' <=> <<"client", q, g>> \in given),
           \A g : <<"client", p, g>> \in given' => g \in gs /\ g \in DOMAIN sgroups,
           \A g \in gs \ {8} : <<"client", p, g>> \in given' \/ <<p, g>> \in outdated
    PROVE  Persons' /\ ClientRights' /\ \A x \in Ids : Known(x) => Known(x)'
<1>0. Persons /\ ClientRights /\ p \in People /\ p \in clients
  BY DEF IInv, IsOnline, Persons
<1>1. /\ online' = [online EXCEPT ![p] = List(gs)] /\ saved' = [saved EXCEPT ![p] = List(gs)]
      /\ outdated' = Keep(outdated, p, gs)
      /\ stale' = Keep(stale, p, {g \in gs : <<p, g>> \in outdated})
  BY DEF SaveGroups
<1>2. List(gs) # NoGroups /\ List(gs).groups = gs /\ IsList(List(gs))
  BY Records
<1>3. Persons'
  BY <1>0, <1>1, <1>2, ListsSet
<1>4. /\ online'[p] = List(gs) /\ saved'[p] = List(gs)
      /\ \A q \in People : q # p => online'[q] = online[q] /\ saved'[q] = saved[q]
  <2>1. online = [x \in People |-> online[x]] /\ saved = [x \in People |-> saved[x]]
    BY <1>0 DEF Persons
  <2> QED
    BY <1>0, <1>1, <2>1
<1>5. /\ stale \subseteq People \X ServerGroupIds /\ outdated \subseteq stale
  BY <1>0 DEF ClientRights
<1>6. /\ stale' \subseteq stale /\ outdated' \subseteq stale'
      /\ \A q, g : q # p => /\ <<q, g>> \in outdated => <<q, g>> \in outdated'
                            /\ <<q, g>> \in stale => <<q, g>> \in stale'
      /\ \A g \in gs : <<p, g>> \in outdated => <<p, g>> \in outdated' /\ <<p, g>> \in stale'
  BY <1>1, <1>5 DEF Keep
<1>7. \A q \in People : online'[q] # NoGroups =>
          \A g \in online'[q].groups \ {8} : <<"client", q, g>> \in given' \/ <<q, g>> \in outdated'
  BY <1>0, <1>2, <1>4, <1>6 DEF ClientRights
<1>8. \A q \in People : saved'[q] # NoGroups =>
          \A g \in saved'[q].groups \ {8} : <<"client", q, g>> \in given' \/ <<q, g>> \in stale'
  BY <1>0, <1>2, <1>4, <1>6 DEF ClientRights
<1>9. \A q, g : <<"client", q, g>> \in given' =>
          /\ q \in People /\ saved'[q] # NoGroups /\ g \in saved'[q].groups
          /\ online'[q] # NoGroups => g \in online'[q].groups
          /\ g \in DOMAIN sgroups'
  BY <1>0, <1>2, <1>4 DEF ClientRights
<1>10. ClientRights'
  BY <1>5, <1>6, <1>7, <1>8, <1>9 DEF ClientRights
<1>11. \A x \in Ids : Known(x) => Known(x)'
  <2>1. \A x : IsOnline(x) => IsOnline(x)'
    BY <1>2, <1>4 DEF IsOnline
  <2>2. \A x : HasSaved(x) => HasSaved(x)'
    BY <1>2, <1>4 DEF HasSaved
  <2> QED
    BY <2>1, <2>2 DEF Known, KnownWithoutTarget, HasAccount
<1> QED
  BY <1>3, <1>10, <1>11

\* Rights in channels that no more than before are in the tables: whatever stays
\* was given or is an orphan, and whatever counts as given stays.
LEMMA AssignedLess ==
    ASSUME ChannelRights,
           \A k \in DOMAIN assigned' :
               /\ k \in DOMAIN assigned /\ assigned'[k] = assigned[k] /\ assigned[k] \in DOMAIN cgroups'
               /\ k \in orphans => k \in orphans'
               /\ <<"assigned", k[1], k[2], assigned[k]>> \in given =>
                      k \in orphans' \/ <<"assigned", k[1], k[2], assigned[k]>> \in given',
           \A c, w, g : <<"assigned", c, w, g>> \in given' =>
               <<"assigned", c, w, g>> \in given /\ c \in channels' /\ Known(w)' /\ <<c, w>> \in DOMAIN assigned'
    PROVE  AssignedGiven' /\ AssignedLast'
<1>1. AssignedGiven /\ AssignedLast
  BY DEF ChannelRights
<1>2. AssignedGiven'
  <2> SUFFICES ASSUME NEW k \in DOMAIN assigned'
               PROVE  /\ assigned'[k] \in DOMAIN cgroups'
                      /\ k \in orphans' \/ <<"assigned", k[1], k[2], assigned'[k]>> \in given'
    BY DEF AssignedGiven
  <2>1. k \in orphans \/ <<"assigned", k[1], k[2], assigned[k]>> \in given
    BY <1>1 DEF AssignedGiven
  <2> QED
    BY <2>1
<1>3. AssignedLast'
  <2> SUFFICES ASSUME NEW c, NEW w, NEW g, <<"assigned", c, w, g>> \in given'
               PROVE  /\ c \in channels' /\ w \in Ids /\ Known(w)'
                      /\ <<c, w>> \in DOMAIN assigned' /\ assigned'[<<c, w>>] = g
    BY DEF AssignedLast
  <2>1. <<"assigned", c, w, g>> \in given /\ c \in channels' /\ Known(w)' /\ <<c, w>> \in DOMAIN assigned'
    OBVIOUS
  <2>2. w \in Ids /\ assigned[<<c, w>>] = g
    BY <1>1, <2>1 DEF AssignedLast
  <2> QED
    BY <2>1, <2>2
<1> QED
  BY <1>2, <1>3

\* The same, of the permissions.
LEMMA PermittedLess ==
    ASSUME ChannelRights,
           \A k \in DOMAIN ccperms' :
               /\ k \in DOMAIN ccperms /\ ccperms'[k] = ccperms[k]
               /\ k \in orphans => k \in orphans'
               /\ \A n : <<"in channel", k[1], k[2], n>> \in given =>
                      k \in orphans' \/ <<"in channel", k[1], k[2], n>> \in given',
           \A c, w, n : <<"in channel", c, w, n>> \in given' =>
               <<"in channel", c, w, n>> \in given /\ c \in channels' /\ Known(w)' /\ <<c, w>> \in DOMAIN ccperms'
    PROVE  PermittedGiven' /\ PermittedLast'
<1>1. PermittedGiven /\ PermittedLast
  BY DEF ChannelRights
<1>2. PermittedGiven'
  <2> SUFFICES ASSUME NEW k \in DOMAIN ccperms', NEW n \in DOMAIN ccperms'[k]
               PROVE  k \in orphans' \/ <<"in channel", k[1], k[2], n>> \in given'
    BY DEF PermittedGiven
  <2>1. k \in DOMAIN ccperms /\ n \in DOMAIN ccperms[k]
    OBVIOUS
  <2>2. k \in orphans \/ <<"in channel", k[1], k[2], n>> \in given
    BY <1>1, <2>1 DEF PermittedGiven
  <2> QED
    BY <2>2
<1>3. PermittedLast'
  <2> SUFFICES ASSUME NEW c, NEW w, NEW n, <<"in channel", c, w, n>> \in given'
               PROVE  /\ c \in channels' /\ w \in Ids /\ Known(w)'
                      /\ <<c, w>> \in DOMAIN ccperms' /\ n \in DOMAIN ccperms'[<<c, w>>]
    BY DEF PermittedLast
  <2>1. <<"in channel", c, w, n>> \in given /\ c \in channels' /\ Known(w)' /\ <<c, w>> \in DOMAIN ccperms'
    OBVIOUS
  <2>2. w \in Ids /\ n \in DOMAIN ccperms[<<c, w>>]
    BY <1>1, <2>1 DEF PermittedLast
  <2> QED
    BY <2>1, <2>2
<1> QED
  BY <1>2, <1>3

\* A step that leaves the permissions in channels alone.
LEMMA PermittedFrame ==
    ASSUME ChannelRights, ccperms' = ccperms, channels' = channels, orphans' = orphans,
           \A w \in Ids : Known(w) => Known(w)', Same("in channel")
    PROVE  PermittedGiven' /\ PermittedLast'
<1>1. ASSUME NEW c, NEW w, NEW n, <<"in channel", c, w, n>> \in given'
      PROVE  <<"in channel", c, w, n>> \in given /\ c \in channels' /\ Known(w)' /\ <<c, w>> \in DOMAIN ccperms'
  <2>1. <<"in channel", c, w, n>> \in given
    BY <1>1 DEF Same
  <2> QED
    BY <2>1 DEF ChannelRights, PermittedLast
<1>2. ASSUME NEW k \in DOMAIN ccperms, NEW n, <<"in channel", k[1], k[2], n>> \in given
      PROVE  <<"in channel", k[1], k[2], n>> \in given'
  BY <1>2 DEF Same
<1> QED
  BY <1>1, <1>2, PermittedLess

\* A step that leaves the assignments alone.
LEMMA AssignedFrame ==
    ASSUME ChannelRights, assigned' = assigned, channels' = channels, cgroups' = cgroups, orphans' = orphans,
           \A w \in Ids : Known(w) => Known(w)', Same("assigned")
    PROVE  AssignedGiven' /\ AssignedLast'
<1>1. ASSUME NEW c, NEW w, NEW g, <<"assigned", c, w, g>> \in given'
      PROVE  <<"assigned", c, w, g>> \in given /\ c \in channels' /\ Known(w)' /\ <<c, w>> \in DOMAIN assigned'
  <2>1. <<"assigned", c, w, g>> \in given
    BY <1>1 DEF Same
  <2> QED
    BY <2>1 DEF ChannelRights, AssignedLast
<1>2. ASSUME NEW k \in DOMAIN assigned, <<"assigned", k[1], k[2], assigned[k]>> \in given
      PROVE  <<"assigned", k[1], k[2], assigned[k]>> \in given'
  BY <1>2 DEF Same
<1>3. \A k \in DOMAIN assigned : assigned[k] \in DOMAIN cgroups'
  BY DEF ChannelRights, AssignedGiven
<1> QED
  BY <1>1, <1>2, <1>3, AssignedLess

\* An assignment to a client that is known is made, or dropped with its channel,
\* and no other assignment that was given is lost.
LEMMA AssignmentMade ==
    ASSUME IInv, NEW c, NEW w \in Ids, NEW g \in DOMAIN cgroups, Known(w),
           assigned' = AssignmentsWith(c, w, g), UNCHANGED <<cgroups, channels, orphans>>,
           \A x \in Ids : Known(x) => Known(x)',
           \A d, x, h : <<"assigned", d, x, h>> \in given' <=>
               \/ <<"assigned", d, x, h>> \in given /\ <<d, x>> # <<c, w>>
               \/ d = c /\ x = w /\ h = g /\ c \in channels
    PROVE  AssignedGiven' /\ AssignedLast' /\ DOMAIN assigned' \subseteq ChannelIds \X Ids
<1>1. AssignedGiven /\ AssignedLast /\ DOMAIN assigned \subseteq ChannelIds \X Ids /\ channels \subseteq ChannelIds
  BY DEF IInv, ChannelRights, Inside
<1> DEFINE as  == [k \in DOMAIN assigned \union {<<c, w>>} |-> IF k = <<c, w>> THEN g ELSE assigned[k]]
           who == {x \in Ids : Known(x)}
<1>2. /\ DOMAIN as = DOMAIN assigned \union {<<c, w>>} /\ as[<<c, w>>] = g
      /\ \A k \in DOMAIN assigned : k # <<c, w>> => as[k] = assigned[k]
  OBVIOUS
<1>3. assigned' = NormalizeAssignments(as, DOMAIN cgroups, channels, who)
  BY DEF AssignmentsWith
<1> HIDE DEF as
<1>4. /\ DOMAIN assigned' = {x \in DOMAIN as : as[x] \in DOMAIN cgroups /\ x[1] \in channels /\ x[2] \in who}
      /\ \A k \in DOMAIN assigned' : assigned'[k] = as[k]
  BY <1>3 DEF NormalizeAssignments
<1>5. ASSUME NEW k \in DOMAIN assigned' PROVE k = <<k[1], k[2]>> /\ k[1] \in channels /\ k[2] \in who
  <2>1. CASE k = <<c, w>>
    BY <1>4, <1>5, <2>1
  <2>2. CASE k \in DOMAIN assigned
    BY <1>1, <1>4, <1>5, <2>2
  <2> QED
    BY <1>2, <1>4, <2>1, <2>2
<1>6. AssignedGiven'
  <2> SUFFICES ASSUME NEW k \in DOMAIN assigned'
               PROVE  /\ assigned'[k] \in DOMAIN cgroups'
                      /\ k \in orphans' \/ <<"assigned", k[1], k[2], assigned'[k]>> \in given'
    BY DEF AssignedGiven
  <2>1. assigned'[k] = as[k] /\ as[k] \in DOMAIN cgroups /\ k \in DOMAIN as /\ k[1] \in channels
    BY <1>4
  <2>2. CASE k = <<c, w>>
    <3>1. k[1] = c /\ k[2] = w /\ as[k] = g
      BY <1>2, <2>2
    <3> QED
      BY <2>1, <3>1
  <2>3. CASE k # <<c, w>>
    <3>1. k \in DOMAIN assigned /\ as[k] = assigned[k]
      BY <1>2, <2>1, <2>3
    <3>2. k \in orphans \/ <<"assigned", k[1], k[2], assigned[k]>> \in given
      BY <1>1, <3>1 DEF AssignedGiven
    <3>3. <<k[1], k[2]>> # <<c, w>>
      BY <1>5, <2>3
    <3> QED
      BY <2>1, <3>1, <3>2, <3>3
  <2> QED
    BY <2>2, <2>3
<1>7. AssignedLast'
  <2> SUFFICES ASSUME NEW d, NEW x, NEW h, <<"assigned", d, x, h>> \in given'
               PROVE  /\ d \in channels' /\ x \in Ids /\ Known(x)'
                      /\ <<d, x>> \in DOMAIN assigned' /\ assigned'[<<d, x>>] = h
    BY DEF AssignedLast
  <2>1. CASE d = c /\ x = w /\ h = g /\ c \in channels
    <3>1. <<d, x>> \in DOMAIN assigned'
      BY <1>2, <1>4, <2>1
    <3> QED
      BY <1>2, <1>4, <2>1, <3>1
  <2>2. CASE <<"assigned", d, x, h>> \in given /\ <<d, x>> # <<c, w>>
    <3>1. /\ d \in channels /\ x \in Ids /\ Known(x)
          /\ <<d, x>> \in DOMAIN assigned /\ assigned[<<d, x>>] = h
      BY <1>1, <2>2 DEF AssignedLast
    <3>2. h \in DOMAIN cgroups
      BY <1>1, <3>1 DEF AssignedGiven
    <3>3. <<d, x>> \in DOMAIN as /\ as[<<d, x>>] = h
      BY <1>2, <2>2, <3>1
    <3>4. <<d, x>> \in DOMAIN assigned'
      BY <1>4, <3>1, <3>2, <3>3
    <3> QED
      BY <1>4, <3>1, <3>3, <3>4
  <2> QED
    BY <2>1, <2>2
<1>8. DOMAIN assigned' \subseteq ChannelIds \X Ids
  BY <1>1, <1>5
<1> QED
  BY <1>6, <1>7, <1>8

\* setclientchannelgroup and tokenuse replace the right of w in c.
LEMMA GivenAssignmentIs ==
    ASSUME NEW gave, NEW c, NEW w, NEW g
    PROVE  LET new == GivenAssignment(gave, c, w, g)
           IN  /\ \A d, x, h : <<"assigned", d, x, h>> \in new <=>
                      \/ <<"assigned", d, x, h>> \in gave /\ <<d, x>> # <<c, w>>
                      \/ d = c /\ x = w /\ h = g /\ c \in channels
               /\ \A k, x, y : <<k, x, y>> \in new <=> <<k, x, y>> \in gave /\ (k = "assigned" => x # c \/ y # w)
               /\ \A k, x, y, z : k # "assigned" => (<<k, x, y, z>> \in new <=> <<k, x, y, z>> \in gave)
               /\ c \in channels => new \subseteq gave \union {<<"assigned", c, w, g>>}
               /\ c \notin channels => new \subseteq gave
<1>1. ASSUME NEW r PROVE r \in GivenAssignment(gave, c, w, g) <=>
          \/ r \in gave /\ (r[1] = "assigned" => r[2] # c \/ r[3] # w)
          \/ c \in channels /\ r = <<"assigned", c, w, g>>
  BY DEF GivenAssignment
<1>2. \A r : r \in GivenAssignment(gave, c, w, g) <=>
          \/ r \in gave /\ (r[1] = "assigned" => r[2] # c \/ r[3] # w)
          \/ c \in channels /\ r = <<"assigned", c, w, g>>
  BY <1>1
<1> DEFINE new == GivenAssignment(gave, c, w, g)
<1> HIDE DEF new
<1>3. ASSUME NEW d, NEW x, NEW h
      PROVE  <<"assigned", d, x, h>> \in new <=>
                 \/ <<"assigned", d, x, h>> \in gave /\ <<d, x>> # <<c, w>>
                 \/ d = c /\ x = w /\ h = g /\ c \in channels
  BY <1>2 DEF new
<1>4. ASSUME NEW k, NEW x, NEW y
      PROVE  <<k, x, y>> \in new <=> <<k, x, y>> \in gave /\ (k = "assigned" => x # c \/ y # w)
  BY <1>2 DEF new
<1>5. ASSUME NEW k, NEW x, NEW y, NEW z, k # "assigned"
      PROVE  <<k, x, y, z>> \in new <=> <<k, x, y, z>> \in gave
  BY <1>2, <1>5 DEF new
<1>6. (c \in channels => new \subseteq gave \union {<<"assigned", c, w, g>>}) /\ (c \notin channels => new \subseteq gave)
  BY <1>2 DEF new
<1> QED
  BY <1>3, <1>4, <1>5, <1>6 DEF new

-----------------------------------------------------------------------------
(* The commands on members.                                                *)

\* A step that changes who is a member of which server groups and nothing else.
LEMMA MembersChanged ==
    ASSUME IInv, Command, UNCHANGED <<groups, clients, rows, target, inside, orphans>>,
           Persons', AccountRights', ClientRights', Given',
           \A x \in Ids : Known(x) => Known(x)',
           \A k : k \notin {"account", "client"} => Same(k)
    PROVE  IInv'
<1>0. UNCHANGED <<sgroups, cgroups, target, channels, chperms, assigned, ccperms, orphans>>
  BY DEF groups, inside
<1>1. Groups' /\ Inside' /\ Counts'
  BY <1>0, GroupsKept, InsideKept
<1>2. Same("own") /\ Same("own, restarted") /\ Same("assigned") /\ Same("in channel")
  OBVIOUS
<1>3. TargetRights' /\ ChannelRights'
  BY <1>0, <1>2, TargetFrame, ChannelFrame DEF IInv
<1> QED
  BY <1>1, <1>3 DEF IInv

\* The account of w gets one group more.
LEMMA AccountJoins ==
    ASSUME IInv, NEW w \in Ids, HasAccount(w), NEW g \in DOMAIN sgroups,
           account' = [account EXCEPT ![w].groups = @ \union {g}],
           UNCHANGED <<sgroups, online, saved, target, clients, rows>>,
           \A x, y : <<"account", x, y>> \in given' <=> <<"account", x, y>> \in given \/ (x = w /\ y = g),
           Same("own account")
    PROVE  Persons' /\ AccountRights' /\ \A x \in Ids : Known(x) => Known(x)'
<1> DEFINE gs == account[w].groups \union {g}
           a  == Account(gs, account[w].perms)
<1>1. account' = [account EXCEPT ![w] = a] /\ IsAccount(a) /\ gs \subseteq DOMAIN sgroups
  BY AccountOf
<1>2. a.groups = gs /\ a.perms = account[w].perms
  BY Records
<1>3. AccountRights /\ Persons /\ account[w] # NoAccount
  BY DEF IInv, HasAccount
<1>4. clients \subseteq rows /\ rows \subseteq Ids
  BY <1>3 DEF Persons
<1>5. \A h \in gs \ {6, 7} : <<"account", w, h>> \in given'
  BY <1>3 DEF AccountRights
<1>6. \A h : <<"account", w, h>> \in given' => h \in gs
  BY <1>3 DEF AccountRights
<1>7. \A n : <<"own account", w, n>> \in given' => n \in DOMAIN account[w].perms
  BY <1>3 DEF AccountRights, Same
<1>8. \A x, y : x # w => (<<"own account", x, y>> \in given' <=> <<"own account", x, y>> \in given)
  BY DEF Same
<1> HIDE DEF a, gs
<1> QED
  BY <1>1, <1>2, <1>4, <1>5, <1>6, <1>7, <1>8, AccountChanges

\* The client p gets one group more.
LEMMA ClientJoins ==
    ASSUME IInv, NEW p, IsOnline(p), NEW g \in DOMAIN sgroups, SaveGroups(p, online[p].groups \union {g}),
           UNCHANGED <<sgroups, account, target, clients, rows>>,
           \A x, y : <<"client", x, y>> \in given' <=> <<"client", x, y>> \in given \/ (x = p /\ y = g)
    PROVE  Persons' /\ ClientRights' /\ \A x \in Ids : Known(x) => Known(x)'
<1> DEFINE gs == online[p].groups \union {g}
<1>1. Persons /\ ClientRights /\ Groups /\ p \in People /\ online[p] # NoGroups
  BY DEF IInv, IsOnline
<1>2. gs \in SUBSET ServerGroupIds
  BY <1>1 DEF Persons, IsList, Groups, GroupTable
<1>3. \A h : <<"client", p, h>> \in given' => h \in gs /\ h \in DOMAIN sgroups
  BY <1>1 DEF ClientRights
<1>4. \A h \in gs \ {8} : <<"client", p, h>> \in given' \/ <<p, h>> \in outdated
  BY <1>1 DEF ClientRights
<1> HIDE DEF gs
<1>5. SaveGroups(p, gs)
  BY DEF gs
<1> QED
  BY <1>2, <1>3, <1>4, <1>5, ListSaved

\* The client p loses a group, its last one to group 8.
LEMMA ClientLeaves ==
    ASSUME IInv, NEW p, IsOnline(p), NEW g,
           SaveGroups(p, IF online[p].groups \subseteq {g} THEN {8} ELSE online[p].groups \ {g}),
           UNCHANGED <<sgroups, account, target, clients, rows>>,
           \A x, y : <<"client", x, y>> \in given' <=> <<"client", x, y>> \in given /\ ~ (x = p /\ y = g)
    PROVE  Persons' /\ ClientRights' /\ \A x \in Ids : Known(x) => Known(x)'
<1> DEFINE gs == IF online[p].groups \subseteq {g} THEN {8} ELSE online[p].groups \ {g}
<1>1. Persons /\ ClientRights /\ p \in People /\ online[p] # NoGroups
  BY DEF IInv, IsOnline
<1>2. gs \in SUBSET ServerGroupIds
  BY <1>1, Ranges DEF Persons, IsList
<1>3. \A h : <<"client", p, h>> \in given' => h \in gs /\ h \in DOMAIN sgroups
  BY <1>1 DEF ClientRights
<1>4. \A h \in gs \ {8} : <<"client", p, h>> \in given' \/ <<p, h>> \in outdated
  BY <1>1 DEF ClientRights
<1> HIDE DEF gs
<1>5. SaveGroups(p, gs)
  BY DEF gs
<1> QED
  BY <1>2, <1>3, <1>4, <1>5, ListSaved

\* The default groups exist.
LEMMA Defaults ==
    ASSUME NEW w, NEW ids
    PROVE  DefaultGroups(w, ids) \subseteq ids \intersect {6, 7}
BY DEF DefaultGroups

\* The rights of accounts and of clients do not disturb each other.
LEMMA MemberGiven ==
    ASSUME IInv, NEW k \in {"account", "client"}, NEW w \in Ids, NEW g \in DOMAIN sgroups
    PROVE  /\ given' = given \union {<<k, w, g>>} =>
                  /\ Given' /\ \A j : j # k => Same(j)
                  /\ \A x, y : <<k, x, y>> \in given' <=> <<k, x, y>> \in given \/ (x = w /\ y = g)
           /\ given' = given \ {<<k, w, g>>} =>
                  /\ Given' /\ \A j : j # k => Same(j)
                  /\ \A x, y : <<k, x, y>> \in given' <=> <<k, x, y>> \in given /\ ~ (x = w /\ y = g)
<1>1. g \in ServerGroupIds /\ Given
  BY DEF IInv, Groups, GroupTable
<1>2. <<k, w, g>> \in Rights
  BY <1>1, SomeRights
<1>3. ASSUME given' = given \union {<<k, w, g>>}
      PROVE  /\ Given' /\ \A j : j # k => Same(j)
             /\ \A x, y : <<k, x, y>> \in given' <=> <<k, x, y>> \in given \/ (x = w /\ y = g)
  <2>1. Given'
    BY <1>1, <1>2, <1>3 DEF Given, Rights
  <2> QED
    BY <1>3, <2>1 DEF Same
<1>4. ASSUME given' = given \ {<<k, w, g>>}
      PROVE  /\ Given' /\ \A j : j # k => Same(j)
             /\ \A x, y : <<k, x, y>> \in given' <=> <<k, x, y>> \in given /\ ~ (x = w /\ y = g)
  <2>1. Given'
    BY <1>1, <1>4 DEF Given, Rights
  <2> QED
    BY <1>4, <2>1 DEF Same
<1> QED
  BY <1>3, <1>4

\* servergroupaddclient and servergroupdelclient, by command and in the chat.
LEMMA Members ==
    ASSUME IInv, NEW w \in Ids, NEW g \in ServerGroupIds,
           \/ WebAddServerGroupClient(w, g) \/ WebDelServerGroupClient(w, g)
           \/ ChatAddGroup(w, g) \/ ChatDelGroup(w, g)
    PROVE  IInv'
<1>1. /\ Command /\ g \in DOMAIN sgroups
      /\ UNCHANGED <<groups, clients, rows, target, inside, orphans>>
  BY DEF WebAddServerGroupClient, WebDelServerGroupClient, ChatAddGroup, ChatDelGroup
<1>2. sgroups' = sgroups /\ AccountRights /\ ClientRights /\ Given
  BY <1>1 DEF groups, IInv
<1> SUFFICES /\ Persons' /\ AccountRights' /\ ClientRights' /\ Given'
             /\ \A x \in Ids : Known(x) => Known(x)'
             /\ \A k : k \notin {"account", "client"} => Same(k)
  BY <1>1, MembersChanged
<1>3. ASSUME HasAccount(w), account' = [account EXCEPT ![w].groups = @ \union {g}],
             given' = given \union {<<"account", w, g>>}, UNCHANGED <<online, saved, stale, outdated>>
      PROVE  /\ Persons' /\ AccountRights' /\ ClientRights' /\ Given'
             /\ \A x \in Ids : Known(x) => Known(x)'
             /\ \A k : k \notin {"account", "client"} => Same(k)
  <2>1. /\ Given' /\ \A j : j # "account" => Same(j)
        /\ \A x, y : <<"account", x, y>> \in given' <=> <<"account", x, y>> \in given \/ (x = w /\ y = g)
    BY <1>1, <1>3, MemberGiven
  <2>2. Same("own account") /\ Same("client")
    BY <2>1
  <2>3. Persons' /\ AccountRights' /\ \A x \in Ids : Known(x) => Known(x)'
    BY <1>1, <1>2, <1>3, <2>1, <2>2, AccountJoins
  <2>4. ClientRights'
    BY <1>2, <1>3, <2>2, ClientFrame
  <2> QED
    BY <2>1, <2>3, <2>4
<1>4. ASSUME IsOnline(w), SaveGroups(w, online[w].groups \union {g}),
             given' = given \union {<<"client", w, g>>}, account' = account
      PROVE  /\ Persons' /\ AccountRights' /\ ClientRights' /\ Given'
             /\ \A x \in Ids : Known(x) => Known(x)'
             /\ \A k : k \notin {"account", "client"} => Same(k)
  <2>1. /\ Given' /\ \A j : j # "client" => Same(j)
        /\ \A x, y : <<"client", x, y>> \in given' <=> <<"client", x, y>> \in given \/ (x = w /\ y = g)
    BY <1>1, <1>4, MemberGiven
  <2>2. Same("own account") /\ Same("account")
    BY <2>1
  <2>3. Persons' /\ ClientRights' /\ \A x \in Ids : Known(x) => Known(x)'
    BY <1>1, <1>2, <1>4, <2>1, ClientJoins
  <2>4. AccountRights'
    BY <1>2, <1>4, <2>2, AccountFrame
  <2> QED
    BY <2>1, <2>3, <2>4
<1>5. ASSUME HasAccount(w), given' = given \ {<<"account", w, g>>}, UNCHANGED <<online, saved, stale, outdated>>,
             account' = [account EXCEPT ![w].groups = OrDefault(w, @ \ {g}, DOMAIN sgroups)]
      PROVE  /\ Persons' /\ AccountRights' /\ ClientRights' /\ Given'
             /\ \A x \in Ids : Known(x) => Known(x)'
             /\ \A k : k \notin {"account", "client"} => Same(k)
  <2> DEFINE gs == OrDefault(w, account[w].groups \ {g}, DOMAIN sgroups)
             a  == Account(gs, account[w].perms)
  <2>1. /\ Given' /\ \A j : j # "account" => Same(j)
        /\ \A x, y : <<"account", x, y>> \in given' <=> <<"account", x, y>> \in given /\ ~ (x = w /\ y = g)
    BY <1>1, <1>5, MemberGiven
  <2>2. Same("own account") /\ Same("client")
    BY <2>1
  <2>3. account[w] # NoAccount /\ account[w].groups \subseteq DOMAIN sgroups
    BY <1>2, <1>5 DEF AccountRights, HasAccount
  <2>4. gs \in SUBSET DOMAIN sgroups /\ gs \ {6, 7} \subseteq account[w].groups \ {g}
    BY <2>3, Defaults DEF OrDefault
  <2>5. account[w].groups \ {g} \subseteq gs
    BY DEF OrDefault
  <2>6. clients' \subseteq rows' /\ rows' \subseteq Ids /\ clients \subseteq clients'
    BY <1>1 DEF IInv, Persons
  <2> HIDE DEF gs
  <2>7. account' = [account EXCEPT ![w] = a] /\ IsAccount(a) /\ a.groups = gs /\ a.perms = account[w].perms
    <3>1. account' = [account EXCEPT ![w].groups = gs]
      BY <1>5 DEF gs
    <3>2. account' = [account EXCEPT ![w] = a] /\ IsAccount(a)
      BY <1>5, <2>4, <3>1, AccountOf
    <3> QED
      BY <3>2, Records
  <2>8. \A h \in gs \ {6, 7} : <<"account", w, h>> \in given'
    BY <1>2, <2>1, <2>3, <2>4 DEF AccountRights
  <2>9. \A h : <<"account", w, h>> \in given' => h \in gs
    BY <1>2, <2>1, <2>5 DEF AccountRights
  <2>10. \A n : <<"own account", w, n>> \in given' => n \in DOMAIN account[w].perms
    BY <1>2, <2>2 DEF AccountRights, Same
  <2>11. \A x, y : x # w => (<<"own account", x, y>> \in given' <=> <<"own account", x, y>> \in given)
    BY <2>2 DEF Same
  <2> HIDE DEF a
  <2>12. Persons' /\ AccountRights' /\ \A x \in Ids : Known(x) => Known(x)'
    BY <1>1, <1>2, <1>5, <2>1, <2>4, <2>6, <2>7, <2>8, <2>9, <2>10, <2>11, AccountChanges
  <2>13. ClientRights'
    BY <1>2, <1>5, <2>2, ClientFrame
  <2> QED
    BY <2>1, <2>12, <2>13
<1>6. ASSUME IsOnline(w), given' = given \ {<<"client", w, g>>}, account' = account,
             SaveGroups(w, IF online[w].groups \subseteq {g} THEN {8} ELSE online[w].groups \ {g})
      PROVE  /\ Persons' /\ AccountRights' /\ ClientRights' /\ Given'
             /\ \A x \in Ids : Known(x) => Known(x)'
             /\ \A k : k \notin {"account", "client"} => Same(k)
  <2>1. /\ Given' /\ \A j : j # "client" => Same(j)
        /\ \A x, y : <<"client", x, y>> \in given' <=> <<"client", x, y>> \in given /\ ~ (x = w /\ y = g)
    BY <1>1, <1>6, MemberGiven
  <2>2. Same("own account") /\ Same("account")
    BY <2>1
  <2>3. Persons' /\ ClientRights' /\ \A x \in Ids : Known(x) => Known(x)'
    BY <1>1, <1>2, <1>6, <2>1, ClientLeaves
  <2>4. AccountRights'
    BY <1>2, <1>6, <2>2, AccountFrame
  <2> QED
    BY <2>1, <2>3, <2>4
<1>7. CASE WebAddServerGroupClient(w, g)
  <2>1. JoinGroups(w, {g})
    BY <1>7 DEF WebAddServerGroupClient
  <2>2. \A k : {<<k, w, h>> : h \in {g}} = {<<k, w, g>>}
    OBVIOUS
  <2> QED
    BY <1>3, <1>4, <2>1, <2>2 DEF JoinGroups
<1>8. CASE WebDelServerGroupClient(w, g)
  BY <1>5, <1>6, <1>8 DEF WebDelServerGroupClient
<1>9. CASE ChatAddGroup(w, g)
  BY <1>4, <1>9 DEF ChatAddGroup
<1>10. CASE ChatDelGroup(w, g)
  BY <1>6, <1>10 DEF ChatDelGroup
<1> QED
  BY <1>7, <1>8, <1>9, <1>10

\* setclientchannelgroup.
LEMMA ChannelGroupSet ==
    ASSUME IInv, NEW c \in ChannelIds, NEW w \in Ids, NEW g \in ChannelGroupIds, SetClientChannelGroup(c, w, g)
    PROVE  IInv'
<1>1. /\ Command /\ g \in DOMAIN cgroups /\ c \in channels /\ Known(w)
      /\ assigned' = AssignmentsWith(c, w, g) /\ given' = GivenAssignment(given, c, w, g)
      /\ UNCHANGED <<groups, people, channels, chperms, ccperms, stale, outdated, orphans>>
  BY DEF SetClientChannelGroup
<1>2. UNCHANGED <<sgroups, cgroups, account, online, saved, clients, rows, target>>
  BY <1>1 DEF groups, people
<1>3. /\ \A d, x, h : <<"assigned", d, x, h>> \in given' <=>
             \/ <<"assigned", d, x, h>> \in given /\ <<d, x>> # <<c, w>>
             \/ d = c /\ x = w /\ h = g /\ c \in channels
      /\ \A k : k # "assigned" => Same(k)
      /\ given' \subseteq given \union {<<"assigned", c, w, g>>}
  BY <1>1, GivenAssignmentIs DEF Same
<1>4. Same("account") /\ Same("own account") /\ Same("client") /\ Same("own") /\ Same("own, restarted")
      /\ Same("in channel")
  BY <1>3
<1>5. \A x \in Ids : Known(x) => Known(x)'
  BY <1>2, KnownKept
<1>6. AssignedGiven' /\ AssignedLast' /\ DOMAIN assigned' \subseteq ChannelIds \X Ids
  BY <1>1, <1>2, <1>3, <1>5, AssignmentMade
<1>7. PermittedGiven' /\ PermittedLast'
  BY <1>1, <1>4, <1>5, PermittedFrame DEF IInv
<1>8. Groups' /\ Persons' /\ Counts' /\ Inside'
  BY <1>1, <1>2, <1>6, CountsKept DEF IInv, Groups, Persons, Inside
<1>9. AccountRights' /\ ClientRights' /\ TargetRights'
  BY <1>1, <1>2, <1>4, AccountFrame, ClientFrame, TargetFrame DEF IInv
<1>10. Given'
  <2>1. <<"assigned", c, w, g>> \in Rights
    BY SomeRights
  <2> QED
    BY <1>3, <2>1 DEF IInv, Given, Rights
<1> QED
  BY <1>6, <1>7, <1>8, <1>9, <1>10 DEF IInv, ChannelRights

\* tokenuse.
LEMMA TokenUsed ==
    ASSUME IInv, NEW w \in Ids, NEW key, TokenUse(w, key)
    PROVE  IInv'
<1> DEFINE g == key.group
           c == key.channel
           h == key.channelGroup
           k == IF HasAccount(w) THEN "account" ELSE "client"
           gave == GivenAssignment(given, c, w, h)
<1>1. /\ Command /\ w \in Actors /\ g \in DOMAIN sgroups /\ h \in DOMAIN cgroups
      /\ assigned' = AssignmentsWith(c, w, h) /\ given' = gave \union {<<k, w, g>>}
      /\ UNCHANGED <<groups, clients, rows, target, channels, chperms, ccperms, orphans>>
  BY DEF TokenUse
<1>2. IF HasAccount(w)
      THEN /\ account' = [account EXCEPT ![w].groups = @ \union {g}]
           /\ UNCHANGED <<online, saved, stale, outdated>>
      ELSE SaveGroups(w, online[w].groups \union {g}) /\ UNCHANGED account
  BY DEF TokenUse
<1>3. UNCHANGED <<sgroups, cgroups>> /\ g \in ServerGroupIds /\ h \in ChannelGroupIds
  BY <1>1 DEF groups, IInv, Groups, GroupTable
<1>4. /\ \A d, x, y : <<"assigned", d, x, y>> \in gave <=>
             \/ <<"assigned", d, x, y>> \in given /\ <<d, x>> # <<c, w>>
             \/ d = c /\ x = w /\ y = h /\ c \in channels
      /\ \A j, x, y : <<j, x, y>> \in gave <=> <<j, x, y>> \in given /\ (j = "assigned" => x # c \/ y # w)
      /\ \A j, x, y, z : j # "assigned" => (<<j, x, y, z>> \in gave <=> <<j, x, y, z>> \in given)
      /\ c \in channels => gave \subseteq given \union {<<"assigned", c, w, h>>}
      /\ c \notin channels => gave \subseteq given
  BY GivenAssignmentIs
<1> HIDE DEF gave, g, c, h
<1>5. k \in {"account", "client"}
  OBVIOUS
<1> HIDE DEF k
<1>6. /\ \A d, x, y : <<"assigned", d, x, y>> \in given' <=>
             \/ <<"assigned", d, x, y>> \in given /\ <<d, x>> # <<c, w>>
             \/ d = c /\ x = w /\ y = h /\ c \in channels
      /\ \A x, y : <<k, x, y>> \in given' <=> <<k, x, y>> \in given \/ (x = w /\ y = g)
  BY <1>1, <1>4, <1>5
<1>7. ASSUME NEW j, j \notin {k, "assigned"} PROVE Same(j)
  BY <1>1, <1>4, <1>7 DEF Same
<1>8. /\ Same("own account") /\ Same("own") /\ Same("own, restarted") /\ Same("in channel")
      /\ k = "account" => Same("client")
      /\ k = "client" => Same("account")
  BY <1>5, <1>7
<1>9. Given'
  <2>1. <<k, w, g>> \in Rights /\ Given
    BY <1>3, <1>5, SomeRights DEF IInv
  <2>2. c \in channels => <<"assigned", c, w, h>> \in Rights
    BY <1>3, SomeRights DEF IInv, Inside
  <2>3. given' \subseteq Rights
    BY <1>1, <1>4, <2>1, <2>2 DEF Given
  <2> QED
    BY <2>3 DEF Given, Rights
<1>10. Persons' /\ AccountRights' /\ ClientRights' /\ \A x \in Ids : Known(x) => Known(x)'
  <2>1. CASE HasAccount(w)
    <3>1. k = "account"
      BY <2>1 DEF k
    <3>2. Persons' /\ AccountRights' /\ \A x \in Ids : Known(x) => Known(x)'
      BY <1>1, <1>2, <1>3, <1>6, <1>8, <2>1, <3>1, AccountJoins
    <3>3. ClientRights'
      BY <1>2, <1>3, <1>8, <2>1, <3>1, ClientFrame DEF IInv
    <3> QED
      BY <3>2, <3>3
  <2>2. CASE ~ HasAccount(w)
    <3>1. k = "client" /\ IsOnline(w)
      BY <1>1, <2>2 DEF k, Actors
    <3>2. Persons' /\ ClientRights' /\ \A x \in Ids : Known(x) => Known(x)'
      BY <1>1, <1>2, <1>3, <1>6, <2>2, <3>1, ClientJoins
    <3>3. AccountRights'
      BY <1>2, <1>3, <1>8, <2>2, <3>1, AccountFrame DEF IInv
    <3> QED
      BY <3>2, <3>3
  <2> QED
    BY <2>1, <2>2
<1>11. Known(w)
  BY <1>1 DEF Actors, Known, KnownWithoutTarget
<1>12. AssignedGiven' /\ AssignedLast' /\ DOMAIN assigned' \subseteq ChannelIds \X Ids
  BY <1>1, <1>3, <1>6, <1>10, <1>11, AssignmentMade
<1>13. PermittedGiven' /\ PermittedLast'
  BY <1>1, <1>8, <1>10, PermittedFrame DEF IInv
<1>14. Groups' /\ Counts' /\ Inside' /\ TargetRights'
  BY <1>1, <1>3, <1>8, <1>12, CountsKept, TargetFrame DEF IInv, Groups, Inside
<1> QED
  BY <1>9, <1>10, <1>12, <1>13, <1>14 DEF IInv, ChannelRights

\* channelgroupdel takes the assignments to the group and no other that was given.
LEMMA ChannelGroupDeleted ==
    ASSUME IInv, NEW g \in ChannelGroupIds, NEW force, ChannelGroupDel(g, force)
    PROVE  IInv'
<1>1. /\ Command /\ g \in DOMAIN cgroups /\ DOMAIN cgroups # {g}
      /\ cgroups' = WithoutGroup(cgroups, g) /\ assigned' = ChannelGroupAssignmentsAfter(g)
      /\ given' = given \ {<<"assigned", c, w, g>> : c \in ChannelIds, w \in Ids}
      /\ UNCHANGED <<sgroups, people, channels, chperms, ccperms, stale, outdated, orphans>>
  BY DEF ChannelGroupDel
<1>2. UNCHANGED <<account, online, saved, clients, rows, target>>
  BY <1>1 DEF people
<1>3. GroupTable(cgroups', ChannelGroupIds) /\ DOMAIN cgroups' = DOMAIN cgroups \ {g}
  BY <1>1, TableOps DEF IInv, Groups
<1>4. /\ \A k : k # "assigned" => Same(k)
      /\ \A c, w, h : <<"assigned", c, w, h>> \in given' <=>
            <<"assigned", c, w, h>> \in given /\ ~ (h = g /\ c \in ChannelIds /\ w \in Ids)
  BY <1>1 DEF Same
<1>5. Same("account") /\ Same("own account") /\ Same("client") /\ Same("own") /\ Same("own, restarted")
      /\ Same("in channel")
  BY <1>4
<1>6. \A x \in Ids : Known(x) => Known(x)'
  BY <1>2, KnownKept
<1>7. /\ DOMAIN assigned' = {x \in DOMAIN assigned : /\ assigned[x] \in DOMAIN cgroups \ {g} /\ x[1] \in channels
                                                     /\ x[2] \in {w \in Ids : Known(w)}}
      /\ \A k \in DOMAIN assigned' : assigned'[k] = assigned[k]
  BY <1>1 DEF ChannelGroupAssignmentsAfter, NormalizeAssignments
<1>8. ChannelRights /\ Inside /\ AssignedLast /\ AssignedGiven
  BY DEF IInv, ChannelRights
<1>9. AssignedGiven' /\ AssignedLast'
  <2>1. ASSUME NEW k \in DOMAIN assigned'
        PROVE  /\ k \in DOMAIN assigned /\ assigned'[k] = assigned[k] /\ assigned[k] \in DOMAIN cgroups'
               /\ k \in orphans => k \in orphans'
               /\ <<"assigned", k[1], k[2], assigned[k]>> \in given =>
                      k \in orphans' \/ <<"assigned", k[1], k[2], assigned[k]>> \in given'
    BY <1>1, <1>3, <1>4, <1>7
  <2>2. ASSUME NEW c, NEW w, NEW h, <<"assigned", c, w, h>> \in given'
        PROVE  <<"assigned", c, w, h>> \in given /\ c \in channels' /\ Known(w)' /\ <<c, w>> \in DOMAIN assigned'
    <3>1. <<"assigned", c, w, h>> \in given /\ ~ (h = g /\ c \in ChannelIds /\ w \in Ids)
      BY <1>4, <2>2
    <3>2. c \in channels /\ w \in Ids /\ Known(w) /\ <<c, w>> \in DOMAIN assigned /\ assigned[<<c, w>>] = h
      BY <1>8, <3>1 DEF AssignedLast
    <3>3. h \in DOMAIN cgroups \ {g}
      BY <1>8, <3>1, <3>2 DEF AssignedGiven, Inside
    <3> QED
      BY <1>1, <1>6, <1>7, <3>1, <3>2, <3>3
  <2> QED
    BY <1>8, <2>1, <2>2, AssignedLess
<1>10. PermittedGiven' /\ PermittedLast'
  BY <1>1, <1>5, <1>6, <1>8, PermittedFrame
<1>11. Groups' /\ Persons' /\ Counts'
  BY <1>1, <1>2, <1>3, CountsKept DEF IInv, Groups, Persons
<1>12. Inside'
  BY <1>1, <1>7, <1>8 DEF Inside
<1>13. AccountRights' /\ ClientRights' /\ TargetRights'
  BY <1>1, <1>2, <1>5, AccountFrame, ClientFrame, TargetFrame DEF IInv
<1>14. Given'
  BY <1>1, RightsOnly DEF IInv, Given
<1> QED
  BY <1>9, <1>10, <1>11, <1>12, <1>13, <1>14 DEF IInv, ChannelRights

\* normalize_query_account_groups: an account keeps its groups of ids, and gets a
\* default when it has none.
LEMMA NormalizedAccounts ==
    ASSUME Persons, NEW ids \in SUBSET ServerGroupIds, account' = NormalizeQueryAccountGroups(account, ids),
           NEW w \in Ids
    PROVE  /\ account[w] = NoAccount => account'[w] = NoAccount
           /\ account[w] # NoAccount =>
                 /\ account'[w] # NoAccount /\ IsAccount(account'[w])
                 /\ account'[w].perms = account[w].perms
                 /\ account'[w].groups \subseteq ids
                 /\ account'[w].groups \ {6, 7} \subseteq account[w].groups \intersect ids
                 /\ account[w].groups \intersect ids \subseteq account'[w].groups
<1>1. account'[w] = IF account[w] = NoAccount THEN NoAccount
                    ELSE Account(OrDefault(w, account[w].groups \intersect ids, ids), account[w].perms)
  BY DEF NormalizeQueryAccountGroups
<1>2. ASSUME account[w] # NoAccount PROVE IsPermissionMap(account[w].perms)
  BY <1>2 DEF Persons, IsAccount
<1> DEFINE gs == OrDefault(w, account[w].groups \intersect ids, ids)
<1>3. /\ gs \subseteq ids /\ gs \ {6, 7} \subseteq account[w].groups \intersect ids
      /\ account[w].groups \intersect ids \subseteq gs
  BY Defaults DEF OrDefault
<1> HIDE DEF gs
<1>4. ASSUME account[w] # NoAccount
      PROVE  /\ account'[w] = Account(gs, account[w].perms) /\ account'[w].groups = gs
             /\ account'[w].perms = account[w].perms /\ account'[w] # NoAccount /\ IsAccount(account'[w])
  <2>1. account'[w] = Account(gs, account[w].perms) /\ gs \subseteq ServerGroupIds
    BY <1>1, <1>3, <1>4 DEF gs
  <2> QED
    BY <1>2, <1>4, <2>1, Records
<1> QED
  BY <1>1, <1>3, <1>4

\* servergroupdel takes the memberships of accounts and of clients that are online,
\* and makes those in the saved lists stale.
LEMMA ServerGroupDeleted ==
    ASSUME IInv, NEW g \in ServerGroupIds, NEW force, ServerGroupDel(g, force)
    PROVE  IInv'
<1> DEFINE left == DOMAIN sgroups \ {g}
           named == {<<p, g>> : p \in {x \in People : HasSaved(x) /\ g \in saved[x].groups}}
<1>1. /\ Command /\ g \in DOMAIN sgroups /\ left # {}
      /\ sgroups' = WithoutGroup(sgroups, g)
      /\ account' = NormalizeQueryAccountGroups(account, left)
      /\ online' = NormalizeOnlineClientGroups(online, left)
      /\ given' = given \ {<<k, w, g>> : k \in {"account", "client"}, w \in Ids}
      /\ stale' = stale \union named /\ outdated' = {o \in outdated : o[2] # g}
      /\ UNCHANGED <<cgroups, saved, clients, rows, target, inside, orphans>>
  BY DEF ServerGroupDel
<1>2. UNCHANGED <<channels, chperms, assigned, ccperms>>
  BY <1>1 DEF inside
<1>3. GroupTable(sgroups', ServerGroupIds) /\ DOMAIN sgroups' = left /\ left \subseteq ServerGroupIds
  <2>1. GroupTable(sgroups, ServerGroupIds)
    BY DEF IInv, Groups
  <2>2. left \subseteq ServerGroupIds /\ DOMAIN sgroups # {g}
    BY <1>1, <2>1 DEF GroupTable
  <2> QED
    BY <1>1, <2>1, <2>2, TableOps
<1>4. /\ \A k : k \notin {"account", "client"} => Same(k)
      /\ \A w, h : <<"account", w, h>> \in given' <=> <<"account", w, h>> \in given /\ ~ (h = g /\ w \in Ids)
      /\ \A w, h : <<"client", w, h>> \in given' <=> <<"client", w, h>> \in given /\ ~ (h = g /\ w \in Ids)
  BY <1>1 DEF Same
<1>5. Same("own account") /\ Same("own") /\ Same("own, restarted") /\ Same("assigned") /\ Same("in channel")
  BY <1>4
<1>6. Persons /\ AccountRights /\ ClientRights
  BY DEF IInv
<1>7. ASSUME NEW w \in Ids
      PROVE  /\ account[w] = NoAccount => account'[w] = NoAccount
             /\ account[w] # NoAccount =>
                   /\ account'[w] # NoAccount /\ IsAccount(account'[w])
                   /\ account'[w].perms = account[w].perms
                   /\ account'[w].groups \subseteq left
                   /\ account'[w].groups \ {6, 7} \subseteq account[w].groups \ {g}
                   /\ account[w].groups \ {g} \subseteq account'[w].groups
  <2>1. account[w] # NoAccount => account[w].groups \subseteq DOMAIN sgroups
    BY <1>6 DEF AccountRights
  <2>2. left \in SUBSET ServerGroupIds
    BY <1>3
  <2> QED
    BY <1>1, <1>6, <2>1, <2>2, NormalizedAccounts
<1>8. ASSUME NEW p \in People
      PROVE  /\ online[p] = NoGroups => online'[p] = NoGroups
             /\ online[p] # NoGroups =>
                   /\ online'[p] # NoGroups /\ IsList(online'[p])
                   /\ online'[p].groups = online[p].groups \intersect left
  <2>1. online'[p] = IF online[p] = NoGroups THEN NoGroups ELSE List(online[p].groups \intersect left)
    BY <1>1 DEF NormalizeOnlineClientGroups
  <2>2. online[p].groups \intersect left \subseteq ServerGroupIds
    BY <1>3
  <2> QED
    BY <2>1, <2>2, Records
<1>9. Persons'
  <2>1. /\ account' = [w \in Ids |-> account'[w]] /\ online' = [p \in People |-> online'[p]]
    BY <1>1 DEF NormalizeQueryAccountGroups, NormalizeOnlineClientGroups
  <2> QED
    BY <1>1, <1>6, <1>7, <1>8, <2>1 DEF Persons
<1>10. AccountRights'
  <2>1. \A x \in Ids : account'[x] # NoAccount =>
          /\ account'[x].groups \subseteq DOMAIN sgroups'
          /\ \A h \in account'[x].groups \ {6, 7} : <<"account", x, h>> \in given'
    BY <1>3, <1>4, <1>6, <1>7 DEF AccountRights
  <2>2. \A x, h : <<"account", x, h>> \in given' =>
          x \in Ids /\ account'[x] # NoAccount /\ h \in account'[x].groups
    BY <1>4, <1>6, <1>7 DEF AccountRights
  <2>3. \A x, n : <<"own account", x, n>> \in given' =>
          x \in Ids /\ account'[x] # NoAccount /\ n \in DOMAIN account'[x].perms
    BY <1>5, <1>6, <1>7 DEF AccountRights, Same
  <2> QED
    BY <2>1, <2>2, <2>3 DEF AccountRights
<1>11. ClientRights'
  <2>1. stale \subseteq People \X ServerGroupIds /\ outdated \subseteq stale /\ People \subseteq Ids
    BY <1>6 DEF ClientRights, Ids
  <2>2. /\ stale' \subseteq People \X ServerGroupIds /\ outdated' \subseteq stale'
        /\ \A o : o \in stale => o \in stale'
        /\ \A p, h : <<p, h>> \in outdated /\ h # g => <<p, h>> \in outdated'
        /\ \A p \in People : saved[p] # NoGroups /\ g \in saved[p].groups => <<p, g>> \in stale'
    BY <1>1, <2>1 DEF HasSaved
  <2>3. \A p \in People : online'[p] # NoGroups =>
          \A h \in online'[p].groups \ {8} : <<"client", p, h>> \in given' \/ <<p, h>> \in outdated'
    BY <1>4, <1>6, <1>8, <2>2 DEF ClientRights
  <2>4. \A p \in People : saved'[p] # NoGroups =>
          \A h \in saved'[p].groups \ {8} : <<"client", p, h>> \in given' \/ <<p, h>> \in stale'
    BY <1>1, <1>4, <1>6, <2>2 DEF ClientRights
  <2>5. ASSUME NEW p, NEW h, <<"client", p, h>> \in given'
        PROVE  /\ p \in People /\ saved'[p] # NoGroups /\ h \in saved'[p].groups
               /\ online'[p] # NoGroups => h \in online'[p].groups
               /\ h \in DOMAIN sgroups'
    <3>1. <<"client", p, h>> \in given /\ (h # g \/ p \notin Ids)
      BY <1>4, <2>5
    <3>2. /\ p \in People /\ saved[p] # NoGroups /\ h \in saved[p].groups
          /\ online[p] # NoGroups => h \in online[p].groups
          /\ h \in DOMAIN sgroups
      BY <1>6, <3>1 DEF ClientRights
    <3> QED
      BY <1>1, <1>3, <1>8, <2>1, <3>1, <3>2
  <2> QED
    BY <2>2, <2>3, <2>4, <2>5 DEF ClientRights
<1>12. \A x \in Ids : Known(x) => Known(x)'
  <2>1. \A x \in Ids : HasAccount(x) => HasAccount(x)'
    BY <1>7 DEF HasAccount
  <2>2. \A x : IsOnline(x) => IsOnline(x)'
    BY <1>8 DEF IsOnline
  <2> QED
    BY <1>1, <2>1, <2>2 DEF Known, KnownWithoutTarget, HasSaved
<1>13. TargetRights' /\ ChannelRights'
  BY <1>1, <1>2, <1>5, <1>12, TargetFrame, ChannelFrame DEF IInv
<1>14. Groups' /\ Counts' /\ Inside'
  BY <1>1, <1>2, <1>3, CountsKept DEF IInv, Groups, Inside
<1>15. Given'
  BY <1>1, RightsOnly DEF IInv, Given
<1> QED
  BY <1>9, <1>10, <1>11, <1>13, <1>14, <1>15 DEF IInv

-----------------------------------------------------------------------------
(* The commands on the permissions of accounts, clients and channels.      *)

\* clientaddperm and clientdelperm for somebody with an account.
LEMMA AccountPermissions ==
    ASSUME IInv, NEW w \in Ids, NEW n \in EditNames,
           (\E a \in EditAssignments : AccountAddPerm(w, n, a)) \/ AccountDelPerm(w, n)
    PROVE  IInv'
<1>1. /\ Edit /\ HasAccount(w)
      /\ UNCHANGED <<groups, online, saved, clients, rows, target, inside, stale, outdated, orphans>>
  BY DEF AccountAddPerm, AccountDelPerm
<1>2. UNCHANGED <<sgroups, cgroups, channels, chperms, assigned, ccperms>>
  BY <1>1 DEF groups, inside
<1>3. Persons /\ AccountRights /\ Given /\ account[w] # NoAccount /\ IsPermissionMap(account[w].perms)
  BY <1>1, AccountOf DEF IInv, HasAccount
<1>4. PICK m : /\ IsPermissionMap(m) /\ account' = [account EXCEPT ![w].perms = m]
               /\ Given' /\ \A k : k # "own account" => Same(k)
               /\ \A x, y : x # w => (<<"own account", x, y>> \in given' <=> <<"own account", x, y>> \in given)
               /\ \A y : <<"own account", w, y>> \in given' => y \in DOMAIN m
  <2>1. ASSUME NEW a \in EditAssignments, AccountAddPerm(w, n, a)
        PROVE  LET m == With(account[w].perms, n, a)
               IN  /\ IsPermissionMap(m) /\ account' = [account EXCEPT ![w].perms = m]
                   /\ Given' /\ \A k : k # "own account" => Same(k)
                   /\ \A x, y : x # w => (<<"own account", x, y>> \in given' <=> <<"own account", x, y>> \in given)
                   /\ \A y : <<"own account", w, y>> \in given' => y \in DOMAIN m
    <3> DEFINE m == With(account[w].perms, n, a)
    <3>1. /\ account' = [account EXCEPT ![w].perms = m] /\ given' = given \union {<<"own account", w, n>>}
      BY <2>1 DEF AccountAddPerm
    <3>2. IsPermissionMap(m) /\ DOMAIN m = DOMAIN account[w].perms \union {n} /\ n \in Names
      BY <1>3, EditInputs, MapOps
    <3>3. Given'
      BY <1>3, <3>1, <3>2, SomeRights, RightsOnly DEF Given
    <3> HIDE DEF m
    <3>4. \A k : k # "own account" => Same(k)
      BY <3>1 DEF Same
    <3>5. \A x, y : <<"own account", x, y>> \in given' <=> <<"own account", x, y>> \in given \/ (x = w /\ y = n)
      BY <3>1
    <3>6. \A y : <<"own account", w, y>> \in given => y \in DOMAIN account[w].perms
      BY <1>3 DEF AccountRights
    <3> QED
      BY <3>1, <3>2, <3>3, <3>4, <3>5, <3>6 DEF m
  <2>2. ASSUME AccountDelPerm(w, n)
        PROVE  LET m == Without(account[w].perms, n)
               IN  /\ IsPermissionMap(m) /\ account' = [account EXCEPT ![w].perms = m]
                   /\ Given' /\ \A k : k # "own account" => Same(k)
                   /\ \A x, y : x # w => (<<"own account", x, y>> \in given' <=> <<"own account", x, y>> \in given)
                   /\ \A y : <<"own account", w, y>> \in given' => y \in DOMAIN m
    <3> DEFINE m == Without(account[w].perms, n)
    <3>1. /\ account' = [account EXCEPT ![w].perms = m] /\ given' = given \ {<<"own account", w, n>>}
      BY <2>2 DEF AccountDelPerm
    <3>2. IsPermissionMap(m) /\ DOMAIN m = DOMAIN account[w].perms \ {n}
      BY <1>3, MapOps
    <3>3. Given'
      BY <1>3, <3>1, RightsOnly DEF Given
    <3> HIDE DEF m
    <3>4. \A k : k # "own account" => Same(k)
      BY <3>1 DEF Same
    <3>5. \A x, y : <<"own account", x, y>> \in given' <=> <<"own account", x, y>> \in given /\ ~ (x = w /\ y = n)
      BY <3>1
    <3>6. \A y : <<"own account", w, y>> \in given => y \in DOMAIN account[w].perms
      BY <1>3 DEF AccountRights
    <3> QED
      BY <3>1, <3>2, <3>3, <3>4, <3>5, <3>6 DEF m
  <2>3. CASE \E a \in EditAssignments : AccountAddPerm(w, n, a)
    <3>1. PICK a \in EditAssignments : AccountAddPerm(w, n, a)
      BY <2>3
    <3> QED
      BY <2>1, <3>1
  <2>4. CASE AccountDelPerm(w, n)
    BY <2>2, <2>4
  <2> QED
    BY <2>3, <2>4
<1> DEFINE b == Account(account[w].groups, m)
<1>5. account' = [account EXCEPT ![w] = b] /\ IsAccount(b) /\ b.groups = account[w].groups /\ b.perms = m
  BY <1>1, <1>4, AccountOf, Records
<1> HIDE DEF b
<1>6. Same("account") /\ Same("client") /\ Same("own") /\ Same("own, restarted") /\ Same("assigned")
      /\ Same("in channel")
  BY <1>4
<1>7. /\ b.groups \subseteq DOMAIN sgroups
      /\ \A g \in b.groups \ {6, 7} : <<"account", w, g>> \in given'
      /\ \A g : <<"account", w, g>> \in given' => g \in b.groups
      /\ \A x, y : x # w => (<<"account", x, y>> \in given' <=> <<"account", x, y>> \in given)
  BY <1>3, <1>5, <1>6 DEF AccountRights, Same
<1>8. clients \subseteq clients' /\ clients' \subseteq rows' /\ rows' \subseteq Ids
  BY <1>1, <1>3 DEF Persons
<1>9. \A y : <<"own account", w, y>> \in given' => y \in DOMAIN b.perms
  BY <1>4, <1>5
<1>10. Persons' /\ AccountRights' /\ \A x \in Ids : Known(x) => Known(x)'
  BY <1>1, <1>2, <1>4, <1>5, <1>7, <1>8, <1>9, AccountChanges
<1>11. ClientRights' /\ TargetRights' /\ ChannelRights'
  BY <1>1, <1>2, <1>6, <1>10, ClientFrame, TargetFrame, ChannelFrame DEF IInv
<1>12. Groups' /\ Counts' /\ Inside'
  BY <1>1, <1>2, GroupsKept, InsideKept
<1> QED
  BY <1>4, <1>10, <1>11, <1>12 DEF IInv

\* The target of p becomes t.
LEMMA TargetSet ==
    ASSUME Persons, NEW p \in People, NEW t, t = NoTarget \/ IsTarget(t),
           target' = [target EXCEPT ![p] = t], UNCHANGED <<account, online, saved, clients, rows>>
    PROVE  /\ Persons' /\ target'[p] = t
           /\ \A x \in People : x # p => target'[x] = target[x]
<1>1. target = [x \in People |-> target[x]]
  BY DEF Persons
<1>2. target' = [x \in People |-> target'[x]] /\ target'[p] = t /\ \A x \in People : x # p => target'[x] = target[x]
  BY <1>1
<1> QED
  BY <1>2 DEF Persons

\* clientaddperm for a client without an account.
LEMMA ClientPermitted ==
    ASSUME IInv, NEW p \in People, NEW n \in EditNames, NEW a \in EditAssignments, ClientAddPerm(p, n, a)
    PROVE  IInv'
<1> DEFINE old == IF target[p] = NoTarget THEN NoPermissions ELSE target[p].perms
           m   == With(old, n, a)
<1>0. Persons /\ TargetRights /\ Given
  BY DEF IInv
<1>1. /\ Edit
      /\ target[p] # NoTarget => target[p].server = 1
      /\ given' = given \union {<<"own", p, n>>}
      /\ UNCHANGED <<groups, account, online, saved, clients, rows, inside, stale, outdated, orphans>>
  BY DEF ClientAddPerm
<1>2. target' = [target EXCEPT ![p] = Target(1, m)]
  <2>1. target = [x \in People |-> target[x]]
    BY <1>0 DEF Persons
  <2> QED
    BY <2>1 DEF ClientAddPerm
<1>3. UNCHANGED <<sgroups, cgroups, channels, chperms, assigned, ccperms>>
  BY <1>1 DEF groups, inside
<1>4. IsPermissionMap(old)
  BY <1>0, EmptyMap DEF Persons, IsTarget
<1> HIDE DEF old
<1>5. IsPermissionMap(m) /\ DOMAIN m = DOMAIN old \union {n} /\ n \in Names
  BY <1>4, EditInputs, MapOps
<1> HIDE DEF m
<1>6. /\ IsTarget(Target(1, m)) /\ Target(1, m) # NoTarget
      /\ Target(1, m).perms = m /\ Target(1, m).server = 1
  BY <1>5, Records
<1>7. Persons' /\ target'[p] = Target(1, m) /\ \A x \in People : x # p => target'[x] = target[x]
  BY <1>0, <1>1, <1>2, <1>6, TargetSet
<1>8. /\ \A k : k # "own" => Same(k)
      /\ \A x, y : <<"own", x, y>> \in given' <=> <<"own", x, y>> \in given \/ (x = p /\ y = n)
  BY <1>1 DEF Same
<1>9. Same("account") /\ Same("own account") /\ Same("client") /\ Same("own, restarted") /\ Same("assigned")
      /\ Same("in channel")
  BY <1>8
<1>10. TargetRights'
  <2>1. \A y \in DOMAIN old : y \in DOMAIN m
    BY <1>5
  <2>2. ASSUME NEW x, NEW y, <<"own", x, y>> \in given'
        PROVE  /\ x \in People /\ target'[x] # NoTarget /\ target'[x].server = 1
               /\ y \in DOMAIN target'[x].perms
    <3>1. CASE x = p /\ y = n
      BY <1>5, <1>6, <1>7, <3>1
    <3>2. CASE <<"own", x, y>> \in given
      <4>1. /\ x \in People /\ target[x] # NoTarget /\ target[x].server = 1 /\ y \in DOMAIN target[x].perms
        BY <1>0, <3>2 DEF TargetRights
      <4>2. x = p => y \in DOMAIN old
        BY <4>1 DEF old
      <4> QED
        BY <1>6, <1>7, <2>1, <4>1, <4>2
    <3> QED
      BY <1>8, <2>2, <3>1, <3>2
  <2>3. ASSUME NEW x, NEW y, <<"own, restarted", x, y>> \in given'
        PROVE  x \in People /\ target'[x] # NoTarget /\ y \in DOMAIN target'[x].perms
    <3>1. x \in People /\ target[x] # NoTarget /\ y \in DOMAIN target[x].perms
      BY <1>0, <1>9, <2>3 DEF TargetRights, Same
    <3>2. x = p => y \in DOMAIN old
      BY <3>1 DEF old
    <3> QED
      BY <1>6, <1>7, <2>1, <3>1, <3>2
  <2> QED
    BY <2>2, <2>3 DEF TargetRights
<1>11. \A x \in Ids : Known(x) => Known(x)'
  BY <1>1, <1>6, <1>7 DEF Known, KnownWithoutTarget, HasAccount, IsOnline, HasSaved
<1>12. AccountRights' /\ ClientRights' /\ ChannelRights'
  BY <1>1, <1>3, <1>9, <1>11, AccountFrame, ClientFrame, ChannelFrame DEF IInv
<1>13. Groups' /\ Counts' /\ Inside'
  BY <1>1, <1>3, GroupsKept, InsideKept
<1>14. Given'
  <2>1. p \in Ids
    BY DEF Ids
  <2> QED
    BY <1>0, <1>1, <1>5, <2>1, SomeRights, RightsOnly DEF Given
<1> QED
  BY <1>7, <1>10, <1>12, <1>13, <1>14 DEF IInv

\* clientdelperm for a client without an account.  A client that the deletion makes
\* unknown loses its rights in channels to the orphans.
LEMMA ClientForbidden ==
    ASSUME IInv, NEW p \in People, NEW n \in EditNames, ClientDelPerm(p, n)
    PROVE  IInv'
<1> DEFINE unknown == DOMAIN target[p].perms = {n} /\ ~ KnownWithoutTarget(p)
           t == IF DOMAIN target[p].perms = {n} THEN NoTarget
                ELSE Target(target[p].server, Without(target[p].perms, n))
<1>0. Persons /\ TargetRights /\ Given /\ ChannelRights
  BY DEF IInv
<1>1. /\ Edit /\ target[p] # NoTarget /\ n \in DOMAIN target[p].perms
      /\ given' = (given \ {<<"own", p, n>>, <<"own, restarted", p, n>>})
                      \ (IF unknown THEN GivenInChannelsTo(p) ELSE {})
      /\ orphans' = orphans \union (IF unknown THEN PairsOf(p) ELSE {})
      /\ UNCHANGED <<groups, account, online, saved, clients, rows, inside, stale, outdated>>
  BY DEF ClientDelPerm
<1>2. target' = [target EXCEPT ![p] = t]
  <2>1. target = [x \in People |-> target[x]]
    BY <1>0 DEF Persons
  <2> QED
    BY <2>1 DEF ClientDelPerm
<1>3. UNCHANGED <<sgroups, cgroups, channels, chperms, assigned, ccperms>>
  BY <1>1 DEF groups, inside
<1>4. IsTarget(target[p])
  BY <1>0, <1>1 DEF Persons
<1>5. /\ DOMAIN target[p].perms = {n} => t = NoTarget
      /\ DOMAIN target[p].perms # {n} =>
            /\ IsTarget(t) /\ t # NoTarget /\ t.server = target[p].server
            /\ DOMAIN t.perms = DOMAIN target[p].perms \ {n}
  <2>1. ASSUME DOMAIN target[p].perms # {n}
        PROVE  /\ IsTarget(t) /\ t # NoTarget /\ t.server = target[p].server
               /\ DOMAIN t.perms = DOMAIN target[p].perms \ {n}
    <3> DEFINE m == Without(target[p].perms, n)
    <3>1. IsPermissionMap(target[p].perms) /\ target[p].server \in {0, 1}
      BY <1>4 DEF IsTarget
    <3>2. IsPermissionMap(m) /\ DOMAIN m = DOMAIN target[p].perms \ {n}
      BY <3>1, MapOps
    <3>3. t = Target(target[p].server, m)
      BY <2>1
    <3> HIDE DEF m, t
    <3>4. DOMAIN m # {}
      BY <1>1, <2>1, <3>2
    <3> QED
      BY <3>1, <3>2, <3>3, <3>4, Records
  <2> QED
    BY <2>1
<1> HIDE DEF t
<1>6. Persons' /\ target'[p] = t /\ \A x \in People : x # p => target'[x] = target[x]
  BY <1>0, <1>1, <1>2, <1>5, TargetSet
<1> HIDE DEF unknown
<1>7. /\ \A k : k \notin {"own", "own, restarted", "assigned", "in channel"} => Same(k)
      /\ \A k \in {"own", "own, restarted"} : \A x, y :
             <<k, x, y>> \in given' => <<k, x, y>> \in given /\ ~ (x = p /\ y = n)
      /\ \A k \in {"assigned", "in channel"} : \A c, w, y :
             <<k, c, w, y>> \in given' <=> <<k, c, w, y>> \in given /\ ~ (unknown /\ w = p)
  <2>1. \A r : r \in given' <=> /\ r \in given /\ r # <<"own", p, n>> /\ r # <<"own, restarted", p, n>>
                                /\ ~ (unknown /\ r[1] \in {"assigned", "in channel"} /\ r[3] = p)
    BY <1>1 DEF GivenInChannelsTo
  <2>2. ASSUME NEW k, k \notin {"own", "own, restarted", "assigned", "in channel"} PROVE Same(k)
    BY <2>1, <2>2 DEF Same
  <2>3. ASSUME NEW k \in {"own", "own, restarted"}, NEW x, NEW y, <<k, x, y>> \in given'
        PROVE  <<k, x, y>> \in given /\ ~ (x = p /\ y = n)
    BY <2>1, <2>3
  <2>4. ASSUME NEW k \in {"assigned", "in channel"}, NEW c, NEW w, NEW y
        PROVE  <<k, c, w, y>> \in given' <=> <<k, c, w, y>> \in given /\ ~ (unknown /\ w = p)
    <3> DEFINE r == <<k, c, w, y>>
    <3>1. r[1] = k /\ r[3] = w /\ <<"own", p, n>>[1] = "own" /\ <<"own, restarted", p, n>>[1] = "own, restarted"
      OBVIOUS
    <3>2. k # "own" /\ k # "own, restarted"
      OBVIOUS
    <3> HIDE DEF r
    <3>3. r \in given' <=> r \in given /\ ~ (unknown /\ r[3] = p)
      BY <2>1, <3>1, <3>2
    <3> QED
      BY <3>1, <3>3 DEF r
  <2> QED
    BY <2>2, <2>3, <2>4
<1>8. Same("account") /\ Same("own account") /\ Same("client")
  BY <1>7
<1>9. TargetRights'
  <2>1. ASSUME NEW k \in {"own", "own, restarted"}, NEW x, NEW y, <<k, x, y>> \in given'
        PROVE  /\ x \in People /\ target'[x] # NoTarget /\ y \in DOMAIN target'[x].perms
               /\ k = "own" => target'[x].server = 1
    <3>1. <<k, x, y>> \in given /\ ~ (x = p /\ y = n)
      BY <1>7, <2>1
    <3>2. /\ x \in People /\ target[x] # NoTarget /\ y \in DOMAIN target[x].perms
          /\ k = "own" => target[x].server = 1
      BY <1>0, <3>1 DEF TargetRights
    <3> QED
      BY <1>5, <1>6, <3>1, <3>2
  <2> QED
    BY <2>1 DEF TargetRights
<1>10. ASSUME NEW x \in Ids, Known(x), ~ (unknown /\ x = p) PROVE Known(x)'
  <2>1. KnownWithoutTarget(x) => KnownWithoutTarget(x)'
    BY <1>1 DEF KnownWithoutTarget, HasAccount, IsOnline, HasSaved
  <2>2. CASE x # p
    BY <1>6, <1>10, <2>1, <2>2 DEF Known
  <2>3. CASE x = p /\ DOMAIN target[p].perms # {n}
    BY <1>5, <1>6, <2>3 DEF Known
  <2>4. CASE x = p /\ KnownWithoutTarget(p)
    BY <2>1, <2>4 DEF Known
  <2> QED
    BY <1>10, <2>2, <2>3, <2>4 DEF unknown
<1>11. orphans \subseteq orphans'
       /\ \A k \in DOMAIN assigned \union DOMAIN ccperms : unknown /\ k[2] = p => k \in orphans'
  BY <1>1 DEF PairsOf
<1>12. AssignedGiven' /\ AssignedLast'
  <2>1. ASSUME NEW k \in DOMAIN assigned'
        PROVE  /\ k \in DOMAIN assigned /\ assigned'[k] = assigned[k] /\ assigned[k] \in DOMAIN cgroups'
               /\ k \in orphans => k \in orphans'
               /\ <<"assigned", k[1], k[2], assigned[k]>> \in given =>
                      k \in orphans' \/ <<"assigned", k[1], k[2], assigned[k]>> \in given'
    BY <1>0, <1>3, <1>7, <1>11 DEF ChannelRights, AssignedGiven
  <2>2. ASSUME NEW c, NEW w, NEW g, <<"assigned", c, w, g>> \in given'
        PROVE  <<"assigned", c, w, g>> \in given /\ c \in channels' /\ Known(w)' /\ <<c, w>> \in DOMAIN assigned'
    <3>1. <<"assigned", c, w, g>> \in given /\ ~ (unknown /\ w = p)
      BY <1>7, <2>2
    <3>2. c \in channels /\ w \in Ids /\ Known(w) /\ <<c, w>> \in DOMAIN assigned
      BY <1>0, <3>1 DEF ChannelRights, AssignedLast
    <3> QED
      BY <1>3, <1>10, <3>1, <3>2
  <2> QED
    BY <1>0, <2>1, <2>2, AssignedLess
<1>13. PermittedGiven' /\ PermittedLast'
  <2>1. ASSUME NEW k \in DOMAIN ccperms'
        PROVE  /\ k \in DOMAIN ccperms /\ ccperms'[k] = ccperms[k]
               /\ k \in orphans => k \in orphans'
               /\ \A y : <<"in channel", k[1], k[2], y>> \in given =>
                      k \in orphans' \/ <<"in channel", k[1], k[2], y>> \in given'
    BY <1>3, <1>7, <1>11
  <2>2. ASSUME NEW c, NEW w, NEW y, <<"in channel", c, w, y>> \in given'
        PROVE  <<"in channel", c, w, y>> \in given /\ c \in channels' /\ Known(w)' /\ <<c, w>> \in DOMAIN ccperms'
    <3>1. <<"in channel", c, w, y>> \in given /\ ~ (unknown /\ w = p)
      BY <1>7, <2>2
    <3>2. c \in channels /\ w \in Ids /\ Known(w) /\ <<c, w>> \in DOMAIN ccperms
      BY <1>0, <3>1 DEF ChannelRights, PermittedLast
    <3> QED
      BY <1>3, <1>10, <3>1, <3>2
  <2> QED
    BY <1>0, <2>1, <2>2, PermittedLess
<1>14. AccountRights' /\ ClientRights'
  BY <1>1, <1>3, <1>8, AccountFrame, ClientFrame DEF IInv
<1>15. Groups' /\ Counts' /\ Inside'
  BY <1>1, <1>3, GroupsKept, InsideKept
<1>16. Given'
  BY <1>0, <1>1, RightsOnly DEF Given
<1> QED
  BY <1>6, <1>9, <1>12, <1>13, <1>14, <1>15, <1>16 DEF IInv, ChannelRights

\* A step that leaves everything alone but the permissions of channels, the
\* channels, which may become more, and the counters.
LEMMA ChannelsOnly ==
    ASSUME IInv, Counts', UNCHANGED <<groups, people, assigned, ccperms, history>>,
           channels \subseteq channels', channels' \subseteq ChannelIds,
           DOMAIN chperms' = ChannelIds, \A c \in ChannelIds : IsPermissionMap(chperms'[c])
    PROVE  IInv'
<1>1. UNCHANGED <<sgroups, cgroups, account, online, saved, clients, rows, target, assigned, ccperms,
                  given, stale, outdated, orphans>>
  BY DEF groups, people, history
<1>2. Groups' /\ Persons'
  BY <1>1 DEF IInv, Groups, Persons
<1>3. Inside'
  BY <1>1 DEF IInv, Inside
<1>4. Given' /\ \A k : Same(k)
  BY <1>1, NothingGiven DEF IInv
<1>5. \A w \in Ids : Known(w) => Known(w)'
  BY <1>1, KnownKept
<1>6. AccountRights' /\ ClientRights' /\ TargetRights'
  BY <1>1, <1>4, AccountFrame, ClientFrame, TargetFrame DEF IInv
<1>7. ChannelRights'
  BY <1>1, <1>4, <1>5, ChannelFrame DEF IInv
<1> QED
  BY <1>2, <1>3, <1>4, <1>6, <1>7 DEF IInv

\* channeladdperm, channeldelperm, channelcreate, and the panic of clientaddperm.
LEMMA ChannelPermissions ==
    ASSUME IInv, NEW c \in ChannelIds,
           \/ \E n \in EditNames, a \in EditAssignments : ChannelAddPerm(c, n, a)
           \/ \E n \in EditNames : ChannelDelPerm(c, n)
           \/ ChannelCreate(c)
           \/ \E p \in People : ClientAddPermPanics(p)
    PROVE  IInv'
<1>0. /\ channels \subseteq ChannelIds /\ DOMAIN chperms = ChannelIds
      /\ \A d \in ChannelIds : IsPermissionMap(chperms[d])
  BY DEF IInv, Inside
<1>1. ASSUME NEW m, IsPermissionMap(m), Edit \/ Uncounted, chperms' = [chperms EXCEPT ![c] = m],
             channels' \in {channels, channels \union {c}},
             UNCHANGED <<groups, people, assigned, ccperms, given, stale, outdated, orphans>>
      PROVE  IInv'
  <2>1. DOMAIN chperms' = ChannelIds /\ \A d \in ChannelIds : IsPermissionMap(chperms'[d])
    BY <1>0, <1>1
  <2>2. Counts'
    BY <1>1, CountsKept DEF IInv
  <2>3. UNCHANGED <<groups, people, assigned, ccperms, history>>
    BY <1>1 DEF history
  <2>4. channels \subseteq channels' /\ channels' \subseteq ChannelIds
    BY <1>0, <1>1
  <2> QED
    BY <2>1, <2>2, <2>3, <2>4, ChannelsOnly
<1>2. ASSUME NEW n \in EditNames, NEW a \in EditAssignments, ChannelAddPerm(c, n, a) PROVE IInv'
  <2>1. IsPermissionMap(With(chperms[c], n, a))
    BY <1>0, EditInputs, MapOps
  <2>2. /\ Edit /\ chperms' = [chperms EXCEPT ![c] = With(chperms[c], n, a)] /\ channels' = channels
        /\ UNCHANGED <<groups, people, assigned, ccperms, given, stale, outdated, orphans>>
    BY <1>0, <1>2 DEF ChannelAddPerm
  <2> QED
    BY <1>1, <2>1, <2>2
<1>3. ASSUME NEW n \in EditNames, ChannelDelPerm(c, n) PROVE IInv'
  <2>1. IsPermissionMap(Without(chperms[c], n))
    BY <1>0, MapOps
  <2>2. /\ Edit /\ chperms' = [chperms EXCEPT ![c] = Without(chperms[c], n)] /\ channels' = channels
        /\ UNCHANGED <<groups, people, assigned, ccperms, given, stale, outdated, orphans>>
    BY <1>0, <1>3 DEF ChannelDelPerm
  <2> QED
    BY <1>1, <2>1, <2>2
<1>4. CASE ChannelCreate(c)
  BY <1>1, <1>4, EmptyMap DEF ChannelCreate
<1>5. ASSUME NEW p \in People, ClientAddPermPanics(p) PROVE IInv'
  <2>1. Counts'
    BY <1>5, EditsAssumption DEF IInv, Counts, ClientAddPermPanics
  <2>2. UNCHANGED <<groups, people, assigned, ccperms, history>> /\ UNCHANGED <<channels, chperms>>
    BY <1>5 DEF ClientAddPermPanics, inside
  <2> QED
    BY <1>0, <2>1, <2>2, ChannelsOnly
<1> QED
  BY <1>2, <1>3, <1>4, <1>5

\* What a step that changes only the permissions in channels keeps.
LEMMA PermittedOnly ==
    ASSUME IInv, Edit, UNCHANGED <<groups, people, channels, chperms, assigned, stale, outdated, orphans>>,
           \A k : k # "in channel" => Same(k), Given', DOMAIN ccperms' \subseteq ChannelIds \X Ids,
           PermittedGiven', PermittedLast'
    PROVE  IInv'
<1>1. UNCHANGED <<sgroups, cgroups, account, online, saved, clients, rows, target>>
  BY DEF groups, people
<1>2. Same("account") /\ Same("own account") /\ Same("client") /\ Same("own") /\ Same("own, restarted")
      /\ Same("assigned")
  OBVIOUS
<1>3. Groups' /\ Counts'
  BY <1>1, GroupsKept
<1>4. Persons' /\ Inside'
  BY <1>1 DEF IInv, Persons, Inside
<1>5. \A w \in Ids : Known(w) => Known(w)'
  BY <1>1, KnownKept
<1>6. AccountRights' /\ ClientRights' /\ TargetRights'
  BY <1>1, <1>2, AccountFrame, ClientFrame, TargetFrame DEF IInv
<1>7. AssignedGiven' /\ AssignedLast'
  BY <1>1, <1>2, <1>5, AssignedFrame DEF IInv
<1> QED
  BY <1>3, <1>4, <1>6, <1>7 DEF IInv, ChannelRights

\* channelclientaddperm.
LEMMA InChannelPermitted ==
    ASSUME IInv, NEW c \in ChannelIds, NEW w \in Ids, NEW n \in EditNames, NEW a,
           ChannelClientAddPerm(c, w, n, a)
    PROVE  IInv'
<1> DEFINE m == With(ChannelClientPermissions(c, w), n, a)
<1>1. /\ Edit /\ c \in channels /\ Known(w) /\ given' = given \union {<<"in channel", c, w, n>>}
      /\ UNCHANGED <<groups, people, channels, chperms, assigned, stale, outdated, orphans>>
  BY DEF ChannelClientAddPerm
<1>2. /\ DOMAIN ccperms' = DOMAIN ccperms \union {<<c, w>>} /\ ccperms'[<<c, w>>] = m
      /\ \A k \in DOMAIN ccperms : k # <<c, w>> => ccperms'[k] = ccperms[k]
  BY DEF ChannelClientAddPerm
<1>3. /\ DOMAIN m = DOMAIN ChannelClientPermissions(c, w) \union {n}
      /\ <<c, w>> \in DOMAIN ccperms => ChannelClientPermissions(c, w) = ccperms[<<c, w>>]
      /\ <<c, w>> \notin DOMAIN ccperms => DOMAIN ChannelClientPermissions(c, w) = {}
  BY EmptyMap DEF With, ChannelClientPermissions
<1> HIDE DEF m
<1>4. /\ \A k : k # "in channel" => Same(k)
      /\ \A d, x, y : <<"in channel", d, x, y>> \in given' <=>
             <<"in channel", d, x, y>> \in given \/ (d = c /\ x = w /\ y = n)
  BY <1>1 DEF Same
<1>5. n \in Names /\ Given
  BY EditInputs DEF IInv
<1>6. Given'
  BY <1>1, <1>5, SomeRights, RightsOnly DEF Given
<1>7. PermittedGiven /\ PermittedLast /\ DOMAIN ccperms \subseteq ChannelIds \X Ids
  BY DEF IInv, ChannelRights, Inside
<1>8. \A x \in Ids : Known(x) => Known(x)'
  BY <1>1, KnownKept DEF people
<1>9. PermittedGiven'
  <2> SUFFICES ASSUME NEW k \in DOMAIN ccperms', NEW y \in DOMAIN ccperms'[k]
               PROVE  k \in orphans' \/ <<"in channel", k[1], k[2], y>> \in given'
    BY DEF PermittedGiven
  <2>1. CASE k = <<c, w>> /\ y = n
    <3>1. k[1] = c /\ k[2] = w
      BY <2>1
    <3> QED
      BY <1>4, <2>1, <3>1
  <2>2. CASE k # <<c, w>> \/ y # n
    <3>1. k \in DOMAIN ccperms /\ y \in DOMAIN ccperms[k]
      BY <1>2, <1>3, <2>2
    <3>2. k \in orphans \/ <<"in channel", k[1], k[2], y>> \in given
      BY <1>7, <3>1 DEF PermittedGiven
    <3> QED
      BY <1>1, <1>4, <3>2
  <2> QED
    BY <2>1, <2>2
<1>10. PermittedLast'
  <2> SUFFICES ASSUME NEW d, NEW x, NEW y, <<"in channel", d, x, y>> \in given'
               PROVE  /\ d \in channels' /\ x \in Ids /\ Known(x)'
                      /\ <<d, x>> \in DOMAIN ccperms' /\ y \in DOMAIN ccperms'[<<d, x>>]
    BY DEF PermittedLast
  <2>1. CASE d = c /\ x = w /\ y = n
    BY <1>1, <1>2, <1>3, <1>8, <2>1
  <2>2. CASE <<"in channel", d, x, y>> \in given
    <3>1. /\ d \in channels /\ x \in Ids /\ Known(x)
          /\ <<d, x>> \in DOMAIN ccperms /\ y \in DOMAIN ccperms[<<d, x>>]
      BY <1>7, <2>2 DEF PermittedLast
    <3>2. y \in DOMAIN ccperms'[<<d, x>>]
      BY <1>2, <1>3, <3>1
    <3> QED
      BY <1>1, <1>2, <1>8, <3>1, <3>2
  <2>3. <<"in channel", d, x, y>> \in given \/ (d = c /\ x = w /\ y = n)
    BY <1>4
  <2> QED
    BY <2>1, <2>2, <2>3
<1>11. DOMAIN ccperms' \subseteq ChannelIds \X Ids
  BY <1>2, <1>7
<1> QED
  BY <1>1, <1>4, <1>6, <1>9, <1>10, <1>11, PermittedOnly

\* channelclientdelperm, of the last permission too.
LEMMA InChannelForbidden ==
    ASSUME IInv, NEW c \in ChannelIds, NEW w \in Ids, NEW n \in EditNames, ChannelClientDelPerm(c, w, n)
    PROVE  IInv'
<1> DEFINE m == Without(ChannelClientPermissions(c, w), n)
<1>1. /\ Edit /\ c \in channels /\ n \in DOMAIN ChannelClientPermissions(c, w)
      /\ given' = given \ {<<"in channel", c, w, n>>}
      /\ UNCHANGED <<groups, people, channels, chperms, assigned, stale, outdated, orphans>>
  BY DEF ChannelClientDelPerm
<1>2. <<c, w>> \in DOMAIN ccperms /\ ChannelClientPermissions(c, w) = ccperms[<<c, w>>]
  BY <1>1, EmptyMap DEF ChannelClientPermissions
<1>3. /\ DOMAIN ccperms' = {x \in DOMAIN ccperms : x = <<c, w>> => m # NoPermissions}
      /\ <<c, w>> \in DOMAIN ccperms' => ccperms'[<<c, w>>] = m
      /\ \A k \in DOMAIN ccperms' : k # <<c, w>> => ccperms'[k] = ccperms[k]
  BY DEF ChannelClientDelPerm
<1>4. DOMAIN m = DOMAIN ccperms[<<c, w>>] \ {n} /\ (m = NoPermissions => DOMAIN m = {})
  BY <1>2, EmptyMap DEF Without
<1> HIDE DEF m
<1>5. /\ \A k : k # "in channel" => Same(k)
      /\ \A d, x, y : <<"in channel", d, x, y>> \in given' <=>
             <<"in channel", d, x, y>> \in given /\ ~ (d = c /\ x = w /\ y = n)
  BY <1>1 DEF Same
<1>6. Given'
  BY <1>1, RightsOnly DEF IInv, Given
<1>7. PermittedGiven /\ PermittedLast /\ DOMAIN ccperms \subseteq ChannelIds \X Ids
  BY DEF IInv, ChannelRights, Inside
<1>8. \A x \in Ids : Known(x) => Known(x)'
  BY <1>1, KnownKept DEF people
<1>9. PermittedGiven'
  <2> SUFFICES ASSUME NEW k \in DOMAIN ccperms', NEW y \in DOMAIN ccperms'[k]
               PROVE  k \in orphans' \/ <<"in channel", k[1], k[2], y>> \in given'
    BY DEF PermittedGiven
  <2>1. /\ k \in DOMAIN ccperms /\ y \in DOMAIN ccperms[k] /\ (k = <<c, w>> => y # n)
        /\ k = <<k[1], k[2]>>
    BY <1>3, <1>4, <1>7
  <2>2. k \in orphans \/ <<"in channel", k[1], k[2], y>> \in given
    BY <1>7, <2>1 DEF PermittedGiven
  <2> QED
    BY <1>1, <1>5, <2>1, <2>2
<1>10. PermittedLast'
  <2> SUFFICES ASSUME NEW d, NEW x, NEW y, <<"in channel", d, x, y>> \in given'
               PROVE  /\ d \in channels' /\ x \in Ids /\ Known(x)'
                      /\ <<d, x>> \in DOMAIN ccperms' /\ y \in DOMAIN ccperms'[<<d, x>>]
    BY DEF PermittedLast
  <2>1. <<"in channel", d, x, y>> \in given /\ ~ (d = c /\ x = w /\ y = n)
    BY <1>5
  <2>2. /\ d \in channels /\ x \in Ids /\ Known(x)
        /\ <<d, x>> \in DOMAIN ccperms /\ y \in DOMAIN ccperms[<<d, x>>]
    BY <1>7, <2>1 DEF PermittedLast
  <2>3. <<d, x>> \in DOMAIN ccperms' /\ y \in DOMAIN ccperms'[<<d, x>>]
    <3>1. CASE <<d, x>> = <<c, w>>
      BY <1>3, <1>4, <2>1, <2>2, <3>1
    <3>2. CASE <<d, x>> # <<c, w>>
      BY <1>3, <2>2, <3>2
    <3> QED
      BY <3>1, <3>2
  <2> QED
    BY <1>1, <1>8, <2>2, <2>3
<1>11. DOMAIN ccperms' \subseteq ChannelIds \X Ids
  BY <1>3, <1>7
<1> QED
  BY <1>1, <1>5, <1>6, <1>9, <1>10, <1>11, PermittedOnly

-----------------------------------------------------------------------------
(* Channels, clients and accounts come and go.                             *)

\* The rights in channels that a step takes, of one channel or of one holder.
LEMMA GivenInLess ==
    ASSUME NEW c
    PROVE  /\ given' = given \ GivenIn(c) =>
                  /\ \A k : k \notin {"assigned", "in channel"} => Same(k)
                  /\ \A k \in {"assigned", "in channel"} : \A d, w, y :
                         <<k, d, w, y>> \in given' <=> <<k, d, w, y>> \in given /\ d # c
           /\ given' = given \ GivenInChannelsTo(c) =>
                  /\ \A k : k \notin {"assigned", "in channel"} => Same(k)
                  /\ \A k \in {"assigned", "in channel"} : \A d, w, y :
                         <<k, d, w, y>> \in given' <=> <<k, d, w, y>> \in given /\ w # c
<1>1. ASSUME given' = given \ GivenIn(c)
      PROVE  /\ \A k : k \notin {"assigned", "in channel"} => Same(k)
             /\ \A k \in {"assigned", "in channel"} : \A d, w, y :
                    <<k, d, w, y>> \in given' <=> <<k, d, w, y>> \in given /\ d # c
  <2>1. \A r : r \in given' <=> r \in given /\ ~ (r[1] \in {"assigned", "in channel"} /\ r[2] = c)
    BY <1>1 DEF GivenIn
  <2>2. ASSUME NEW k, k \notin {"assigned", "in channel"} PROVE Same(k)
    BY <2>1, <2>2 DEF Same
  <2>3. ASSUME NEW k \in {"assigned", "in channel"}, NEW d, NEW w, NEW y
        PROVE  <<k, d, w, y>> \in given' <=> <<k, d, w, y>> \in given /\ d # c
    <3> DEFINE r == <<k, d, w, y>>
    <3>1. r[1] = k /\ r[2] = d /\ r[3] = w
      OBVIOUS
    <3> HIDE DEF r
    <3>2. r \in given' <=> r \in given /\ d # c
      BY <2>1, <3>1
    <3> QED
      BY <3>2 DEF r
  <2> QED
    BY <2>2, <2>3
<1>2. ASSUME given' = given \ GivenInChannelsTo(c)
      PROVE  /\ \A k : k \notin {"assigned", "in channel"} => Same(k)
             /\ \A k \in {"assigned", "in channel"} : \A d, w, y :
                    <<k, d, w, y>> \in given' <=> <<k, d, w, y>> \in given /\ w # c
  <2>1. \A r : r \in given' <=> r \in given /\ ~ (r[1] \in {"assigned", "in channel"} /\ r[3] = c)
    BY <1>2 DEF GivenInChannelsTo
  <2>2. ASSUME NEW k, k \notin {"assigned", "in channel"} PROVE Same(k)
    BY <2>1, <2>2 DEF Same
  <2>3. ASSUME NEW k \in {"assigned", "in channel"}, NEW d, NEW w, NEW y
        PROVE  <<k, d, w, y>> \in given' <=> <<k, d, w, y>> \in given /\ w # c
    <3> DEFINE r == <<k, d, w, y>>
    <3>1. r[1] = k /\ r[2] = d /\ r[3] = w
      OBVIOUS
    <3> HIDE DEF r
    <3>2. r \in given' <=> r \in given /\ w # c
      BY <2>1, <3>1
    <3> QED
      BY <3>2 DEF r
  <2> QED
    BY <2>2, <2>3
<1> QED
  BY <1>1, <1>2

\* A channel goes, with the rights in it, or without them: then they are orphans.
LEMMA ChannelGone ==
    ASSUME IInv, NEW c \in ChannelIds, ChannelDelete(c) \/ DesktopChannelDelete(c)
    PROVE  IInv'
<1>0. ChannelRights /\ Inside /\ Given
  BY DEF IInv
<1>1. /\ Command /\ c \in channels /\ c # 1 /\ channels' = channels \ {c}
      /\ chperms' = [chperms EXCEPT ![c] = NoPermissions] /\ given' = given \ GivenIn(c)
      /\ UNCHANGED <<groups, people, stale, outdated>>
  BY DEF ChannelDelete, DesktopChannelDelete
<1>2. UNCHANGED <<sgroups, cgroups, account, online, saved, clients, rows, target>>
  BY <1>1 DEF groups, people
<1>3. /\ DOMAIN assigned' \subseteq DOMAIN assigned /\ DOMAIN ccperms' \subseteq DOMAIN ccperms
      /\ \A k \in DOMAIN assigned' : assigned'[k] = assigned[k]
      /\ \A k \in DOMAIN ccperms' : ccperms'[k] = ccperms[k]
      /\ \A k \in DOMAIN assigned : k[1] # c => k \in DOMAIN assigned'
      /\ \A k \in DOMAIN ccperms : k[1] # c => k \in DOMAIN ccperms'
      /\ \A k \in DOMAIN assigned' : (k[1] = c \/ k \in orphans) => k \in orphans'
      /\ \A k \in DOMAIN ccperms' : (k[1] = c \/ k \in orphans) => k \in orphans'
  <2>1. CASE ChannelDelete(c)
    BY <2>1 DEF ChannelDelete, AssignedWithout
  <2>2. CASE DesktopChannelDelete(c)
    BY <2>2 DEF DesktopChannelDelete, PairsIn
  <2> QED
    BY <2>1, <2>2
<1>4. /\ \A k : k \notin {"assigned", "in channel"} => Same(k)
      /\ \A k \in {"assigned", "in channel"} : \A d, w, y :
             <<k, d, w, y>> \in given' <=> <<k, d, w, y>> \in given /\ d # c
  BY <1>1, GivenInLess
<1>5. Same("account") /\ Same("own account") /\ Same("client") /\ Same("own") /\ Same("own, restarted")
  BY <1>4
<1>6. \A x \in Ids : Known(x) => Known(x)'
  BY <1>2, KnownKept
<1>7. AssignedGiven' /\ AssignedLast'
  <2>1. ASSUME NEW k \in DOMAIN assigned'
        PROVE  /\ k \in DOMAIN assigned /\ assigned'[k] = assigned[k] /\ assigned[k] \in DOMAIN cgroups'
               /\ k \in orphans => k \in orphans'
               /\ <<"assigned", k[1], k[2], assigned[k]>> \in given =>
                      k \in orphans' \/ <<"assigned", k[1], k[2], assigned[k]>> \in given'
    <3>1. k \in DOMAIN assigned /\ assigned'[k] = assigned[k] /\ ((k[1] = c \/ k \in orphans) => k \in orphans')
      BY <1>3
    <3>2. assigned[k] \in DOMAIN cgroups'
      BY <1>0, <1>2, <3>1 DEF ChannelRights, AssignedGiven
    <3> QED
      BY <1>4, <3>1, <3>2
  <2>2. ASSUME NEW d, NEW w, NEW g, <<"assigned", d, w, g>> \in given'
        PROVE  <<"assigned", d, w, g>> \in given /\ d \in channels' /\ Known(w)' /\ <<d, w>> \in DOMAIN assigned'
    <3>1. <<"assigned", d, w, g>> \in given /\ d # c
      BY <1>4, <2>2
    <3>2. d \in channels /\ w \in Ids /\ Known(w) /\ <<d, w>> \in DOMAIN assigned
      BY <1>0, <3>1 DEF ChannelRights, AssignedLast
    <3>3. <<d, w>> \in DOMAIN assigned'
      BY <1>3, <3>1, <3>2
    <3> QED
      BY <1>1, <1>6, <3>1, <3>2, <3>3
  <2> QED
    BY <1>0, <2>1, <2>2, AssignedLess
<1>8. PermittedGiven' /\ PermittedLast'
  <2>1. ASSUME NEW k \in DOMAIN ccperms'
        PROVE  /\ k \in DOMAIN ccperms /\ ccperms'[k] = ccperms[k]
               /\ k \in orphans => k \in orphans'
               /\ \A n : <<"in channel", k[1], k[2], n>> \in given =>
                      k \in orphans' \/ <<"in channel", k[1], k[2], n>> \in given'
    <3>1. k \in DOMAIN ccperms /\ ccperms'[k] = ccperms[k] /\ ((k[1] = c \/ k \in orphans) => k \in orphans')
      BY <1>3
    <3> QED
      BY <1>4, <3>1
  <2>2. ASSUME NEW d, NEW w, NEW n, <<"in channel", d, w, n>> \in given'
        PROVE  <<"in channel", d, w, n>> \in given /\ d \in channels' /\ Known(w)' /\ <<d, w>> \in DOMAIN ccperms'
    <3>1. <<"in channel", d, w, n>> \in given /\ d # c
      BY <1>4, <2>2
    <3>2. d \in channels /\ w \in Ids /\ Known(w) /\ <<d, w>> \in DOMAIN ccperms
      BY <1>0, <3>1 DEF ChannelRights, PermittedLast
    <3>3. <<d, w>> \in DOMAIN ccperms'
      BY <1>3, <3>1, <3>2
    <3> QED
      BY <1>1, <1>6, <3>1, <3>2, <3>3
  <2> QED
    BY <1>0, <2>1, <2>2, PermittedLess
<1>9. Inside'
  <2>1. DOMAIN chperms' = ChannelIds /\ \A d \in ChannelIds : IsPermissionMap(chperms'[d])
    BY <1>0, <1>1, EmptyMap DEF Inside
  <2> QED
    BY <1>0, <1>1, <1>3, <2>1 DEF Inside
<1>10. Groups' /\ Counts'
  BY <1>1, <1>2, GroupsKept
<1>11. Persons'
  BY <1>2 DEF IInv, Persons
<1>12. AccountRights' /\ ClientRights' /\ TargetRights'
  BY <1>1, <1>2, <1>5, AccountFrame, ClientFrame, TargetFrame DEF IInv
<1>13. Given'
  BY <1>0, <1>1, RightsOnly DEF Given
<1> QED
  BY <1>7, <1>8, <1>9, <1>10, <1>11, <1>12, <1>13 DEF IInv, ChannelRights

\* A client connects with the list saved for it, or disconnects.
LEMMA ClientsComeAndGo ==
    ASSUME IInv, NEW p \in People, Connect(p) \/ Disconnect(p)
    PROVE  IInv'
<1>0. Persons /\ ClientRights /\ p \in Ids
  BY DEF IInv, Ids
<1>1. /\ Uncounted /\ UNCHANGED <<groups, account, saved, target, inside, given, stale, orphans>>
  BY DEF Connect, Disconnect
<1>2. UNCHANGED <<sgroups, cgroups, channels, chperms, assigned, ccperms>>
  BY <1>1 DEF groups, inside
<1>3. Given' /\ \A k : Same(k)
  BY <1>1, NothingGiven DEF IInv
<1>4. /\ online = [q \in People |-> online[q]] /\ clients \subseteq rows /\ rows \subseteq Ids
      /\ \A q \in People : (saved[q] = NoGroups \/ IsList(saved[q])) /\ (online[q] # NoGroups => q \in clients)
  BY <1>0 DEF Persons
<1> SUFFICES Persons' /\ ClientRights' /\ \A x \in Ids : Known(x) => Known(x)'
  <2>1. Groups' /\ Counts' /\ Inside'
    BY <1>1, <1>2, GroupsKept, InsideKept
  <2>2. AccountRights' /\ TargetRights'
    BY <1>1, <1>2, <1>3, AccountFrame, TargetFrame DEF IInv
  <2>3. ChannelRights'
    BY <1>1, <1>2, <1>3, ChannelFrame DEF IInv
  <2> QED
    BY <1>3, <2>1, <2>2, <2>3 DEF IInv
<1>5. stale \subseteq People \X ServerGroupIds /\ outdated \subseteq stale
  BY <1>0 DEF ClientRights
<1>6. CASE Connect(p)
  <2> DEFINE gs == IF HasSaved(p) /\ saved[p].groups # {} THEN saved[p].groups ELSE {8}
  <2>1. /\ ~ IsOnline(p) /\ online' = [online EXCEPT ![p] = List(gs)]
        /\ clients' = clients \union {p} /\ rows' = rows \union {p}
        /\ outdated' = outdated \union {o \in stale : o[1] = p}
    BY <1>6 DEF Connect
  <2>2. gs \subseteq ServerGroupIds
    BY <1>4, Ranges DEF HasSaved, IsList
  <2>3. \A g \in gs \ {8} : <<"client", p, g>> \in given \/ <<p, g>> \in stale
    BY <1>0 DEF ClientRights, HasSaved
  <2>4. \A g : <<"client", p, g>> \in given => g \in gs
    BY <1>0 DEF ClientRights, HasSaved
  <2> HIDE DEF gs
  <2>5. List(gs) # NoGroups /\ List(gs).groups = gs /\ IsList(List(gs))
    BY <2>2, Records
  <2>6. /\ online' = [q \in People |-> online'[q]] /\ online'[p] = List(gs)
        /\ \A q \in People : q # p => online'[q] = online[q]
    BY <1>4, <2>1
  <2>7. clients' \subseteq rows' /\ rows' \subseteq Ids /\ p \in clients' /\ clients \subseteq clients'
    BY <1>0, <1>4, <2>1
  <2>8. Persons'
    BY <1>0, <1>1, <2>5, <2>6, <2>7 DEF Persons
  <2>9. /\ outdated' \subseteq stale /\ \A o \in outdated : o \in outdated'
        /\ \A g : <<p, g>> \in stale => <<p, g>> \in outdated'
    BY <1>5, <2>1
  <2>10. \A q \in People : online'[q] # NoGroups =>
           \A g \in online'[q].groups \ {8} : <<"client", q, g>> \in given \/ <<q, g>> \in outdated'
    BY <1>0, <2>3, <2>5, <2>6, <2>9 DEF ClientRights
  <2>11. \A q, g : <<"client", q, g>> \in given =>
           q \in People /\ (online'[q] # NoGroups => g \in online'[q].groups)
    BY <1>0, <2>4, <2>5, <2>6 DEF ClientRights
  <2>12. ClientRights'
    BY <1>0, <1>1, <1>2, <1>5, <2>9, <2>10, <2>11 DEF ClientRights
  <2>13. \A x \in Ids : Known(x) => Known(x)'
    <3>1. \A x : IsOnline(x) => IsOnline(x)'
      BY <2>5, <2>6 DEF IsOnline
    <3> QED
      BY <1>1, <2>7, <3>1 DEF Known, KnownWithoutTarget, HasAccount, HasSaved
  <2> QED
    BY <2>8, <2>12, <2>13
<1>7. CASE Disconnect(p)
  <2>1. /\ online' = [online EXCEPT ![p] = NoGroups] /\ outdated' = Keep(outdated, p, {})
        /\ UNCHANGED <<clients, rows>>
    BY <1>7 DEF Disconnect
  <2>2. /\ online' = [q \in People |-> online'[q]] /\ online'[p] = NoGroups
        /\ \A q \in People : q # p => online'[q] = online[q]
    BY <1>4, <2>1
  <2>3. Persons'
    BY <1>0, <1>1, <2>1, <2>2 DEF Persons
  <2>4. outdated' \subseteq stale /\ \A q, g : <<q, g>> \in outdated /\ q # p => <<q, g>> \in outdated'
    BY <1>5, <2>1 DEF Keep
  <2>5. \A q \in People : online'[q] # NoGroups =>
          \A g \in online'[q].groups \ {8} : <<"client", q, g>> \in given \/ <<q, g>> \in outdated'
    BY <1>0, <2>2, <2>4 DEF ClientRights
  <2>6. \A q, g : <<"client", q, g>> \in given =>
          q \in People /\ (online'[q] # NoGroups => g \in online'[q].groups)
    BY <1>0, <2>2 DEF ClientRights
  <2>7. ClientRights'
    BY <1>0, <1>1, <1>2, <1>5, <2>4, <2>5, <2>6 DEF ClientRights
  <2>8. ASSUME NEW x \in Ids, Known(x) PROVE Known(x)'
    <3>1. IsOnline(x) => x \in clients
      BY <1>4 DEF IsOnline
    <3> QED
      BY <1>1, <2>1, <2>8, <3>1 DEF Known, KnownWithoutTarget, HasAccount, HasSaved
  <2> QED
    BY <2>3, <2>7, <2>8
<1> QED
  BY <1>6, <1>7

\* querycreate.
LEMMA AccountMade ==
    ASSUME IInv, NEW w \in Ids, QueryCreate(w)
    PROVE  IInv'
<1> DEFINE gs == DefaultGroups("query-account", DOMAIN sgroups)
           a  == Account(gs, NoPermissions)
<1>0. Persons /\ AccountRights
  BY DEF IInv
<1>1. /\ Command /\ account[w] = NoAccount /\ account' = [account EXCEPT ![w] = a]
      /\ clients' = clients \union {w} /\ rows' = rows \union {w}
      /\ UNCHANGED <<groups, online, saved, target, inside, given, stale, outdated, orphans>>
  BY DEF QueryCreate, HasAccount
<1>2. UNCHANGED <<sgroups, cgroups, channels, chperms, assigned, ccperms>>
  BY <1>1 DEF groups, inside
<1>3. Given' /\ \A k : Same(k)
  BY <1>1, NothingGiven DEF IInv
<1>4. gs \subseteq DOMAIN sgroups /\ gs \subseteq {6, 7} /\ DOMAIN sgroups \subseteq ServerGroupIds
  BY Defaults DEF IInv, Groups, GroupTable
<1> HIDE DEF gs
<1>5. IsAccount(a) /\ a.groups = gs /\ a.perms = NoPermissions
  <2>1. gs \subseteq ServerGroupIds
    BY <1>4
  <2> QED
    BY <2>1, EmptyMap, Records
<1> HIDE DEF a
<1>6. /\ \A g : <<"account", w, g>> \notin given
      /\ \A n : <<"own account", w, n>> \notin given
  BY <1>0, <1>1 DEF AccountRights
<1>7. clients \subseteq clients' /\ clients' \subseteq rows' /\ rows' \subseteq Ids
  BY <1>0, <1>1 DEF Persons
<1>8. Persons' /\ AccountRights' /\ \A x \in Ids : Known(x) => Known(x)'
  BY <1>1, <1>2, <1>4, <1>5, <1>6, <1>7, AccountChanges
<1>9. ClientRights' /\ TargetRights'
  BY <1>1, <1>2, <1>3, ClientFrame, TargetFrame DEF IInv
<1>10. ChannelRights'
  BY <1>1, <1>2, <1>3, <1>8, ChannelFrame DEF IInv
<1>11. Groups' /\ Counts' /\ Inside'
  BY <1>1, <1>2, GroupsKept, InsideKept
<1> QED
  BY <1>3, <1>8, <1>9, <1>10, <1>11 DEF IInv

\* querydelete takes the account, its rights, and the rights of its holder in
\* channels.
LEMMA AccountGone ==
    ASSUME IInv, NEW w \in Ids, QueryDelete(w)
    PROVE  IInv'
<1>0. Persons /\ AccountRights /\ ChannelRights /\ Inside /\ Given
  BY DEF IInv
<1>1. /\ Command /\ account' = [account EXCEPT ![w] = NoAccount]
      /\ assigned' = [k \in {x \in DOMAIN assigned : x[2] # w} |-> assigned[k]]
      /\ ccperms' = [k \in {x \in DOMAIN ccperms : x[2] # w} |-> ccperms[k]]
      /\ given' = given \ GivenToAccount(w) /\ orphans' = {o \in orphans : o[2] # w}
      /\ UNCHANGED <<groups, online, saved, clients, rows, target, channels, chperms, stale, outdated>>
  BY DEF QueryDelete
<1>2. UNCHANGED <<sgroups, cgroups>>
  BY <1>1 DEF groups
<1>3. \A r : r \in given' <=> /\ r \in given
                              /\ ~ (r[1] \in {"account", "own account"} /\ r[2] = w)
                              /\ ~ (r[1] \in {"assigned", "in channel"} /\ r[3] = w)
  BY <1>1 DEF GivenToAccount, GivenInChannelsTo
<1>4. ASSUME NEW k \in {"account", "own account"}, NEW x, NEW y
      PROVE  <<k, x, y>> \in given' <=> <<k, x, y>> \in given /\ x # w
  <2> DEFINE r == <<k, x, y>>
  <2>1. r[1] = k /\ r[2] = x
    OBVIOUS
  <2> HIDE DEF r
  <2>2. r \in given' <=> r \in given /\ x # w
    BY <1>3, <2>1
  <2> QED
    BY <2>2 DEF r
<1>5. ASSUME NEW k \in {"assigned", "in channel"}, NEW d, NEW x, NEW y
      PROVE  <<k, d, x, y>> \in given' <=> <<k, d, x, y>> \in given /\ x # w
  <2> DEFINE r == <<k, d, x, y>>
  <2>1. r[1] = k /\ r[3] = x
    OBVIOUS
  <2> HIDE DEF r
  <2>2. r \in given' <=> r \in given /\ x # w
    BY <1>3, <2>1
  <2> QED
    BY <2>2 DEF r
<1>6. Same("client") /\ Same("own") /\ Same("own, restarted")
  BY <1>3 DEF Same
<1>7. Persons' /\ account'[w] = NoAccount /\ \A x \in Ids : x # w => account'[x] = account[x]
  <2>1. clients \subseteq rows /\ rows \subseteq Ids
    BY <1>0 DEF Persons
  <2> QED
    BY <1>0, <1>1, <2>1, AccountSet
<1>8. AccountRights'
  BY <1>0, <1>2, <1>4, <1>7 DEF AccountRights
<1>9. ASSUME NEW x \in Ids, Known(x), x # w PROVE Known(x)'
  BY <1>1, <1>7, <1>9 DEF Known, KnownWithoutTarget, HasAccount, IsOnline, HasSaved
<1>10. AssignedGiven' /\ AssignedLast'
  <2>1. ASSUME NEW k \in DOMAIN assigned'
        PROVE  /\ k \in DOMAIN assigned /\ assigned'[k] = assigned[k] /\ assigned[k] \in DOMAIN cgroups'
               /\ k \in orphans => k \in orphans'
               /\ <<"assigned", k[1], k[2], assigned[k]>> \in given =>
                      k \in orphans' \/ <<"assigned", k[1], k[2], assigned[k]>> \in given'
    <3>1. k \in DOMAIN assigned /\ assigned'[k] = assigned[k] /\ k[2] # w
      BY <1>1
    <3>2. assigned[k] \in DOMAIN cgroups'
      BY <1>0, <1>2, <3>1 DEF ChannelRights, AssignedGiven
    <3> QED
      BY <1>1, <1>5, <3>1, <3>2
  <2>2. ASSUME NEW d, NEW x, NEW g, <<"assigned", d, x, g>> \in given'
        PROVE  <<"assigned", d, x, g>> \in given /\ d \in channels' /\ Known(x)' /\ <<d, x>> \in DOMAIN assigned'
    <3>1. <<"assigned", d, x, g>> \in given /\ x # w
      BY <1>5, <2>2
    <3>2. d \in channels /\ x \in Ids /\ Known(x) /\ <<d, x>> \in DOMAIN assigned
      BY <1>0, <3>1 DEF ChannelRights, AssignedLast
    <3>3. <<d, x>> \in DOMAIN assigned'
      BY <1>1, <3>1, <3>2
    <3> QED
      BY <1>1, <1>9, <3>1, <3>2, <3>3
  <2> QED
    BY <1>0, <2>1, <2>2, AssignedLess
<1>11. PermittedGiven' /\ PermittedLast'
  <2>1. ASSUME NEW k \in DOMAIN ccperms'
        PROVE  /\ k \in DOMAIN ccperms /\ ccperms'[k] = ccperms[k]
               /\ k \in orphans => k \in orphans'
               /\ \A n : <<"in channel", k[1], k[2], n>> \in given =>
                      k \in orphans' \/ <<"in channel", k[1], k[2], n>> \in given'
    <3>1. k \in DOMAIN ccperms /\ ccperms'[k] = ccperms[k] /\ k[2] # w
      BY <1>1
    <3> QED
      BY <1>1, <1>5, <3>1
  <2>2. ASSUME NEW d, NEW x, NEW n, <<"in channel", d, x, n>> \in given'
        PROVE  <<"in channel", d, x, n>> \in given /\ d \in channels' /\ Known(x)' /\ <<d, x>> \in DOMAIN ccperms'
    <3>1. <<"in channel", d, x, n>> \in given /\ x # w
      BY <1>5, <2>2
    <3>2. d \in channels /\ x \in Ids /\ Known(x) /\ <<d, x>> \in DOMAIN ccperms
      BY <1>0, <3>1 DEF ChannelRights, PermittedLast
    <3>3. <<d, x>> \in DOMAIN ccperms'
      BY <1>1, <3>1, <3>2
    <3> QED
      BY <1>1, <1>9, <3>1, <3>2, <3>3
  <2> QED
    BY <1>0, <2>1, <2>2, PermittedLess
<1>12. Groups' /\ Counts'
  BY <1>1, <1>2, GroupsKept
<1>13. Inside'
  <2>1. DOMAIN assigned' \subseteq DOMAIN assigned /\ DOMAIN ccperms' \subseteq DOMAIN ccperms
    BY <1>1
  <2> QED
    BY <1>0, <1>1, <2>1 DEF Inside
<1>14. ClientRights' /\ TargetRights'
  BY <1>1, <1>2, <1>6, ClientFrame, TargetFrame DEF IInv
<1>15. Given'
  BY <1>0, <1>1, RightsOnly DEF Given
<1> QED
  BY <1>7, <1>8, <1>10, <1>11, <1>12, <1>13, <1>14, <1>15 DEF IInv, ChannelRights

\* clientdbdelete makes the rights of the client in channels orphans.
LEMMA ClientGone ==
    ASSUME IInv, NEW w \in Ids, ClientDbDelete(w)
    PROVE  IInv'
<1>0. Persons /\ ChannelRights /\ Given
  BY DEF IInv
<1>1. /\ Command /\ ~ IsOnline(w) /\ clients' = clients \ {w}
      /\ given' = given \ GivenInChannelsTo(w) /\ orphans' = orphans \union PairsOf(w)
      /\ UNCHANGED <<groups, account, online, saved, rows, target, inside, stale, outdated>>
  BY DEF ClientDbDelete
<1>2. UNCHANGED <<sgroups, cgroups, channels, chperms, assigned, ccperms>>
  BY <1>1 DEF groups, inside
<1>3. /\ \A k : k \notin {"assigned", "in channel"} => Same(k)
      /\ \A k \in {"assigned", "in channel"} : \A d, x, y :
             <<k, d, x, y>> \in given' <=> <<k, d, x, y>> \in given /\ x # w
  BY <1>1, GivenInLess
<1>4. Same("account") /\ Same("own account") /\ Same("client") /\ Same("own") /\ Same("own, restarted")
  BY <1>3
<1>5. Persons'
  BY <1>0, <1>1 DEF Persons, IsOnline
<1>6. ASSUME NEW x \in Ids, Known(x), x # w PROVE Known(x)'
  BY <1>1, <1>6 DEF Known, KnownWithoutTarget, HasAccount, IsOnline, HasSaved
<1>7. \A k \in DOMAIN assigned \union DOMAIN ccperms : (k[2] = w \/ k \in orphans) => k \in orphans'
  BY <1>1 DEF PairsOf
<1>8. AssignedGiven' /\ AssignedLast'
  <2>1. ASSUME NEW k \in DOMAIN assigned'
        PROVE  /\ k \in DOMAIN assigned /\ assigned'[k] = assigned[k] /\ assigned[k] \in DOMAIN cgroups'
               /\ k \in orphans => k \in orphans'
               /\ <<"assigned", k[1], k[2], assigned[k]>> \in given =>
                      k \in orphans' \/ <<"assigned", k[1], k[2], assigned[k]>> \in given'
    <3>1. k \in DOMAIN assigned /\ assigned'[k] = assigned[k]
      BY <1>2
    <3>2. assigned[k] \in DOMAIN cgroups'
      BY <1>0, <1>2, <3>1 DEF ChannelRights, AssignedGiven
    <3> QED
      BY <1>3, <1>7, <3>1, <3>2
  <2>2. ASSUME NEW d, NEW x, NEW g, <<"assigned", d, x, g>> \in given'
        PROVE  <<"assigned", d, x, g>> \in given /\ d \in channels' /\ Known(x)' /\ <<d, x>> \in DOMAIN assigned'
    <3>1. <<"assigned", d, x, g>> \in given /\ x # w
      BY <1>3, <2>2
    <3>2. d \in channels /\ x \in Ids /\ Known(x) /\ <<d, x>> \in DOMAIN assigned
      BY <1>0, <3>1 DEF ChannelRights, AssignedLast
    <3> QED
      BY <1>2, <1>6, <3>1, <3>2
  <2> QED
    BY <1>0, <2>1, <2>2, AssignedLess
<1>9. PermittedGiven' /\ PermittedLast'
  <2>1. ASSUME NEW k \in DOMAIN ccperms'
        PROVE  /\ k \in DOMAIN ccperms /\ ccperms'[k] = ccperms[k]
               /\ k \in orphans => k \in orphans'
               /\ \A n : <<"in channel", k[1], k[2], n>> \in given =>
                      k \in orphans' \/ <<"in channel", k[1], k[2], n>> \in given'
    <3>1. k \in DOMAIN ccperms /\ ccperms'[k] = ccperms[k]
      BY <1>2
    <3> QED
      BY <1>3, <1>7, <3>1
  <2>2. ASSUME NEW d, NEW x, NEW n, <<"in channel", d, x, n>> \in given'
        PROVE  <<"in channel", d, x, n>> \in given /\ d \in channels' /\ Known(x)' /\ <<d, x>> \in DOMAIN ccperms'
    <3>1. <<"in channel", d, x, n>> \in given /\ x # w
      BY <1>3, <2>2
    <3>2. d \in channels /\ x \in Ids /\ Known(x) /\ <<d, x>> \in DOMAIN ccperms
      BY <1>0, <3>1 DEF ChannelRights, PermittedLast
    <3> QED
      BY <1>2, <1>6, <3>1, <3>2
  <2> QED
    BY <1>0, <2>1, <2>2, PermittedLess
<1>10. Groups' /\ Counts' /\ Inside'
  BY <1>1, <1>2, GroupsKept, InsideKept
<1>11. AccountRights' /\ ClientRights' /\ TargetRights'
  BY <1>1, <1>2, <1>4, AccountFrame, ClientFrame, TargetFrame DEF IInv
<1>12. Given'
  BY <1>0, <1>1, RightsOnly DEF Given
<1> QED
  BY <1>5, <1>8, <1>9, <1>10, <1>11, <1>12 DEF IInv, ChannelRights

-----------------------------------------------------------------------------
(* Reset and restart.                                                      *)

\* The tables are the seeds, and nothing has been given.
Fresh ==
    /\ sgroups = SeedServerGroups /\ cgroups = SeedChannelGroups
    /\ account = [w \in Ids |-> account[w]] /\ online = [p \in People |-> online[p]]
    /\ \A w \in Ids : account[w] \in {NoAccount, Account({6}, NoPermissions), Account({7}, NoPermissions)}
    /\ \A p \in People : online[p] = NoGroups \/ (online[p] = List({8}) /\ p \in clients)
    /\ saved = [p \in People |-> NoGroups] /\ target = [p \in People |-> NoTarget]
    /\ clients \subseteq rows /\ rows \subseteq Ids /\ 1 \in channels /\ channels \subseteq ChannelIds
    /\ chperms = [c \in ChannelIds |-> NoPermissions]
    /\ DOMAIN assigned = {} /\ DOMAIN ccperms = {}
    /\ given = {} /\ stale = {} /\ outdated = {}

\* The invariant holds when the tables are the seeds.
LEMMA FreshHolds == Fresh /\ Counts => IInv
<1> SUFFICES ASSUME Fresh, Counts PROVE IInv
  OBVIOUS
<1> USE DEF Fresh
<1>1. Groups
  BY Seeds DEF Groups
<1>2. /\ IsAccount(Account({6}, NoPermissions)) /\ Account({6}, NoPermissions).groups = {6}
      /\ IsAccount(Account({7}, NoPermissions)) /\ Account({7}, NoPermissions).groups = {7}
  <2>1. {6} \subseteq ServerGroupIds /\ {7} \subseteq ServerGroupIds
    BY Ranges
  <2> QED
    BY <2>1, EmptyMap, Records
<1>3. IsList(List({8})) /\ List({8}).groups = {8}
  <2>1. {8} \subseteq ServerGroupIds
    BY Ranges
  <2> QED
    BY <2>1, Records
<1>4. Persons
  BY <1>2, <1>3 DEF Persons
<1>5. Inside
  BY EmptyMap DEF Inside
<1>6. Given
  BY DEF Given
<1>7. AccountRights
  <2>1. DOMAIN sgroups = 6..9
    BY Seeds
  <2> QED
    BY <1>2, <2>1 DEF AccountRights
<1>8. ClientRights
  BY <1>3 DEF ClientRights
<1>9. TargetRights /\ ChannelRights
  BY DEF TargetRights, ChannelRights, AssignedGiven, AssignedLast, PermittedGiven, PermittedLast
<1> QED
  BY <1>1, <1>4, <1>5, <1>6, <1>7, <1>8, <1>9 DEF IInv

\* The same, of the next state.
LEMMA FreshNext == Fresh' /\ Counts' => IInv'
BY FreshHolds, PTL

\* The initial state satisfies the invariant.
LEMMA InitInvariant ==
    ASSUME Init
    PROVE  IInv
<1>1. Counts
  <2>1. poisoned = FALSE /\ ops = 0 /\ edits = 0
    BY DEF Init
  <2>2. 0 \in 0..MaxOps /\ 0 \in 0..MaxEdits
    BY EditsAssumption
  <2> QED
    BY <2>1, <2>2 DEF Counts
<1>2. /\ \A w \in Ids : account[w] \in {NoAccount, Account({6}, NoPermissions), Account({7}, NoPermissions)}
      /\ \A p \in People : online[p] = NoGroups
      /\ account = [w \in Ids |-> account[w]] /\ online = [p \in People |-> online[p]]
  BY DEF Init
<1>3. channels = ChannelIds /\ 1 \in ChannelIds /\ clients = {} /\ rows = {}
  BY DEF Init, ChannelIds
<1>4. DOMAIN assigned = {} /\ DOMAIN ccperms = {}
  BY DEF Init
<1>5. /\ sgroups = SeedServerGroups /\ cgroups = SeedChannelGroups
      /\ saved = [p \in People |-> NoGroups] /\ target = [p \in People |-> NoTarget]
      /\ chperms = [c \in ChannelIds |-> NoPermissions]
      /\ given = {} /\ stale = {} /\ outdated = {}
  BY DEF Init
<1>6. Fresh
  BY <1>2, <1>3, <1>4, <1>5 DEF Fresh
<1> QED
  BY <1>1, <1>6, FreshHolds

\* permreset.
LEMMA PermissionsReset ==
    ASSUME IInv, PermReset
    PROVE  IInv'
<1>1. Counts' /\ UNCHANGED <<clients, rows, channels>>
  BY CountsKept DEF IInv, PermReset
<1>2. /\ \A w \in Ids : account'[w] \in {NoAccount, Account({6}, NoPermissions), Account({7}, NoPermissions)}
      /\ account' = [w \in Ids |-> account'[w]]
  BY DEF PermReset
<1>3. /\ \A p \in People : online'[p] = NoGroups \/ (online'[p] = List({8}) /\ p \in clients')
      /\ online' = [p \in People |-> online'[p]]
  <2>1. \A p \in People : IsOnline(p) => p \in clients
    BY DEF IInv, Persons, IsOnline
  <2> QED
    BY <1>1, <2>1 DEF PermReset
<1>4. clients \subseteq rows /\ rows \subseteq Ids /\ 1 \in channels /\ channels \subseteq ChannelIds
  BY DEF IInv, Persons, Inside
<1>5. /\ sgroups' = SeedServerGroups /\ cgroups' = SeedChannelGroups
      /\ saved' = [p \in People |-> NoGroups] /\ target' = [p \in People |-> NoTarget]
      /\ chperms' = [c \in ChannelIds |-> NoPermissions]
      /\ DOMAIN assigned' = {} /\ DOMAIN ccperms' = {}
      /\ given' = {} /\ stale' = {} /\ outdated' = {}
  BY DEF PermReset, SavedAfterReset
<1>6. Fresh'
  <2>1. SeedServerGroups' = SeedServerGroups /\ SeedChannelGroups' = SeedChannelGroups
    BY DEF SeedServerGroups, SeedChannelGroups
  <2> QED
    BY <1>1, <1>2, <1>3, <1>4, <1>5, <2>1 DEF Fresh
<1> QED
  BY <1>1, <1>6, FreshNext

\* The groups that a start loads: none is lost, and each is a group.
LEMMA Loaded ==
    ASSUME Groups, DOMAIN LoadedServerGroups \subseteq ServerGroupIds
    PROVE  /\ GroupTable(LoadedServerGroups, ServerGroupIds)
           /\ DOMAIN sgroups \subseteq DOMAIN LoadedServerGroups
<1> DEFINE a == WithDefaultGroups(sgroups)
           b == WithServerAdmin(a)
           c == WithBasis(b)
<1>1. DOMAIN sgroups # {} /\ \A x \in DOMAIN sgroups : GroupOK(sgroups[x])
  BY TableIs DEF Groups
<1>2. IsPermissionMap([n \in {"neededmember"} |-> Plain(1)]) /\ IsPermissionMap([n \in {"servermember"} |-> Plain(1)])
  BY SeedMaps DEF Names
<1>3. /\ DOMAIN a = DOMAIN sgroups \union {6, 7, 8}
      /\ \A x \in DOMAIN a : GroupOK(a[x])
  <2>1. DOMAIN a = DOMAIN sgroups \union {6, 7, 8}
    BY DEF WithDefaultGroups
  <2>2. ASSUME NEW x \in DOMAIN sgroups \union {6, 7, 8}
        PROVE  a[x] = IF x \in DOMAIN sgroups THEN sgroups[x]
                      ELSE IF x = 8 THEN Group("Normal", [n \in {"neededmember"} |-> Plain(1)])
                      ELSE SeedServerGroups[x]
    BY DEF WithDefaultGroups
  <2>3. GroupOK(Group("Normal", [n \in {"neededmember"} |-> Plain(1)]))
    BY <1>2, GroupMade
  <2>4. GroupOK(SeedServerGroups[6]) /\ GroupOK(SeedServerGroups[7])
    BY Seeds
  <2> HIDE DEF a
  <2> QED
    BY <1>1, <2>1, <2>2, <2>3, <2>4
<1> HIDE DEF a
<1>4. DOMAIN a \subseteq DOMAIN b /\ \A x \in DOMAIN b : GroupOK(b[x])
  <2> DEFINE free == IF 9 \notin DOMAIN a THEN 9 ELSE Largest(DOMAIN a) + 1
  <2>1. b = a \/ b = WithGroup(a, free, SeedServerGroups[9])
    BY DEF WithServerAdmin
  <2>2. GroupOK(SeedServerGroups[9])
    BY Seeds
  <2> HIDE DEF b, free
  <2>3. CASE b = a
    BY <1>3, <2>3
  <2>4. CASE b = WithGroup(a, free, SeedServerGroups[9])
    BY <1>3, <2>2, <2>4 DEF WithGroup
  <2> QED
    BY <2>1, <2>3, <2>4
<1> HIDE DEF b
<1>5. DOMAIN c = DOMAIN b /\ \A x \in DOMAIN c : GroupOK(c[x])
  <2> DEFINE m == IF "servermember" \in DOMAIN b[8].perms THEN b[8].perms
                  ELSE With(b[8].perms, "servermember", Plain(1))
  <2>1. c = [b EXCEPT ![8].perms = m]
    BY DEF WithBasis
  <2>2. 8 \in DOMAIN b
    BY <1>3, <1>4
  <2>3. IsPermissionMap(m)
    <3>1. IsPermissionMap(b[8].perms)
      BY <1>4, <2>2 DEF GroupOK
    <3>2. Plain(1) \in Assignment /\ "servermember" \in Names
      BY DEF Plain, Assignment, Values, Names
    <3> QED
      BY <3>1, <3>2, MapOps
  <2> HIDE DEF m, c
  <2>4. GroupTable(b, DOMAIN b)
    BY <1>4, <2>2, TableIs
  <2>5. GroupTable(c, DOMAIN b) /\ DOMAIN c = DOMAIN b
    BY <2>1, <2>2, <2>3, <2>4, GroupEdited
  <2> QED
    BY <2>5, TableIs
<1>6. LoadedServerGroups = c
  BY DEF LoadedServerGroups, a, b
<1> HIDE DEF c
<1>7. DOMAIN sgroups \subseteq DOMAIN c /\ DOMAIN c # {}
  BY <1>1, <1>3, <1>4, <1>5
<1> QED
  BY <1>5, <1>6, <1>7, TableIs

\* What a right is, by its shape.
LEMMA RightShapes ==
    ASSUME NEW r \in Rights
    PROVE  \/ r = <<r[1], r[2], r[3]>> /\ r[1] \in {"account", "client"} /\ r[2] \in Ids /\ r[3] \in ServerGroupIds
           \/ /\ r = <<r[1], r[2], r[3]>> /\ r[1] \in {"own account", "own", "own, restarted"}
              /\ r[2] \in Ids /\ r[3] \in Names
           \/ /\ r = <<r[1], r[2], r[3], r[4]>> /\ r[1] = "assigned"
              /\ r[2] \in ChannelIds /\ r[3] \in Ids /\ r[4] \in ChannelGroupIds
           \/ /\ r = <<r[1], r[2], r[3], r[4]>> /\ r[1] = "in channel"
              /\ r[2] \in ChannelIds /\ r[3] \in Ids /\ r[4] \in Names
<1>1. \/ r \in {"account", "client"} \X Ids \X ServerGroupIds
      \/ r \in {"own account", "own", "own, restarted"} \X Ids \X Names
      \/ r \in {"assigned"} \X ChannelIds \X Ids \X ChannelGroupIds
      \/ r \in {"in channel"} \X ChannelIds \X Ids \X Names
  BY DEF Rights
<1>2. ASSUME r \in {"account", "client"} \X Ids \X ServerGroupIds
      PROVE  r = <<r[1], r[2], r[3]>> /\ r[1] \in {"account", "client"} /\ r[2] \in Ids /\ r[3] \in ServerGroupIds
  BY <1>2
<1>3. ASSUME r \in {"own account", "own", "own, restarted"} \X Ids \X Names
      PROVE  /\ r = <<r[1], r[2], r[3]>> /\ r[1] \in {"own account", "own", "own, restarted"}
             /\ r[2] \in Ids /\ r[3] \in Names
  <2> DEFINE K == {"own account", "own", "own, restarted"}
             N == Names
  <2>1. r \in K \X Ids \X N
    BY <1>3
  <2> HIDE DEF K, N
  <2>2. r = <<r[1], r[2], r[3]>> /\ r[1] \in K /\ r[2] \in Ids /\ r[3] \in N
    BY ONLY <2>1
  <2> QED
    BY <2>2, Zenon DEF K, N
<1>4. ASSUME r \in {"assigned"} \X ChannelIds \X Ids \X ChannelGroupIds
      PROVE  /\ r = <<r[1], r[2], r[3], r[4]>> /\ r[1] = "assigned"
             /\ r[2] \in ChannelIds /\ r[3] \in Ids /\ r[4] \in ChannelGroupIds
  BY <1>4
<1>5. ASSUME r \in {"in channel"} \X ChannelIds \X Ids \X Names
      PROVE  /\ r = <<r[1], r[2], r[3], r[4]>> /\ r[1] = "in channel"
             /\ r[2] \in ChannelIds /\ r[3] \in Ids /\ r[4] \in Names
  <2> DEFINE K == {"in channel"}
             N == Names
  <2>1. r \in K \X ChannelIds \X Ids \X N
    BY <1>5
  <2> HIDE DEF K, N
  <2>2. r = <<r[1], r[2], r[3], r[4]>> /\ r[1] \in K /\ r[2] \in ChannelIds /\ r[3] \in Ids /\ r[4] \in N
    BY ONLY <2>1
  <2> QED
    BY <2>2, Zenon DEF K, N
<1> QED
  BY <1>1, <1>2, <1>3, <1>4, <1>5, Zenon

\* What was given before a restart is given after it, except that the permissions
\* of clients are no longer found for their virtual server.
LEMMA GivenAtLoad ==
    ASSUME Given, given' = {IF r[1] = "own" THEN <<"own, restarted", r[2], r[3]>> ELSE r : r \in given}
    PROVE  /\ Given' /\ \A k : k \notin {"own", "own, restarted"} => Same(k)
           /\ \A x, y : <<"own", x, y>> \notin given'
           /\ \A x, y : <<"own, restarted", x, y>> \in given' =>
                  <<"own", x, y>> \in given \/ <<"own, restarted", x, y>> \in given
<1>1. ASSUME NEW r \in given, r[1] = "own"
      PROVE  r = <<"own", r[2], r[3]>> /\ r[2] \in Ids /\ r[3] \in Names
  <2>1. r \in Rights
    BY DEF Given
  <2> QED
    BY <1>1, <2>1, RightShapes
<1>2. \A r : r \in given' <=> \/ r \in given /\ r[1] # "own"
                              \/ \E q \in given : q[1] = "own" /\ r = <<"own, restarted", q[2], q[3]>>
  OBVIOUS
<1>3. Given'
  <2>1. ASSUME NEW r \in given' PROVE r \in Rights
    <3>1. CASE r \in given
      BY <3>1 DEF Given
    <3>2. CASE \E q \in given : q[1] = "own" /\ r = <<"own, restarted", q[2], q[3]>>
      BY <1>1, <3>2, SomeRights
    <3> QED
      BY <1>2, <2>1, <3>1, <3>2
  <2> QED
    BY <2>1, RightsOnly
<1>4. ASSUME NEW k, k \notin {"own", "own, restarted"} PROVE Same(k)
  <2>1. ASSUME NEW r, r[1] = k PROVE r \in given' <=> r \in given
    <3>1. ASSUME NEW x, NEW y PROVE r # <<"own, restarted", x, y>>
      <4> SUFFICES ASSUME r = <<"own, restarted", x, y>> PROVE FALSE
        OBVIOUS
      <4>1. r[1] = "own, restarted"
        OBVIOUS
      <4> QED
        BY <1>4, <2>1, <4>1
    <3>2. ~ \E q \in given : q[1] = "own" /\ r = <<"own, restarted", q[2], q[3]>>
      BY <3>1
    <3>3. r[1] # "own"
      BY <1>4, <2>1
    <3> QED
      BY <1>2, <3>2, <3>3
  <2>3. ASSUME NEW x, NEW y PROVE <<k, x, y>> \in given' <=> <<k, x, y>> \in given
    <3> DEFINE r == <<k, x, y>>
    <3>1. r[1] = k
      OBVIOUS
    <3> HIDE DEF r
    <3>2. r \in given' <=> r \in given
      BY <2>1, <3>1
    <3> QED
      BY <3>2 DEF r
  <2>4. ASSUME NEW x, NEW y, NEW z PROVE <<k, x, y, z>> \in given' <=> <<k, x, y, z>> \in given
    <3> DEFINE r == <<k, x, y, z>>
    <3>1. r[1] = k
      OBVIOUS
    <3> HIDE DEF r
    <3>2. r \in given' <=> r \in given
      BY <2>1, <3>1
    <3> QED
      BY <3>2 DEF r
  <2> QED
    BY <2>3, <2>4 DEF Same
<1>5. ASSUME NEW x, NEW y PROVE <<"own", x, y>> \notin given'
  BY <1>2
<1>6. ASSUME NEW x, NEW y, <<"own, restarted", x, y>> \in given'
      PROVE  <<"own", x, y>> \in given \/ <<"own, restarted", x, y>> \in given
  <2>1. ASSUME NEW q \in given, q[1] = "own", <<"own, restarted", x, y>> = <<"own, restarted", q[2], q[3]>>
        PROVE  <<"own", x, y>> \in given
    <3>1. q[2] = x /\ q[3] = y
      BY <2>1
    <3> QED
      BY <1>1, <2>1, <3>1
  <2> QED
    BY <1>2, <1>6, <2>1
<1> QED
  BY <1>3, <1>4, <1>5, <1>6

\* A restart.
LEMMA Restarted ==
    ASSUME IInv, Restart
    PROVE  IInv'
<1>0. Groups /\ Persons /\ Inside /\ Counts /\ Given /\ AccountRights /\ ClientRights /\ TargetRights /\ ChannelRights
  BY DEF IInv
<1>1. /\ DOMAIN LoadedServerGroups \subseteq ServerGroupIds
      /\ account' = NormalizeQueryAccountGroups(account, DOMAIN sgroups)
      /\ sgroups' = LoadedServerGroups
      /\ online' = [p \in People |-> NoGroups] /\ clients' = rows
      /\ target' = NormalizeClientPermissions(target)
      /\ assigned' = NormalizeAssignments(assigned, DOMAIN cgroups, channels, KnownAtLoad)
      /\ ccperms' = NormalizeChannelClientPermissions(ccperms, channels, KnownAtLoad)
      /\ given' = {IF r[1] = "own" THEN <<"own, restarted", r[2], r[3]>> ELSE r : r \in given}
      /\ poisoned' = FALSE /\ outdated' = {}
      /\ UNCHANGED <<cgroups, saved, rows, channels, chperms, ops, edits, stale, orphans>>
  BY DEF Restart, ServerGroupIds
<1>2. GroupTable(sgroups', ServerGroupIds) /\ DOMAIN sgroups \subseteq DOMAIN sgroups'
  BY <1>0, <1>1, Loaded
<1>3. /\ Given' /\ \A k : k \notin {"own", "own, restarted"} => Same(k)
      /\ \A x, y : <<"own", x, y>> \notin given'
      /\ \A x, y : <<"own, restarted", x, y>> \in given' =>
             <<"own", x, y>> \in given \/ <<"own, restarted", x, y>> \in given
  BY <1>0, <1>1, GivenAtLoad
<1>4. Same("account") /\ Same("own account") /\ Same("client") /\ Same("assigned") /\ Same("in channel")
  BY <1>3
<1>5. Groups' /\ Counts'
  BY <1>0, <1>1, <1>2 DEF Groups, Counts
<1>6. ASSUME NEW w \in Ids
      PROVE  /\ account[w] = NoAccount => account'[w] = NoAccount
             /\ account[w] # NoAccount =>
                   /\ account'[w] # NoAccount /\ IsAccount(account'[w])
                   /\ account'[w].perms = account[w].perms
                   /\ account'[w].groups \subseteq DOMAIN sgroups
                   /\ account'[w].groups \ {6, 7} \subseteq account[w].groups
                   /\ account[w].groups \subseteq account'[w].groups
  <2>1. account[w] # NoAccount => account[w].groups \subseteq DOMAIN sgroups
    BY <1>0 DEF AccountRights
  <2>2. DOMAIN sgroups \in SUBSET ServerGroupIds
    BY <1>0 DEF Groups, GroupTable
  <2> QED
    BY <1>0, <1>1, <2>1, <2>2, NormalizedAccounts
<1>7. ASSUME NEW p \in People
      PROVE  /\ target[p] = NoTarget => target'[p] = NoTarget
             /\ target[p] # NoTarget =>
                   target'[p] # NoTarget /\ IsTarget(target'[p]) /\ target'[p].perms = target[p].perms
  <2>1. target'[p] = IF target[p] = NoTarget \/ target[p].perms = NoPermissions THEN NoTarget
                     ELSE Target(0, target[p].perms)
    BY <1>1 DEF NormalizeClientPermissions
  <2>2. ASSUME target[p] # NoTarget PROVE IsPermissionMap(target[p].perms) /\ DOMAIN target[p].perms # {}
    BY <1>0, <2>2 DEF Persons, IsTarget
  <2>3. ASSUME target[p] # NoTarget PROVE target[p].perms # NoPermissions
    BY <2>2, <2>3, EmptyMap
  <2>4. ASSUME target[p] # NoTarget
        PROVE  target'[p] # NoTarget /\ IsTarget(target'[p]) /\ target'[p].perms = target[p].perms
    <3>1. target'[p] = Target(0, target[p].perms)
      BY <2>1, <2>3, <2>4
    <3> QED
      BY <2>2, <2>4, <3>1, Records
  <2> QED
    BY <2>1, <2>4
<1>8. Persons'
  <2>1. account' = [w \in Ids |-> account'[w]] /\ target' = [p \in People |-> target'[p]]
    BY <1>1 DEF NormalizeQueryAccountGroups, NormalizeClientPermissions
  <2>2. online' = [p \in People |-> online'[p]] /\ \A p \in People : online'[p] = NoGroups
    BY <1>1
  <2> QED
    BY <1>0, <1>1, <1>6, <1>7, <2>1, <2>2 DEF Persons
<1>9. AccountRights'
  <2>1. \A x \in Ids : account'[x] # NoAccount =>
          /\ account'[x].groups \subseteq DOMAIN sgroups'
          /\ \A g \in account'[x].groups \ {6, 7} : <<"account", x, g>> \in given'
    BY <1>0, <1>2, <1>4, <1>6 DEF AccountRights, Same
  <2>2. \A x, g : <<"account", x, g>> \in given' =>
          x \in Ids /\ account'[x] # NoAccount /\ g \in account'[x].groups
    BY <1>0, <1>4, <1>6 DEF AccountRights, Same
  <2>3. \A x, n : <<"own account", x, n>> \in given' =>
          x \in Ids /\ account'[x] # NoAccount /\ n \in DOMAIN account'[x].perms
    BY <1>0, <1>4, <1>6 DEF AccountRights, Same
  <2> QED
    BY <2>1, <2>2, <2>3 DEF AccountRights
<1>10. ClientRights'
  <2>1. \A p \in People : online'[p] = NoGroups
    BY <1>1
  <2>2. /\ stale' \subseteq People \X ServerGroupIds /\ outdated' \subseteq stale'
        /\ \A p \in People : saved'[p] # NoGroups =>
              \A g \in saved'[p].groups \ {8} : <<"client", p, g>> \in given' \/ <<p, g>> \in stale'
    BY <1>0, <1>1, <1>4 DEF ClientRights, Same
  <2>3. ASSUME NEW p, NEW g, <<"client", p, g>> \in given'
        PROVE  p \in People /\ saved'[p] # NoGroups /\ g \in saved'[p].groups /\ g \in DOMAIN sgroups'
    <3>1. <<"client", p, g>> \in given
      BY <1>4, <2>3 DEF Same
    <3> QED
      BY <1>0, <1>1, <1>2, <3>1 DEF ClientRights
  <2> QED
    BY <2>1, <2>2, <2>3 DEF ClientRights
<1>11. TargetRights'
  <2>1. ASSUME NEW p, NEW n, <<"own, restarted", p, n>> \in given'
        PROVE  p \in People /\ target'[p] # NoTarget /\ n \in DOMAIN target'[p].perms
    <3>1. p \in People /\ target[p] # NoTarget /\ n \in DOMAIN target[p].perms
      BY <1>0, <1>3, <2>1 DEF TargetRights
    <3> QED
      BY <1>7, <3>1
  <2> QED
    BY <1>3, <2>1 DEF TargetRights
<1>12. ASSUME NEW w \in Ids, Known(w) PROVE w \in KnownAtLoad /\ Known(w)'
  <2>1. HasAccount(w) => HasAccount(w)'
    BY <1>6 DEF HasAccount
  <2>2. HasSaved(w) => HasSaved(w)'
    BY <1>1 DEF HasSaved
  <2>3. IsOnline(w) \/ w \in clients => w \in rows /\ w \in clients'
    BY <1>0, <1>1 DEF Persons, IsOnline
  <2>4. ASSUME w \in People, target[w] # NoTarget
        PROVE  target'[w] # NoTarget /\ NormalizeClientPermissions(target)[w] # NoTarget
    BY <1>1, <1>7, <2>4
  <2>5. w \in KnownAtLoad
    BY <1>12, <2>3, <2>4 DEF Known, KnownWithoutTarget, KnownAtLoad
  <2>6. Known(w)'
    BY <1>12, <2>1, <2>2, <2>3, <2>4 DEF Known, KnownWithoutTarget
  <2> QED
    BY <2>5, <2>6
<1>13. /\ DOMAIN assigned' = {x \in DOMAIN assigned : /\ assigned[x] \in DOMAIN cgroups /\ x[1] \in channels
                                                      /\ x[2] \in KnownAtLoad}
       /\ \A k \in DOMAIN assigned' : assigned'[k] = assigned[k]
  BY <1>1 DEF NormalizeAssignments
<1>14. /\ DOMAIN ccperms' = {x \in DOMAIN ccperms : /\ x[1] \in channels /\ x[2] \in KnownAtLoad
                                                    /\ ccperms[x] # NoPermissions}
       /\ \A k \in DOMAIN ccperms' : ccperms'[k] = ccperms[k]
  BY <1>1 DEF NormalizeChannelClientPermissions
<1>15. AssignedGiven' /\ AssignedLast'
  <2>1. ASSUME NEW k \in DOMAIN assigned'
        PROVE  /\ k \in DOMAIN assigned /\ assigned'[k] = assigned[k] /\ assigned[k] \in DOMAIN cgroups'
               /\ k \in orphans => k \in orphans'
               /\ <<"assigned", k[1], k[2], assigned[k]>> \in given =>
                      k \in orphans' \/ <<"assigned", k[1], k[2], assigned[k]>> \in given'
    BY <1>1, <1>4, <1>13 DEF Same
  <2>2. ASSUME NEW c, NEW w, NEW g, <<"assigned", c, w, g>> \in given'
        PROVE  <<"assigned", c, w, g>> \in given /\ c \in channels' /\ Known(w)' /\ <<c, w>> \in DOMAIN assigned'
    <3>1. <<"assigned", c, w, g>> \in given
      BY <1>4, <2>2 DEF Same
    <3>2. c \in channels /\ w \in Ids /\ Known(w) /\ <<c, w>> \in DOMAIN assigned /\ assigned[<<c, w>>] = g
      BY <1>0, <3>1 DEF ChannelRights, AssignedLast
    <3>3. g \in DOMAIN cgroups
      BY <1>0, <3>2 DEF ChannelRights, AssignedGiven
    <3> QED
      BY <1>1, <1>12, <1>13, <3>1, <3>2, <3>3
  <2> QED
    BY <1>0, <2>1, <2>2, AssignedLess
<1>16. PermittedGiven' /\ PermittedLast'
  <2>1. ASSUME NEW k \in DOMAIN ccperms'
        PROVE  /\ k \in DOMAIN ccperms /\ ccperms'[k] = ccperms[k]
               /\ k \in orphans => k \in orphans'
               /\ \A n : <<"in channel", k[1], k[2], n>> \in given =>
                      k \in orphans' \/ <<"in channel", k[1], k[2], n>> \in given'
    BY <1>1, <1>4, <1>14 DEF Same
  <2>2. ASSUME NEW c, NEW w, NEW n, <<"in channel", c, w, n>> \in given'
        PROVE  <<"in channel", c, w, n>> \in given /\ c \in channels' /\ Known(w)' /\ <<c, w>> \in DOMAIN ccperms'
    <3>1. <<"in channel", c, w, n>> \in given
      BY <1>4, <2>2 DEF Same
    <3>2. c \in channels /\ w \in Ids /\ Known(w) /\ <<c, w>> \in DOMAIN ccperms /\ n \in DOMAIN ccperms[<<c, w>>]
      BY <1>0, <3>1 DEF ChannelRights, PermittedLast
    <3>3. ccperms[<<c, w>>] # NoPermissions
      BY <3>2, EmptyMap
    <3> QED
      BY <1>1, <1>12, <1>14, <3>1, <3>2, <3>3
  <2> QED
    BY <1>0, <2>1, <2>2, PermittedLess
<1>17. Inside'
  <2>1. DOMAIN assigned' \subseteq DOMAIN assigned /\ DOMAIN ccperms' \subseteq DOMAIN ccperms
    BY <1>13, <1>14
  <2> QED
    BY <1>0, <1>1, <2>1 DEF Inside
<1> QED
  BY <1>3, <1>5, <1>8, <1>9, <1>10, <1>11, <1>15, <1>16, <1>17 DEF IInv, ChannelRights

-----------------------------------------------------------------------------
(* Every step.                                                             *)

\* Every step keeps the invariant.
LEMMA Inductive ==
    IInv /\ [Next]_vars => IInv'
<1> SUFFICES ASSUME IInv, [Next]_vars PROVE IInv'
  OBVIOUS
<1>1. CASE UNCHANGED vars
  <2>1. Counts' /\ UNCHANGED <<groups, people, inside, history>>
    BY <1>1 DEF IInv, Counts, vars
  <2>2. Groups'
    BY <1>1 DEF IInv, Groups, vars, groups
  <2>3. DOMAIN sgroups \subseteq DOMAIN sgroups' /\ DOMAIN cgroups \subseteq DOMAIN cgroups'
    BY <1>1 DEF vars, groups
  <2> QED
    BY <2>1, <2>2, <2>3, GroupsEdited
<1>2. CASE ServerGroupStep
  <2>1. ASSUME NEW g \in ServerGroupIds, NEW force \in BOOLEAN, ServerGroupDel(g, force) PROVE IInv'
    BY <2>1, ServerGroupDeleted
  <2>2. ASSUME NEW g \in ServerGroupIds, NEW w \in Ids,
               \/ WebAddServerGroupClient(w, g) \/ WebDelServerGroupClient(w, g)
               \/ ChatAddGroup(w, g) \/ ChatDelGroup(w, g)
        PROVE  IInv'
    BY <2>2, Members
  <2>3. ASSUME NEW w \in Ids, NEW key \in Keys, TokenUse(w, key) PROVE IInv'
    BY <2>3, TokenUsed
  <2>4. People \subseteq Ids
    BY DEF Ids
  <2> QED
    BY <1>2, <2>1, <2>2, <2>3, <2>4, ServerGroupEdits DEF ServerGroupStep
<1>3. CASE ChannelGroupStep
  <2>1. ASSUME NEW g \in ChannelGroupIds, NEW force \in BOOLEAN, ChannelGroupDel(g, force) PROVE IInv'
    BY <2>1, ChannelGroupDeleted
  <2>2. ASSUME NEW g \in ChannelGroupIds, NEW c \in ChannelIds, NEW w \in Ids, SetClientChannelGroup(c, w, g)
        PROVE  IInv'
    BY <2>2, ChannelGroupSet
  <2> QED
    BY <1>3, <2>1, <2>2, ChannelGroupEdits DEF ChannelGroupStep
<1>4. CASE EntityStep
  <2>1. ASSUME NEW n \in EditNames, NEW w \in Ids,
               (\E a \in EditAssignments : AccountAddPerm(w, n, a)) \/ AccountDelPerm(w, n)
        PROVE  IInv'
    BY <2>1, AccountPermissions
  <2>2. ASSUME NEW n \in EditNames, NEW p \in People,
               (\E a \in EditAssignments : ClientAddPerm(p, n, a)) \/ ClientDelPerm(p, n)
        PROVE  IInv'
    BY <2>2, ClientPermitted, ClientForbidden
  <2>3. ASSUME NEW c \in ChannelIds,
               \/ \E n \in EditNames, a \in EditAssignments : ChannelAddPerm(c, n, a)
               \/ \E n \in EditNames : ChannelDelPerm(c, n)
        PROVE  IInv'
    BY <2>3, ChannelPermissions
  <2>4. ASSUME NEW n \in EditNames, NEW c \in ChannelIds, NEW w \in Ids,
               (\E a \in EditAssignments : ChannelClientAddPerm(c, w, n, a)) \/ ChannelClientDelPerm(c, w, n)
        PROVE  IInv'
    BY <2>4, InChannelPermitted, InChannelForbidden
  <2>5. ASSUME NEW p \in People, ClientAddPermPanics(p) PROVE IInv'
    <3>1. 1 \in ChannelIds
      BY DEF ChannelIds
    <3> QED
      BY <2>5, <3>1, ChannelPermissions
  <2> QED
    BY <1>4, <2>1, <2>2, <2>3, <2>4, <2>5 DEF EntityStep
<1>5. CASE ComeAndGo
  <2>1. ASSUME NEW c \in ChannelIds, ChannelCreate(c) \/ ChannelDelete(c) \/ DesktopChannelDelete(c)
        PROVE  IInv'
    BY <2>1, ChannelPermissions, ChannelGone
  <2>2. ASSUME NEW p \in People, Connect(p) \/ Disconnect(p) PROVE IInv'
    BY <2>2, ClientsComeAndGo
  <2>3. ASSUME NEW w \in Ids, QueryCreate(w) \/ QueryDelete(w) \/ ClientDbDelete(w) PROVE IInv'
    BY <2>3, AccountMade, AccountGone, ClientGone
  <2> QED
    BY <1>5, <2>1, <2>2, <2>3 DEF ComeAndGo
<1>6. CASE PermReset
  BY <1>6, PermissionsReset
<1>7. CASE Restart
  BY <1>7, Restarted
<1> QED
  BY <1>1, <1>2, <1>3, <1>4, <1>5, <1>6, <1>7 DEF Next

\* The invariant holds in every state, for all clients, groups and commands.
THEOREM Invariant == Spec => []IInv
<1>1. Init => IInv
  BY InitInvariant
<1>2. IInv /\ [Next]_vars => IInv'
  BY Inductive
<1> QED
  BY <1>1, <1>2, PTL DEF Spec

\* The tables always hold what their types say.
THEOREM TypeCorrect == Spec => []TypeOK
<1>1. ASSUME IInv PROVE TypeOK
  <2>1. Groups /\ Persons /\ Inside /\ Counts
    BY <1>1 DEF IInv
  <2>2. \A w \in Ids : HasAccount(w) =>
          account[w].groups \subseteq ServerGroupIds /\ IsPermissionMap(account[w].perms)
    BY <2>1 DEF Persons, IsAccount, HasAccount
  <2>3. \A p \in People : /\ online[p] = NoGroups \/ online[p].groups \subseteq ServerGroupIds
                          /\ saved[p] = NoGroups \/ saved[p].groups \subseteq ServerGroupIds
    BY <2>1 DEF Persons, IsList
  <2>4. \A p \in People : target[p] # NoTarget =>
          target[p].server \in {0, 1} /\ IsPermissionMap(target[p].perms)
    BY <2>1 DEF Persons, IsTarget
  <2>5. clients \subseteq rows /\ rows \subseteq Ids
    BY <2>1 DEF Persons
  <2> QED
    BY <2>1, <2>2, <2>3, <2>4, <2>5 DEF TypeOK, Groups, Inside, Counts
<1> QED
  BY <1>1, Invariant, PTL

\* Nobody ever has a right by accident: what an account, a client that is online, a
\* channel group assignment or a permission in a channel gives was given for the
\* group or the channel that has the id now, but for the exceptions that
\* RightsWereGiven names.
THEOREM RightsGiven == Spec => []RightsWereGiven
<1>1. ASSUME IInv PROVE RightsWereGiven
  <2>1. AccountRights /\ ClientRights /\ AssignedGiven /\ PermittedGiven
    BY <1>1 DEF IInv, ChannelRights
  <2> QED
    BY <2>1 DEF RightsWereGiven, AccountRights, ClientRights, AssignedGiven, PermittedGiven,
                HasAccount, IsOnline
<1> QED
  BY <1>1, Invariant, PTL

\* What was given lasts until it is taken back, through connections, restarts and
\* every normalisation.
THEOREM RightsRemain == Spec => []RightsLast
<1>1. ASSUME IInv, NEW r \in given
      PROVE  /\ r[1] \in {"account", "client", "assigned", "own account", "own", "own, restarted", "in channel"}
             /\ r[1] = "account" => HasAccount(r[2]) /\ r[3] \in account[r[2]].groups
             /\ r[1] = "client" => IF IsOnline(r[2]) THEN r[3] \in online[r[2]].groups
                                   ELSE HasSaved(r[2]) /\ r[3] \in saved[r[2]].groups
             /\ r[1] = "assigned" => <<r[2], r[3]>> \in DOMAIN assigned /\ assigned[<<r[2], r[3]>>] = r[4]
             /\ r[1] = "own account" => r[3] \in DOMAIN account[r[2]].perms
             /\ r[1] = "own" => TargetFound(r[2]) /\ r[3] \in DOMAIN target[r[2]].perms
             /\ r[1] = "own, restarted" => r[3] \in DOMAIN target[r[2]].perms
             /\ r[1] = "in channel" => r[4] \in DOMAIN ChannelClientPermissions(r[2], r[3])
  <2>1. r \in Rights /\ AccountRights /\ ClientRights /\ TargetRights /\ AssignedLast /\ PermittedLast
    BY <1>1 DEF IInv, Given, ChannelRights
  <2>2. \/ r = <<r[1], r[2], r[3]>> /\ r[1] \in {"account", "client", "own account", "own", "own, restarted"}
        \/ r = <<r[1], r[2], r[3], r[4]>> /\ r[1] \in {"assigned", "in channel"}
    BY <2>1, RightShapes
  <2>3. ASSUME r[1] = "account" PROVE HasAccount(r[2]) /\ r[3] \in account[r[2]].groups
    <3>1. <<"account", r[2], r[3]>> \in given
      BY <2>2, <2>3
    <3> QED
      BY <2>1, <3>1 DEF AccountRights, HasAccount
  <2>4. ASSUME r[1] = "client"
        PROVE  IF IsOnline(r[2]) THEN r[3] \in online[r[2]].groups
               ELSE HasSaved(r[2]) /\ r[3] \in saved[r[2]].groups
    <3>1. <<"client", r[2], r[3]>> \in given
      BY <2>2, <2>4
    <3> QED
      BY <2>1, <3>1 DEF ClientRights, IsOnline, HasSaved
  <2>5. ASSUME r[1] = "assigned" PROVE <<r[2], r[3]>> \in DOMAIN assigned /\ assigned[<<r[2], r[3]>>] = r[4]
    <3>1. <<"assigned", r[2], r[3], r[4]>> \in given
      BY <2>2, <2>5
    <3> QED
      BY <2>1, <3>1 DEF AssignedLast
  <2>6. ASSUME r[1] = "own account" PROVE r[3] \in DOMAIN account[r[2]].perms
    <3>1. <<"own account", r[2], r[3]>> \in given
      BY <2>2, <2>6
    <3> QED
      BY <2>1, <3>1 DEF AccountRights
  <2>7. ASSUME r[1] = "own" PROVE TargetFound(r[2]) /\ r[3] \in DOMAIN target[r[2]].perms
    <3>1. <<"own", r[2], r[3]>> \in given
      BY <2>2, <2>7
    <3> QED
      BY <2>1, <3>1 DEF TargetRights, TargetFound
  <2>8. ASSUME r[1] = "own, restarted" PROVE r[3] \in DOMAIN target[r[2]].perms
    <3>1. <<"own, restarted", r[2], r[3]>> \in given
      BY <2>2, <2>8
    <3> QED
      BY <2>1, <3>1 DEF TargetRights
  <2>9. ASSUME r[1] = "in channel" PROVE r[4] \in DOMAIN ChannelClientPermissions(r[2], r[3])
    <3>1. <<"in channel", r[2], r[3], r[4]>> \in given
      BY <2>2, <2>9
    <3> QED
      BY <2>1, <3>1 DEF PermittedLast, ChannelClientPermissions
  <2> QED
    BY <2>2, <2>3, <2>4, <2>5, <2>6, <2>7, <2>8, <2>9
<1>2. ASSUME IInv PROVE RightsLast
  BY <1>1, <1>2 DEF RightsLast
<1> QED
  BY <1>2, Invariant, PTL

-----------------------------------------------------------------------------
(* Who becomes an administrator.                                           *)

\* What FallsBackToGuest says of one step and one account.
Falls(w) ==
    /\ account'[w] # NoAccount /\ 6 \in account'[w].groups
    /\ account[w] = NoAccount \/ 6 \notin account[w].groups
    /\ <<"account", w, 6>> \notin given'
    => w = Admin \/ 7 \notin DOMAIN sgroups \/ 7 \notin DOMAIN sgroups'

\* A step that changes no account makes no administrator.
LEMMA NoAccountChanges ==
    ASSUME account' = account, NEW w \in Ids
    PROVE  Falls(w)
BY DEF Falls

\* A step that changes one account.
LEMMA OneAccountChanges ==
    ASSUME IInv, NEW w \in Ids, NEW a, account' = [account EXCEPT ![w] = a],
           a # NoAccount /\ 6 \in a.groups =>
               \/ account[w] # NoAccount /\ 6 \in account[w].groups
               \/ <<"account", w, 6>> \in given' \/ w = Admin \/ 7 \notin DOMAIN sgroups,
           NEW x \in Ids
    PROVE  Falls(x)
<1>1. account = [y \in Ids |-> account[y]]
  BY DEF IInv, Persons
<1>2. account'[w] = a /\ (x # w => account'[x] = account[x])
  BY <1>1
<1> QED
  BY <1>2 DEF Falls

\* An account that gets other groups: itself 6, or a default that is not 6.
LEMMA GroupsChange ==
    ASSUME IInv, NEW w \in Ids, HasAccount(w), NEW gs, account' = [account EXCEPT ![w].groups = gs],
           6 \in gs => 6 \in account[w].groups \/ <<"account", w, 6>> \in given' \/ w = Admin
                       \/ 7 \notin DOMAIN sgroups,
           NEW x \in Ids
    PROVE  Falls(x)
<1> DEFINE a == Account(gs, account[w].perms)
<1>1. account' = [account EXCEPT ![w] = a] /\ a.groups = gs /\ account[w] # NoAccount
  BY AccountOf, Records DEF HasAccount
<1> HIDE DEF a
<1> QED
  BY <1>1, OneAccountChanges

\* The default is the guest group for everybody but serveradmin, if there is one.
LEMMA DefaultIsGuest ==
    ASSUME NEW w, w # Admin, NEW ids, 7 \in ids
    PROVE  DefaultGroups(w, ids) = {7}
BY DEF DefaultGroups

\* normalize_query_account_groups makes no administrator of an account that can
\* become a guest.
LEMMA NormalizedFalls ==
    ASSUME IInv, NEW ids \in SUBSET ServerGroupIds, account' = NormalizeQueryAccountGroups(account, ids),
           NEW w \in Ids, 7 \in ids \/ 7 \notin DOMAIN sgroups'
    PROVE  Falls(w)
<1>1. account'[w] = IF account[w] = NoAccount THEN NoAccount
                    ELSE Account(OrDefault(w, account[w].groups \intersect ids, ids), account[w].perms)
  BY DEF NormalizeQueryAccountGroups
<1>2. CASE account[w] = NoAccount
  BY <1>1, <1>2 DEF Falls
<1>3. CASE account[w] # NoAccount
  <2> DEFINE gs == OrDefault(w, account[w].groups \intersect ids, ids)
  <2>1. w # Admin /\ 7 \in ids => gs = account[w].groups \intersect ids \/ gs = {7}
    BY DefaultIsGuest DEF OrDefault
  <2> HIDE DEF gs
  <2>2. account'[w].groups = gs
    BY <1>1, <1>3, Records DEF gs
  <2>3. w # Admin /\ 7 \in ids /\ 6 \in gs => 6 \in account[w].groups
    BY <2>1
  <2> QED
    BY <1>3, <2>2, <2>3 DEF Falls
<1> QED
  BY <1>2, <1>3

\* Every step that changes accounts.
LEMMA StepFalls ==
    ASSUME IInv, [Next]_vars, NEW x \in Ids
    PROVE  Falls(x)
<1>1. ASSUME NEW g \in ServerGroupIds, NEW force, ServerGroupDel(g, force) PROVE Falls(x)
  <2>1. /\ account' = NormalizeQueryAccountGroups(account, DOMAIN sgroups \ {g})
        /\ sgroups' = WithoutGroup(sgroups, g)
    BY <1>1 DEF ServerGroupDel
  <2>2. DOMAIN sgroups' = DOMAIN sgroups \ {g}
    BY <2>1 DEF WithoutGroup
  <2>3. DOMAIN sgroups \ {g} \in SUBSET ServerGroupIds
    BY DEF IInv, Groups, GroupTable
  <2> QED
    BY <2>1, <2>2, <2>3, NormalizedFalls
<1>2. ASSUME Restart PROVE Falls(x)
  <2>1. account' = NormalizeQueryAccountGroups(account, DOMAIN sgroups)
    BY <1>2 DEF Restart
  <2>2. DOMAIN sgroups \in SUBSET ServerGroupIds
    BY DEF IInv, Groups, GroupTable
  <2>3. CASE 7 \in DOMAIN sgroups
    BY <2>1, <2>2, <2>3, NormalizedFalls
  <2>4. CASE 7 \notin DOMAIN sgroups
    BY <2>4 DEF Falls
  <2> QED
    BY <2>3, <2>4
<1>3. ASSUME NEW w \in Ids, NEW g \in ServerGroupIds, WebAddServerGroupClient(w, g) PROVE Falls(x)
  <2>1. JoinGroups(w, {g})
    BY <1>3 DEF WebAddServerGroupClient
  <2>2. CASE HasAccount(w)
    <3> DEFINE gs == account[w].groups \union {g}
    <3>1. /\ account' = [account EXCEPT ![w].groups = gs]
          /\ given' = given \union {<<"account", w, h>> : h \in {g}}
      BY <2>1, <2>2 DEF JoinGroups
    <3>2. 6 \in gs => 6 \in account[w].groups \/ <<"account", w, 6>> \in given'
      BY <3>1
    <3> HIDE DEF gs
    <3> QED
      BY <2>2, <3>1, <3>2, GroupsChange
  <2>3. CASE ~ HasAccount(w)
    BY <2>1, <2>3, NoAccountChanges DEF JoinGroups
  <2> QED
    BY <2>2, <2>3
<1>4. ASSUME NEW w \in Ids, NEW g \in ServerGroupIds, WebDelServerGroupClient(w, g) PROVE Falls(x)
  <2>1. CASE HasAccount(w)
    <3> DEFINE gs == OrDefault(w, account[w].groups \ {g}, DOMAIN sgroups)
    <3>1. account' = [account EXCEPT ![w].groups = gs]
      BY <1>4, <2>1 DEF WebDelServerGroupClient
    <3>2. w # Admin /\ 7 \in DOMAIN sgroups => gs = account[w].groups \ {g} \/ gs = {7}
      BY DefaultIsGuest DEF OrDefault
    <3> HIDE DEF gs
    <3>3. 6 \in gs => 6 \in account[w].groups \/ w = Admin \/ 7 \notin DOMAIN sgroups
      BY <3>2
    <3> QED
      BY <2>1, <3>1, <3>3, GroupsChange
  <2>2. CASE ~ HasAccount(w)
    BY <1>4, <2>2, NoAccountChanges DEF WebDelServerGroupClient
  <2> QED
    BY <2>1, <2>2
<1>5. ASSUME NEW w \in Ids, NEW key, TokenUse(w, key) PROVE Falls(x)
  <2>1. CASE HasAccount(w)
    <3> DEFINE gs == account[w].groups \union {key.group}
    <3>1. /\ account' = [account EXCEPT ![w].groups = gs] /\ <<"account", w, key.group>> \in given'
      BY <1>5, <2>1 DEF TokenUse
    <3>2. 6 \in gs => 6 \in account[w].groups \/ <<"account", w, 6>> \in given'
      BY <3>1
    <3> HIDE DEF gs
    <3> QED
      BY <2>1, <3>1, <3>2, GroupsChange
  <2>2. CASE ~ HasAccount(w)
    BY <1>5, <2>2, NoAccountChanges DEF TokenUse
  <2> QED
    BY <2>1, <2>2
<1>6. ASSUME NEW w \in Ids, HasAccount(w), NEW m, account' = [account EXCEPT ![w].perms = m] PROVE Falls(x)
  <2> DEFINE a == Account(account[w].groups, m)
  <2>1. account' = [account EXCEPT ![w] = a] /\ a.groups = account[w].groups /\ account[w] # NoAccount
    BY <1>6, AccountOf, Records DEF HasAccount
  <2> HIDE DEF a
  <2> QED
    BY <2>1, OneAccountChanges
<1>7. ASSUME NEW w \in Ids, NEW n, (\E a \in EditAssignments : AccountAddPerm(w, n, a)) \/ AccountDelPerm(w, n)
      PROVE  Falls(x)
  <2>1. HasAccount(w) /\ \E m : account' = [account EXCEPT ![w].perms = m]
    BY <1>7 DEF AccountAddPerm, AccountDelPerm
  <2> QED
    BY <1>6, <2>1
<1>8. ASSUME NEW w \in Ids, QueryCreate(w) PROVE Falls(x)
  <2> DEFINE gs == DefaultGroups("query-account", DOMAIN sgroups)
             a  == Account(gs, NoPermissions)
  <2>1. account' = [account EXCEPT ![w] = a]
    BY <1>8 DEF QueryCreate
  <2>2. 7 \in DOMAIN sgroups => gs = {7}
    BY AdminAssumption, DefaultIsGuest
  <2> HIDE DEF gs
  <2>3. a.groups = gs
    BY Records
  <2> HIDE DEF a
  <2>4. 6 \in a.groups => 7 \notin DOMAIN sgroups
    BY <2>2, <2>3
  <2> QED
    BY <2>1, <2>4, OneAccountChanges
<1>9. ASSUME NEW w \in Ids, QueryDelete(w) PROVE Falls(x)
  <2>1. account' = [account EXCEPT ![w] = NoAccount]
    BY <1>9 DEF QueryDelete
  <2> QED
    BY <2>1, OneAccountChanges
<1>10. ASSUME PermReset PROVE Falls(x)
  <2>1. account'[x] = IF x = Admin THEN Account({6}, NoPermissions)
                      ELSE IF HasAccount(x) THEN Account({7}, NoPermissions) ELSE NoAccount
    BY <1>10 DEF PermReset
  <2>2. x # Admin => account'[x] = NoAccount \/ account'[x].groups = {7}
    BY <2>1, Records
  <2> QED
    BY <2>2 DEF Falls
<1>11. ASSUME account' = account PROVE Falls(x)
  BY <1>11, NoAccountChanges
<1>12. CASE UNCHANGED vars
  BY <1>11, <1>12 DEF vars, people
<1>13. CASE ServerGroupStep
  <2>1. ASSUME \/ ServerGroupAdd
               \/ \E g, t \in ServerGroupIds : ServerGroupCopy(g, t)
               \/ \E g \in ServerGroupIds, n \in EditNames, a \in EditAssignments : ServerGroupAddPerm(g, n, a)
               \/ \E g \in ServerGroupIds, n \in EditNames : ServerGroupDelPerm(g, n)
               \/ \E g \in ServerGroupIds : ServerGroupRename(g)
               \/ \E n \in EditNames, a \in EditAssignments : ServerGroupAutoAddPerm(n, a)
               \/ \E n \in EditNames : ServerGroupAutoDelPerm(n)
        PROVE  account' = account
    BY <2>1 DEF ServerGroupAdd, ServerGroupCopy, ServerGroupAddPerm, ServerGroupDelPerm, ServerGroupRename,
                ServerGroupAutoAddPerm, ServerGroupAutoDelPerm, people
  <2>2. ASSUME NEW p \in People, NEW g \in ServerGroupIds, ChatAddGroup(p, g) \/ ChatDelGroup(p, g)
        PROVE  account' = account
    BY <2>2 DEF ChatAddGroup, ChatDelGroup
  <2> QED
    BY <1>1, <1>3, <1>4, <1>5, <1>11, <1>13, <2>1, <2>2 DEF ServerGroupStep
<1>14. CASE ChannelGroupStep
  <2>1. ASSUME ChannelGroupAdd PROVE account' = account
    BY <2>1 DEF ChannelGroupAdd, people
  <2>2. ASSUME NEW g, NEW t, NEW n, NEW a,
               \/ ChannelGroupDel(g, t) \/ ChannelGroupCopy(g, t) \/ ChannelGroupAddPerm(g, n, a)
               \/ ChannelGroupDelPerm(g, n) \/ ChannelGroupRename(g)
        PROVE  account' = account
    BY <2>2 DEF ChannelGroupDel, ChannelGroupCopy, ChannelGroupAddPerm, ChannelGroupDelPerm, ChannelGroupRename,
                people
  <2>3. ASSUME NEW c, NEW w, NEW g, SetClientChannelGroup(c, w, g) PROVE account' = account
    BY <2>3 DEF SetClientChannelGroup, people
  <2> QED
    BY <1>11, <1>14, <2>1, <2>2, <2>3 DEF ChannelGroupStep
<1>15. CASE EntityStep
  <2>1. ASSUME NEW p \in People, NEW n, NEW a, ClientAddPerm(p, n, a) \/ ClientDelPerm(p, n) \/ ClientAddPermPanics(p)
        PROVE  account' = account
    BY <2>1 DEF ClientAddPerm, ClientDelPerm, ClientAddPermPanics, people
  <2>2. ASSUME NEW c, NEW w, NEW n, NEW a, \/ ChannelAddPerm(c, n, a) \/ ChannelDelPerm(c, n)
                                           \/ ChannelClientAddPerm(c, w, n, a) \/ ChannelClientDelPerm(c, w, n)
        PROVE  account' = account
    BY <2>2 DEF ChannelAddPerm, ChannelDelPerm, ChannelClientAddPerm, ChannelClientDelPerm, people
  <2> QED
    BY <1>7, <1>11, <1>15, <2>1, <2>2 DEF EntityStep
<1>16. CASE ComeAndGo
  <2>1. ASSUME NEW c, ChannelCreate(c) \/ ChannelDelete(c) \/ DesktopChannelDelete(c) PROVE account' = account
    BY <2>1 DEF ChannelCreate, ChannelDelete, DesktopChannelDelete, people
  <2>2. ASSUME NEW p, Connect(p) \/ Disconnect(p) \/ ClientDbDelete(p) PROVE account' = account
    BY <2>2 DEF Connect, Disconnect, ClientDbDelete
  <2> QED
    BY <1>8, <1>9, <1>11, <1>16, <2>1, <2>2 DEF ComeAndGo
<1> QED
  BY <1>2, <1>10, <1>12, <1>13, <1>14, <1>15, <1>16 DEF Next

\* No step makes an administrator of an account that nobody added to group 6, but
\* of serveradmin or where there is no guest group: whatever group is deleted,
\* whatever membership is taken back, and whenever the server restarts.
THEOREM GuestFallback == Spec => FallsBackToGuest
<1>1. ASSUME IInv, [Next]_vars
      PROVE  \A w \in Ids :
                /\ account'[w] # NoAccount /\ 6 \in account'[w].groups
                /\ account[w] = NoAccount \/ 6 \notin account[w].groups
                /\ <<"account", w, 6>> \notin given'
                => w = Admin \/ 7 \notin DOMAIN sgroups \/ 7 \notin DOMAIN sgroups'
  BY <1>1, StepFalls DEF Falls
<1> QED
  BY <1>1, Invariant, PTL DEF Spec, FallsBackToGuest

-----------------------------------------------------------------------------
(* What the tiers decide.                                                  *)

\* The smallest and the largest of some natural numbers are what their names say.
LEMMA Extremes ==
    ASSUME NEW a \in Nat, NEW b \in Nat, NEW S \in SUBSET (a..b), S # {}
    PROVE  /\ Smallest(S) \in S /\ \A y \in S : Smallest(S) <= y
           /\ Largest(S) \in S /\ \A y \in S : Largest(S) >= y
           /\ \A x \in S : (\A y \in S : x <= y) => Smallest(S) = x
           /\ \A x \in S : (\A y \in S : x >= y) => Largest(S) = x
<1>1. S \in SUBSET Nat
  OBVIOUS
<1>2. Largest(S) \in S /\ \A y \in S : Largest(S) >= y
  BY LargestIs
<1>3. PICK t \in S : \A y \in S : ~ (<<y, t>> \in OpToRel(<, Nat))
  BY <1>1, NatLessThanWellFounded, WFMin
<1>4. \A x, y \in Nat : x < y => <<x, y>> \in OpToRel(<, Nat)
  BY Zenon DEF OpToRel
<1>5. \A y \in S : ~ (y < t)
  BY <1>1, <1>3, <1>4, Zenon
<1>6. \A y \in S : t <= y
  BY <1>1, <1>5
<1>7. Smallest(S) \in S /\ \A y \in S : Smallest(S) <= y
  BY <1>6 DEF Smallest
<1>8. \A x, y \in S : (x <= y /\ y <= x => x = y) /\ (x >= y /\ y >= x => x = y)
  BY <1>1
<1> QED
  BY <1>2, <1>7, <1>8

\* The tiers up to the k-th of L that assign n, those that skip, and what they make
\* of n together.
Assigning(L, k, n) == {t \in 2..k : n \in DOMAIN L[t]}
Skipping(L, k, n)  == {t \in Assigning(L, k, n) : L[t][n].skipped}
Decided(e, L, k, n) ==
    /\ n \in DOMAIN e <=> Assigning(L, k, n) # {}
    /\ Assigning(L, k, n) # {} =>
          e[n] = L[IF Skipping(L, k, n) # {} THEN Smallest(Skipping(L, k, n))
                   ELSE Largest(Assigning(L, k, n))][n]

\* Tier 2 decides as long as there is no other.
LEMMA FirstTierDecides ==
    ASSUME NEW L, NEW n
    PROVE  Decided(L[2], L, 2, n)
<1>1. Assigning(L, 2, n) = IF n \in DOMAIN L[2] THEN {2} ELSE {}
  BY DEF Assigning
<1>2. Skipping(L, 2, n) = {} \/ Skipping(L, 2, n) = {2}
  BY <1>1 DEF Skipping
<1>3. Smallest({2}) = 2 /\ Largest({2}) = 2
  BY DEF Smallest, Largest
<1> QED
  BY <1>1, <1>2, <1>3 DEF Decided

\* Each of the tiers 3 to 5 decides unless an earlier one skips.
LEMMA NextTierDecides ==
    ASSUME NEW L, NEW n, NEW k \in 2..4, NEW e, Decided(e, L, k, n)
    PROVE  Decided(ReplaceUnskipped(e, L[k + 1]), L, k + 1, n)
<1> DEFINE A == Assigning(L, k, n)
           S == Skipping(L, k, n)
           B == Assigning(L, k + 1, n)
           T == Skipping(L, k + 1, n)
           over == L[k + 1]
           f == ReplaceUnskipped(e, over)
<1>1. A \in SUBSET (2..k) /\ S \in SUBSET (2..k) /\ S \subseteq A
  BY DEF Assigning, Skipping
<1>2. B = A \union (IF n \in DOMAIN over THEN {k + 1} ELSE {})
  <2>1. 2..(k + 1) = (2..k) \union {k + 1}
    OBVIOUS
  <2> QED
    BY <2>1 DEF Assigning
<1>3. T = S \union (IF n \in DOMAIN over /\ over[n].skipped THEN {k + 1} ELSE {})
  <2>1. k + 1 \notin 2..k
    OBVIOUS
  <2> QED
    BY <1>2, <2>1 DEF Skipping
<1>4. B \in SUBSET (2..5) /\ T \in SUBSET (2..5)
  BY <1>1, <1>2, <1>3
<1>5. DOMAIN f = DOMAIN e \union DOMAIN over
  BY DEF ReplaceUnskipped
<1>6. n \in DOMAIN f =>
          f[n] = IF n \in DOMAIN over /\ ~ (n \in DOMAIN e /\ e[n].skipped) THEN over[n] ELSE e[n]
  BY DEF ReplaceUnskipped
<1>7. /\ n \in DOMAIN e <=> A # {}
      /\ A # {} => e[n] = L[IF S # {} THEN Smallest(S) ELSE Largest(A)][n]
  BY DEF Decided
<1>8. S # {} => Smallest(S) \in S /\ \A y \in S : Smallest(S) <= y
  BY <1>1, Extremes
<1>9. A # {} => Largest(A) \in A
  BY <1>1, Extremes
<1>10. \A t : t \in S <=> t \in A /\ L[t][n].skipped
  BY DEF Skipping
<1> SUFFICES /\ n \in DOMAIN f <=> B # {}
             /\ B # {} => f[n] = L[IF T # {} THEN Smallest(T) ELSE Largest(B)][n]
  BY DEF Decided
<1> HIDE DEF A, S, B, T, f
<1>11. n \in DOMAIN f <=> B # {}
  BY <1>2, <1>5, <1>7
<1>12. CASE n \notin DOMAIN over
  <2>1. B = A /\ T = S
    BY <1>2, <1>3, <1>12
  <2>2. B # {} => f[n] = e[n]
    BY <1>6, <1>11, <1>12
  <2> QED
    BY <1>7, <1>11, <2>1, <2>2
<1>13. CASE n \in DOMAIN over /\ S # {}
  <2>1. A # {} /\ e[n] = L[Smallest(S)][n] /\ Smallest(S) \in S
    BY <1>1, <1>7, <1>8, <1>13
  <2>2. n \in DOMAIN e /\ e[n].skipped
    BY <1>7, <1>10, <2>1
  <2>3. f[n] = e[n]
    BY <1>5, <1>6, <2>2
  <2>4. Smallest(S) \in T /\ \A y \in T : Smallest(S) <= y
    <3> DEFINE s == Smallest(S)
    <3>1. s \in 2..k /\ s \in S /\ \A y \in S : s <= y
      BY <1>1, <1>8, <2>1
    <3>2. S \subseteq T /\ T \subseteq S \union {k + 1}
      BY <1>3
    <3> HIDE DEF s
    <3>3. s <= k + 1
      BY <3>1
    <3>4. s \in T /\ \A y \in T : s <= y
      BY <3>1, <3>2, <3>3
    <3> QED
      BY <3>4 DEF s
  <2>5. Smallest(T) = Smallest(S)
    BY <1>4, <2>4, Extremes
  <2> QED
    BY <1>11, <2>1, <2>3, <2>4, <2>5
<1>14. CASE n \in DOMAIN over /\ S = {}
  <2>1. ~ (n \in DOMAIN e /\ e[n].skipped)
    BY <1>7, <1>9, <1>10, <1>14
  <2>2. f[n] = over[n]
    BY <1>5, <1>6, <1>14, <2>1
  <2>3. CASE over[n].skipped
    <3>1. T = {k + 1}
      BY <1>3, <1>14, <2>3
    <3>2. Smallest(T) = k + 1
      BY <3>1 DEF Smallest
    <3> QED
      BY <1>11, <2>2, <3>1, <3>2
  <2>4. CASE ~ over[n].skipped
    <3>1. T = {} /\ k + 1 \in B /\ \A y \in B : k + 1 >= y
      BY <1>1, <1>2, <1>3, <1>14, <2>4
    <3>2. Largest(B) = k + 1
      BY <1>4, <3>1, Extremes
    <3> QED
      BY <1>11, <2>2, <3>1, <3>2
  <2> QED
    BY <2>3, <2>4
<1> QED
  BY <1>11, <1>12, <1>13, <1>14

\* Of several server groups the largest value counts, or the smallest if one of
\* them negates.
LEMMA GroupsDecide ==
    ASSUME TypeOK, NEW w \in Ids, NEW n, n \in DOMAIN ServerGroupTier(GroupMaps(w))
    PROVE  ServerGroupTier(GroupMaps(w))[n].value = GroupValue(w, n)
<1> DEFINE as == {m[n] : m \in {x \in GroupMaps(w) : n \in DOMAIN x}}
           V  == {a.value : a \in as}
           N  == \E a \in as : a.negated
<1>1. ASSUME NEW m \in GroupMaps(w) PROVE IsPermissionMap(m)
  <2>1. PICK g \in DOMAIN sgroups : m = sgroups[g].perms
    BY DEF GroupMaps
  <2> QED
    BY <2>1 DEF TypeOK, GroupTable
<1>2. as # {}
  BY DEF ServerGroupTier
<1>3. \A a \in as : a \in Assignment
  BY <1>1 DEF IsPermissionMap
<1>4. ServerGroupTier(GroupMaps(w))[n] = Merged(as)
  BY DEF ServerGroupTier
<1>5. GroupValue(w, n) = CHOOSE v \in V : \A a \in as : IF N THEN v <= a.value ELSE v >= a.value
  BY DEF GroupValue
<1> HIDE DEF as
<1>6. V \in SUBSET (0..1) /\ V # {}
  <2>1. \A a \in as : a.value = 0 \/ a.value = 1
    BY <1>3 DEF Assignment, Values
  <2>2. ASSUME NEW v \in V PROVE v = 0 \/ v = 1
    <3>1. PICK a \in as : v = a.value
      OBVIOUS
    <3> QED
      BY <2>1, <3>1
  <2>3. V # {}
    BY <1>2
  <2> HIDE DEF V
  <2> QED
    BY <2>2, <2>3
<1>7. Merged(as).value = IF N THEN Smallest(V) ELSE Largest(V)
  BY DEF Merged
<1>8. /\ Smallest(V) \in V /\ \A y \in V : Smallest(V) <= y
      /\ Largest(V) \in V /\ \A y \in V : Largest(V) >= y
      /\ \A x \in V : (\A y \in V : x <= y) => Smallest(V) = x
      /\ \A x \in V : (\A y \in V : x >= y) => Largest(V) = x
  <2> HIDE DEF V
  <2>1. 0 \in Nat /\ 1 \in Nat
    OBVIOUS
  <2> QED
    BY <1>6, <2>1, Extremes
<1>9. \A v : (\A a \in as : v <= a.value) <=> (\A y \in V : v <= y)
  OBVIOUS
<1>10. \A v : (\A a \in as : v >= a.value) <=> (\A y \in V : v >= y)
  OBVIOUS
<1> HIDE DEF V, N
<1>11. CASE N
  <2>1. GroupValue(w, n) = CHOOSE v \in V : \A a \in as : v <= a.value
    BY <1>5, <1>11
  <2>2. \E v \in V : \A a \in as : v <= a.value
    BY <1>8, <1>9
  <2>3. GroupValue(w, n) \in V /\ \A a \in as : GroupValue(w, n) <= a.value
    BY <2>1, <2>2, Zenon
  <2>4. GroupValue(w, n) = Smallest(V)
    BY <1>8, <1>9, <2>3
  <2> QED
    BY <1>4, <1>7, <1>11, <2>4
<1>12. CASE ~ N
  <2>1. GroupValue(w, n) = CHOOSE v \in V : \A a \in as : v >= a.value
    BY <1>5, <1>12
  <2>2. \E v \in V : \A a \in as : v >= a.value
    BY <1>8, <1>10
  <2>3. GroupValue(w, n) \in V /\ \A a \in as : GroupValue(w, n) >= a.value
    BY <2>1, <2>2, Zenon
  <2>4. GroupValue(w, n) = Largest(V)
    BY <1>8, <1>10, <2>3
  <2> QED
    BY <1>4, <1>7, <1>12, <2>4
<1> QED
  BY <1>11, <1>12

\* Effective permissions are decided by the tiers, in every state: the first that
\* skips, or else the last that assigns; the groups and the client alone if the
\* client skips channel groups; and of several groups the largest value, or the
\* smallest if one negates.
THEOREM TiersDecide == Spec => []LayersDecide
<1>1. ASSUME NEW w \in Ids, NEW c \in channels, NEW n
      PROVE  LET L == Layer(w, c)
                 E == EffectivePermissions(w, c)
                 k == IF ValueOf(L[2], "skip") # 0 THEN 2 ELSE 5
             IN  Decided(E, L, k, n)
  <2> DEFINE L == Layer(w, c)
             E == EffectivePermissions(w, c)
  <2>1. /\ L[2] = Replace(ServerGroupTier(GroupMaps(w)), OwnPermissions(w)) /\ L[3] = chperms[c]
        /\ L[4] = ChannelGroupPermissions(c, w) /\ L[5] = ChannelClientPermissions(c, w)
    BY DEF Layer
  <2>2. E = IF ValueOf(L[2], "skip") # 0 THEN L[2]
            ELSE ReplaceUnskipped(ReplaceUnskipped(ReplaceUnskipped(L[2], L[3]), L[4]), L[5])
    BY <2>1 DEF EffectivePermissions, Tiered
  <2> HIDE DEF L, E
  <2>3. Decided(L[2], L, 2, n)
    BY FirstTierDecides
  <2> DEFINE e3 == ReplaceUnskipped(L[2], L[3])
             e4 == ReplaceUnskipped(e3, L[4])
             e5 == ReplaceUnskipped(e4, L[5])
  <2>4. /\ 2 \in 2..4 /\ 3 \in 2..4 /\ 4 \in 2..4
        /\ 2 + 1 = 3 /\ 3 + 1 = 4 /\ 4 + 1 = 5
    OBVIOUS
  <2>5. E = IF ValueOf(L[2], "skip") # 0 THEN L[2] ELSE e5
    BY <2>2
  <2>6. Decided(e3, L, 3, n)
    BY <2>3, <2>4, NextTierDecides
  <2> HIDE DEF e3
  <2>7. Decided(e4, L, 4, n)
    BY <2>4, <2>6, NextTierDecides
  <2> HIDE DEF e4
  <2>8. Decided(e5, L, 5, n)
    BY <2>4, <2>7, NextTierDecides
  <2> HIDE DEF e5
  <2>9. Decided(E, L, IF ValueOf(L[2], "skip") # 0 THEN 2 ELSE 5, n)
    BY <2>3, <2>5, <2>8
  <2> QED
    BY <2>9 DEF L, E
<1>2. ASSUME TypeOK, NEW w \in Ids, NEW c \in channels
      PROVE  LET L == Layer(w, c)
                 E == EffectivePermissions(w, c)
                 counted == IF ValueOf(L[2], "skip") # 0 THEN {2} ELSE 2..5
             IN  \A n \in Names :
                   LET assigning == {t \in counted : n \in DOMAIN L[t]}
                       skipping  == {t \in assigning : L[t][n].skipped}
                   IN  /\ n \in DOMAIN E <=> assigning # {}
                       /\ assigning # {} =>
                             E[n] = L[IF skipping # {} THEN Smallest(skipping) ELSE Largest(assigning)][n]
                       /\ n \in DOMAIN ServerGroupTier(GroupMaps(w)) =>
                             ServerGroupTier(GroupMaps(w))[n].value = GroupValue(w, n)
  <2> DEFINE L == Layer(w, c)
             E == EffectivePermissions(w, c)
             k == IF ValueOf(L[2], "skip") # 0 THEN 2 ELSE 5
             counted == IF ValueOf(L[2], "skip") # 0 THEN {2} ELSE 2..5
  <2>1. ASSUME NEW n
        PROVE  LET assigning == {t \in counted : n \in DOMAIN L[t]}
                   skipping  == {t \in assigning : L[t][n].skipped}
               IN  /\ n \in DOMAIN E <=> assigning # {}
                   /\ assigning # {} =>
                         E[n] = L[IF skipping # {} THEN Smallest(skipping) ELSE Largest(assigning)][n]
    <3>1. Decided(E, L, k, n)
      BY <1>1
    <3> HIDE DEF L, E
    <3>2. \A t : t \in 2..2 <=> t = 2
      OBVIOUS
    <3>3. \A t : t \in counted <=> t \in 2..k
      BY <3>2
    <3> HIDE DEF k, counted
    <3>4. {t \in counted : n \in DOMAIN L[t]} = Assigning(L, k, n)
      BY <3>3 DEF Assigning
    <3> QED
      BY <3>1, <3>4 DEF Decided, Skipping
  <2>2. ASSUME NEW n, n \in DOMAIN ServerGroupTier(GroupMaps(w))
        PROVE  ServerGroupTier(GroupMaps(w))[n].value = GroupValue(w, n)
    BY <1>2, <2>2, GroupsDecide
  <2> HIDE DEF L, E, counted
  <2>3. \A n \in Names :
          LET assigning == {t \in counted : n \in DOMAIN L[t]}
              skipping  == {t \in assigning : L[t][n].skipped}
          IN  /\ n \in DOMAIN E <=> assigning # {}
              /\ assigning # {} =>
                    E[n] = L[IF skipping # {} THEN Smallest(skipping) ELSE Largest(assigning)][n]
              /\ n \in DOMAIN ServerGroupTier(GroupMaps(w)) =>
                    ServerGroupTier(GroupMaps(w))[n].value = GroupValue(w, n)
    BY <2>1, <2>2
  <2> QED
    BY <2>3 DEF L, E, counted
<1>3. TypeOK => LayersDecide
  BY <1>2 DEF LayersDecide
<1> QED
  BY <1>3, TypeCorrect, PTL
=============================================================================
