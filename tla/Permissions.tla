---------------------------- MODULE Permissions ----------------------------
(***************************************************************************)
(* Server groups, channel groups, who is a member of which, and the        *)
(* permissions of accounts, clients and channels, on one virtual server.   *)
(*                                                                         *)
(* A right lives in one of five places: the groups of a query account, the *)
(* groups of an online client (and the copy of them that                   *)
(* persist_web_client_server_groups keeps for the next connection), the    *)
(* channel group assignments, the permissions of an account or a client,   *)
(* and the permissions of a client in a channel.  Groups and channels are  *)
(* named by ids that are given out again after a deletion, so a right that *)
(* a deletion forgets passes to whatever gets the id next: the ghost       *)
(* `given' holds the rights that somebody gave and nobody has taken back.  *)
(*                                                                         *)
(* Whether a command is allowed depends on the effective permissions of    *)
(* its actor, a query account or an online client, in the channel where it *)
(* is: Presence models where that is, here it is any channel.  Refused     *)
(* commands change nothing and are stuttering steps.                       *)
(***************************************************************************)
EXTENDS PermissionTiers

CONSTANTS
    Admin,              \* the client database id of the account serveradmin
    People,             \* client database ids of web and desktop clients
    MaxServerGroup,     \* bound on server group ids
    MaxChannelGroup,    \* bound on channel group ids
    MaxOps,             \* bound on the commands, other than connecting and making channels
    MaxEdits,           \* bound on those of them that edit a permission map
    Keys,               \* privilege keys: [group, channel, channelGroup]
    EditNames,          \* the permissions that requests assign
    EditAssignments     \* the assignments that requests make

\* "query-account" stands for the login of any other account.
ASSUME AdminAssumption == Admin \notin People /\ Admin # "query-account"
ASSUME GroupBoundsAssumption ==
    MaxServerGroup \in Nat /\ MaxServerGroup >= 9 /\ MaxChannelGroup \in Nat /\ MaxChannelGroup >= 10
ASSUME EditsAssumption ==
    /\ EditNames \subseteq Names /\ EditAssignments \subseteq Assignment
    /\ MaxOps \in Nat /\ MaxEdits \in Nat

Ids        == {Admin} \union People
ChannelIds == {1, 2}    \* the default channel, and one that comes and goes

VARIABLES
    sgroups,    \* store.server_groups: id -> [name, perms]
    cgroups,    \* store.channel_groups: id -> [name, perms]
    account,    \* store.query_accounts, by client database id
    online,     \* the server groups of the entry in online_clients, if any
    saved,      \* custom_client_properties (0, id), "server_groups", if any
    clients,    \* store.clients
    rows,       \* the rows of the table clients of SQLite
    target,     \* store.client_permissions: [server, perms], if any
    channels,   \* ids of the existing channels
    chperms,    \* the permissions of each channel
    assigned,   \* store.channel_group_assignments: <<channel, id>> -> group
    ccperms,    \* store.channel_client_permissions: <<channel, id>> -> perms
    poisoned,   \* a thread has panicked while it held the runtime mutex
    ops,        \* commands so far
    edits,      \* those of them that edit a permission map
    given,      \* rights that were given and not taken back
    stale,      \* <<id, group>>: a saved list names a group deleted since
    outdated,   \* <<id, group>>: a client has got this back from such a list
    orphans     \* <<channel, id>>: rights in a channel or of an id deleted since

groups  == <<sgroups, cgroups>>
people  == <<account, online, saved, clients, rows, target>>
inside  == <<channels, chperms, assigned, ccperms>>
history == <<given, stale, outdated, orphans>>
vars    == <<groups, people, inside, poisoned, ops, edits, history>>

NoAccount == [is |-> "none"]
NoTarget  == [is |-> "none"]
NoGroups  == [is |-> "none"]   \* not online, or nothing saved
Account(gs, m) == [is |-> "account", groups |-> gs, perms |-> m]
Target(s, m)   == [is |-> "target", server |-> s, perms |-> m]
List(gs)       == [is |-> "list", groups |-> gs]

HasAccount(w) == account[w] # NoAccount
IsOnline(p)   == p \in People /\ online[p] # NoGroups
HasSaved(p)   == p \in People /\ saved[p] # NoGroups

Group(name, m) == [name |-> name, perms |-> m]

WithGroup(gs, g, r)  == [x \in DOMAIN gs \union {g} |-> IF x = g THEN r ELSE gs[x]]
WithoutGroup(gs, g)  == [x \in DOMAIN gs \ {g} |-> gs[x]]

-----------------------------------------------------------------------------
(* The seeds, and what is effective.                                       *)

\* seed_store, with the Normal group as the web basis completes it.
SeedServerGroups ==
    LET administration == [n \in {"right", "modify", "member", "needed"} |-> Plain(1)]
    IN  [g \in 6..9 |->
            CASE g = 6 -> Group("Admin", administration)
              [] g = 7 -> Group("Guest", [n \in {"needed", "auto"} |-> Plain(1)])
              [] g = 8 -> Group("Normal", [n \in {"servermember"} |-> Plain(1)])
              [] g = 9 -> Group("Server Admin", administration)]

SeedChannelGroups ==
    [g \in 8..10 |->
        CASE g = 8  -> Group("Channel Admin", [n \in {"needed", "neededmember"} |-> Plain(1)])
          [] g = 9  -> Group("Operator", [n \in {"needed", "neededmember"} |-> Plain(1)])
          [] g = 10 -> Group("Guest", [n \in {"needed", "auto"} |-> Plain(1)])]

\* default_channel_group_id, which exists as long as there is a channel group.
DefaultChannelGroup ==
    LET automatic == {g \in DOMAIN cgroups : ValueOf(cgroups[g].perms, "auto") = 1}
        guests    == {g \in DOMAIN cgroups : cgroups[g].name = "Guest"}
    IN  Smallest(IF automatic # {} THEN automatic
                 ELSE IF guests # {} THEN guests ELSE DOMAIN cgroups)

\* effective_channel_group: an assignment to a group that is gone gives nothing.
ChannelGroupPermissions(c, w) ==
    IF <<c, w>> \in DOMAIN assigned
    THEN IF assigned[<<c, w>>] \in DOMAIN cgroups
         THEN cgroups[assigned[<<c, w>>]].perms ELSE NoPermissions
    ELSE cgroups[DefaultChannelGroup].perms

\* The ids in the list that counts for w.
GroupsOf(w) ==
    IF HasAccount(w) THEN account[w].groups
    ELSE IF IsOnline(w) THEN online[w].groups
    ELSE IF HasSaved(w) THEN saved[w].groups
    ELSE {}

\* client_permission_target looks for the virtual server too.
TargetFound(w) == w \in People /\ target[w] # NoTarget /\ target[w].server = 1

OwnPermissions(w) ==
    IF HasAccount(w) THEN account[w].perms
    ELSE IF TargetFound(w) THEN target[w].perms ELSE NoPermissions

ChannelClientPermissions(c, w) ==
    IF <<c, w>> \in DOMAIN ccperms THEN ccperms[<<c, w>>] ELSE NoPermissions

GroupMaps(w) == {sgroups[g].perms : g \in GroupsOf(w) \intersect DOMAIN sgroups}

EffectivePermissions(w, c) ==
    Tiered(GroupMaps(w), OwnPermissions(w), chperms[c],
           ChannelGroupPermissions(c, w), ChannelClientPermissions(c, w))

\* effective_permissions_for_client gives up on anybody else.
Resolvable(w) == HasAccount(w) \/ IsOnline(w) \/ TargetFound(w) \/ w \in clients

\* client_database_id_exists, known_client_database_ids: a target is enough.
KnownWithoutTarget(w) == HasAccount(w) \/ IsOnline(w) \/ HasSaved(w) \/ w \in clients

Known(w) == KnownWithoutTarget(w) \/ (w \in People /\ target[w] # NoTarget)

\* query_actor_effective_permissions: whoever may send commands.
Actors == {w \in Ids : HasAccount(w) \/ IsOnline(w)}

ActorPermissions == {EffectivePermissions(w, c) : w \in Actors, c \in channels}

RequiredPermission == \E a \in ActorPermissions : CheckRequiredPermission(a)

\* A step that needs the runtime mutex, which is not poisoned.
Uncounted == ~ poisoned /\ UNCHANGED <<poisoned, ops, edits>>

\* The same, of the commands that MaxOps bounds.
Command ==
    /\ ~ poisoned
    /\ ops < MaxOps
    /\ ops' = ops + 1
    /\ UNCHANGED <<poisoned, edits>>

\* The same, of the commands that MaxEdits bounds too.
Edit ==
    /\ ~ poisoned
    /\ ops < MaxOps /\ edits < MaxEdits
    /\ ops' = ops + 1 /\ edits' = edits + 1
    /\ UNCHANGED poisoned

-----------------------------------------------------------------------------
(* Normalisation.                                                          *)

\* Mutant: accounts that lose their last group become administrators first.
DefaultGroupsSwapped(w, ids) ==
    IF 6 \in ids THEN {6} ELSE IF 7 \in ids THEN {7} ELSE {}

\* default_server_groups_for_login_with_availability.
DefaultGroups(w, ids) ==
    IF w = Admin /\ 6 \in ids THEN {6}
    ELSE IF 7 \in ids THEN {7}
    ELSE IF 6 \in ids THEN {6}
    ELSE {}

OrDefault(w, gs, ids) == IF gs # {} THEN gs ELSE DefaultGroups(w, ids)

NormalizeQueryAccountGroups(acc, ids) ==
    [w \in Ids |->
        IF acc[w] = NoAccount THEN NoAccount
        ELSE Account(OrDefault(w, acc[w].groups \intersect ids, ids), acc[w].perms)]

\* Mutant: the clients that are online keep the id of a deleted group.
OnlineClientGroupsKept(on, ids) == on

NormalizeOnlineClientGroups(on, ids) ==
    [p \in People |-> IF on[p] = NoGroups THEN NoGroups ELSE List(on[p].groups \intersect ids)]

NormalizeAssignments(as, ids, chs, who) ==
    [k \in {x \in DOMAIN as : as[x] \in ids /\ x[1] \in chs /\ x[2] \in who} |-> as[k]]

NormalizeChannelClientPermissions(cc, chs, who) ==
    [k \in {x \in DOMAIN cc : x[1] \in chs /\ x[2] \in who /\ cc[x] # NoPermissions} |-> cc[k]]

\* The virtual server of the target is lost.
NormalizeClientPermissions(t) ==
    [p \in People |-> IF t[p] = NoTarget \/ t[p].perms = NoPermissions THEN NoTarget
                      ELSE Target(0, t[p].perms)]

-----------------------------------------------------------------------------
(* Server groups.                                                          *)

NextServerGroup == Largest(DOMAIN sgroups) + 1

ServerGroupAdd ==
    /\ Command
    /\ NextServerGroup <= MaxServerGroup
    /\ RequiredPermission
    /\ sgroups' = WithGroup(sgroups, NextServerGroup, Group("other", NoPermissions))
    /\ UNCHANGED <<cgroups, people, inside, given, stale, outdated, orphans>>

ServerGroupInUse(g) ==
    \/ \E w \in Ids : HasAccount(w) /\ g \in account[w].groups
    \/ \E p \in People : IsOnline(p) /\ g \in online[p].groups

\* The saved lists of clients keep the id.  (The model keeps one group: an empty
\* table would be filled again from SQLite at the next start.)
ServerGroupDel(g, force) ==
    LET left == DOMAIN sgroups \ {g}
    IN  /\ Command
        /\ g \in DOMAIN sgroups /\ left # {}
        /\ RequiredPermission
        /\ ServerGroupInUse(g) => force
        /\ sgroups' = WithoutGroup(sgroups, g)
        /\ account' = NormalizeQueryAccountGroups(account, left)
        /\ online' = NormalizeOnlineClientGroups(online, left)
        /\ given' = given \ {<<k, w, g>> : k \in {"account", "client"}, w \in Ids}
        /\ stale' = stale \union
               {<<p, g>> : p \in {x \in People : HasSaved(x) /\ g \in saved[x].groups}}
        /\ outdated' = {o \in outdated : o[2] # g}
        /\ UNCHANGED <<cgroups, saved, clients, rows, target, inside, orphans>>

\* servergroupcopy to a new group, or over an existing one.
ServerGroupCopy(s, t) ==
    /\ Edit
    /\ s \in DOMAIN sgroups
    /\ \/ t = NextServerGroup /\ t <= MaxServerGroup
       \/ t \in DOMAIN sgroups
    /\ \E a \in ActorPermissions :
           /\ CheckRequiredPermission(a)
           /\ CheckGroupModifyAllowed(a, sgroups[s].perms)
           /\ t \in DOMAIN sgroups => CheckGroupModifyAllowed(a, sgroups[t].perms)
    /\ sgroups' = WithGroup(sgroups, t,
           Group(IF t \in DOMAIN sgroups THEN sgroups[t].name ELSE "other", sgroups[s].perms))
    /\ UNCHANGED <<cgroups, people, inside, given, stale, outdated, orphans>>

ServerGroupAddPerm(g, n, a) ==
    /\ Edit
    /\ g \in DOMAIN sgroups
    /\ \E x \in ActorPermissions : CheckPermissionEditAllowed(x, sgroups[g].perms)
    /\ sgroups' = [sgroups EXCEPT ![g].perms = With(@, n, a)]
    /\ UNCHANGED <<cgroups, people, inside, given, stale, outdated, orphans>>

ServerGroupDelPerm(g, n) ==
    /\ Edit
    /\ g \in DOMAIN sgroups /\ n \in DOMAIN sgroups[g].perms
    /\ \E x \in ActorPermissions : CheckPermissionEditAllowed(x, sgroups[g].perms)
    /\ sgroups' = [sgroups EXCEPT ![g].perms = Without(@, n)]
    /\ UNCHANGED <<cgroups, people, inside, given, stale, outdated, orphans>>

\* servergrouprename; only the name "Server Admin" means something to a start.
ServerGroupRename(g) ==
    /\ Edit
    /\ g \in DOMAIN sgroups
    /\ \E x \in ActorPermissions : CheckGroupModifyAllowed(x, sgroups[g].perms)
    /\ sgroups' = [sgroups EXCEPT ![g].name = "other"]
    /\ UNCHANGED <<cgroups, people, inside, given, stale, outdated, orphans>>

\* servergroupautoaddperm and servergroupautodelperm, for one type of groups.
Automatic == {g \in DOMAIN sgroups : ValueOf(sgroups[g].perms, "auto") = 1}

ServerGroupAutoAddPerm(n, a) ==
    /\ Edit
    /\ RequiredPermission
    /\ sgroups' = [g \in DOMAIN sgroups |->
           IF g \in Automatic THEN Group(sgroups[g].name, With(sgroups[g].perms, n, a))
           ELSE sgroups[g]]
    /\ UNCHANGED <<cgroups, people, inside, given, stale, outdated, orphans>>

ServerGroupAutoDelPerm(n) ==
    /\ Edit
    /\ RequiredPermission
    /\ sgroups' = [g \in DOMAIN sgroups |->
           IF g \in Automatic THEN Group(sgroups[g].name, Without(sgroups[g].perms, n))
           ELSE sgroups[g]]
    /\ UNCHANGED <<cgroups, people, inside, given, stale, outdated, orphans>>

-----------------------------------------------------------------------------
(* Members of server groups.                                               *)

\* The pairs of p that do not name one of the groups gs are forgotten.
Keep(pairs, p, gs) == {o \in pairs : o[1] # p \/ o[2] \in gs}

\* Mutant: the list for the next connection is not written.
SaveGroupsNot(p, gs) ==
    /\ online' = [online EXCEPT ![p] = List(gs)]
    /\ UNCHANGED <<saved, stale>>
    /\ outdated' = Keep(outdated, p, gs)

\* The new list of groups of a client that is online is saved at once, by
\* persist_web_client_server_groups.
SaveGroups(p, gs) ==
    /\ online' = [online EXCEPT ![p] = List(gs)]
    /\ saved' = [saved EXCEPT ![p] = List(gs)]
    /\ outdated' = Keep(outdated, p, gs)
    /\ stale' = Keep(stale, p, {g \in gs : <<p, g>> \in outdated})

\* The account of w, or else its client that is online, gets the groups gs.
JoinGroups(w, gs) ==
    IF HasAccount(w)
    THEN /\ account' = [account EXCEPT ![w].groups = @ \union gs]
         /\ given' = given \union {<<"account", w, g>> : g \in gs}
         /\ UNCHANGED <<online, saved, stale, outdated>>
    ELSE /\ IsOnline(w)
         /\ SaveGroups(w, online[w].groups \union gs)
         /\ given' = given \union {<<"client", w, g>> : g \in gs}
         /\ UNCHANGED account

\* servergroupaddclient, for query, web and desktop clients.
WebAddServerGroupClient(w, g) ==
    /\ Command
    /\ g \in DOMAIN sgroups
    /\ \E a \in ActorPermissions : CheckServerGroupMembershipChange(a, sgroups[g].perms)
    /\ JoinGroups(w, {g})
    /\ UNCHANGED <<groups, clients, rows, target, inside, orphans>>

\* servergroupdelclient: the last group of an account is replaced by a default
\* that exists, the last one of a client by group 8, whether it exists or not.
WebDelServerGroupClient(w, g) ==
    /\ Command
    /\ g \in DOMAIN sgroups
    /\ \E a \in ActorPermissions : CheckServerGroupMembershipChange(a, sgroups[g].perms)
    /\ IF HasAccount(w)
       THEN /\ account' = [account EXCEPT ![w].groups = OrDefault(w, @ \ {g}, DOMAIN sgroups)]
            /\ given' = given \ {<<"account", w, g>>}
            /\ UNCHANGED <<online, saved, stale, outdated>>
       ELSE /\ IsOnline(w)
            /\ SaveGroups(w, IF online[w].groups \subseteq {g} THEN {8}
                             ELSE online[w].groups \ {g})
            /\ given' = given \ {<<"client", w, g>>}
            /\ UNCHANGED account
    /\ UNCHANGED <<groups, clients, rows, target, inside, orphans>>

\* /addgroup and /delgroup of the chat ask nobody, and look at clients only.
ChatAddGroup(p, g) ==
    /\ Command
    /\ IsOnline(p) /\ g \in DOMAIN sgroups
    /\ SaveGroups(p, online[p].groups \union {g})
    /\ given' = given \union {<<"client", p, g>>}
    /\ UNCHANGED <<groups, account, clients, rows, target, inside, orphans>>

ChatDelGroup(p, g) ==
    /\ Command
    /\ IsOnline(p) /\ g \in DOMAIN sgroups
    /\ SaveGroups(p, IF online[p].groups \subseteq {g} THEN {8} ELSE online[p].groups \ {g})
    /\ given' = given \ {<<"client", p, g>>}
    /\ UNCHANGED <<groups, account, clients, rows, target, inside, orphans>>
-----------------------------------------------------------------------------
(* Channel groups.                                                         *)

NextChannelGroup == Largest(DOMAIN cgroups) + 1

ChannelGroupAdd ==
    /\ Command
    /\ NextChannelGroup <= MaxChannelGroup
    /\ RequiredPermission
    /\ cgroups' = WithGroup(cgroups, NextChannelGroup, Group("other", NoPermissions))
    /\ UNCHANGED <<sgroups, people, inside, given, stale, outdated, orphans>>

ChannelGroupInUse(g) == \E k \in DOMAIN assigned : assigned[k] = g

\* Mutant: the assignments to the deleted group are left for the next start.
ChannelGroupAssignmentsLeft(g) == assigned

\* The assignments that channelgroupdel leaves.
ChannelGroupAssignmentsAfter(g) ==
    NormalizeAssignments(assigned, DOMAIN cgroups \ {g}, channels, {w \in Ids : Known(w)})

ChannelGroupDel(g, force) ==
    /\ Command
    /\ g \in DOMAIN cgroups /\ DOMAIN cgroups # {g}
    /\ RequiredPermission
    /\ ChannelGroupInUse(g) => force
    /\ cgroups' = WithoutGroup(cgroups, g)
    /\ assigned' = ChannelGroupAssignmentsAfter(g)
    /\ given' = given \ {<<"assigned", c, w, g>> : c \in ChannelIds, w \in Ids}
    /\ UNCHANGED <<sgroups, people, channels, chperms, ccperms, stale, outdated, orphans>>

ChannelGroupCopy(s, t) ==
    /\ Edit
    /\ s \in DOMAIN cgroups
    /\ \/ t = NextChannelGroup /\ t <= MaxChannelGroup
       \/ t \in DOMAIN cgroups
    /\ \E a \in ActorPermissions :
           /\ CheckRequiredPermission(a)
           /\ CheckGroupModifyAllowed(a, cgroups[s].perms)
           /\ t \in DOMAIN cgroups => CheckGroupModifyAllowed(a, cgroups[t].perms)
    /\ cgroups' = WithGroup(cgroups, t,
           Group(IF t \in DOMAIN cgroups THEN cgroups[t].name ELSE "other", cgroups[s].perms))
    /\ UNCHANGED <<sgroups, people, inside, given, stale, outdated, orphans>>

ChannelGroupAddPerm(g, n, a) ==
    /\ Edit
    /\ g \in DOMAIN cgroups
    /\ \E x \in ActorPermissions : CheckPermissionEditAllowed(x, cgroups[g].perms)
    /\ cgroups' = [cgroups EXCEPT ![g].perms = With(@, n, a)]
    /\ UNCHANGED <<sgroups, people, inside, given, stale, outdated, orphans>>

ChannelGroupDelPerm(g, n) ==
    /\ Edit
    /\ g \in DOMAIN cgroups /\ n \in DOMAIN cgroups[g].perms
    /\ \E x \in ActorPermissions : CheckPermissionEditAllowed(x, cgroups[g].perms)
    /\ cgroups' = [cgroups EXCEPT ![g].perms = Without(@, n)]
    /\ UNCHANGED <<sgroups, people, inside, given, stale, outdated, orphans>>

\* channelgrouprename; only the name "Guest" means something.
ChannelGroupRename(g) ==
    /\ Edit
    /\ g \in DOMAIN cgroups
    /\ \E x \in ActorPermissions : CheckGroupModifyAllowed(x, cgroups[g].perms)
    /\ cgroups' = [cgroups EXCEPT ![g].name = "other"]
    /\ UNCHANGED <<sgroups, people, inside, given, stale, outdated, orphans>>

\* The assignments once w has group g in channel c, normalised.
AssignmentsWith(c, w, g) ==
    NormalizeAssignments([k \in DOMAIN assigned \union {<<c, w>>} |->
                             IF k = <<c, w>> THEN g ELSE assigned[k]],
                         DOMAIN cgroups, channels, {x \in Ids : Known(x)})

\* The rights given once the one of w in c has been replaced.
GivenAssignment(gave, c, w, g) ==
    {r \in gave : r[1] = "assigned" => r[2] # c \/ r[3] # w}
        \union (IF c \in channels THEN {<<"assigned", c, w, g>>} ELSE {})

SetClientChannelGroup(c, w, g) ==
    LET current == IF <<c, w>> \in DOMAIN assigned THEN {assigned[<<c, w>>]} ELSE {}
    IN  /\ Command
        /\ g \in DOMAIN cgroups /\ c \in channels /\ Known(w)
        /\ current # {g} /\ current \subseteq DOMAIN cgroups
        /\ \E a \in ActorPermissions : \A h \in current \union {g} :
               CheckChannelGroupMembershipChange(a, cgroups[h].perms)
        /\ assigned' = AssignmentsWith(c, w, g)
        /\ given' = GivenAssignment(given, c, w, g)
        /\ UNCHANGED <<groups, people, channels, chperms, ccperms, stale, outdated, orphans>>

\* tokenuse of a key for a server group, and for a channel group in a channel that
\* need not exist.
TokenUse(w, key) ==
    /\ Command
    /\ w \in Actors
    /\ key.group \in DOMAIN sgroups /\ key.channelGroup \in DOMAIN cgroups
    /\ IF HasAccount(w)
       THEN /\ account' = [account EXCEPT ![w].groups = @ \union {key.group}]
            /\ UNCHANGED <<online, saved, stale, outdated>>
       ELSE SaveGroups(w, online[w].groups \union {key.group}) /\ UNCHANGED account
    /\ assigned' = AssignmentsWith(key.channel, w, key.channelGroup)
    /\ given' = GivenAssignment(given, key.channel, w, key.channelGroup)
           \union {<<IF HasAccount(w) THEN "account" ELSE "client", w, key.group>>}
    /\ UNCHANGED <<groups, clients, rows, target, channels, chperms, ccperms, orphans>>

-----------------------------------------------------------------------------
(* Permissions of accounts, clients, channels, and clients in channels.    *)

\* Whoever may edit the permissions of w.
MayEditClient(w) ==
    Resolvable(w) /\ \E c \in channels :
        \E a \in ActorPermissions : CheckPermissionEditAllowed(a, EffectivePermissions(w, c))

AccountAddPerm(w, n, a) ==
    /\ Edit
    /\ HasAccount(w) /\ MayEditClient(w)
    /\ account' = [account EXCEPT ![w].perms = With(@, n, a)]
    /\ given' = given \union {<<"own account", w, n>>}
    /\ UNCHANGED <<groups, online, saved, clients, rows, target, inside, stale, outdated, orphans>>

AccountDelPerm(w, n) ==
    /\ Edit
    /\ HasAccount(w) /\ MayEditClient(w)
    /\ n \in DOMAIN account[w].perms
    /\ account' = [account EXCEPT ![w].perms = Without(@, n)]
    /\ given' = given \ {<<"own account", w, n>>}
    /\ UNCHANGED <<groups, online, saved, clients, rows, target, inside, stale, outdated, orphans>>

\* clientaddperm for a client without an account: the target is found, or made.
ClientAddPerm(p, n, a) ==
    /\ Edit
    /\ ~ HasAccount(p) /\ Known(p) /\ MayEditClient(p)
    /\ target[p] # NoTarget => target[p].server = 1
    /\ target' = [target EXCEPT ![p] =
           Target(1, With(IF @ = NoTarget THEN NoPermissions ELSE @.perms, n, a))]
    /\ given' = given \union {<<"own", p, n>>}
    /\ UNCHANGED <<groups, account, online, saved, clients, rows, inside, stale, outdated, orphans>>

\* ensure_client_permission_target_mut finds a target of another virtual server,
\* the search that follows does not: unwrap panics, and the mutex is poisoned.
ClientAddPermPanics(p) ==
    /\ ~ poisoned /\ ops < MaxOps
    /\ ~ HasAccount(p) /\ Known(p) /\ MayEditClient(p)
    /\ target[p] # NoTarget /\ target[p].server # 1
    /\ poisoned' = TRUE
    /\ ops' = ops + 1
    /\ UNCHANGED <<groups, people, inside, edits, history>>

\* The rights of w in channels, in the tables and in the ghost.
PairsOf(w) == {k \in DOMAIN assigned \union DOMAIN ccperms : k[2] = w}
GivenInChannelsTo(w) == {r \in given : r[1] \in {"assigned", "in channel"} /\ r[3] = w}

\* clientdelperm finds the target whatever its virtual server is.  With its last
\* permission goes the target, and a client that clientdbdelete removed is known no
\* more: the next normalisation drops its rights in channels.
ClientDelPerm(p, n) ==
    LET unknown == DOMAIN target[p].perms = {n} /\ ~ KnownWithoutTarget(p)
    IN  /\ Edit
        /\ ~ HasAccount(p) /\ MayEditClient(p)
        /\ target[p] # NoTarget /\ n \in DOMAIN target[p].perms
        /\ target' = [target EXCEPT ![p] =
               IF DOMAIN @.perms = {n} THEN NoTarget ELSE Target(@.server, Without(@.perms, n))]
        /\ given' = (given \ {<<"own", p, n>>, <<"own, restarted", p, n>>})
                        \ (IF unknown THEN GivenInChannelsTo(p) ELSE {})
        /\ orphans' = orphans \union (IF unknown THEN PairsOf(p) ELSE {})
        /\ UNCHANGED <<groups, account, online, saved, clients, rows, inside, stale, outdated>>

ChannelAddPerm(c, n, a) ==
    /\ Edit
    /\ c \in channels
    /\ \E x \in ActorPermissions : CheckPermissionEditAllowed(x, chperms[c])
    /\ chperms' = [chperms EXCEPT ![c] = With(@, n, a)]
    /\ UNCHANGED <<groups, people, channels, assigned, ccperms, given, stale, outdated, orphans>>

ChannelDelPerm(c, n) ==
    /\ Edit
    /\ c \in channels /\ n \in DOMAIN chperms[c]
    /\ \E x \in ActorPermissions : CheckPermissionEditAllowed(x, chperms[c])
    /\ chperms' = [chperms EXCEPT ![c] = Without(@, n)]
    /\ UNCHANGED <<groups, people, channels, assigned, ccperms, given, stale, outdated, orphans>>

ChannelClientAddPerm(c, w, n, a) ==
    /\ Edit
    /\ c \in channels /\ Known(w) /\ MayEditClient(w)
    /\ ccperms' = [k \in DOMAIN ccperms \union {<<c, w>>} |->
           IF k = <<c, w>> THEN With(ChannelClientPermissions(c, w), n, a) ELSE ccperms[k]]
    /\ given' = given \union {<<"in channel", c, w, n>>}
    /\ UNCHANGED <<groups, people, channels, chperms, assigned, stale, outdated, orphans>>

ChannelClientDelPerm(c, w, n) ==
    LET left == Without(ChannelClientPermissions(c, w), n)
    IN  /\ Edit
        /\ c \in channels /\ Known(w) /\ MayEditClient(w)
        /\ n \in DOMAIN ChannelClientPermissions(c, w)
        /\ ccperms' = [k \in {x \in DOMAIN ccperms : x = <<c, w>> => left # NoPermissions} |->
               IF k = <<c, w>> THEN left ELSE ccperms[k]]
        /\ given' = given \ {<<"in channel", c, w, n>>}
        /\ UNCHANGED <<groups, people, channels, chperms, assigned, stale, outdated, orphans>>

-----------------------------------------------------------------------------
(* Channels, clients and accounts come and go.                             *)

ChannelCreate(c) ==
    /\ Uncounted
    /\ c \notin channels
    /\ channels' = channels \union {c}
    /\ chperms' = [chperms EXCEPT ![c] = NoPermissions]
    /\ UNCHANGED <<groups, people, assigned, ccperms, given, stale, outdated, orphans>>

\* The rights in channel c, in the table and in the ghost.
PairsIn(c) == {k \in DOMAIN assigned \union DOMAIN ccperms : k[1] = c}
GivenIn(c) == {r \in given : r[1] \in {"assigned", "in channel"} /\ r[2] = c}

\* What channeldelete and the clean-up of temporary channels leave.
AssignedWithout(c) == [k \in {x \in DOMAIN assigned : x[1] # c} |-> assigned[k]]

ChannelDelete(c) ==
    /\ Command
    /\ c \in channels /\ c # 1
    /\ channels' = channels \ {c}
    /\ chperms' = [chperms EXCEPT ![c] = NoPermissions]
    /\ assigned' = AssignedWithout(c)
    /\ ccperms' = [k \in {x \in DOMAIN ccperms : x[1] # c} |-> ccperms[k]]
    /\ given' = given \ GivenIn(c)
    /\ orphans' = {o \in orphans : o[1] # c}
    /\ UNCHANGED <<groups, people, stale, outdated>>

\* The channeldelete of a desktop client takes the channel only.
DesktopChannelDelete(c) ==
    /\ Command
    /\ c \in channels /\ c # 1
    /\ channels' = channels \ {c}
    /\ chperms' = [chperms EXCEPT ![c] = NoPermissions]
    /\ given' = given \ GivenIn(c)
    /\ orphans' = orphans \union PairsIn(c)
    /\ UNCHANGED <<groups, people, assigned, ccperms, stale, outdated>>

\* upsert_web_client: the saved list comes back as it is.
Connect(p) ==
    /\ Uncounted
    /\ ~ IsOnline(p)
    /\ online' = [online EXCEPT ![p] =
           List(IF HasSaved(p) /\ saved[p].groups # {} THEN saved[p].groups ELSE {8})]
    /\ clients' = clients \union {p}
    /\ rows' = rows \union {p}
    /\ outdated' = outdated \union {o \in stale : o[1] = p}
    /\ UNCHANGED <<groups, account, saved, target, inside, given, stale, orphans>>

Disconnect(p) ==
    /\ Uncounted
    /\ IsOnline(p)
    /\ online' = [online EXCEPT ![p] = NoGroups]
    /\ outdated' = Keep(outdated, p, {})
    /\ UNCHANGED <<groups, account, saved, clients, rows, target, inside, given, stale, orphans>>

\* Mutant: the row of the new client is left to a later save.
QueryCreateInMemory(w) ==
    /\ Command
    /\ ~ HasAccount(w)
    /\ RequiredPermission
    /\ account' = [account EXCEPT ![w] =
           Account(DefaultGroups("query-account", DOMAIN sgroups), NoPermissions)]
    /\ clients' = clients \union {w}
    /\ UNCHANGED <<groups, online, saved, rows, target, inside, given, stale, outdated, orphans>>

\* querycreate for a client database id that is new, or that a client has.
QueryCreate(w) ==
    /\ Command
    /\ ~ HasAccount(w)
    /\ RequiredPermission
    /\ account' = [account EXCEPT ![w] =
           Account(DefaultGroups("query-account", DOMAIN sgroups), NoPermissions)]
    /\ clients' = clients \union {w}
    /\ rows' = rows \union {w}
    /\ UNCHANGED <<groups, online, saved, target, inside, given, stale, outdated, orphans>>

\* Rights of w that go with its account.
GivenToAccount(w) ==
    {r \in given : r[1] \in {"account", "own account"} /\ r[2] = w} \union GivenInChannelsTo(w)

QueryDelete(w) ==
    /\ Command
    /\ HasAccount(w)
    /\ RequiredPermission
    /\ account' = [account EXCEPT ![w] = NoAccount]
    /\ assigned' = [k \in {x \in DOMAIN assigned : x[2] # w} |-> assigned[k]]
    /\ ccperms' = [k \in {x \in DOMAIN ccperms : x[2] # w} |-> ccperms[k]]
    /\ given' = given \ GivenToAccount(w)
    /\ orphans' = {o \in orphans : o[2] # w}
    /\ UNCHANGED <<groups, online, saved, clients, rows, target, channels, chperms, stale, outdated>>

\* clientdbdelete forgets neither the rights of the client nor its row in SQLite.
ClientDbDelete(w) ==
    /\ Command
    /\ w \in clients /\ ~ IsOnline(w)
    /\ RequiredPermission
    /\ clients' = clients \ {w}
    /\ given' = given \ GivenInChannelsTo(w)
    /\ orphans' = orphans \union PairsOf(w)
    /\ UNCHANGED <<groups, account, online, saved, rows, target, inside, stale, outdated>>
-----------------------------------------------------------------------------
(* Reset and restart.                                                      *)

\* permreset drops every custom property kept for all virtual servers.
SavedAfterReset == [p \in People |-> NoGroups]

\* permreset, at the console, on the command line or by query.
PermReset ==
    /\ Command
    /\ sgroups' = SeedServerGroups /\ cgroups' = SeedChannelGroups
    /\ account' = [w \in Ids |->
           IF w = Admin THEN Account({6}, NoPermissions)
           ELSE IF HasAccount(w) THEN Account({7}, NoPermissions) ELSE NoAccount]
    /\ online' = [p \in People |-> IF IsOnline(p) THEN List({8}) ELSE NoGroups]
    /\ saved' = SavedAfterReset
    /\ target' = [p \in People |-> NoTarget]
    /\ chperms' = [c \in ChannelIds |-> NoPermissions]
    /\ assigned' = [k \in {} |-> 0]
    /\ ccperms' = [k \in {} |-> NoPermissions]
    /\ given' = {} /\ stale' = {} /\ outdated' = {} /\ orphans' = {}
    /\ UNCHANGED <<clients, rows, channels>>

\* The groups that load_persisted_state puts back before it looks for the group
\* that is called Server Admin.
WithDefaultGroups(gs) ==
    [g \in DOMAIN gs \union {6, 7, 8} |->
        IF g \in DOMAIN gs THEN gs[g]
        ELSE IF g = 8 THEN Group("Normal", [n \in {"neededmember"} |-> Plain(1)])
        ELSE SeedServerGroups[g]]

WithServerAdmin(gs) ==
    LET free == IF 9 \notin DOMAIN gs THEN 9 ELSE Largest(DOMAIN gs) + 1
    IN  IF \E g \in DOMAIN gs : gs[g].name = "Server Admin" THEN gs
        ELSE WithGroup(gs, free, SeedServerGroups[9])

\* ensure_web_server_group_assignment_permission_basis, where group 8 exists.
WithBasis(gs) ==
    [gs EXCEPT ![8].perms = IF "servermember" \in DOMAIN @ THEN @ ELSE With(@, "servermember", Plain(1))]

LoadedServerGroups == WithBasis(WithServerAdmin(WithDefaultGroups(sgroups)))

\* known_client_database_ids while the state is loaded: nobody is online.
KnownAtLoad ==
    {w \in Ids : \/ HasAccount(w) \/ HasSaved(w) \/ w \in rows
                 \/ (w \in People /\ NormalizeClientPermissions(target)[w] # NoTarget)}

\* The process ends, or is killed after a panic, and starts again from the file
\* that the last command wrote.
Restart ==
    /\ DOMAIN LoadedServerGroups \subseteq 6..MaxServerGroup
    /\ account' = NormalizeQueryAccountGroups(account, DOMAIN sgroups)
    /\ sgroups' = LoadedServerGroups
    /\ online' = [p \in People |-> NoGroups]
    /\ clients' = rows
    /\ target' = NormalizeClientPermissions(target)
    /\ assigned' = NormalizeAssignments(assigned, DOMAIN cgroups, channels, KnownAtLoad)
    /\ ccperms' = NormalizeChannelClientPermissions(ccperms, channels, KnownAtLoad)
    /\ poisoned' = FALSE
    /\ given' = {IF r[1] = "own" THEN <<"own, restarted", r[2], r[3]>> ELSE r : r \in given}
    /\ outdated' = {}
    /\ UNCHANGED <<cgroups, saved, rows, channels, chperms, ops, edits, stale, orphans>>

-----------------------------------------------------------------------------

Init ==
    /\ sgroups = SeedServerGroups /\ cgroups = SeedChannelGroups
    /\ account = [w \in Ids |-> IF w = Admin THEN Account({6}, NoPermissions) ELSE NoAccount]
    /\ online = [p \in People |-> NoGroups]
    /\ saved = [p \in People |-> NoGroups]
    /\ clients = {} /\ rows = {}
    /\ target = [p \in People |-> NoTarget]
    /\ channels = ChannelIds
    /\ chperms = [c \in ChannelIds |-> NoPermissions]
    /\ assigned = [k \in {} |-> 0]
    /\ ccperms = [k \in {} |-> NoPermissions]
    /\ poisoned = FALSE /\ ops = 0 /\ edits = 0
    /\ given = {} /\ stale = {} /\ outdated = {} /\ orphans = {}

ServerGroupIds  == 6..MaxServerGroup
ChannelGroupIds == 8..MaxChannelGroup

ServerGroupStep ==
    \/ ServerGroupAdd
    \/ \E g \in ServerGroupIds :
          \/ \E force \in BOOLEAN : ServerGroupDel(g, force)
          \/ \E t \in ServerGroupIds : ServerGroupCopy(g, t)
          \/ \E n \in EditNames, a \in EditAssignments : ServerGroupAddPerm(g, n, a)
          \/ \E n \in EditNames : ServerGroupDelPerm(g, n)
          \/ ServerGroupRename(g)
          \/ \E w \in Ids : WebAddServerGroupClient(w, g) \/ WebDelServerGroupClient(w, g)
          \/ \E p \in People : ChatAddGroup(p, g) \/ ChatDelGroup(p, g)
    \/ \E n \in EditNames, a \in EditAssignments : ServerGroupAutoAddPerm(n, a)
    \/ \E n \in EditNames : ServerGroupAutoDelPerm(n)
    \/ \E w \in Ids, key \in Keys : TokenUse(w, key)

ChannelGroupStep ==
    \/ ChannelGroupAdd
    \/ \E g \in ChannelGroupIds :
          \/ \E force \in BOOLEAN : ChannelGroupDel(g, force)
          \/ \E t \in ChannelGroupIds : ChannelGroupCopy(g, t)
          \/ \E n \in EditNames, a \in EditAssignments : ChannelGroupAddPerm(g, n, a)
          \/ \E n \in EditNames : ChannelGroupDelPerm(g, n)
          \/ ChannelGroupRename(g)
          \/ \E c \in ChannelIds, w \in Ids : SetClientChannelGroup(c, w, g)

EntityStep ==
    \/ \E n \in EditNames :
          \/ \E a \in EditAssignments :
                \/ \E w \in Ids : AccountAddPerm(w, n, a)
                \/ \E p \in People : ClientAddPerm(p, n, a)
                \/ \E c \in ChannelIds : ChannelAddPerm(c, n, a)
                \/ \E c \in ChannelIds, w \in Ids : ChannelClientAddPerm(c, w, n, a)
          \/ \E w \in Ids : AccountDelPerm(w, n)
          \/ \E p \in People : ClientDelPerm(p, n)
          \/ \E c \in ChannelIds : ChannelDelPerm(c, n)
          \/ \E c \in ChannelIds, w \in Ids : ChannelClientDelPerm(c, w, n)
    \/ \E p \in People : ClientAddPermPanics(p)

ComeAndGo ==
    \/ \E c \in ChannelIds : ChannelCreate(c) \/ ChannelDelete(c) \/ DesktopChannelDelete(c)
    \/ \E p \in People : Connect(p) \/ Disconnect(p)
    \/ \E w \in Ids : QueryCreate(w) \/ QueryDelete(w) \/ ClientDbDelete(w)

Next == ServerGroupStep \/ ChannelGroupStep \/ EntityStep \/ ComeAndGo \/ PermReset \/ Restart

Spec == Init /\ [][Next]_vars

-----------------------------------------------------------------------------
(* Properties.                                                             *)

GroupTable(gs, ids) ==
    /\ DOMAIN gs \subseteq ids /\ DOMAIN gs # {}
    /\ \A g \in DOMAIN gs : DOMAIN gs[g] = {"name", "perms"} /\ IsPermissionMap(gs[g].perms)

\* The tables hold what their types say.
TypeOK ==
    /\ GroupTable(sgroups, ServerGroupIds) /\ GroupTable(cgroups, ChannelGroupIds)
    /\ \A w \in Ids : HasAccount(w) =>
          account[w].groups \subseteq ServerGroupIds /\ IsPermissionMap(account[w].perms)
    /\ \A p \in People : online[p] = NoGroups \/ online[p].groups \subseteq ServerGroupIds
    /\ \A p \in People : saved[p] = NoGroups \/ saved[p].groups \subseteq ServerGroupIds
    /\ clients \subseteq rows /\ rows \subseteq Ids
    /\ \A p \in People : target[p] # NoTarget =>
          target[p].server \in {0, 1} /\ IsPermissionMap(target[p].perms)
    /\ 1 \in channels /\ channels \subseteq ChannelIds
    /\ DOMAIN chperms = ChannelIds /\ \A c \in ChannelIds : IsPermissionMap(chperms[c])
    /\ DOMAIN assigned \subseteq ChannelIds \X Ids
    /\ DOMAIN ccperms \subseteq ChannelIds \X Ids
    /\ poisoned \in BOOLEAN /\ ops \in 0..MaxOps /\ edits \in 0..MaxEdits

\* Nobody has a right by accident.  Group and channel ids are given out again
\* after a deletion (next_server_group_id is the largest id plus one), so every
\* membership, assignment and permission in a channel has been given to its
\* holder for the group and the channel that have the id now, and an account
\* never names a group that is gone.  What the code leaves open is named: the
\* defaults (6, 7 and 8), a saved list from before the group was deleted, and the
\* rights in a channel that a desktop client deleted, or of a client that
\* clientdbdelete removed or that clientdelperm made unknown.
RightsWereGiven ==
    /\ \A w \in Ids : HasAccount(w) =>
          /\ account[w].groups \subseteq DOMAIN sgroups
          /\ \A g \in account[w].groups \ {6, 7} : <<"account", w, g>> \in given
    /\ \A p \in People : IsOnline(p) =>
          \A g \in online[p].groups \ {8} : <<"client", p, g>> \in given \/ <<p, g>> \in outdated
    /\ \A k \in DOMAIN assigned :
          /\ assigned[k] \in DOMAIN cgroups
          /\ k \in orphans \/ <<"assigned", k[1], k[2], assigned[k]>> \in given
    /\ \A k \in DOMAIN ccperms : \A n \in DOMAIN ccperms[k] :
          k \in orphans \/ <<"in channel", k[1], k[2], n>> \in given

\* What was given lasts until somebody takes it back, whatever connections,
\* restarts and normalisations come between: a membership is in the account, with
\* the client that is online, or in the list for its next connection; an
\* assignment and a permission are in their tables; and the permission of a client
\* is found for its virtual server, until a restart has written 0 over that.
RightsLast ==
    \A r \in given :
        CASE r[1] = "account"     -> HasAccount(r[2]) /\ r[3] \in account[r[2]].groups
          [] r[1] = "client"      -> IF IsOnline(r[2]) THEN r[3] \in online[r[2]].groups
                                     ELSE HasSaved(r[2]) /\ r[3] \in saved[r[2]].groups
          [] r[1] = "assigned"    -> /\ <<r[2], r[3]>> \in DOMAIN assigned
                                     /\ assigned[<<r[2], r[3]>>] = r[4]
          [] r[1] = "own account" -> r[3] \in DOMAIN account[r[2]].perms
          [] r[1] = "own"         -> TargetFound(r[2]) /\ r[3] \in DOMAIN target[r[2]].perms
          [] r[1] = "own, restarted" -> r[3] \in DOMAIN target[r[2]].perms
          [] r[1] = "in channel"  -> r[4] \in DOMAIN ChannelClientPermissions(r[2], r[3])

\* The tiers of w in channel c that assign n: 2 stands for the groups and the own
\* permissions of w, 3 to 5 for the channel, the channel group and w in c.
Layer(w, c) ==
    <<NoPermissions, Replace(ServerGroupTier(GroupMaps(w)), OwnPermissions(w)), chperms[c],
      ChannelGroupPermissions(c, w), ChannelClientPermissions(c, w)>>

\* The value that n has from the groups of w, if it has no permission of its own.
GroupValue(w, n) ==
    LET as == {m[n] : m \in {x \in GroupMaps(w) : n \in DOMAIN x}}
    IN  CHOOSE v \in {a.value : a \in as} :
            \A a \in as : IF \E b \in as : b.negated THEN v <= a.value ELSE v >= a.value

\* What effective_permissions_for_client_in_channel_context promises, for every
\* state of the five tiers: the first tier whose assignment carries the skip flag
\* decides, and when there is none the last tier that assigns the permission;
\* b_client_skip_channelgroup_permissions leaves only the first two; and of several
\* server groups the largest value counts, unless one of them negates.
LayersDecide ==
    \A w \in Ids, c \in channels : Resolvable(w) =>
        LET L == Layer(w, c)
            E == EffectivePermissions(w, c)
            counted == IF ValueOf(L[2], "skip") # 0 THEN {2} ELSE 2..5
        IN  \A n \in Names :
              LET assigning == {t \in counted : n \in DOMAIN L[t]}
                  skipping  == {t \in assigning : L[t][n].skipped}
              IN  /\ n \in DOMAIN E <=> assigning # {}
                  /\ assigning # {} =>
                        E[n] = L[IF skipping # {} THEN Smallest(skipping) ELSE Largest(assigning)][n]
                  /\ n \in DOMAIN ServerGroupTier(GroupMaps(w)) =>
                        ServerGroupTier(GroupMaps(w))[n].value = GroupValue(w, n)

\* An account that loses its last group falls back to the guest group: it becomes
\* an administrator unasked only if it is serveradmin, or when there is no guest
\* group to fall back to.
FallsBackToGuest ==
    [][\A w \in Ids :
          /\ account'[w] # NoAccount /\ 6 \in account'[w].groups
          /\ account[w] = NoAccount \/ 6 \notin account[w].groups
          /\ <<"account", w, 6>> \notin given'
          => w = Admin \/ 7 \notin DOMAIN sgroups \/ 7 \notin DOMAIN sgroups']_vars
=============================================================================
