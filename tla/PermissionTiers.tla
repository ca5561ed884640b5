-------------------------- MODULE PermissionTiers --------------------------
(***************************************************************************)
(* How the assignments of the five permission tiers combine into the       *)
(* effective permissions of a client, and the tests that the handlers make *)
(* on the result.                                                          *)
(*                                                                         *)
(* A permission map is a function from some of the Names to assignments.   *)
(* The hundreds of names of the catalogue are abstracted to the parts they *)
(* play in the handlers: "right" is the b_ permission, or the power to     *)
(* edit permissions, that a handler asks for; "modify" and "needed" are    *)
(* the modify power of the actor and the one the target asks for;          *)
(* "member", "servermember" and "neededmember" are the powers over         *)
(* memberships; "skip" is b_client_skip_channelgroup_permissions, "auto" is*)
(* i_group_auto_update_type with the value of the default channel group.   *)
(***************************************************************************)
EXTENDS Integers, FiniteSets

Names ==
    {"right", "modify", "needed", "member", "servermember", "neededmember", "skip", "auto"}

Values == {0, 1}

Assignment == [value : Values, negated : BOOLEAN, skipped : BOOLEAN]

IsPermissionMap(m) == DOMAIN m \subseteq Names /\ m \in [DOMAIN m -> Assignment]

Plain(v) == [value |-> v, negated |-> FALSE, skipped |-> FALSE]

NoPermissions == [n \in {} |-> Plain(0)]

\* BTreeMap::insert and BTreeMap::remove.
With(m, n, a) == [x \in DOMAIN m \union {n} |-> IF x = n THEN a ELSE m[x]]
Without(m, n) == [x \in DOMAIN m \ {n} |-> m[x]]

Smallest(S) == CHOOSE x \in S : \A y \in S : x <= y
Largest(S)  == CHOOSE x \in S : \A y \in S : x >= y

-----------------------------------------------------------------------------
(* effective_permissions_for_client_in_channel_context.                    *)

\* Mutant: a negated assignment no longer asks for the least value.
MergedIgnoringNegation(as) ==
    [value   |-> Largest({a.value : a \in as}),
     negated |-> \E a \in as : a.negated,
     skipped |-> \E a \in as : a.skipped]

\* What the server groups that assign a permission make of it together.
Merged(as) ==
    [value   |-> IF \E a \in as : a.negated THEN Smallest({a.value : a \in as})
                 ELSE Largest({a.value : a \in as}),
     negated |-> \E a \in as : a.negated,
     skipped |-> \E a \in as : a.skipped]

\* Tier 1, from the permission maps of the client's server groups.
ServerGroupTier(maps) ==
    [n \in UNION {DOMAIN m : m \in maps} |-> Merged({m[n] : m \in {x \in maps : n \in DOMAIN x}})]

\* Tier 2 replaces.
Replace(base, over) ==
    [n \in DOMAIN base \union DOMAIN over |-> IF n \in DOMAIN over THEN over[n] ELSE base[n]]

\* Tiers 3 to 5 replace what is not protected by its skip flag.
ReplaceUnskipped(base, over) ==
    [n \in DOMAIN base \union DOMAIN over |->
        IF n \in DOMAIN over /\ ~ (n \in DOMAIN base /\ base[n].skipped)
        THEN over[n] ELSE base[n]]

ValueOf(m, n) == IF n \in DOMAIN m THEN m[n].value ELSE 0

\* permission_power_max_or_default.
PowerOf(m, ns) == Largest({0} \union {m[n].value : n \in ns \intersect DOMAIN m})

Tiered(groupMaps, own, channel, channelGroup, channelClient) ==
    LET base == Replace(ServerGroupTier(groupMaps), own)
    IN  IF ValueOf(base, "skip") # 0 THEN base
        ELSE ReplaceUnskipped(ReplaceUnskipped(ReplaceUnskipped(base, channel), channelGroup),
                              channelClient)

-----------------------------------------------------------------------------
(* The tests of checks.rs.                                                 *)

CheckRequiredPermission(actor) == PowerOf(actor, {"right"}) >= 1

CheckGroupModifyAllowed(actor, target) ==
    PowerOf(actor, {"modify"}) >= PowerOf(target, {"needed"})

CheckPermissionEditAllowed(actor, target) ==
    CheckGroupModifyAllowed(actor, target) /\ PowerOf(actor, {"right"}) >= 1

CheckServerGroupMembershipChange(actor, target) ==
    PowerOf(actor, {"member", "servermember"}) >= PowerOf(target, {"neededmember"})

CheckChannelGroupMembershipChange(actor, target) ==
    PowerOf(actor, {"member"}) >= PowerOf(target, {"neededmember"})
=============================================================================
