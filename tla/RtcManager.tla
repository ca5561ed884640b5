----------------------------- MODULE RtcManager -----------------------------
(***************************************************************************)
(* The tables of the rtc manager, as one TeaSpeak client sees them: the    *)
(* video slots in which it watches broadcasts, and the types of the tracks *)
(* it sends.                                                               *)
(*                                                                         *)
(* The slots come from a negotiation that runs beside the commands: the    *)
(* answer to rtcsessiondescribe enters the first slots, and when the       *)
(* connection stands a re-offer copies them, adds the rest and enters the  *)
(* copy.  A slot is given and taken by commands of the viewer, of the      *)
(* broadcaster and of those who move either; a track gets its type from    *)
(* commands and, when its first packet arrives, from the task that         *)
(* forwards it: one task for each track, so that no track is looked up     *)
(* twice at once.  The tables never forget a track.                        *)
(*                                                                         *)
(* Left out: what only describes a connection (descriptions, candidates,   *)
(* addresses), the sequence numbers and clocks, and the packets.  The      *)
(* sections of one offer are registered in one step.                       *)
(***************************************************************************)
EXTENDS Integers, Sequences, FiniteSets, FiniteSetsExt, SequencesExt

CONSTANTS
    Viewer,         \* the client whose tables these are
    Broadcasts,     \* <<client, type>>: the broadcasts there may be
    Ts6,            \* clients that broadcast over TS6
    Ssrcs,          \* the tracks the viewer ever sends
    Offers,         \* the video sections an offer may have: a track or None each
    None,           \* a free slot, no track
    FirstSlots,     \* slots of the answer: the video sections, at least 2
    TargetSlots,    \* TARGET_TOTAL_SLOTS, 8 in the code
    MaxDescribes,   \* bound on negotiations
    MaxOps          \* bound on commands

ASSUME RtcBounds ==
    /\ FirstSlots \in Nat /\ FirstSlots >= 2 /\ TargetSlots \in Nat /\ TargetSlots > FirstSlots
    /\ MaxDescribes \in Nat /\ MaxOps \in Nat
    /\ Viewer \notin Ts6 /\ \A k \in Broadcasts : k[2] \in {0, 1}

Bts == {0, 1}                   \* 0 camera, 1 screen

ASSUME NoneAssumption == None \notin Broadcasts /\ None \notin Ssrcs /\ None \notin Bts
ASSUME OffersAssumption == Offers \subseteq Seq(Ssrcs \union {None})

Own(k) == k # None /\ k[1] = Viewer
Remote(k) == k # None /\ k[1] # Viewer

VARIABLES
    active,     \* active_broadcasts
    slots,      \* viewer_slots of the viewer: a broadcast or None each
    nego,       \* negotiations: how far each is, and its copy of the slots
    join,       \* a broadcastvideojoin between its check and its slot
    types,      \* incoming_ssrc_types: ssrc -> type or None
    tracks,     \* incoming_track_ssrcs: type -> ssrc or None
    fresh,      \* resolve_or_assign_incoming_bt: tracks found without a type
    given,      \* its tracks that wait for their type to be entered: ssrc -> type
    ops,
    off,        \* history: broadcasts in a slot for a known reason though off air
    copied,     \* history: a re-offer entered an outdated copy
    raced       \* history: a type was registered while a track was resolved

resolving == <<fresh, given>>
rtc  == <<types, tracks, resolving, raced>>
view == <<slots, nego, off, copied>>
vars == <<active, view, join, rtc, ops>>

Init ==
    /\ active \in SUBSET Broadcasts
    /\ slots = <<>> /\ nego = <<>> /\ join = None
    /\ types = [s \in Ssrcs |-> None] /\ tracks = [b \in Bts |-> None]
    /\ fresh = {} /\ given = [s \in Ssrcs |-> None] /\ ops = 0
    /\ off = {} /\ copied = FALSE /\ raced = FALSE

-----------------------------------------------------------------------------
(* The types of tracks.                                                    *)

\* Mutant: the other track keeps its type.
RegisteredOnly(tt, ssrc, bt) ==
    {[types |-> [tt.types EXCEPT ![ssrc] = bt], tracks |-> [tt.tracks EXCEPT ![bt] = ssrc]]}

(***************************************************************************)
(* register_incoming_ssrc_type: the tracks that had the type are given the *)
(* other one.  Which of them is entered there last is up to the order of   *)
(* the HashMap.                                                            *)
(***************************************************************************)
Registered(tt, ssrc, bt) ==
    LET other == 1 - bt
        displaced == {s \in Ssrcs \ {ssrc} : tt.types[s] = bt}
        last == IF displaced # {} THEN displaced ELSE {tt.tracks[other]} \ {ssrc}
    IN  {[types  |-> [s \in Ssrcs |-> IF s = ssrc THEN bt
                                      ELSE IF s \in displaced THEN other ELSE tt.types[s]],
          tracks |-> [b \in Bts |-> IF b = bt THEN ssrc ELSE d]] :
            d \in IF last # {} THEN last ELSE {None}}

\* The sections of an offer, one after the other: the first is the camera, the
\* others the screen.  One without a track registers nothing.
RegisteredOffer(tt, ssrcs) ==
    LET after[i \in 0..Len(ssrcs)] ==
            IF i = 0 THEN {tt}
            ELSE IF ssrcs[i] = None THEN after[i - 1]
            ELSE UNION {Registered(t, ssrcs[i], IF i = 1 THEN 0 ELSE 1) : t \in after[i - 1]}
    IN  after[Len(ssrcs)]

Resolving == fresh # {} \/ \E s \in Ssrcs : given[s] # None

TypesBecome(tt) ==
    /\ types' = tt.types /\ tracks' = tt.tracks
    /\ raced' = (raced \/ Resolving)
    /\ UNCHANGED resolving
TypesNow == [types |-> types, tracks |-> tracks]

\* resolve_or_assign_incoming_bt, when the first packet of a track arrives: its
\* type is known, and stays locked while the track is entered.
ResolveKnown(s) ==
    /\ types[s] # None /\ given[s] = None /\ s \notin fresh
    /\ ops < MaxOps /\ ops' = ops + 1
    /\ tracks' = [tracks EXCEPT ![types[s]] = s]
    /\ UNCHANGED <<active, view, join, types, resolving, raced>>

\* It has none: that is read under one lock...
StartResolve(s) ==
    /\ types[s] = None /\ given[s] = None /\ s \notin fresh
    /\ ops < MaxOps /\ ops' = ops + 1
    /\ fresh' = fresh \union {s}
    /\ UNCHANGED <<active, view, join, types, tracks, given, raced>>

\* ... the track is entered under another...
ResolveTrack(s) ==
    LET bt == IF tracks[0] = None \/ tracks[1] # None THEN 0 ELSE 1
    IN  /\ s \in fresh
        /\ fresh' = fresh \ {s}
        /\ tracks' = [tracks EXCEPT ![bt] = s]
        /\ given' = [given EXCEPT ![s] = bt]
        /\ UNCHANGED <<active, view, join, types, raced, ops>>

\* ... and its type under a third.
ResolveType(s) ==
    /\ given[s] # None
    /\ types' = [types EXCEPT ![s] = given[s]]
    /\ given' = [given EXCEPT ![s] = None]
    /\ UNCHANGED <<active, view, join, tracks, fresh, raced, ops>>

-----------------------------------------------------------------------------
(* Slots.                                                                  *)

\* The slots after a change, and the histories: newOff are broadcasts that
\* are known to be entered, or left, in a slot while off air.
SlotsBecome(s, newOff, newCopied) ==
    /\ slots' = s
    /\ off' = ((off \union newOff) \cap Range(s)) \ active'
    /\ copied' = ((copied \/ newCopied)
                  /\ \E i, j \in DOMAIN s : i # j /\ s[i] # None /\ s[i] = s[j])

\* Mutant: the search stops at the first slot.
WithoutFirst(s, keys) ==
    [i \in DOMAIN s |-> IF s[i] \in keys /\ \A j \in 1..(i - 1) : s[j] \notin keys
                        THEN None ELSE s[i]]

\* unassign_viewer_slot, unassign_broadcaster and the loop in broadcastvideo.
Without(s, keys) == [i \in DOMAIN s |-> IF s[i] \in keys THEN None ELSE s[i]]

\* Mutant: the new slots come behind the old ones.
AppendedSlots(old, new) == old \o new

\* set_viewer_slots: a new slot takes over what the old one of its index shows.
MergedSlots(old, new) ==
    [i \in DOMAIN new |-> IF new[i] = None /\ i \in DOMAIN old THEN old[i] ELSE new[i]]

\* Mutant: a free slot, the slot of the type if there is none.
FirstComeSlot(s, k) ==
    LET free == {i \in DOMAIN s : s[i] = None}
    IN  IF free # {} THEN Min(free) ELSE k[2] + 1

(***************************************************************************)
(* assign_viewer_slot when no slot shows k yet: the index of the slot k    *)
(* gets, 0 for none.                                                       *)
(***************************************************************************)
SlotFor(s, k) ==
    LET free == {i \in DOMAIN s : s[i] = None}
        high == {i \in free : i > 2}
        pref == IF k[2] + 1 <= Len(s) THEN k[2] + 1 ELSE Len(s)
        own  == {i \in DOMAIN s : Own(s[i])}
        foreign == {i \in DOMAIN s : s[i][1] # k[1]}
    IN  CASE Own(k) /\ Len(s) > 2 /\ high # {} -> Min(high)
          [] ~ (Own(k) /\ Len(s) > 2 /\ high # {}) /\ pref \in free -> pref
          [] OTHER -> IF free # {} THEN Min(free)
                      ELSE IF own # {} THEN Min(own)
                      ELSE IF Own(k) THEN 0
                      ELSE IF foreign # {} THEN Min(foreign) ELSE pref

\* broadcastvideojoin of the viewer: the broadcast is on air...
Join(k) ==
    /\ join = None /\ k \in active /\ ops < MaxOps /\ ops' = ops + 1
    /\ join' = k
    /\ UNCHANGED <<active, view, rtc>>

\* ... and then gets a slot.
JoinAssigned ==
    LET i == IF slots = <<>> \/ join \in Range(slots) THEN 0 ELSE SlotFor(slots, join)
    IN  /\ join # None /\ join' = None
        /\ active' = active
        /\ SlotsBecome(IF i = 0 THEN slots ELSE [slots EXCEPT ![i] = join], {join}, FALSE)
        /\ UNCHANGED <<nego, rtc, ops>>

\* broadcastleave of the viewer: one broadcast, or all.
LeaveBroadcasts(keys) ==
    /\ join = None /\ ops < MaxOps /\ ops' = ops + 1
    /\ active' = active
    /\ SlotsBecome(Without(slots, keys), {}, FALSE)
    /\ UNCHANGED <<nego, join, rtc>>

-----------------------------------------------------------------------------
(* Negotiations.                                                           *)

Done == [at |-> "done", copy |-> <<>>]

\* rtcsessiondescribe with an offer: the tracks now, the rest in a task.
Describe(ssrcs) ==
    /\ join = None /\ Len(nego) < MaxDescribes /\ ops < MaxOps /\ ops' = ops + 1
    /\ nego' = Append(nego, [at |-> "answer", copy |-> <<>>])
    /\ \E tt \in RegisteredOffer(TypesNow, ssrcs) : TypesBecome(tt)
    /\ UNCHANGED <<active, slots, off, copied, join>>

\* The answer is ready: fresh slots.
Answered(n) ==
    /\ nego[n].at = "answer"
    /\ active' = active
    /\ SlotsBecome(MergedSlots(slots, [i \in 1..FirstSlots |-> None]), {}, FALSE)
    /\ nego' = [nego EXCEPT ![n].at = "answered"]
    /\ UNCHANGED <<join, rtc, ops>>

\* The connection stands: the slots are copied.
Reoffer(n) ==
    /\ nego[n].at = "answered"
    /\ nego' = [nego EXCEPT ![n] =
                   IF Len(slots) >= TargetSlots THEN Done ELSE [at |-> "copied", copy |-> slots]]
    /\ UNCHANGED <<active, slots, off, copied, join, rtc, ops>>

\* The copy, with more slots, is entered.  What it shows may have ended.
Reoffered(n) ==
    LET copy == nego[n].copy
        new  == [i \in 1..TargetSlots |-> IF i \in DOMAIN copy THEN copy[i] ELSE None]
    IN  /\ nego[n].at = "copied"
        /\ active' = active
        /\ SlotsBecome(MergedSlots(slots, new), Range(copy), copy # slots)
        /\ nego' = [nego EXCEPT ![n] = Done]
        /\ UNCHANGED <<join, rtc, ops>>

-----------------------------------------------------------------------------
(* Broadcasts begin and end.                                               *)

\* broadcastvideo with an ssrc; the viewer's own names one of its tracks.
BroadcastOn(k, s) ==
    /\ k[1] \notin Ts6 /\ ops < MaxOps /\ ops' = ops + 1
    /\ Own(k) => join = None
    /\ active' = active \union {k}
    /\ SlotsBecome(slots, {}, FALSE)
    /\ IF Own(k) THEN \E tt \in Registered(TypesNow, s, k[2]) : TypesBecome(tt) ELSE UNCHANGED rtc
    /\ UNCHANGED <<nego, join>>

\* broadcastvideo without one: the slots that show k are free.
BroadcastOff(k) ==
    /\ k \in active /\ k[1] \notin Ts6 /\ ops < MaxOps /\ ops' = ops + 1
    /\ Own(k) => join = None
    /\ active' = active \ {k}
    /\ SlotsBecome(Without(slots, {k}), {}, FALSE)
    /\ UNCHANGED <<nego, join, rtc>>

\* setupstream and stopstream of a TS6 client (sync_runtime_stream_state): the
\* slots stay as they are.
StreamSwitched(k) ==
    /\ k[1] \in Ts6 /\ join = None /\ ops < MaxOps /\ ops' = ops + 1
    /\ active' = IF k \in active THEN active \ {k} ELSE active \union {k}
    /\ SlotsBecome(slots, {k}, FALSE)
    /\ UNCHANGED <<nego, join, rtc>>

\* clear_client_media_broadcasts, when c is moved or leaves.
ClearMedia(c) ==
    LET shown == {k \in Broadcasts : k[1] = c}
    IN  /\ ops < MaxOps /\ ops' = ops + 1
        /\ active' = active \ shown
        /\ SlotsBecome(Without(slots, IF c = Viewer THEN Broadcasts ELSE shown), {}, FALSE)
        /\ UNCHANGED <<nego, join, rtc>>

Next ==
    \/ \E s \in Ssrcs : ResolveKnown(s) \/ StartResolve(s) \/ ResolveTrack(s) \/ ResolveType(s)
    \/ JoinAssigned
    \/ \E k \in Broadcasts : Join(k) \/ LeaveBroadcasts({k}) \/ BroadcastOff(k) \/ StreamSwitched(k)
    \/ \E k \in Broadcasts, s \in Ssrcs : BroadcastOn(k, s)
    \/ LeaveBroadcasts(Broadcasts)
    \/ \E ssrcs \in Offers : Describe(ssrcs)
    \/ \E n \in DOMAIN nego : Answered(n) \/ Reoffer(n) \/ Reoffered(n)
    \/ \E k \in Broadcasts : ClearMedia(k[1])

Spec == Init /\ [][Next]_vars

-----------------------------------------------------------------------------
(* Properties.                                                             *)

\* The tables hold what their types say; there are never more slots than
\* TARGET_TOTAL_SLOTS.
TypeOK ==
    /\ active \subseteq Broadcasts
    /\ Len(slots) \in {0, FirstSlots, TargetSlots} /\ Range(slots) \subseteq Broadcasts \union {None}
    /\ join \in Broadcasts \union {None}
    /\ types \in [Ssrcs -> Bts \union {None}] /\ tracks \in [Bts -> Ssrcs \union {None}]
    /\ fresh \subseteq Ssrcs /\ given \in [Ssrcs -> Bts \union {None}]
    /\ ops \in 0..MaxOps

(***************************************************************************)
(* A slot shows a broadcast that is on air, and no broadcast takes two     *)
(* slots.  The excuses are a join whose broadcast ended before it got its  *)
(* slot, a TS6 stream (stopping one frees no slot), and a re-offer that    *)
(* enters an outdated copy of the slots.                                   *)
(***************************************************************************)
SlotsShowBroadcasts ==
    /\ \A i \in DOMAIN slots : slots[i] # None => slots[i] \in active \union off
    /\ \A i, j \in DOMAIN slots : i # j /\ slots[i] # None /\ slots[i] = slots[j] => copied

(***************************************************************************)
(* A broadcast of somebody else that stays on air is lost from view only   *)
(* when the viewer leaves it or is moved, when all slots show broadcasts   *)
(* of others and another one is joined, when a new negotiation has fewer   *)
(* slots, or when a re-offer enters an outdated copy.  In particular the   *)
(* preview of the viewer's own camera never takes its place.               *)
(***************************************************************************)
RemoteViewsKept ==
    [][ \A k \in active \cap active' :
          Remote(k) /\ k \in Range(slots) /\ k \notin Range(slots')
            => \/ join # None /\ Remote(join) /\ \A i \in DOMAIN slots : Remote(slots[i])
               \/ \E keys \in SUBSET Broadcasts : LeaveBroadcasts(keys)
               \/ ClearMedia(Viewer)
               \/ Len(slots') < Len(slots)
               \/ \E n \in DOMAIN nego : Reoffered(n) /\ nego[n].copy # slots ]_vars

(***************************************************************************)
(* The two tables of tracks agree whatever the order of offers, new        *)
(* negotiations, broadcastvideo commands and first packets: a request for  *)
(* a key frame reaches a track of that type, and one track at least if     *)
(* there is any; and the tracks never all collide in one type.  In         *)
(* particular two tracks, a camera and a screen, share no type.  Of three, *)
(* two share one, since the tracks of earlier negotiations are never       *)
(* forgotten.  The excuse is a registration between the locks of a         *)
(* resolve.                                                                *)
(***************************************************************************)
TracksKeepTypes ==
    LET Of(b) == {s \in Ssrcs : types[s] = b}
    IN  ~ Resolving /\ ~ raced =>
            \A b \in Bts :
                /\ tracks[b] # None => tracks[b] \in Of(b)
                /\ Of(b) # {} => tracks[b] # None
                /\ \A s, r \in Of(b) : s # r => Of(1 - b) # {}

=============================================================================
