--------------------------- MODULE PresenceProofs ---------------------------
(***************************************************************************)
(* For all connections and all bounds on channel and client ids: no two    *)
(* connections or bots share a client id, and nobody is stranded in a      *)
(* channel that is gone but by a stale session of its own, or as a bot     *)
(* that was sent there.                                                    *)
(*                                                                         *)
(* The second part is about the desktop clients of DesktopView: who has a  *)
(* session and may hear of it is online, a session ends only by what the   *)
(* server says of the client itself, and once everything is delivered,     *)
(* every client sees the tables but for what it is excused from.           *)
(***************************************************************************)
EXTENDS Presence, DesktopView, FiniteSetTheorems, SequenceTheorems, WellFoundedInduction, TLAPS

ChannelRow == [parent : 0..MaxChannelId, order : 0..MaxChannelId, kind : Kinds, dflt : BOOLEAN]
Record  == [open : BOOLEAN, sel : BOOLEAN, clid : 0..MaxClientId, cur : 0..MaxChannelId]

\* A channel table of the right type with the first channel in it, which is
\* permanent, at the root and the default one.
Table(ch) ==
    /\ DOMAIN ch \subseteq ChannelIds /\ ch \in [DOMAIN ch -> ChannelRow]
    /\ 1 \in DOMAIN ch /\ ch[1].parent = 0 /\ ch[1].kind = "permanent" /\ ch[1].dflt

Positions == [ClientIds -> 0..MaxChannelId]

\* Client k is in a channel of the table, or not online.
Placed(ch, w, k) == w[k] \in DOMAIN ch \union {0}

\* The ids of query clients and bots lie below their counter, those of desktop
\* clients below theirs, and nobody shares one; who selected the server has one.
IdsOK(se, bo, nq, nb) ==
    /\ nq \in 1..(MaxQueryId + 1) /\ nb \in (MaxQueryId + 1)..(MaxClientId + 1)
    /\ \A s \in Query : se[s].clid < nq
    /\ \A s \in Desktop : se[s].clid # 0 => se[s].clid > MaxQueryId /\ se[s].clid < nb
    /\ \A b \in bo : b \in 1..MaxQueryId /\ b < nq
    /\ \A s, r \in Sessions : se[s].clid = se[r].clid /\ s # r => se[s].clid = 0
    /\ \A s \in Sessions : se[s].clid \notin bo /\ (se[s].sel => se[s].clid # 0)

Tables ==
    /\ Table(channels) /\ where \in Positions
    /\ stale \subseteq ClientIds /\ bots \subseteq ClientIds
    /\ session \in [Sessions -> Record] /\ snapshot \in 0..MaxChannelId

IInv == Tables /\ IdsOK(session, bots, nextQuery, nextBtea)

\* What a step may not do to client k.
Kept(k) ==
    Placed(channels, where, k) =>
        \/ Placed(channels', where', k)
        \/ \E s \in Sessions : session'[s].clid = k /\ session'[s].cur = where'[k]
        \/ k \in bots' /\ channels' = channels

-----------------------------------------------------------------------------
(* ChannelRow tables.                                                         *)

\* relink_sibling_orders changes nothing but the order of channels.
LEMMA RelinkTable ==
    ASSUME NEW ch, NEW p, NEW ids, Table(ch)
    PROVE  /\ Table(RelinkSiblingOrders(ch, p, ids))
           /\ DOMAIN RelinkSiblingOrders(ch, p, ids) = DOMAIN ch
<1> DEFINE Before(c) == {d \in Siblings(ch, p) :
                         \E i \in 1..(Len(ids) - 1) : ids[i] = d /\ ids[i+1] = c}
           o(c) == IF Before(c) = {} THEN 0 ELSE CHOOSE d \in Before(c) : TRUE
           new == RelinkSiblingOrders(ch, p, ids)
<1>1. \A c : o(c) \in 0..MaxChannelId
  <2> SUFFICES ASSUME NEW c PROVE o(c) \in 0..MaxChannelId
    OBVIOUS
  <2>1. CASE Before(c) = {}
    BY <2>1, BoundsAssumption
  <2>2. CASE Before(c) # {}
    <3>1. o(c) \in Before(c)
      BY <2>2
    <3> QED
      BY <3>1, BoundsAssumption DEF Siblings, ChannelIds, Table
  <2> QED
    BY <2>1, <2>2
<1>2. /\ DOMAIN new = DOMAIN ch
      /\ new = [c \in DOMAIN ch |-> new[c]]
      /\ \A c \in DOMAIN ch : new[c] = ch[c] \/ new[c] = [ch[c] EXCEPT !.order = o(c)]
  BY DEF RelinkSiblingOrders
<1> HIDE DEF o, new
<1>3. ASSUME NEW c \in DOMAIN ch
      PROVE  /\ new[c] \in ChannelRow /\ new[c].parent = ch[c].parent
             /\ new[c].kind = ch[c].kind /\ new[c].dflt = ch[c].dflt
  <2>1. ch[c] \in ChannelRow
    BY DEF Table
  <2>2. PICK x \in 0..MaxChannelId : new[c] = ch[c] \/ new[c] = [ch[c] EXCEPT !.order = x]
    BY <1>1, <1>2
  <2> QED
    BY <2>1, <2>2 DEF ChannelRow
<1>4. new \in [DOMAIN ch -> ChannelRow]
  BY <1>2, <1>3
<1>5. Table(new)
  BY <1>2, <1>3, <1>4 DEF Table
<1> QED
  BY <1>2, <1>5 DEF new

\* The first channel is the default one.
LEMMA FirstIsDefault ==
    ASSUME NEW ch, Table(ch)
    PROVE  DefaultChannelId(ch) = 1
<1> DEFINE flagged == {c \in DOMAIN ch : ch[c].dflt}
<1>1. 1 \in flagged /\ \A y \in flagged : y \in Nat /\ 1 <= y
  BY BoundsAssumption DEF Table, ChannelIds
<1>2. Least(flagged) = 1
  <2>1. \A x \in flagged : (\A y \in flagged : x <= y) => x = 1
    BY <1>1
  <2> HIDE DEF flagged
  <2> QED
    BY <1>1, <2>1 DEF Least
<1> QED
  BY <1>1, <1>2 DEF DefaultChannelId

\* channelcreate adds a channel to the table.
LEMMA AddTable ==
    ASSUME NEW ch, Table(ch), NEW c \in ChannelIds, c \notin DOMAIN ch, NEW p \in 0..MaxChannelId,
           NEW kind \in Kinds
    PROVE  /\ Table(AddChannel(ch, c, p, None, kind, FALSE))
           /\ DOMAIN AddChannel(ch, c, p, None, kind, FALSE) = DOMAIN ch \union {c}
<1> DEFINE rec == [parent |-> p, order |-> 0, dflt |-> FALSE, kind |-> kind]
           added == [d \in DOMAIN ch \union {c} |-> IF d = c THEN rec ELSE ch[d]]
           ids == InsertAtAnchor(OrderedSiblingIds(ch, p, None), None, c)
<1>1. rec \in ChannelRow
  BY BoundsAssumption DEF ChannelRow
<1>2. AddChannel(ch, c, p, None, kind, FALSE) = RelinkSiblingOrders(added, p, ids)
  BY DEF AddChannel
<1> HIDE DEF rec, ids
<1>3. DOMAIN added = DOMAIN ch \union {c} /\ added[1] = ch[1]
  BY DEF Table
<1>4. Table(added)
  <2>1. \A d \in DOMAIN ch \union {c} : added[d] \in ChannelRow
    BY <1>1 DEF Table
  <2>2. added \in [DOMAIN ch \union {c} -> ChannelRow]
    BY <2>1
  <2> HIDE DEF added
  <2> QED
    BY <1>3, <2>2 DEF Table
<1> HIDE DEF added
<1>5. /\ Table(RelinkSiblingOrders(added, p, ids))
      /\ DOMAIN RelinkSiblingOrders(added, p, ids) = DOMAIN ch \union {c}
  BY <1>3, <1>4, RelinkTable
<1> QED
  BY <1>2, <1>5

\* Channels are removed, the first one excepted.
LEMMA RemoveTable ==
    ASSUME NEW ch, Table(ch), NEW D, 1 \notin D, NEW p
    PROVE  Table(RemoveChannels(ch, D, p)) /\ DOMAIN RemoveChannels(ch, D, p) = DOMAIN ch \ D
<1> DEFINE kept == [c \in DOMAIN ch \ D |-> ch[c]]
           ids == OrderedSiblingIds(kept, p, None)
<1>1. DOMAIN kept = DOMAIN ch \ D /\ kept[1] = ch[1]
  BY DEF Table
<1>2. Table(kept)
  BY <1>1 DEF Table
<1>3. RemoveChannels(ch, D, p) = RelinkSiblingOrders(kept, p, ids)
  BY DEF RemoveChannels
<1> HIDE DEF kept, ids
<1> QED
  BY <1>1, <1>2, <1>3, RelinkTable

\* The first channel hangs below no other one.
LEMMA SubtreeSparesFirst ==
    ASSUME NEW ch, Table(ch), NEW c, c # 1
    PROVE  1 \notin Subtree(ch, c)
<1>1. {1} \in SUBSET DOMAIN ch /\ UpClosed(ch, {1})
  BY BoundsAssumption DEF Table, UpClosed, ChannelIds
<1> QED
  BY <1>1 DEF Subtree, ChannelIsDescendant

\* cleanup_temporary_channel strands nobody, and moves nobody but out.
LEMMA CleanupFacts ==
    ASSUME NEW ch, Table(ch), NEW w \in Positions, NEW bo, NEW c
    PROVE  /\ Table(ChannelsAfterCleanup(ch, w, bo, c)) /\ WhereAfterCleanup(ch, w, bo, c) \in Positions
           /\ \A k \in ClientIds : WhereAfterCleanup(ch, w, bo, c)[k] \in {w[k], 0}
           /\ \A k \in ClientIds : Placed(ch, w, k) =>
                  Placed(ChannelsAfterCleanup(ch, w, bo, c), WhereAfterCleanup(ch, w, bo, c), k)
           /\ c \notin DOMAIN ch => /\ ChannelsAfterCleanup(ch, w, bo, c) = ch
                                    /\ WhereAfterCleanup(ch, w, bo, c) = w
<1> DEFINE new == ChannelsAfterCleanup(ch, w, bo, c)
           v == WhereAfterCleanup(ch, w, bo, c)
           gone == RemoveChannels(ch, {c}, ch[c].parent)
<1>1. /\ \/ new = ch
         \/ new = gone /\ c \in DOMAIN ch /\ ch[c].kind = "temporary" /\ Occupants(w, c) \subseteq bo
      /\ c \notin DOMAIN ch => new = ch
  BY DEF ChannelsAfterCleanup
<1>2. /\ v = w \/ v = [k \in DOMAIN w |-> IF w[k] = c THEN 0 ELSE w[k]]
      /\ c \in DOMAIN ch /\ ch[c].kind = "temporary" /\ Occupants(w, c) \subseteq bo
           => v = [k \in DOMAIN w |-> IF w[k] = c THEN 0 ELSE w[k]]
      /\ c \notin DOMAIN ch => v = w
  BY DEF WhereAfterCleanup
<1>3. DOMAIN w = ClientIds /\ 0 \in 0..MaxChannelId
  BY BoundsAssumption DEF Positions
<1>4. ch[c].kind = "temporary" => Table(gone) /\ DOMAIN gone = DOMAIN ch \ {c}
  BY RemoveTable DEF Table
<1> HIDE DEF new, v, gone
<1>5. v \in Positions /\ \A k \in ClientIds : v[k] \in {w[k], 0}
  BY <1>2, <1>3 DEF Positions
<1>6. Table(new)
  BY <1>1, <1>4
<1>7. \A k \in ClientIds : Placed(ch, w, k) => Placed(new, v, k)
  <2>1. CASE new = ch
    BY <1>5, <2>1 DEF Placed
  <2>2. CASE new # ch
    BY <1>1, <1>2, <1>3, <1>4, <2>2 DEF Placed
  <2> QED
    BY <2>1, <2>2
<1> QED
  BY <1>1, <1>2, <1>5, <1>6, <1>7 DEF new, v

-----------------------------------------------------------------------------
(* What ends every command.                                                *)

\* sync_session_client puts the session's client where the session says, and
\* cleans up; nobody else is stranded.
LEMMA FinishFacts ==
    ASSUME Tables, NEW s \in Sessions, NEW ch, Table(ch), NEW w \in Positions, NEW r \in Record, NEW left,
           FinishCommand(s, ch, w, r, left)
    PROVE  /\ Tables' /\ bots' \subseteq bots /\ session' = [session EXCEPT ![s] = r]
           /\ \A k \in ClientIds : Placed(ch, w, k) =>
                 \/ Placed(channels', where', k)
                 \/ session'[s].clid = k /\ session'[s].cur = where'[k]
           /\ \A k \in ClientIds : k \in bots /\ where'[k] # 0 => k \in bots'
           /\ left \notin DOMAIN ch => channels' = ch
<1> DEFINE synced == [w EXCEPT ![r.clid] = SessionChannel(ch, r)]
<1>1. /\ session' = [session EXCEPT ![s] = r]
      /\ snapshot' = IF s \in Query THEN r.cur ELSE snapshot
      /\ channels' = ChannelsAfterCleanup(ch, synced, bots, left)
      /\ where' = WhereAfterCleanup(ch, synced, bots, left)
      /\ bots' = {b \in bots : where'[b] # 0}
      /\ stale' = {k \in stale \ {r.clid} : where'[k] # 0}
  BY DEF FinishCommand
<1>2. r.cur \in 0..MaxChannelId /\ 1 \in 0..MaxChannelId /\ 1 \in DOMAIN ch
  BY BoundsAssumption DEF Record, Table
<1>3. SessionChannel(ch, r) = IF r.cur # 0 THEN r.cur ELSE 1
  BY FirstIsDefault DEF SessionChannel
<1>4. /\ synced \in Positions
      /\ \A k \in ClientIds : synced[k] = IF k = r.clid THEN SessionChannel(ch, r) ELSE w[k]
  BY <1>2, <1>3 DEF Positions
<1> HIDE DEF synced
<1>5. /\ Table(channels') /\ where' \in Positions
      /\ \A k \in ClientIds : where'[k] \in {synced[k], 0}
      /\ \A k \in ClientIds : Placed(ch, synced, k) => Placed(channels', where', k)
      /\ left \notin DOMAIN ch => channels' = ch
  BY <1>1, <1>4, CleanupFacts
<1>6. session' \in [Sessions -> Record] /\ session'[s] = r
  BY <1>1 DEF Tables
<1>7. Tables'
  BY <1>1, <1>2, <1>5, <1>6 DEF Tables
<1>8. ASSUME NEW k \in ClientIds, Placed(ch, w, k)
      PROVE  Placed(channels', where', k) \/ (session'[s].clid = k /\ session'[s].cur = where'[k])
  <2>1. CASE k # r.clid \/ r.cur = 0
    BY <1>2, <1>3, <1>4, <1>5, <1>8, <2>1 DEF Placed
  <2>2. CASE k = r.clid /\ r.cur # 0
    BY <1>3, <1>4, <1>5, <1>6, <2>2 DEF Placed
  <2> QED
    BY <2>1, <2>2
<1> QED
  BY <1>1, <1>5, <1>7, <1>8

\* A command that strands nobody by itself.
LEMMA FinishKeeps ==
    ASSUME Tables, NEW s \in Sessions, NEW ch, Table(ch), NEW w \in Positions, NEW r \in Record, NEW left,
           FinishCommand(s, ch, w, r, left),
           \A k \in ClientIds : Placed(channels, where, k) => Placed(ch, w, k)
    PROVE  Tables' /\ \A k \in ClientIds : Kept(k)
<1>1. /\ Tables'
      /\ \A k \in ClientIds : Placed(ch, w, k) =>
            \/ Placed(channels', where', k)
            \/ session'[s].clid = k /\ session'[s].cur = where'[k]
  BY FinishFacts
<1> QED
  BY <1>1 DEF Kept

\* A command that sends a bot anywhere.
LEMMA FinishSends ==
    ASSUME Tables, NEW s \in Sessions, NEW w \in Positions, NEW b \in bots, FinishCommand(s, channels, w, session[s], 0),
           \A k \in ClientIds : k # b => w[k] = where[k]
    PROVE  Tables' /\ \A k \in ClientIds : Kept(k)
<1>1. Table(channels) /\ session[s] \in Record /\ 0 \notin DOMAIN channels
  BY BoundsAssumption DEF Tables, Table, ChannelIds
<1>2. /\ Tables' /\ channels' = channels
      /\ \A k \in ClientIds : Placed(channels, w, k) =>
            \/ Placed(channels', where', k)
            \/ session'[s].clid = k /\ session'[s].cur = where'[k]
      /\ \A k \in ClientIds : k \in bots /\ where'[k] # 0 => k \in bots'
  BY <1>1, FinishFacts
<1>3. ASSUME NEW k \in ClientIds PROVE Kept(k)
  <2>1. CASE k = b
    BY <1>2, <2>1 DEF Kept, Placed
  <2>2. CASE k # b
    BY <1>2, <2>2 DEF Kept, Placed
  <2> QED
    BY <2>1, <2>2
<1> QED
  BY <1>2, <1>3

\* The ids of clients stay apart when no new one is given out.
IdsKept ==
    /\ bots' \subseteq bots /\ UNCHANGED <<nextQuery, nextBtea>>
    /\ \A s \in Sessions : session'[s].clid \in {session[s].clid, 0} /\ (session'[s].sel => session'[s].clid # 0)

\* Then they stay in their ranges, too.
LEMMA IdsStayApart ==
    ASSUME IInv, IdsKept
    PROVE  IdsOK(session', bots', nextQuery', nextBtea')
<1>1. IdsOK(session, bots, nextQuery, nextBtea) /\ 0 \notin bots
  BY DEF IInv, IdsOK
<1>2. Query \subseteq Sessions /\ Desktop \subseteq Sessions
  BY DEF Sessions
<1>3. \A s \in Query : session'[s].clid < nextQuery'
  BY <1>1, <1>2 DEF IdsOK, IdsKept
<1>4. \A s \in Desktop : session'[s].clid # 0 => session'[s].clid > MaxQueryId /\ session'[s].clid < nextBtea'
  BY <1>1, <1>2 DEF IdsOK, IdsKept
<1>5. \A s, r \in Sessions : session'[s].clid = session'[r].clid /\ s # r => session'[s].clid = 0
  BY <1>1 DEF IdsOK, IdsKept
<1>6. \A s \in Sessions : session'[s].clid \notin bots' /\ (session'[s].sel => session'[s].clid # 0)
  BY <1>1 DEF IdsOK, IdsKept
<1> QED
  BY <1>1, <1>3, <1>4, <1>5, <1>6 DEF IdsOK, IdsKept

\* A command of a session keeps the session's client id.
LEMMA FinishIds ==
    ASSUME IInv, NEW s \in Sessions, NEW ch, NEW w, NEW r \in Record, r.clid = session[s].clid, r.clid # 0,
           NEW left, FinishCommand(s, ch, w, r, left), UNCHANGED <<nextQuery, nextBtea>>
    PROVE  IdsKept
<1>1. bots' \subseteq bots /\ session' = [session EXCEPT ![s] = r]
  BY DEF FinishCommand
<1>2. session \in [Sessions -> Record]
  BY DEF IInv, Tables
<1>3. \A x \in Sessions : session'[x].clid \in {session[x].clid, 0} /\ (session'[x].sel => session'[x].clid # 0)
  BY <1>1, <1>2 DEF IInv, IdsOK
<1> QED
  BY <1>1, <1>3 DEF IdsKept

-----------------------------------------------------------------------------
(* The steps.                                                              *)

\* A sound step.
Sound ==
    /\ Tables' /\ IdsOK(session', bots', nextQuery', nextBtea')
    /\ \A k \in ClientIds : Kept(k)

\* What is known of a session.
LEMMA SessionFacts ==
    ASSUME IInv, NEW s \in Sessions
    PROVE  /\ session[s] \in Record /\ session[s].clid \in 0..MaxClientId /\ session[s].cur \in 0..MaxChannelId
           /\ Table(channels) /\ where \in Positions /\ bots \subseteq ClientIds /\ 0 \notin ClientIds
           /\ DOMAIN channels \subseteq ChannelIds /\ ChannelIds \subseteq 0..MaxChannelId
           /\ 1 \in DOMAIN channels /\ 1 \in 0..MaxChannelId /\ 0 \in 0..MaxChannelId /\ 0 \notin DOMAIN channels
           /\ DefaultChannelId(channels) = 1 /\ session \in [Sessions -> Record]
           /\ session[s].sel => session[s].clid # 0
<1>1. /\ session \in [Sessions -> Record] /\ Table(channels) /\ where \in Positions /\ bots \subseteq ClientIds
  BY DEF IInv, Tables
<1>2. session[s] \in Record
  BY <1>1
<1>3. DefaultChannelId(channels) = 1
  BY <1>1, FirstIsDefault
<1>4. /\ 0 \notin ClientIds /\ ChannelIds \subseteq 0..MaxChannelId /\ 1 \in 0..MaxChannelId /\ 0 \in 0..MaxChannelId
      /\ 0 \notin ChannelIds
  BY BoundsAssumption DEF ClientIds, ChannelIds
<1>5. session[s].sel => session[s].clid # 0
  BY DEF IInv, IdsOK
<1> QED
  BY <1>1, <1>2, <1>3, <1>4, <1>5 DEF Record, Table

\* The beginning and the end of connections that give out no id.
LEMMA ConnectionsSound ==
    ASSUME IInv, NEW s \in Sessions,
           Connect(s) \/ Logout(s) \/ Quit(s) \/ Disconnect(s) \/ SshClose(s) \/ Heartbeat(s)
    PROVE  Sound
<1>1. /\ session[s] \in Record /\ Table(channels) /\ where \in Positions /\ bots \subseteq ClientIds
      /\ session \in [Sessions -> Record] /\ stale \subseteq ClientIds /\ snapshot \in 0..MaxChannelId
      /\ session[s].cur \in 0..MaxChannelId /\ 0 \in 0..MaxChannelId
  BY SessionFacts DEF IInv, Tables
<1>2. /\ Closed \in Record /\ [Closed EXCEPT !.open = TRUE] \in Record
      /\ Closed.clid = 0 /\ [Closed EXCEPT !.open = TRUE].clid = 0
      /\ Closed.sel = FALSE /\ [Closed EXCEPT !.open = TRUE].sel = FALSE
      /\ [session[s] EXCEPT !.sel = FALSE, !.cur = 0].sel = FALSE
      /\ [session[s] EXCEPT !.sel = FALSE, !.cur = 0] \in Record
      /\ [session[s] EXCEPT !.sel = FALSE, !.cur = 0].clid = session[s].clid
  <2>1. Closed \in Record /\ Closed.clid = 0 /\ Closed.sel = FALSE
    BY <1>1, BoundsAssumption DEF Closed, Record
  <2>2. \A r \in Record : /\ [r EXCEPT !.open = TRUE] \in Record /\ [r EXCEPT !.open = TRUE].clid = r.clid
                          /\ [r EXCEPT !.open = TRUE].sel = r.sel
                          /\ [r EXCEPT !.sel = FALSE, !.cur = 0].sel = FALSE
                          /\ [r EXCEPT !.sel = FALSE, !.cur = 0] \in Record
                          /\ [r EXCEPT !.sel = FALSE, !.cur = 0].clid = r.clid
    BY <1>1 DEF Record
  <2> QED
    BY <1>1, <2>1, <2>2
<1>3. /\ session' \in [Sessions -> Record]
      /\ \A x \in Sessions : session'[x].clid \in {session[x].clid, 0} /\ (session'[x].sel => session'[x].clid # 0)
  <2>1. ASSUME NEW r \in Record, r.clid \in {session[s].clid, 0}, r.sel => r.clid # 0,
               session' = [session EXCEPT ![s] = r]
        PROVE  /\ session' \in [Sessions -> Record]
               /\ \A x \in Sessions : session'[x].clid \in {session[x].clid, 0} /\ (session'[x].sel => session'[x].clid # 0)
    BY <1>1, <2>1, SessionFacts
  <2>2. CASE Connect(s)
    BY <1>2, <2>1, <2>2 DEF Connect
  <2>3. CASE Quit(s) \/ Disconnect(s) \/ SshClose(s)
    BY <1>2, <2>1, <2>3 DEF Quit, Disconnect, SshClose
  <2>4. CASE Logout(s)
    <3> DEFINE r == [session[s] EXCEPT !.sel = FALSE, !.cur = 0]
    <3>1. session' = [session EXCEPT ![s] = r]
      BY <1>1, <2>4 DEF Logout
    <3>2. r \in Record /\ r.clid = session[s].clid /\ r.sel = FALSE
      BY <1>2
    <3> HIDE DEF r
    <3> QED
      BY <2>1, <3>1, <3>2
  <2>5. CASE Heartbeat(s)
    BY <1>1, <2>5, SessionFacts DEF Heartbeat
  <2> QED
    BY <2>2, <2>3, <2>4, <2>5
<1>4. /\ Table(channels') /\ where' \in Positions /\ bots' \subseteq bots /\ stale' \subseteq stale
      /\ \A k \in ClientIds : Placed(channels, where, k) => Placed(channels', where', k)
  <2>1. ASSUME UNCHANGED <<channels, where, bots>>, stale' \subseteq stale PROVE <1>4!:
    BY <1>1, <2>1 DEF Placed
  <2>2. ASSUME NEW k, DropEntry(k) PROVE <1>4!:
    BY <1>1, <2>2 DEF DropEntry, Positions, Placed
  <2>3. ASSUME NEW k, RemoveSessionClient(k) PROVE <1>4!:
    <3> DEFINE w == [j \in ClientIds |-> IF j = k THEN 0 ELSE where[j]]
               left == IF k = 0 THEN 0 ELSE where[k]
    <3>1. /\ channels' = ChannelsAfterCleanup(channels, w, bots, left)
          /\ where' = WhereAfterCleanup(channels, w, bots, left)
          /\ bots' = {b \in bots : where'[b] # 0}
          /\ stale' = {j \in stale : where'[j] # 0}
      BY <2>3 DEF RemoveSessionClient
    <3>2. w \in Positions /\ \A j \in ClientIds : w[j] \in {where[j], 0}
      BY <1>1 DEF Positions
    <3> HIDE DEF w, left
    <3>3. /\ Table(channels') /\ where' \in Positions
          /\ \A j \in ClientIds : Placed(channels, w, j) => Placed(channels', where', j)
      BY <1>1, <3>1, <3>2, CleanupFacts
    <3>4. \A j \in ClientIds : Placed(channels, where, j) => Placed(channels, w, j)
      BY <3>2 DEF Placed
    <3> QED
      BY <3>1, <3>3, <3>4
  <2> QED
    BY <2>1, <2>2, <2>3 DEF Connect, Logout, Quit, Disconnect, SshClose, Heartbeat
<1>5. UNCHANGED <<nextQuery, nextBtea>> /\ snapshot' \in 0..MaxChannelId
  BY <1>1 DEF Connect, Logout, Quit, Disconnect, SshClose, Heartbeat
<1>6. IdsOK(session', bots', nextQuery', nextBtea')
  BY <1>3, <1>4, <1>5, IdsStayApart DEF IdsKept
<1> QED
  BY <1>1, <1>3, <1>4, <1>5, <1>6 DEF Sound, Tables, Kept

\* perform_client_bootstrap gives out the next id of the desktop clients.
LEMMA BootstrapSound ==
    ASSUME IInv, NEW s \in Sessions, Bootstrap(s)
    PROVE  Sound
<1> DEFINE r == [open |-> TRUE, sel |-> TRUE, clid |-> nextBtea, cur |-> 1]
<1>1. /\ session' = [session EXCEPT ![s] = r] /\ where' = [where EXCEPT ![nextBtea] = 1]
      /\ s \in Desktop /\ nextBtea <= MaxClientId
      /\ nextBtea' = nextBtea + 1 /\ UNCHANGED <<channels, stale, bots, nextQuery, snapshot>>
  BY SessionFacts DEF Bootstrap
<1>2. /\ IdsOK(session, bots, nextQuery, nextBtea) /\ Tables /\ MaxClientId \in Nat /\ MaxQueryId \in Nat
      /\ MaxQueryId <= MaxClientId
  BY BoundsAssumption DEF IInv
<1>3. nextBtea \in Nat /\ nextBtea > MaxQueryId /\ nextBtea \in ClientIds /\ nextBtea # 0
  BY <1>1, <1>2 DEF IdsOK, ClientIds
<1>4. r \in Record /\ r.clid = nextBtea
  BY <1>1, <1>3, SessionFacts DEF Record, ClientIds
<1> HIDE DEF r
<1>5. Tables'
  BY <1>1, <1>2, <1>4, SessionFacts DEF Tables, Positions
<1>6. ASSUME NEW k \in ClientIds PROVE Kept(k)
  BY <1>1, <1>2, SessionFacts DEF Kept, Placed, Tables, Positions
<1>7. /\ \A x \in Sessions : session'[x] = IF x = s THEN r ELSE session[x]
      /\ Query \subseteq Sessions /\ Desktop \subseteq Sessions /\ s \notin Query
  BY <1>1, TransportsAssumption, SessionFacts DEF Sessions, Query
<1>8. \A x \in Sessions : /\ session[x].clid \in Nat /\ session[x].clid < nextBtea
  <2>1. \A x \in Query : session[x].clid < nextBtea
    BY <1>2, <1>3, SessionFacts DEF IdsOK, Sessions
  <2>2. \A x \in Desktop : session[x].clid < nextBtea
    BY <1>2, <1>3 DEF IdsOK
  <2> QED
    BY <2>1, <2>2, SessionFacts DEF Sessions
<1>9. IdsOK(session', bots', nextQuery', nextBtea')
  <2>1. \A x \in Query : session'[x].clid < nextQuery'
    BY <1>1, <1>2, <1>7 DEF IdsOK
  <2>2. \A x \in Desktop : session'[x].clid # 0 => session'[x].clid > MaxQueryId /\ session'[x].clid < nextBtea'
    BY <1>1, <1>2, <1>3, <1>4, <1>7, <1>8 DEF IdsOK
  <2>3. \A x, y \in Sessions : session'[x].clid = session'[y].clid /\ x # y => session'[x].clid = 0
    BY <1>2, <1>4, <1>7, <1>8 DEF IdsOK
  <2>4. \A x \in Sessions : session'[x].clid \notin bots' /\ (session'[x].sel => session'[x].clid # 0)
    BY <1>1, <1>2, <1>3, <1>4, <1>7 DEF IdsOK
  <2>5. nextBtea' \in (MaxQueryId + 1)..(MaxClientId + 1)
    BY <1>1, <1>2, <1>3
  <2> QED
    BY <1>1, <1>2, <2>1, <2>2, <2>3, <2>4, <2>5 DEF IdsOK
<1> QED
  BY <1>5, <1>6, <1>9 DEF Sound

\* An id that allocate_query_client_id gives out belongs to nobody, also to
\* nobody who is offline and keeps his id.
LEMMA FreshId ==
    ASSUME IInv, NEW k \in QueryIds, IsNextQueryId(where, k)
    PROVE  /\ k \in 1..MaxQueryId /\ k >= nextQuery /\ k \in Nat /\ nextQuery \in Nat
           /\ k + 1 \in 1..(MaxQueryId + 1) /\ k \in ClientIds /\ where[k] = 0
           /\ k \notin bots /\ \A s \in Sessions : session[s].clid # k
<1>1. k \in 1..MaxQueryId /\ k >= nextQuery /\ where[k] = 0
  BY DEF QueryIds, IsNextQueryId
<1>2. IdsOK(session, bots, nextQuery, nextBtea) /\ nextQuery \in Nat
  BY DEF IInv, IdsOK
<1>3. \A s \in Sessions : session[s].clid \in Nat
  BY SessionFacts
<1>4. \A s \in Query : session[s].clid # k
  BY <1>1, <1>2, <1>3 DEF IdsOK, Sessions
<1>5. \A s \in Desktop : session[s].clid # k
  BY <1>1, <1>2, <1>3, BoundsAssumption DEF IdsOK, Sessions
<1>6. k \notin bots
  BY <1>1, <1>2 DEF IdsOK
<1>7. k \in ClientIds /\ k + 1 \in 1..(MaxQueryId + 1) /\ k \in Nat
  BY <1>1, BoundsAssumption DEF ClientIds
<1> QED
  BY <1>1, <1>2, <1>4, <1>5, <1>6, <1>7 DEF Sessions

\* login.
LEMMA LoginSound ==
    ASSUME IInv, NEW s \in Sessions, Login(s)
    PROVE  Sound
<1> DEFINE cur == IF snapshot \in DOMAIN channels THEN snapshot
                  ELSE IF DOMAIN channels = {} THEN 0 ELSE DefaultChannelId(channels)
<1>1. PICK k \in QueryIds :
        /\ s \in Query /\ UNCHANGED nextBtea
        /\ IF session[s].clid # 0 THEN k = session[s].clid /\ UNCHANGED nextQuery
           ELSE IsNextQueryId(where, k) /\ nextQuery' = k + 1
        /\ FinishCommand(s, channels, where, [open |-> TRUE, sel |-> TRUE, clid |-> k, cur |-> cur], 0)
  BY DEF Login
<1>2. cur \in 0..MaxChannelId
  BY SessionFacts
<1> HIDE DEF cur
<1> DEFINE r == [open |-> TRUE, sel |-> TRUE, clid |-> k, cur |-> cur]
<1>3. r \in Record /\ r.clid = k
  <2>1. k \in 0..MaxClientId
    BY BoundsAssumption DEF QueryIds
  <2> QED
    BY <1>2, <2>1 DEF Record
<1>4. FinishCommand(s, channels, where, r, 0)
  BY <1>1
<1> HIDE DEF r
<1>5. Tables /\ Table(channels) /\ where \in Positions /\ session \in [Sessions -> Record]
  BY DEF IInv, Tables
<1>6. Tables' /\ \A j \in ClientIds : Kept(j)
  BY <1>3, <1>4, <1>5, FinishKeeps
<1>7. bots' \subseteq bots /\ session' = [session EXCEPT ![s] = r]
  BY <1>3, <1>4, <1>5, FinishFacts
<1>8. IdsOK(session', bots', nextQuery', nextBtea')
  <2>1. CASE session[s].clid # 0
    BY <1>1, <1>3, <1>4, <2>1, FinishIds, IdsStayApart
  <2>2. CASE session[s].clid = 0
    <3>1. /\ k \in 1..MaxQueryId /\ k >= nextQuery /\ k \in Nat /\ nextQuery \in Nat
          /\ k + 1 \in 1..(MaxQueryId + 1) /\ nextQuery' = k + 1
          /\ k \notin bots /\ \A x \in Sessions : session[x].clid # k
      BY <1>1, <2>2, FreshId
    <3>2. \A x \in Sessions : session'[x] = IF x = s THEN r ELSE session[x]
      BY <1>5, <1>7
    <3>3. /\ IdsOK(session, bots, nextQuery, nextBtea) /\ Query \subseteq Sessions /\ Desktop \subseteq Sessions
          /\ s \notin Desktop /\ \A x \in Sessions : session[x].clid \in Nat
      BY <1>1, TransportsAssumption, SessionFacts DEF IInv, Sessions, Query
    <3>4. \A x \in Query : session'[x].clid < nextQuery'
      BY <1>3, <3>1, <3>2, <3>3 DEF IdsOK
    <3>5. \A x \in Desktop : session'[x].clid # 0 => session'[x].clid > MaxQueryId /\ session'[x].clid < nextBtea'
      BY <1>1, <3>2, <3>3 DEF IdsOK
    <3>6. \A x, y \in Sessions : session'[x].clid = session'[y].clid /\ x # y => session'[x].clid = 0
      BY <1>3, <3>1, <3>2, <3>3 DEF IdsOK
    <3>7. \A x \in Sessions : session'[x].clid \notin bots' /\ (session'[x].sel => session'[x].clid # 0)
      BY <1>3, <1>7, <3>1, <3>2, <3>3 DEF IdsOK
    <3>8. \A b \in bots' : b \in 1..MaxQueryId /\ b < nextQuery'
      BY <1>7, <3>1, <3>3 DEF IdsOK
    <3> QED
      BY <1>1, <3>1, <3>3, <3>4, <3>5, <3>6, <3>7, <3>8 DEF IdsOK
  <2> QED
    BY <2>1, <2>2
<1> QED
  BY <1>6, <1>8 DEF Sound

\* A bot gets a client, in a channel that may be gone.
LEMMA SpawnSound ==
    ASSUME IInv, NEW s \in Sessions, NEW c \in 0..MaxChannelId, SpawnBot(s, c), UNCHANGED <<channels, nextBtea>>
    PROVE  Sound
<1>1. PICK k \in QueryIds :
        /\ IsNextQueryId(where, k) /\ nextQuery' = k + 1 /\ bots' = bots \union {k}
        /\ where' = [where EXCEPT ![k] = c, ![session[s].clid] = SessionChannel(channels, session[s])]
  BY DEF SpawnBot
<1>2. /\ session' = session /\ stale' = stale \ {session[s].clid}
      /\ snapshot' = IF s \in Query THEN session[s].cur ELSE snapshot
  BY DEF SpawnBot
<1>3. /\ k \in 1..MaxQueryId /\ k >= nextQuery /\ k \in Nat /\ nextQuery \in Nat
      /\ k + 1 \in 1..(MaxQueryId + 1) /\ k \in ClientIds
      /\ k \notin bots /\ \A x \in Sessions : session[x].clid # k
  BY <1>1, FreshId
<1>4. SessionChannel(channels, session[s]) = (IF session[s].cur # 0 THEN session[s].cur ELSE 1)
  BY SessionFacts DEF SessionChannel
<1>5. /\ where' \in Positions
      /\ \A j \in ClientIds : j # k /\ j # session[s].clid => where'[j] = where[j]
      /\ session[s].clid \in ClientIds => where'[session[s].clid] = SessionChannel(channels, session[s])
  BY <1>1, <1>3, <1>4, SessionFacts DEF Positions
<1>6. Tables'
  BY <1>1, <1>2, <1>3, <1>5, SessionFacts DEF IInv, Tables
<1>7. ASSUME NEW j \in ClientIds PROVE Kept(j)
  <2>1. CASE j = k
    BY <1>1, <2>1 DEF Kept
  <2>2. CASE j = session[s].clid
    BY <1>2, <1>4, <1>5, <2>2, SessionFacts DEF Kept, Placed
  <2>3. CASE j # k /\ j # session[s].clid
    BY <1>5, <2>3 DEF Kept, Placed
  <2> QED
    BY <2>1, <2>2, <2>3
<1>8. IdsOK(session', bots', nextQuery', nextBtea')
  <2>1. /\ IdsOK(session, bots, nextQuery, nextBtea) /\ Query \subseteq Sessions
        /\ \A x \in Sessions : session[x].clid \in Nat
    BY SessionFacts DEF IInv, Sessions
  <2>2. \A x \in Query : session'[x].clid < nextQuery'
    BY <1>1, <1>2, <1>3, <2>1 DEF IdsOK
  <2>3. \A b \in bots' : b \in 1..MaxQueryId /\ b < nextQuery'
    BY <1>1, <1>3, <2>1 DEF IdsOK
  <2> QED
    BY <1>1, <1>2, <1>3, <2>1, <2>2, <2>3 DEF IdsOK
<1> QED
  BY <1>6, <1>7, <1>8 DEF Sound

\* Commands that end with FinishCommand and strand nobody.
LEMMA CommandSound ==
    ASSUME IInv, NEW s \in Sessions, session[s].sel, NEW ch, Table(ch), NEW w \in Positions, NEW r \in Record, NEW left,
           r.clid = session[s].clid, FinishCommand(s, ch, w, r, left), UNCHANGED <<nextQuery, nextBtea>>,
           \A k \in ClientIds : Placed(channels, where, k) => Placed(ch, w, k)
    PROVE  Sound
<1>1. Tables' /\ \A k \in ClientIds : Kept(k)
  BY FinishKeeps DEF IInv
<1>2. IdsOK(session', bots', nextQuery', nextBtea')
  BY SessionFacts, FinishIds, IdsStayApart
<1> QED
  BY <1>1, <1>2 DEF Sound

\* Those that only move clients, to channels there are.
LEMMA MovesSound ==
    ASSUME IInv, NEW s \in Sessions, session[s].sel, NEW w \in Positions, NEW r \in Record, NEW left, r.clid = session[s].clid,
           FinishCommand(s, channels, w, r, left), UNCHANGED <<nextQuery, nextBtea>>,
           \A k \in ClientIds : w[k] \in DOMAIN channels \union {0, where[k]}
    PROVE  Sound
<1>1. \A k \in ClientIds : Placed(channels, where, k) => Placed(channels, w, k)
  BY DEF Placed
<1> QED
  BY <1>1, SessionFacts, CommandSound

\* Those that send a bot.
LEMMA SendsSound ==
    ASSUME IInv, NEW s \in Sessions, session[s].sel, NEW b \in bots, NEW c \in 0..MaxChannelId,
           FinishCommand(s, channels, [where EXCEPT ![b] = c], session[s], 0), UNCHANGED <<nextQuery, nextBtea>>
    PROVE  Sound
<1> DEFINE w == [where EXCEPT ![b] = c]
<1>1. w \in Positions /\ \A k \in ClientIds : k # b => w[k] = where[k]
  BY SessionFacts DEF Positions
<1>2. FinishCommand(s, channels, w, session[s], 0)
  OBVIOUS
<1> HIDE DEF w
<1>3. Tables' /\ \A k \in ClientIds : Kept(k)
  BY <1>1, <1>2, FinishSends DEF IInv
<1>4. IdsOK(session', bots', nextQuery', nextBtea')
  BY <1>2, SessionFacts, FinishIds, IdsStayApart
<1> QED
  BY <1>3, <1>4 DEF Sound

\* One client goes somewhere, or away.
LEMMA Moved ==
    ASSUME IInv, NEW s \in Sessions, NEW k, NEW c \in DOMAIN channels \union {0}
    PROVE  /\ [where EXCEPT ![k] = c] \in Positions
           /\ \A j \in ClientIds : [where EXCEPT ![k] = c][j] \in DOMAIN channels \union {0, where[j]}
           /\ \A j \in ClientIds : Placed(channels, where, j) => Placed(channels, [where EXCEPT ![k] = c], j)
<1>1. where \in Positions /\ c \in 0..MaxChannelId
  BY SessionFacts
<1> DEFINE w == [where EXCEPT ![k] = c]
<1>2. w \in Positions /\ \A j \in ClientIds : w[j] \in DOMAIN channels \union {0, where[j]}
  BY <1>1 DEF Positions
<1> HIDE DEF w
<1>3. \A j \in ClientIds : Placed(channels, where, j) => Placed(channels, w, j)
  BY <1>2 DEF Placed
<1> QED
  BY <1>2, <1>3 DEF w

\* A session's copy of its channel changes.
LEMMA Standing ==
    ASSUME NEW r \in Record, NEW c \in 0..MaxChannelId
    PROVE  [r EXCEPT !.cur = c] \in Record /\ [r EXCEPT !.cur = c].clid = r.clid
BY DEF Record

\* Commands that read, or move clients.
LEMMA MovingCommandsSound ==
    ASSUME IInv, NEW s \in Sessions, NEW k, NEW c \in ChannelIds,
           \/ PlainCommand(s) \/ Use(s) \/ ClientMoveSelf(s, c) \/ ClientMoveOther(s, k, c)
           \/ ClientKickFromChannel(s, k) \/ MusicBotDelete(s, k)
           \/ ChatMoveClient(s, k, c) \/ ChatChannelJoin(s, c) \/ ChatKickFromChannel(s, k)
    PROVE  Sound
<1>0. /\ session[s] \in Record /\ where \in Positions /\ 1 \in DOMAIN channels /\ DefaultChannelId(channels) = 1
      /\ 1 \in 0..MaxChannelId /\ 0 \in 0..MaxChannelId /\ c \in 0..MaxChannelId
  BY SessionFacts
<1>s. session[s].sel
  BY DEF PlainCommand, Use, ClientMoveSelf, ClientMoveOther, ClientKickFromChannel, MusicBotDelete,
         ChatMoveClient, ChatChannelJoin, ChatKickFromChannel
<1>w. \A j \in ClientIds : where[j] \in DOMAIN channels \union {0, where[j]}
  OBVIOUS
<1>1. CASE PlainCommand(s)
  BY <1>0, <1>1, <1>w, <1>s, MovesSound DEF PlainCommand
<1>2. CASE Use(s)
  <2> DEFINE r == [session[s] EXCEPT !.cur = 1]
  <2>1. FinishCommand(s, channels, where, r, 0) /\ UNCHANGED <<nextQuery, nextBtea>>
    BY <1>0, <1>2 DEF Use
  <2>2. r \in Record /\ r.clid = session[s].clid
    BY <1>0, Standing
  <2> HIDE DEF r
  <2> QED
    BY <1>0, <1>w, <2>1, <2>2, <1>s, MovesSound
<1>3. CASE ClientMoveSelf(s, c)
  <2> DEFINE r == [session[s] EXCEPT !.cur = c]
             w == IF where[session[s].clid] # 0 THEN [where EXCEPT ![session[s].clid] = c] ELSE where
             left == CleanupCandidate(s, session[s].clid)
  <2>1. FinishCommand(s, channels, w, r, left) /\ UNCHANGED <<nextQuery, nextBtea>> /\ c \in DOMAIN channels
    BY <1>3 DEF ClientMoveSelf
  <2>2. r \in Record /\ r.clid = session[s].clid
    BY <1>0, Standing
  <2>3. w \in Positions /\ \A j \in ClientIds : w[j] \in DOMAIN channels \union {0, where[j]}
    BY <1>0, <2>1, Moved
  <2> HIDE DEF r, w, left
  <2> QED
    BY <2>1, <2>2, <2>3, <1>s, MovesSound
<1>4. CASE ClientMoveOther(s, k, c)
  <2> DEFINE r == IF SameDatabaseId(s, k) THEN [session[s] EXCEPT !.cur = c] ELSE session[s]
             w == [where EXCEPT ![k] = c]
             left == CleanupCandidate(s, k)
  <2>1. FinishCommand(s, channels, w, r, left) /\ UNCHANGED <<nextQuery, nextBtea>> /\ c \in DOMAIN channels
    BY <1>4 DEF ClientMoveOther
  <2>2. r \in Record /\ r.clid = session[s].clid
    BY <1>0, Standing
  <2>3. w \in Positions /\ \A j \in ClientIds : w[j] \in DOMAIN channels \union {0, where[j]}
    BY <2>1, Moved
  <2> HIDE DEF r, w, left
  <2> QED
    BY <2>1, <2>2, <2>3, <1>s, MovesSound
<1>5. ASSUME NEW d \in DOMAIN channels \union {0}, NEW left,
             FinishCommand(s, channels, [where EXCEPT ![k] = d], session[s], left), UNCHANGED <<nextQuery, nextBtea>>
      PROVE  Sound
  <2> DEFINE w == [where EXCEPT ![k] = d]
  <2>1. FinishCommand(s, channels, w, session[s], left)
    BY <1>5
  <2>2. w \in Positions /\ \A j \in ClientIds : w[j] \in DOMAIN channels \union {0, where[j]}
    BY Moved
  <2> HIDE DEF w
  <2> QED
    BY <1>0, <1>5, <2>1, <2>2, <1>s, MovesSound
<1>6. CASE ClientKickFromChannel(s, k)
  BY <1>0, <1>5, <1>6 DEF ClientKickFromChannel
<1>7. CASE MusicBotDelete(s, k)
  BY <1>5, <1>7 DEF MusicBotDelete
<1>8. CASE ChatMoveClient(s, k, c)
  BY <1>5, <1>8 DEF ChatMoveClient, ChatDone
<1>9. CASE ChatKickFromChannel(s, k)
  BY <1>0, <1>5, <1>9 DEF ChatKickFromChannel, ChatDone
<1>10. CASE ChatChannelJoin(s, c)
  <2> DEFINE w == IF where[session[s].clid] # 0 THEN [where EXCEPT ![session[s].clid] = c] ELSE where
  <2>1. FinishCommand(s, channels, w, session[s], 0) /\ UNCHANGED <<nextQuery, nextBtea>> /\ c \in DOMAIN channels
    BY <1>10 DEF ChatChannelJoin, ChatDone
  <2>2. w \in Positions /\ \A j \in ClientIds : w[j] \in DOMAIN channels \union {0, where[j]}
    BY <1>0, <2>1, Moved
  <2> HIDE DEF w
  <2> QED
    BY <1>0, <2>1, <2>2, <1>s, MovesSound
<1> QED
  BY <1>1, <1>2, <1>3, <1>4, <1>6, <1>7, <1>8, <1>9, <1>10

\* A client is removed, its channel cleaned up, and then the command ends.
LEMMA RemovalsSound ==
    ASSUME IInv, NEW s \in Sessions, NEW k \in ClientIds, ClientKickFromServer(s, k) \/ ChatRemove(s, k)
    PROVE  Sound
<1> DEFINE w == [where EXCEPT ![k] = 0]
           ch == ChannelsAfterCleanup(channels, w, bots, where[k])
           v == WhereAfterCleanup(channels, w, bots, where[k])
<1>1. session[s].sel /\ \E left : FinishCommand(s, ch, v, session[s], left) /\ UNCHANGED <<nextQuery, nextBtea>>
  BY DEF ClientKickFromServer, ChatRemove
<1>2. /\ w \in Positions /\ Table(channels) /\ session[s] \in Record
      /\ \A j \in ClientIds : Placed(channels, where, j) => Placed(channels, w, j)
  BY Moved, SessionFacts
<1> HIDE DEF w
<1>3. Table(ch) /\ v \in Positions /\ \A j \in ClientIds : Placed(channels, w, j) => Placed(ch, v, j)
  BY <1>2, CleanupFacts
<1> HIDE DEF ch, v
<1> QED
  BY <1>1, <1>2, <1>3, CommandSound

\* channelcreate and channeldelete.
LEMMA ChannelCommandsSound ==
    ASSUME IInv, NEW s \in Sessions, NEW p \in 0..MaxChannelId, NEW c \in ChannelIds, NEW force \in {0, 1},
           ChannelCreate(s, p) \/ ChannelDelete(s, c, force)
    PROVE  Sound
<1>0. /\ session[s] \in Record /\ where \in Positions /\ Table(channels) /\ DefaultChannelId(channels) = 1
      /\ 1 \in 0..MaxChannelId /\ 0 \in 0..MaxChannelId /\ p \in 0..MaxChannelId /\ 1 \in DOMAIN channels
      /\ session[s].cur \in 0..MaxChannelId /\ session[s].sel
  BY SessionFacts, BoundsAssumption DEF ChannelCreate, ChannelDelete
<1>1. CASE ChannelCreate(s, p)
  <2>1. PICK d \in ChannelIds :
          /\ IsNextChannelId(channels, d) /\ UNCHANGED <<nextQuery, nextBtea>>
          /\ FinishCommand(s, AddChannel(channels, d, p, None, "temporary", FALSE), where, session[s], 0)
    BY <1>1 DEF ChannelCreate
  <2> DEFINE ch == AddChannel(channels, d, p, None, "temporary", FALSE)
  <2>2. d \notin DOMAIN channels
    BY <2>1, BoundsAssumption DEF IsNextChannelId, ChannelIds
  <2>3. Table(ch) /\ DOMAIN ch = DOMAIN channels \union {d}
    BY <1>0, <2>2, AddTable DEF Kinds
  <2>4. FinishCommand(s, ch, where, session[s], 0)
    BY <2>1
  <2> HIDE DEF ch
  <2>5. \A k \in ClientIds : Placed(channels, where, k) => Placed(ch, where, k)
    BY <2>3 DEF Placed
  <2> QED
    BY <1>0, <2>1, <2>3, <2>4, <2>5, CommandSound
<1>2. CASE ChannelDelete(s, c, force)
  <2> DEFINE D == IF force = 1 THEN Subtree(channels, c) ELSE {c}
             ch == RemoveChannels(channels, D, channels[c].parent)
             w == WhereAfterDelete(where, bots, D, channels[c].kind, 1)
             r == [session[s] EXCEPT !.cur = IF @ \in D THEN 1 ELSE @]
  <2>1. FinishCommand(s, ch, w, r, 0) /\ UNCHANGED <<nextQuery, nextBtea>> /\ c # 1
    BY <1>0, <1>2 DEF ChannelDelete
  <2>2. 1 \notin D
    BY <1>0, <2>1, SubtreeSparesFirst
  <2>3. r \in Record /\ r.clid = session[s].clid
    BY <1>0 DEF Record
  <2> HIDE DEF D, r
  <2>4. Table(ch) /\ DOMAIN ch = DOMAIN channels \ D
    BY <1>0, <2>2, RemoveTable
  <2>5. /\ w \in Positions
        /\ \A k \in ClientIds : /\ where[k] \notin D => w[k] = where[k]
                                /\ where[k] \in D => w[k] \in {0, 1}
    BY <1>0 DEF WhereAfterDelete, Positions
  <2> HIDE DEF ch, w
  <2>6. \A k \in ClientIds : Placed(channels, where, k) => Placed(ch, w, k)
    BY <1>0, <2>2, <2>4, <2>5 DEF Placed
  <2> QED
    BY <1>0, <2>1, <2>3, <2>4, <2>5, <2>6, CommandSound
<1> QED
  BY <1>1, <1>2

\* Bots are made and sent, in person or by a text.
LEMMA BotCommandsSound ==
    ASSUME IInv, NEW s \in Sessions, NEW b, NEW c \in ChannelIds,
           MusicBotCreate(s, c) \/ MusicBotSummon(s, b, c) \/ ChatSpawn(s) \/ ChatBotJoin(s)
    PROVE  Sound
<1>1. c \in 0..MaxChannelId /\ (session[s].sel => InvokerChannel(s) \in 0..MaxChannelId)
  <2>1. \A k : k \in ClientIds => where[k] \in 0..MaxChannelId
    BY SessionFacts DEF Positions
  <2>2. session[s].clid \in ClientIds \union {0}
    BY SessionFacts, BoundsAssumption DEF ClientIds
  <2>3. CASE session[s].clid \in ClientIds
    BY <2>1, <2>3, SessionFacts DEF InvokerChannel
  <2>4. CASE session[s].clid = 0
    BY <2>4, SessionFacts DEF InvokerChannel
  <2> QED
    BY <2>2, <2>3, <2>4, SessionFacts
<1>2. CASE MusicBotCreate(s, c)
  BY <1>1, <1>2, SpawnSound DEF MusicBotCreate
<1>3. CASE ChatSpawn(s)
  BY <1>1, <1>3, SpawnSound DEF ChatSpawn
<1>4. CASE MusicBotSummon(s, b, c)
  BY <1>1, <1>4, SendsSound DEF MusicBotSummon
<1>5. CASE ChatBotJoin(s)
  <2>s. session[s].sel
    BY <1>5 DEF ChatBotJoin
  <2>1. bots # {} /\ bots \subseteq Nat
    BY <1>5, SessionFacts, BoundsAssumption DEF ChatBotJoin, ClientIds
  <2>2. FirstBot \in bots
    <3>1. PICK x \in bots : \A y \in bots : ~ (<<y, x>> \in OpToRel(<, Nat))
      BY <2>1, NatLessThanWellFounded, WFMin
    <3>2. \A m, n \in Nat : m < n => <<m, n>> \in OpToRel(<, Nat)
      BY Zenon DEF OpToRel
    <3>3. \A y \in bots : ~ (y < x)
      BY <2>1, <3>1, <3>2, Zenon
    <3>4. \A y \in bots : x <= y
      BY <2>1, <3>3
    <3> QED
      BY <3>4 DEF FirstBot, Min
  <2> DEFINE d == InvokerChannel(s)
             x == FirstBot
  <2>3. FinishCommand(s, channels, [where EXCEPT ![x] = d], session[s], 0) /\ UNCHANGED <<nextQuery, nextBtea>>
    BY <1>5 DEF ChatBotJoin, ChatDone
  <2> HIDE DEF d, x
  <2> QED
    BY <1>1, <2>s, <2>2, <2>3, SendsSound DEF d, x
<1> QED
  BY <1>2, <1>3, <1>4, <1>5

-----------------------------------------------------------------------------
(* Housekeeping: two loops, of which every turn strands nobody.            *)

\* A turn of one of the loops.
Turn(loop, t, i) ==
    IF loop = "zombies"
    THEN IF i \in stale THEN DropZombie(t, i) ELSE t
    ELSE IF i \in Temporary(Dropped.ch) THEN SweepChannel(t, i) ELSE t

\* g holds what is left after every turn.
Runs(g, loop, base, n) == g = [i \in 0..n |-> IF i = 0 THEN base ELSE Turn(loop, g[i - 1], i)]

\* What every turn keeps.
Tidy(t) ==
    /\ Table(t.ch) /\ t.w \in Positions
    /\ \A k \in ClientIds : Placed(channels, where, k) => Placed(t.ch, t.w, k)

\* A set of naturals with an element has a least one.
LEMMA LeastOf ==
    ASSUME NEW S \in SUBSET Nat, S # {}
    PROVE  \E x \in S : \A y \in S : x <= y
<1>1. PICK x \in S : \A y \in S : ~ (<<y, x>> \in OpToRel(<, Nat))
  BY NatLessThanWellFounded, WFMin
<1>2. \A a, b \in Nat : a < b => <<a, b>> \in OpToRel(<, Nat)
  BY Zenon DEF OpToRel
<1>3. \A y \in S : ~ (y < x)
  BY <1>1, <1>2, Zenon
<1> QED
  BY <1>3

\* A loop comes to its end.
LEMMA LoopEnds ==
    ASSUME NEW loop, NEW base, NEW n \in Nat
    PROVE  \E g : Runs(g, loop, base, n)
<1> DEFINE bad == {m \in Nat : ~ \E g : Runs(g, loop, base, m)}
<1> SUFFICES ASSUME bad # {} PROVE FALSE
  OBVIOUS
<1>1. PICK x \in bad : \A y \in bad : x <= y
  <2>1. bad \in SUBSET Nat
    OBVIOUS
  <2> HIDE DEF bad
  <2> QED
    BY <2>1, LeastOf
<1>2. CASE x = 0
  <2> DEFINE g == [i \in 0..0 |-> base]
  <2>1. Runs(g, loop, base, 0)
    <3>1. \A i \in 0..0 : i = 0
      OBVIOUS
    <3>2. [i \in 0..0 |-> IF i = 0 THEN base ELSE Turn(loop, g[i - 1], i)] = [i \in 0..0 |-> base]
      BY <3>1
    <3> QED
      BY <3>2 DEF Runs
  <2> QED
    BY <1>1, <1>2, <2>1
<1>3. CASE x # 0
  <2>1. x - 1 \in Nat /\ x - 1 \notin bad
    BY <1>1, <1>3
  <2>2. PICK h : Runs(h, loop, base, x - 1)
    BY <2>1
  <2> DEFINE g == [i \in 0..x |-> IF i = x THEN Turn(loop, h[x - 1], x) ELSE h[i]]
             f == [i \in 0..x |-> IF i = 0 THEN base ELSE Turn(loop, g[i - 1], i)]
  <2>3. \A i \in 0..(x - 1) : h[i] = IF i = 0 THEN base ELSE Turn(loop, h[i - 1], i)
    BY <2>2 DEF Runs
  <2>4. ASSUME NEW i \in 0..x PROVE g[i] = f[i]
    <3>1. CASE i = 0
      <4>1. 0 \in 0..(x - 1) /\ 0 \in 0..x
        BY <1>1, <1>3
      <4>2. h[0] = base
        BY <2>3, <4>1
      <4> QED
        BY <1>3, <3>1, <4>1, <4>2
    <3>2. CASE i # 0
      <4>1. i - 1 \in 0..x /\ i - 1 # x
        BY <1>1, <3>2
      <4>2. g[i - 1] = h[i - 1] /\ f[i] = Turn(loop, g[i - 1], i)
        BY <3>2, <4>1
      <4>3. CASE i = x
        BY <4>2, <4>3
      <4>4. CASE i # x
        <5>1. i \in 0..(x - 1)
          BY <1>1, <4>4
        <5>2. h[i] = Turn(loop, h[i - 1], i)
          BY <2>3, <3>2, <5>1
        <5> QED
          BY <4>2, <4>4, <5>2
      <4> QED
        BY <4>3, <4>4
    <3> QED
      BY <3>1, <3>2
  <2>5. g = f
    BY <2>4
  <2>6. Runs(g, loop, base, x)
    <3> HIDE DEF g
    <3> QED
      BY <2>5 DEF Runs
  <2> QED
    BY <1>1, <2>6
<1> QED
  BY <1>2, <1>3

\* A turn strands nobody: who is in a channel that goes is a bot that goes.
LEMMA TurnTidy ==
    ASSUME IInv, NEW loop, NEW t, Tidy(t), NEW i
    PROVE  Tidy(Turn(loop, t, i))
<1>1. /\ Table(t.ch) /\ t.w \in Positions
      /\ \A k \in ClientIds : Placed(channels, where, k) => Placed(t.ch, t.w, k)
  BY DEF Tidy
<1>2. Tidy(DropZombie(t, i))
  <2> DEFINE w == [t.w EXCEPT ![i] = 0]
             c == t.w[i]
             ch2 == ChannelsAfterCleanup(t.ch, w, bots, c)
             w2 == WhereAfterCleanup(t.ch, w, bots, c)
  <2>1. w \in Positions /\ \A k \in ClientIds : w[k] \in {t.w[k], 0}
    <3>1. \A v \in Positions : /\ [v EXCEPT ![i] = 0] \in Positions
                               /\ \A k \in ClientIds : [v EXCEPT ![i] = 0][k] \in {v[k], 0}
      <4> SUFFICES ASSUME NEW v \in Positions
                   PROVE  /\ [v EXCEPT ![i] = 0] \in Positions
                          /\ \A k \in ClientIds : [v EXCEPT ![i] = 0][k] \in {v[k], 0}
        OBVIOUS
      <4>1. v \in [ClientIds -> 0..MaxChannelId] /\ 0 \in 0..MaxChannelId
        BY BoundsAssumption DEF Positions
      <4> QED
        BY <4>1 DEF Positions
    <3> QED
      BY <1>1, <3>1
  <2>2. DropZombie(t, i) = [ch |-> ch2, w |-> w2]
    BY DEF DropZombie
  <2> HIDE DEF w, c
  <2>3. Table(ch2) /\ w2 \in Positions /\ \A k \in ClientIds : Placed(t.ch, w, k) => Placed(ch2, w2, k)
    BY <1>1, <2>1, CleanupFacts
  <2>4. \A k \in ClientIds : Placed(t.ch, t.w, k) => Placed(t.ch, w, k)
    BY <2>1 DEF Placed
  <2> HIDE DEF ch2, w2
  <2> QED
    BY <1>1, <2>2, <2>3, <2>4 DEF Tidy
<1>3. Tidy(SweepChannel(t, i))
  <2> DEFINE ch2 == ChannelsAfterCleanup(t.ch, t.w, bots, i)
             w2 == WhereAfterCleanup(t.ch, t.w, bots, i)
  <2>1. SweepChannel(t, i) = [ch |-> ch2, w |-> w2]
    BY DEF SweepChannel
  <2>2. Table(ch2) /\ w2 \in Positions /\ \A k \in ClientIds : Placed(t.ch, t.w, k) => Placed(ch2, w2, k)
    BY <1>1, CleanupFacts
  <2> HIDE DEF ch2, w2
  <2> QED
    BY <1>1, <2>1, <2>2 DEF Tidy
<1> QED
  BY <1>2, <1>3 DEF Turn

\* So does the whole loop.
LEMMA LoopTidy ==
    ASSUME IInv, NEW loop, NEW base, Tidy(base), NEW n \in Nat, NEW g, Runs(g, loop, base, n)
    PROVE  Tidy(g[n])
<1> DEFINE bad == {i \in 0..n : ~ Tidy(g[i])}
<1>1. \A i \in 0..n : g[i] = IF i = 0 THEN base ELSE Turn(loop, g[i - 1], i)
  BY DEF Runs
<1>2. ASSUME bad # {} PROVE FALSE
  <2>1. PICK x \in bad : \A y \in bad : x <= y
    <3>1. bad \in SUBSET Nat
      OBVIOUS
    <3> HIDE DEF bad
    <3> QED
      BY <1>2, <3>1, LeastOf
  <2>2. x # 0
    BY <1>1, <2>1
  <2>3. x - 1 \in 0..n /\ x - 1 \notin bad
    BY <2>1, <2>2
  <2>4. Tidy(g[x - 1])
    BY <2>3
  <2>5. g[x] = Turn(loop, g[x - 1], x)
    BY <1>1, <2>1, <2>2
  <2>6. Tidy(g[x])
    BY <2>4, <2>5, TurnTidy
  <2> QED
    BY <2>1, <2>6
<1> QED
  BY <1>2

\* Both loops.
LEMMA SweptTidy == ASSUME IInv PROVE Tidy(Swept)
<1>n. MaxClientId \in Nat /\ MaxChannelId \in Nat
  BY BoundsAssumption
<1>1. Tidy(Dropped)
  <2> DEFINE base == [ch |-> channels, w |-> where]
             F(g) == [k \in 0..MaxClientId |->
                         IF k = 0 THEN base
                         ELSE IF k \in stale THEN DropZombie(g[k - 1], k) ELSE g[k - 1]]
             after == CHOOSE g : g = F(g)
  <2>1. \A g : Runs(g, "zombies", base, MaxClientId) <=> g = F(g)
    BY DEF Runs, Turn
  <2>2. \E g : g = F(g)
    BY <1>n, <2>1, LoopEnds
  <2>3. after = F(after)
    <3> HIDE DEF F
    <3> QED
      BY <2>2, Zenon
  <2>4. Dropped = after[MaxClientId]
    BY DEF Dropped
  <2>5. Tidy(base)
    BY DEF Tidy, IInv, Tables
  <2> HIDE DEF after, base
  <2> QED
    BY <1>n, <2>1, <2>3, <2>4, <2>5, LoopTidy
<1>2. Tidy(Swept)
  <2> DEFINE F(g) == [c \in 0..MaxChannelId |->
                         IF c = 0 THEN Dropped
                         ELSE IF c \in Temporary(Dropped.ch) THEN SweepChannel(g[c - 1], c)
                         ELSE g[c - 1]]
             after == CHOOSE g : g = F(g)
  <2>1. \A g : Runs(g, "channels", Dropped, MaxChannelId) <=> g = F(g)
    BY DEF Runs, Turn
  <2>2. \E g : g = F(g)
    BY <1>n, <2>1, LoopEnds
  <2>3. after = F(after)
    <3> HIDE DEF F
    <3> QED
      BY <2>2, Zenon
  <2>4. Swept = after[MaxChannelId]
    BY DEF Swept
  <2> HIDE DEF after
  <2> QED
    BY <1>n, <1>1, <2>1, <2>3, <2>4, LoopTidy
<1> QED
  BY <1>2

\* run_housekeeping strands nobody, and gives out no id.
LEMMA HousekeepingSound == ASSUME IInv, Housekeeping PROVE Sound
<1>1. /\ channels' = Swept.ch /\ where' = Swept.w /\ stale' = {} /\ bots' = {b \in bots : where'[b] # 0}
      /\ UNCHANGED <<session, nextQuery, nextBtea, snapshot>>
  BY DEF Housekeeping
<1>2. /\ Table(channels') /\ where' \in Positions
      /\ \A k \in ClientIds : Placed(channels, where, k) => Placed(channels', where', k)
  BY <1>1, SweptTidy DEF Tidy
<1>3. Tables' /\ bots' \subseteq bots
  BY <1>1, <1>2 DEF IInv, Tables
<1>4. IdsKept
  BY <1>1, <1>3 DEF IdsKept, IInv, IdsOK
<1> QED
  BY <1>2, <1>3, <1>4, IdsStayApart DEF Sound, Kept

\* A client goes stale.
LEMMA ExpireSound == ASSUME IInv, NEW k \in ClientIds, Expire(k) PROVE Sound
<1>1. stale' = stale \union {k} /\ UNCHANGED <<channels, where, bots, session, nextQuery, nextBtea, snapshot>>
  BY DEF Expire
<1> QED
  BY <1>1 DEF Sound, Tables, IInv, Kept, Placed

\* /ch create.
LEMMA ChatChannelCreateSound ==
    ASSUME IInv, NEW s \in Sessions, NEW kind \in ChatKinds, ChatChannelCreate(s, kind)
    PROVE  Sound
<1>1. PICK c \in ChannelIds : IsNextChannelId(channels, c) /\ channels' = AddChannel(channels, c, 0, None, kind, FALSE)
  BY DEF ChatChannelCreate
<1>2. /\ session' = session /\ UNCHANGED <<bots, nextQuery, nextBtea>> /\ session[s].sel
      /\ where' = [where EXCEPT ![session[s].clid] = SessionChannel(channels', session[s])]
      /\ snapshot' = IF s \in Query THEN session[s].cur ELSE ChatAdminSession(s).cur
      /\ stale' = stale \ {session[s].clid}
  BY DEF ChatChannelCreate
<1>3. /\ c \notin DOMAIN channels /\ kind \in Kinds /\ 0 \in 0..MaxChannelId /\ Table(channels)
      /\ where \in Positions /\ session[s].cur \in 0..MaxChannelId /\ 1 \in 0..MaxChannelId
      /\ session[s].clid \in ClientIds
  <2>1. session[s].clid \in ClientIds
    BY <1>2, SessionFacts, BoundsAssumption DEF ClientIds
  <2> QED
    BY <1>1, <2>1, SessionFacts, BoundsAssumption DEF IsNextChannelId, ChannelIds
<1>4. Table(channels') /\ DOMAIN channels' = DOMAIN channels \union {c}
  BY <1>1, <1>3, AddTable
<1>5. SessionChannel(channels', session[s]) = (IF session[s].cur # 0 THEN session[s].cur ELSE 1) /\ 1 \in DOMAIN channels'
  BY <1>4, FirstIsDefault DEF SessionChannel, Table
<1>6. /\ where' \in Positions
      /\ \A k \in ClientIds : k # session[s].clid => where'[k] = where[k]
      /\ where'[session[s].clid] = SessionChannel(channels', session[s])
  BY <1>2, <1>3, <1>5 DEF Positions
<1>7. snapshot' \in 0..MaxChannelId
  <2>1. ChatAdminSession(s).cur = InvokerChannel(s)
    BY DEF ChatAdminSession
  <2>2. InvokerChannel(s) \in 0..MaxChannelId
    BY <1>3 DEF InvokerChannel, Positions
  <2> QED
    BY <1>2, <1>3, <2>1, <2>2
<1>8. Tables'
  BY <1>2, <1>4, <1>6, <1>7 DEF IInv, Tables
<1>9. ASSUME NEW k \in ClientIds PROVE Kept(k)
  <2>1. CASE k = session[s].clid
    BY <1>2, <1>5, <1>6, <2>1 DEF Kept, Placed
  <2>2. CASE k # session[s].clid
    BY <1>4, <1>6, <2>2 DEF Kept, Placed
  <2> QED
    BY <2>1, <2>2
<1>10. IdsOK(session', bots', nextQuery', nextBtea')
  BY <1>2 DEF IInv
<1> QED
  BY <1>8, <1>9, <1>10 DEF Sound

\* Every step is sound.
LEMMA StepsSound == ASSUME IInv, Next PROVE Sound
<1>c. 1 \in ChannelIds /\ 0 \in 0..MaxChannelId
  BY BoundsAssumption DEF ChannelIds
<1>1. ASSUME NEW s \in Sessions,
             \/ Connect(s) \/ Bootstrap(s) \/ Login(s) \/ Logout(s)
             \/ Quit(s) \/ Disconnect(s) \/ SshClose(s) \/ Heartbeat(s)
      PROVE  Sound
  BY <1>1, ConnectionsSound, BootstrapSound, LoginSound
<1>2. ASSUME NEW s \in Sessions, NEW k, NEW c \in ChannelIds,
             \/ PlainCommand(s) \/ Use(s) \/ ClientMoveSelf(s, c) \/ ClientMoveOther(s, k, c)
             \/ ClientKickFromChannel(s, k) \/ MusicBotDelete(s, k)
             \/ ChatMoveClient(s, k, c) \/ ChatChannelJoin(s, c) \/ ChatKickFromChannel(s, k)
      PROVE  Sound
  BY <1>2, MovingCommandsSound
<1>3. ASSUME NEW s \in Sessions, NEW k \in ClientIds, ClientKickFromServer(s, k) \/ ChatRemove(s, k) PROVE Sound
  BY <1>3, RemovalsSound
<1>4. ASSUME NEW s \in Sessions, NEW p \in ParentsUsed, ChannelCreate(s, p) PROVE Sound
  BY <1>c, <1>4, ChannelCommandsSound, BoundsAssumption
<1>5. ASSUME NEW s \in Sessions, NEW c \in ChannelIds, NEW f \in {0, 1}, ChannelDelete(s, c, f) PROVE Sound
  BY <1>c, <1>5, ChannelCommandsSound
<1>6. ASSUME NEW s \in Sessions, NEW b, NEW c \in ChannelIds,
             MusicBotCreate(s, c) \/ MusicBotSummon(s, b, c) \/ ChatSpawn(s) \/ ChatBotJoin(s)
      PROVE  Sound
  BY <1>6, BotCommandsSound
<1>7. ASSUME NEW s \in Sessions, NEW kind \in ChatKinds, ChatChannelCreate(s, kind) PROVE Sound
  BY <1>7, ChatChannelCreateSound
<1>8. ASSUME NEW k \in ClientIds, Expire(k) PROVE Sound
  BY <1>8, ExpireSound
<1>9. CASE Housekeeping
  BY <1>9, HousekeepingSound
<1> QED
  BY <1>c, <1>1, <1>2, <1>3, <1>4, <1>5, <1>6, <1>7, <1>8, <1>9 DEF Next

-----------------------------------------------------------------------------
(* The theorems.                                                           *)

\* Nobody is online at the start, and there are two permanent channels.
LEMMA InitSound == Init => IInv
<1> SUFFICES ASSUME Init PROVE IInv
  OBVIOUS
<1>1. /\ channels = [c \in 1..2 |-> [parent |-> 0, order |-> c - 1, kind |-> "permanent", dflt |-> c = 1]]
      /\ where = [k \in ClientIds |-> 0] /\ stale = {} /\ bots = {} /\ session = [s \in Sessions |-> Closed]
      /\ nextQuery = 1 /\ nextBtea = MaxQueryId + 1 /\ snapshot = 0
  BY DEF Init
<1>2. Closed \in Record /\ Closed.clid = 0 /\ ~ Closed.sel
  BY BoundsAssumption DEF Closed, Record
<1>3. Table(channels)
  <2>1. \A c \in 1..2 : c - 1 \in 0..MaxChannelId /\ c \in ChannelIds
    BY BoundsAssumption DEF ChannelIds
  <2>2. \A c \in 1..2 : channels[c] \in ChannelRow
    BY <1>1, <2>1, BoundsAssumption DEF ChannelRow, Kinds
  <2>3. channels \in [1..2 -> ChannelRow] /\ DOMAIN channels = 1..2 /\ 1..2 \subseteq ChannelIds
    BY <1>1, <2>1, <2>2
  <2>4. channels[1].parent = 0 /\ channels[1].kind = "permanent" /\ channels[1].dflt
    <3>1. 1 \in 1..2
      OBVIOUS
    <3>2. channels[1] = [parent |-> 0, order |-> 1 - 1, kind |-> "permanent", dflt |-> 1 = 1]
      BY <1>1, <3>1
    <3>3. channels[1].parent = 0 /\ channels[1].kind = "permanent"
      BY <3>2
    <3>4. channels[1].dflt
      <4>1. channels[1] = [parent |-> 0, order |-> 1 - 1, kind |-> "permanent", dflt |-> TRUE]
        BY <3>2
      <4> QED
        BY <4>1
    <3> QED
      BY <3>3, <3>4
  <2> QED
    BY <2>3, <2>4 DEF Table
<1>4. Tables
  BY <1>1, <1>2, <1>3, BoundsAssumption DEF Tables, Positions
<1>5. IdsOK(session, bots, nextQuery, nextBtea)
  BY <1>1, <1>2, BoundsAssumption DEF IdsOK, Sessions
<1> QED
  BY <1>4, <1>5 DEF IInv

\* Every step keeps the invariant.
LEMMA Inductive == IInv /\ [Next]_vars => IInv'
<1> SUFFICES ASSUME IInv, [Next]_vars PROVE IInv'
  OBVIOUS
<1>1. CASE Next
  BY <1>1, StepsSound DEF Sound, IInv
<1>2. CASE UNCHANGED vars
  BY <1>2 DEF vars, IInv, Tables
<1> QED
  BY <1>1, <1>2

\* Channels, positions, sessions and counters keep their types, through every
\* command and through the loops of the housekeeping.
THEOREM TypeCorrect == Spec => []TypeOK
<1>1. IInv => TypeOK
  BY DEF IInv, Tables, IdsOK, TypeOK, Table, ChannelRow, Positions, Record
<1> QED
  BY <1>1, InitSound, Inductive, PTL DEF Spec

\* No two connections, and no connection and a bot, share a client id, also while
\* the one that keeps its id is not online.
THEOREM ClientIdsAreUnique == Spec => []UniqueClientIds
<1>1. IInv => UniqueClientIds
  BY DEF IInv, IdsOK, UniqueClientIds
<1> QED
  BY <1>1, InitSound, Inductive, PTL DEF Spec

\* No command of somebody else, no housekeeping, and no deletion or cleanup of a
\* channel leaves a client in a channel that is gone.
THEOREM OnlySessionsAndBotsStrand == Spec => OnlyStaleSessionsStrand
<1>1. ASSUME IInv, Next, NEW k \in ClientIds,
             where[k] \in DOMAIN channels \union {0}, where'[k] \notin DOMAIN channels' \union {0}
      PROVE  \/ \E s \in Sessions : session'[s].clid = k /\ session'[s].cur = where'[k]
             \/ k \in bots' /\ channels' = channels
  BY <1>1, StepsSound DEF Sound, Kept, Placed
<1>2. IInv /\ [Next]_vars =>
        [\A k \in ClientIds :
            /\ where[k] \in DOMAIN channels \union {0}
            /\ where'[k] \notin DOMAIN channels' \union {0}
            => \/ \E s \in Sessions : session'[s].clid = k /\ session'[s].cur = where'[k]
               \/ k \in bots' /\ channels' = channels]_vars
  BY <1>1
<1> QED
  BY <1>2, InitSound, Inductive, PTL DEF Spec, OnlyStaleSessionsStrand

-----------------------------------------------------------------------------
(***************************************************************************)
(* DesktopView: the sessions of desktop clients over UDP and the queue of  *)
(* notifications, for any addresses and all bounds.                        *)
(***************************************************************************)

Stages    == {"idle", "created", "edited", "deleted", "moved", "vacate"}
Types     == {"enter", "left", "moved", "update", "created", "edited", "deleted"}
Session   == [id : 0..MaxClid, on : BOOLEAN, named : BOOLEAN,
              kind : {"ts3", "ts6", "teaspeak"}, again : BOOLEAN]
Values    == 0..MaxChannelId \union 0..2
Places == [Clients -> 0..MaxChannelId]

\* The kind of object that a notification of type t is about.
About(t) == CASE t \in {"enter", "left", "moved"} -> "client"
              [] t = "update" -> "away"
              [] OTHER -> "channel"

Notifications ==
    {e \in [t : Types, o : Objects, v : Values, by : 0..Invoker] : e.o[1] = About(e.t)}

\* Channels and music bots: what a cleanup takes.
Removable == {o \in Objects : o[1] = "channel" \/ o = Client(Bot)}

-----------------------------------------------------------------------------
(* Lists.                                                                  *)

\* The elements of a sequence.
LEMMA Elements ==
    ASSUME NEW S, NEW s \in Seq(S)
    PROVE  /\ \A x : x \in ToSet(s) <=> \E i \in 1..Len(s) : s[i] = x
           /\ ToSet(s) \subseteq S
BY DEF ToSet

LEMMA Joined ==
    ASSUME NEW S, NEW s \in Seq(S), NEW t \in Seq(S)
    PROVE  s \o t \in Seq(S) /\ ToSet(s \o t) = ToSet(s) \union ToSet(t)
<1> DEFINE u == s \o t
<1>1. /\ u \in Seq(S) /\ Len(u) = Len(s) + Len(t) /\ Len(s) \in Nat /\ Len(t) \in Nat
      /\ \A i \in 1..Len(s) + Len(t) : u[i] = IF i <= Len(s) THEN s[i] ELSE t[i - Len(s)]
  BY ConcatProperties, LenProperties
<1> HIDE DEF u
<1>2. \A x : x \in ToSet(u) <=> \E i \in 1..Len(u) : u[i] = x
  BY <1>1, Elements
<1>3. ASSUME NEW x, x \in ToSet(u) PROVE x \in ToSet(s) \union ToSet(t)
  <2>1. PICK i \in 1..Len(u) : u[i] = x
    BY <1>2, <1>3
  <2>2. CASE i <= Len(s)
    <3>1. i \in 1..Len(s) /\ s[i] = x
      BY <1>1, <2>1, <2>2
    <3> QED
      BY <3>1, Elements
  <2>3. CASE i > Len(s)
    <3>1. i - Len(s) \in 1..Len(t) /\ t[i - Len(s)] = x
      BY <1>1, <2>1, <2>3
    <3> QED
      BY <3>1, Elements
  <2>4. i \in Int /\ (i <= Len(s) \/ i > Len(s))
    <3>1. Len(u) \in Nat
      BY <1>1
    <3> QED
      BY <1>1, <3>1
  <2> QED
    BY <2>2, <2>3, <2>4
<1>4. ASSUME NEW x, x \in ToSet(s) PROVE x \in ToSet(u)
  <2>1. PICK i \in 1..Len(s) : s[i] = x
    BY <1>4, Elements
  <2>2. i \in 1..Len(u) /\ u[i] = x
    BY <1>1, <2>1
  <2> QED
    BY <1>2, <2>2
<1>5. ASSUME NEW x, x \in ToSet(t) PROVE x \in ToSet(u)
  <2>1. PICK i \in 1..Len(t) : t[i] = x
    BY <1>5, Elements
  <2> DEFINE j == Len(s) + i
  <2>2. j \in 1..Len(s) + Len(t) /\ ~ (j <= Len(s)) /\ j - Len(s) = i
    BY <1>1, <2>1
  <2> HIDE DEF j
  <2>3. j \in 1..Len(u) /\ u[j] = x
    BY <1>1, <2>1, <2>2
  <2> QED
    BY <1>2, <2>3
<1> QED
  BY <1>1, <1>3, <1>4, <1>5 DEF u

\* A list of one.
LEMMA Single ==
    ASSUME NEW S, NEW x \in S
    PROVE  <<x>> \in Seq(S) /\ ToSet(<<x>>) = {x} /\ Len(<<x>>) = 1 /\ <<x>>[1] = x
BY DEF ToSet

LEMMA Empty == ASSUME NEW S PROVE <<>> \in Seq(S) /\ ToSet(<<>>) = {} /\ Len(<<>>) = 0
BY DEF ToSet

\* A finite set as a list.
LEMMA Listing ==
    ASSUME NEW S, IsFiniteSet(S)
    PROVE  SetToSeq(S) \in Seq(S) /\ ToSet(SetToSeq(S)) = S
<1> DEFINE n == Cardinality(S)
<1>1. n \in Nat /\ ExistsBijection(1..n, S)
  BY FS_CardinalityType
<1>2. PICK f : f \in Bijection(1..n, S)
  BY <1>1 DEF ExistsBijection
<1>3. f \in [1..n -> S] /\ IsInjective(f)
  BY <1>2 DEF Bijection, Injection
<1> DEFINE g == SetToSeq(S)
<1>4. g \in [1..n -> S] /\ IsInjective(g)
  BY <1>3 DEF SetToSeq
<1>5. g \in Injection(1..n, S)
  BY <1>4 DEF Injection
<1>6. g \in Surjection(1..n, S)
  <2>1. IsFiniteSet(1..n) /\ Cardinality(1..n) = n
    BY <1>1, FS_Interval
  <2> QED
    BY <1>5, <2>1, FS_Injection
<1> HIDE DEF g
<1>7. g \in Seq(S) /\ DOMAIN g = 1..n
  BY <1>1, <1>4
<1>8. \A x \in S : \E i \in 1..n : g[i] = x
  BY <1>6 DEF Surjection
<1>9. ToSet(g) = S
  BY <1>4, <1>7, <1>8 DEF ToSet
<1> QED
  BY <1>7, <1>9 DEF g

\* The image of a finite set.
LEMMA Image ==
    ASSUME NEW S, IsFiniteSet(S), NEW f, DOMAIN f = S, f = [x \in S |-> f[x]]
    PROVE  IsFiniteSet({f[x] : x \in S})
<1> DEFINE T == {f[x] : x \in S}
<1>1. f \in Surjection(S, T)
  BY DEF Surjection
<1> HIDE DEF T
<1>2. IsFiniteSet(T)
  BY <1>1, FS_Surjection
<1> QED
  BY <1>2 DEF T

-----------------------------------------------------------------------------
(* Objects and notifications.                                              *)

LEMMA Numbers ==
    /\ MaxChannelId \in Nat \ {0} /\ MaxClid \in Nat
    /\ Bot \in Nat /\ Bot = MaxClid + 1 /\ Bot \in Clients /\ Invoker \in Nat /\ Invoker = MaxClid + 2
    /\ Clients = 1..(MaxClid + 1) /\ ChannelIds = 1..MaxChannelId
BY ViewBoundsAssumption DEF Bot, Invoker, Clients, ChannelIds

LEMMA ObjectShape ==
    /\ \A c \in ChannelIds : Channel(c) \in Objects
    /\ \A k \in Clients : Client(k) \in Objects /\ Away(k) \in Objects
    /\ \A o \in Objects : \/ o[1] = "channel" /\ o[2] \in ChannelIds /\ o = Channel(o[2])
                          \/ o[1] = "client" /\ o[2] \in Clients /\ o = Client(o[2])
                          \/ o[1] = "away" /\ o[2] \in Clients /\ o = Away(o[2])
    /\ \A x : /\ Channel(x)[1] = "channel" /\ Channel(x)[2] = x
              /\ Client(x)[1] = "client" /\ Client(x)[2] = x
              /\ Away(x)[1] = "away" /\ Away(x)[2] = x
BY DEF Objects, Channel, Client, Away

LEMMA ObjectsFinite == IsFiniteSet(Objects)
<1>1. IsFiniteSet(ChannelIds) /\ IsFiniteSet(Clients)
  BY Numbers, FS_Interval
<1>2. IsFiniteSet({"channel"}) /\ IsFiniteSet({"client", "away"})
  <2>1. IsFiniteSet({"client"}) /\ IsFiniteSet({"away"}) /\ IsFiniteSet({"channel"})
    BY FS_Singleton
  <2>2. {"client", "away"} = {"client"} \union {"away"}
    OBVIOUS
  <2> QED
    BY <2>1, <2>2, FS_Union
<1>3. IsFiniteSet({"channel"} \X ChannelIds) /\ IsFiniteSet({"client", "away"} \X Clients)
  BY <1>1, <1>2, FS_Product
<1> QED
  BY <1>3, FS_Union DEF Objects

LEMMA EventFields ==
    ASSUME NEW t, NEW o, NEW v, NEW by
    PROVE  /\ Event(t, o, v, by).t = t /\ Event(t, o, v, by).o = o
           /\ Event(t, o, v, by).v = v /\ Event(t, o, v, by).by = by
BY DEF Event

LEMMA EventIsNotification ==
    ASSUME NEW t \in Types, NEW o \in Objects, NEW v \in Values, NEW by \in 0..Invoker,
           o[1] = About(t)
    PROVE  Event(t, o, v, by) \in Notifications
BY DEF Notifications, Event

\* A set of notifications, one for each of some objects, as a list.
Each(t, S, v, by) == SetToSeq({Event(t, o, v, by) : o \in S})

LEMMA EventList ==
    ASSUME NEW t \in Types, NEW S \in SUBSET Objects, NEW v \in Values, NEW by \in 0..Invoker,
           \A o \in S : o[1] = About(t)
    PROVE  /\ Each(t, S, v, by) \in Seq(Notifications)
           /\ \A e : e \in ToSet(Each(t, S, v, by)) <=> \E o \in S : e = Event(t, o, v, by)
<1> DEFINE f == [o \in S |-> Event(t, o, v, by)]
           T == {Event(t, o, v, by) : o \in S}
<1>1. IsFiniteSet(S)
  BY ObjectsFinite, FS_Subset
<1>2. T = {f[x] : x \in S} /\ DOMAIN f = S /\ f = [x \in S |-> f[x]]
  OBVIOUS
<1>3. T \subseteq Notifications
  BY EventIsNotification
<1> HIDE DEF f, T
<1>4. IsFiniteSet(T)
  BY <1>1, <1>2, Image
<1>5. SetToSeq(T) \in Seq(T) /\ ToSet(SetToSeq(T)) = T
  BY <1>4, Listing
<1>6. SetToSeq(T) \in Seq(Notifications)
  BY <1>3, <1>5, SeqMonotonic
<1> QED
  BY <1>5, <1>6 DEF T, Each

\* What a cleanup announces.
LEMMA CleanupList ==
    ASSUME NEW objs \in SUBSET Removable, NEW by \in 0..Invoker
    PROVE  /\ CleanupEvents(objs, by) \in Seq(Notifications)
           /\ \A e : e \in ToSet(CleanupEvents(objs, by)) <=>
                 \E o \in objs : e = Event(IF o[1] = "channel" THEN "deleted" ELSE "left", o, 0, by)
<1> DEFINE A == {p \in objs : p[1] = "client"}
           B == {p \in objs : p[1] = "channel"}
           a == Each("left", A, 0, by)
           b == Each("deleted", B, 0, by)
<1>1. /\ A \subseteq Objects /\ B \subseteq Objects /\ objs = A \union B
      /\ \A o \in A : o[1] # "channel"
      /\ (\A o \in A : o[1] = About("left")) /\ (\A o \in B : o[1] = About("deleted"))
  BY ObjectShape DEF Removable, About
<1>2. "left" \in Types /\ "deleted" \in Types /\ 0 \in Values
  BY Numbers DEF Types, Values
<1> HIDE DEF A, B
<1>3. a \in Seq(Notifications) /\ \A e : e \in ToSet(a) <=> \E o \in A : e = Event("left", o, 0, by)
  <2>1. "left" \in Types /\ A \in SUBSET Objects /\ 0 \in Values /\ by \in 0..Invoker
        /\ \A o \in A : o[1] = About("left")
    BY <1>1, <1>2
  <2> QED
    BY <2>1, EventList, Zenon
<1>4. b \in Seq(Notifications) /\ \A e : e \in ToSet(b) <=> \E o \in B : e = Event("deleted", o, 0, by)
  <2>1. "deleted" \in Types /\ B \in SUBSET Objects /\ 0 \in Values /\ by \in 0..Invoker
        /\ \A o \in B : o[1] = About("deleted")
    BY <1>1, <1>2
  <2> QED
    BY <2>1, EventList, Zenon
<1>5. CleanupEvents(objs, by) = a \o b
  BY DEF CleanupEvents, Each, A, B
<1> HIDE DEF a, b
<1>6. a \o b \in Seq(Notifications) /\ ToSet(a \o b) = ToSet(a) \union ToSet(b)
  BY <1>3, <1>4, Joined
<1>7. \A o \in B : o[1] = "channel"
  BY DEF B
<1> QED
  BY <1>1, <1>3, <1>4, <1>5, <1>6, <1>7
-----------------------------------------------------------------------------
(* The tables.                                                             *)

Row == [parent : 0..MaxChannelId, order : 0..MaxChannelId,
        kind : {"temporary", "permanent"}, dflt : BOOLEAN]

IsTable(ch) == DOMAIN ch \subseteq ChannelIds /\ ch \in [DOMAIN ch -> Row]

\* The channels that are in both tables are of the same kinds.
SameKinds(ch, new) ==
    \A c \in DOMAIN new : c \in DOMAIN ch => new[c].kind = ch[c].kind

\* The default channel is a channel id, also when there is no channel.
LEMMA HomeIsId ==
    ASSUME NEW ch, DOMAIN ch \subseteq ChannelIds
    PROVE  DefaultChannelId(ch) \in ChannelIds
<1>1. \A S \in SUBSET DOMAIN ch : S # {} => Least(S) \in ChannelIds
  <2> SUFFICES ASSUME NEW S \in SUBSET DOMAIN ch, S # {} PROVE Least(S) \in ChannelIds
    OBVIOUS
  <2>1. S \in SUBSET Nat
    BY Numbers
  <2>2. \E x \in S : \A y \in S : x <= y
    BY <2>1, LeastOf
  <2>3. Least(S) \in S
    BY <2>2 DEF Least
  <2> QED
    BY <2>3
<1> DEFINE flagged == {c \in DOMAIN ch : ch[c].dflt}
           first   == {c \in DOMAIN ch : ch[c].parent = 0 /\ ch[c].order = 0}
<1>2. /\ flagged \in SUBSET DOMAIN ch /\ first \in SUBSET DOMAIN ch
      /\ DOMAIN ch \in SUBSET DOMAIN ch /\ 1 \in ChannelIds
  BY Numbers
<1>3. DefaultChannelId(ch) = IF flagged # {} THEN Least(flagged)
        ELSE IF first # {} THEN Least(first)
        ELSE IF DOMAIN ch # {} THEN Least(DOMAIN ch)
        ELSE 1
  BY DEF DefaultChannelId
<1> HIDE DEF flagged, first
<1> QED
  BY <1>1, <1>2, <1>3

\* relink_sibling_orders changes nothing but the order of channels.
LEMMA RelinkRows ==
    ASSUME NEW ch, NEW p, NEW ids, IsTable(ch), NEW new, new = RelinkSiblingOrders(ch, p, ids)
    PROVE  IsTable(new) /\ DOMAIN new = DOMAIN ch /\ SameKinds(ch, new)
<1> DEFINE Before(c) == {d \in Siblings(ch, p) :
                         \E i \in 1..(Len(ids) - 1) : ids[i] = d /\ ids[i+1] = c}
           o(c) == IF Before(c) = {} THEN 0 ELSE CHOOSE d \in Before(c) : TRUE
<1>1. \A c : o(c) \in 0..MaxChannelId
  <2> SUFFICES ASSUME NEW c PROVE o(c) \in 0..MaxChannelId
    OBVIOUS
  <2>1. CASE Before(c) = {}
    BY <2>1, Numbers
  <2>2. CASE Before(c) # {}
    <3>1. o(c) \in Before(c)
      BY <2>2
    <3> QED
      BY <3>1, Numbers DEF Siblings, IsTable
  <2> QED
    BY <2>1, <2>2
<1>2. /\ DOMAIN new = DOMAIN ch
      /\ new = [c \in DOMAIN ch |-> new[c]]
      /\ \A c \in DOMAIN ch : new[c] = ch[c] \/ new[c] = [ch[c] EXCEPT !.order = o(c)]
  BY DEF RelinkSiblingOrders
<1> HIDE DEF o
<1>3. ASSUME NEW c \in DOMAIN ch
      PROVE  new[c] \in Row /\ new[c].kind = ch[c].kind
  <2>1. ch[c] \in Row
    BY DEF IsTable
  <2>2. PICK x \in 0..MaxChannelId : new[c] = ch[c] \/ new[c] = [ch[c] EXCEPT !.order = x]
    BY <1>1, <1>2
  <2> QED
    BY <2>1, <2>2 DEF Row
<1>4. new \in [DOMAIN ch -> Row]
  BY <1>2, <1>3
<1> QED
  BY <1>2, <1>3, <1>4 DEF IsTable, SameKinds

\* channelcreate of a query adds a channel.
LEMMA AddRow ==
    ASSUME NEW ch, IsTable(ch), NEW c \in ChannelIds, NEW p \in 0..MaxChannelId,
           NEW kind \in {"temporary", "permanent"}, c \notin DOMAIN ch,
           NEW new, new = AddChannel(ch, c, p, None, kind, FALSE)
    PROVE  /\ IsTable(new) /\ DOMAIN new = DOMAIN ch \union {c}
           /\ new[c].kind = kind /\ SameKinds(ch, new)
<1> DEFINE rec == [parent |-> p, order |-> 0, dflt |-> FALSE, kind |-> kind]
           added == [d \in DOMAIN ch \union {c} |-> IF d = c THEN rec ELSE ch[d]]
           ids == InsertAtAnchor(OrderedSiblingIds(ch, p, None), None, c)
<1>1. rec \in Row /\ rec.kind = kind
  BY Numbers DEF Row
<1>2. new = RelinkSiblingOrders(added, p, ids)
  BY DEF AddChannel
<1> HIDE DEF rec, ids
<1>3. /\ DOMAIN added = DOMAIN ch \union {c} /\ added[c].kind = kind
      /\ \A d \in DOMAIN ch : added[d].kind = ch[d].kind
  BY <1>1
<1>4. IsTable(added)
  <2>1. \A d \in DOMAIN ch \union {c} : added[d] \in Row
    BY <1>1 DEF IsTable
  <2>2. added \in [DOMAIN ch \union {c} -> Row]
    BY <2>1
  <2> HIDE DEF added
  <2> QED
    BY <1>3, <2>2 DEF IsTable
<1> HIDE DEF added
<1>5. IsTable(new) /\ DOMAIN new = DOMAIN added /\ SameKinds(added, new)
  BY <1>2, <1>4, RelinkRows
<1> QED
  BY <1>3, <1>5 DEF SameKinds

\* Channels are removed.
LEMMA RemoveRows ==
    ASSUME NEW ch, IsTable(ch), NEW D, NEW p, NEW new, new = RemoveChannels(ch, D, p)
    PROVE  IsTable(new) /\ DOMAIN new = DOMAIN ch \ D /\ SameKinds(ch, new)
<1> DEFINE kept == [c \in DOMAIN ch \ D |-> ch[c]]
<1>1. IsTable(kept) /\ DOMAIN kept = DOMAIN ch \ D /\ \A d \in DOMAIN kept : kept[d].kind = ch[d].kind
  BY DEF IsTable
<1>2. new = RelinkSiblingOrders(kept, p, OrderedSiblingIds(kept, p, None))
  BY DEF RemoveChannels
<1> HIDE DEF kept
<1>3. IsTable(new) /\ DOMAIN new = DOMAIN kept /\ SameKinds(kept, new)
  BY <1>1, <1>2, RelinkRows
<1> QED
  BY <1>1, <1>3 DEF SameKinds

\* A cleanup removes at most channel c, and of the clients music bots.
LEMMA CleanupChannels ==
    ASSUME NEW ch, IsTable(ch), NEW w \in Places, NEW c, bots \subseteq {Bot}
    PROVE  /\ IsTable(ChannelsAfterCleanup(ch, w, bots, c))
           /\ DOMAIN ChannelsAfterCleanup(ch, w, bots, c) \in {DOMAIN ch, DOMAIN ch \ {c}}
           /\ SameKinds(ch, ChannelsAfterCleanup(ch, w, bots, c))
<1> DEFINE done == ChannelsAfterCleanup(ch, w, bots, c)
<1>1. /\ IsTable(done) /\ DOMAIN done \in {DOMAIN ch, DOMAIN ch \ {c}}
      /\ SameKinds(ch, done)
  <2>1. \/ done = ch
        \/ done = RemoveChannels(ch, {c}, ch[c].parent)
    BY DEF ChannelsAfterCleanup
  <2>2. CASE done = ch
    BY <2>2 DEF SameKinds
  <2>3. CASE done = RemoveChannels(ch, {c}, ch[c].parent)
    <3>1. PICK D, p, new : D = {c} /\ p = ch[c].parent /\ new = RemoveChannels(ch, D, p)
      OBVIOUS
    <3>2. IsTable(new) /\ DOMAIN new = DOMAIN ch \ D /\ SameKinds(ch, new)
      BY <3>1, RemoveRows
    <3>3. done = new
      BY <2>3, <3>1
    <3> HIDE DEF done
    <3> QED
      BY <3>1, <3>2, <3>3
  <2> QED
    BY <2>1, <2>2, <2>3
<1> QED
  BY <1>1

LEMMA CleanupClients ==
    ASSUME NEW ch, IsTable(ch), NEW w \in Places, NEW c, bots \subseteq {Bot}
    PROVE  /\ WhereAfterCleanup(ch, w, bots, c) \in Places
           /\ \A k \in Clients : \/ WhereAfterCleanup(ch, w, bots, c)[k] = w[k]
                                 \/ k = Bot /\ WhereAfterCleanup(ch, w, bots, c)[k] = 0
<1> DEFINE put == WhereAfterCleanup(ch, w, bots, c)
<1>1. /\ put \in Places
      /\ \A k \in Clients : put[k] = w[k] \/ (k = Bot /\ put[k] = 0)
  <2>1. CASE put = w
    BY <2>1
  <2>2. CASE /\ Occupants(w, c) \subseteq bots
             /\ put = [k \in DOMAIN w |-> IF w[k] = c THEN 0 ELSE w[k]]
    <3>1. DOMAIN w = Clients /\ 0 \in 0..MaxChannelId
      BY Numbers DEF Places
    <3> HIDE DEF put
    <3>2. put \in Places
      BY <2>2, <3>1 DEF Places
    <3>3. ASSUME NEW k \in Clients, put[k] # w[k] PROVE k = Bot /\ put[k] = 0
      <4>1. w[k] = c /\ put[k] = 0
        BY <2>2, <3>1, <3>3
      <4> QED
        BY <2>2, <3>1, <4>1 DEF Occupants
    <3> QED
      BY <3>2, <3>3
  <2> QED
    BY <2>1, <2>2 DEF WhereAfterCleanup
<1> QED
  BY <1>1

LEMMA CleanupGone ==
    ASSUME NEW ch, IsTable(ch), NEW w \in Places, NEW c, bots \subseteq {Bot}
    PROVE  /\ CleanedUp(ch, w, c) \subseteq Removable
           /\ \A o \in CleanedUp(ch, w, c) : o[1] # "away"
<1> DEFINE done == ChannelsAfterCleanup(ch, w, bots, c)
<1> DEFINE put == WhereAfterCleanup(ch, w, bots, c)
<1>2. \A k \in Clients : put[k] = w[k] \/ (k = Bot /\ put[k] = 0)
  BY CleanupClients
<1>3. /\ CleanedUp(ch, w, c) \subseteq Removable
      /\ \A o \in CleanedUp(ch, w, c) : o[1] # "away"
  <2> SUFFICES ASSUME NEW o \in CleanedUp(ch, w, c) PROVE o \in Removable /\ o[1] # "away"
    OBVIOUS
  <2>1. o \in Objects /\ o[1] # "away" /\ Value(ch, w, {}, o) # 0 /\ Value(done, put, {}, o) = 0
    BY DEF CleanedUp
  <2>2. CASE o[1] = "client"
    <3>1. o[2] \in Clients /\ o = Client(o[2])
      BY <2>1, <2>2, ObjectShape
    <3>2. w[o[2]] # 0 /\ put[o[2]] = 0
      BY <2>1, <2>2 DEF Value
    <3> QED
      BY <1>2, <2>1, <3>1, <3>2 DEF Removable
  <2> QED
    BY <2>1, <2>2, ObjectShape DEF Removable
<1> QED
  BY <1>3

LEMMA CleanupNowhere ==
    ASSUME NEW ch, IsTable(ch), NEW w \in Places, bots \subseteq {Bot}
    PROVE  /\ ChannelsAfterCleanup(ch, w, bots, 0) = ch
           /\ WhereAfterCleanup(ch, w, bots, 0) = w
           /\ CleanedUp(ch, w, 0) = {}
<1>1. ChannelsAfterCleanup(ch, w, bots, 0) = ch /\ WhereAfterCleanup(ch, w, bots, 0) = w
  BY Numbers DEF ChannelsAfterCleanup, WhereAfterCleanup, IsTable
<1> QED
  BY <1>1 DEF CleanedUp

\* A forced channeldelete puts the clients elsewhere, but for music bots.
LEMMA DeleteFacts ==
    ASSUME NEW w \in Places, NEW D, NEW kind, NEW home \in ChannelIds, bots \subseteq {Bot}
    PROVE  /\ WhereAfterDelete(w, bots, D, kind, home) \in Places
           /\ \A k \in Clients : k # Bot =>
                 WhereAfterDelete(w, bots, D, kind, home)[k] \in {w[k], home}
           /\ \A k \in Clients \ bots :
                 WhereAfterDelete(w, bots, D, kind, home)[k] =
                     IF w[k] \notin D THEN w[k] ELSE home
BY Numbers DEF WhereAfterDelete, Places

-----------------------------------------------------------------------------
(* The inductive invariant.                                                *)

ViewTables ==
    /\ IsTable(channels) /\ where \in Places /\ away \subseteq Clients
    /\ bots \subseteq {Bot} /\ owed \subseteq Removable
    /\ queue \in Seq(Notifications)
    /\ excused \in [Addrs -> SUBSET Objects]

\* Nobody shares an id, and the ids above the counter are unused.
SessionsOK ==
    /\ sess \in [Addrs -> Session] /\ nextId \in 1..(MaxClid + 1)
    /\ \A a \in Addrs : sess[a].id < nextId /\ (sess[a].on => sess[a].id # 0)
    /\ \A a, b \in Addrs : sess[a].id = sess[b].id /\ a # b => sess[a].id = 0

Job == [stage : Stages \ {"idle"}, addr : Addrs, o : Objects, v : Values,
        home : 0..MaxChannelId, temp : BOOLEAN]

\* A command that is not finished is one of a client whose session goes on.
TaskOK ==
    task # Idle =>
        /\ task \in Job
        /\ Listening(task.addr)
        /\ task.o[1] = IF task.stage = "moved" THEN "client" ELSE "channel"
        /\ task.stage = "vacate" => task.home # 0

\* e says that client k was thrown out by somebody.
Thrown(e, k) == e.t = "left" /\ e.o = Client(k) /\ e.by # 0

Online(a) ==
    Listening(a) /\ where[sess[a].id] = 0 =>
        \/ Client(sess[a].id) \in excused[a]
        \/ \E e \in ToSet(queue) : Thrown(e, sess[a].id)

\* A client that is here for the first time is waiting to enter, or has entered
\* and was thrown out if somebody else is said to have done so.
Novice(a) ==
    sess[a].id # 0 /\ ~ sess[a].again =>
        /\ ~ sess[a].named => where[sess[a].id] = 0
        /\ \A e \in ToSet(queue) : Thrown(e, sess[a].id) /\ e.by # sess[a].id
                                   => sess[a].named /\ where[sess[a].id] = 0

Unused ==
    \A k \in Clients : nextId <= k /\ k # Bot =>
        where[k] = 0 /\ \A e \in ToSet(queue) : ~ Thrown(e, k)

Presences == (\A a \in Addrs : Online(a) /\ Novice(a)) /\ Unused

ViewInv == ViewTables /\ SessionsOK /\ TaskOK /\ Presences

-----------------------------------------------------------------------------
(* What the steps are made of.                                             *)

LEMMA CommitFacts ==
    ASSUME ViewTables, NEW ch, IsTable(ch), NEW w \in Places, NEW aw \in SUBSET Clients,
           NEW es \in Seq(Notifications), NEW late, NEW base \in [Addrs -> SUBSET Objects],
           Commit(ch, w, aw, es, late, base)
    PROVE  /\ channels' = ch /\ where' = w /\ away' = aw /\ bots' \subseteq {Bot}
           /\ queue' = queue \o es /\ queue' \in Seq(Notifications)
           /\ ToSet(queue') = ToSet(queue) \union ToSet(es)
           /\ excused' \in [Addrs -> SUBSET Objects]
           /\ \A a \in Addrs : base[a] \subseteq excused'[a]
<1> DEFINE Now(o) == Value(ch, w, aw, o)
           changed == {o \in Objects : Now(o) # Value(channels, where, away, o)}
           x(a) == base[a] \union Torn(a, changed) \union Silent(changed, es, late) \union Denied(Now, es)
<1>1. /\ channels' = ch /\ where' = w /\ away' = aw /\ bots' = {b \in bots : w[b] # 0}
      /\ queue' = queue \o es
      /\ excused' = [a \in Addrs |-> x(a)]
  BY DEF Commit
<1>2. \A a \in Addrs : x(a) \subseteq Objects
  <2>1. changed \subseteq Objects /\ Denied(Now, es) \subseteq Objects
    BY DEF Denied
  <2> HIDE DEF changed
  <2>2. \A a : Torn(a, changed) \subseteq changed /\ Silent(changed, es, late) \subseteq changed
    BY DEF Torn, Silent
  <2> QED
    BY <2>1, <2>2
<1>3. \A a \in Addrs : base[a] \subseteq x(a)
  OBVIOUS
<1> HIDE DEF x
<1>4. queue \o es \in Seq(Notifications) /\ ToSet(queue \o es) = ToSet(queue) \union ToSet(es)
  BY Joined DEF ViewTables
<1>5. bots' \subseteq {Bot}
  BY <1>1 DEF ViewTables
<1>6. excused' \in [Addrs -> SUBSET Objects]
  BY <1>1, <1>2
<1>7. \A a \in Addrs : base[a] \subseteq excused'[a]
  BY <1>1, <1>3
<1> QED
  BY <1>1, <1>4, <1>5, <1>6, <1>7

\* Only music bots are in what is cleaned up.
LEMMA CleanupThrowsNobody ==
    ASSUME NEW objs \in SUBSET Removable, NEW by \in 0..Invoker
    PROVE  \A e \in ToSet(CleanupEvents(objs, by)), k \in Clients \ {Bot} : ~ Thrown(e, k)
<1> SUFFICES ASSUME NEW e \in ToSet(CleanupEvents(objs, by)), NEW k \in Clients \ {Bot}, Thrown(e, k)
             PROVE  FALSE
  OBVIOUS
<1>1. PICK o \in objs : e = Event(IF o[1] = "channel" THEN "deleted" ELSE "left", o, 0, by)
  BY CleanupList
<1>2. e.o = o /\ e.t = IF o[1] = "channel" THEN "deleted" ELSE "left"
  BY <1>1, EventFields
<1>3. o = Client(k) /\ o[1] # "channel"
  BY <1>2 DEF Thrown
<1>4. o = Client(Bot)
  BY <1>3 DEF Removable
<1> QED
  BY <1>3, <1>4 DEF Client

\* The notifications `all' are sent, es among them, and the others throw nobody out.
Sent(es, all) ==
    /\ all \in Seq(Notifications) /\ queue' = queue \o all
    /\ ToSet(es) \subseteq ToSet(all)
    /\ \A e \in ToSet(all), k \in Clients \ {Bot} : Thrown(e, k) => e \in ToSet(es)

\* The end of a command.
LEMMA RequestFacts ==
    ASSUME ViewTables, NEW by \in 0..Invoker, NEW ch, IsTable(ch), NEW w \in Places,
           NEW aw \in SUBSET Clients, NEW es \in Seq(Notifications), NEW left,
           NEW base \in [Addrs -> SUBSET Objects],
           FinishRequest(by, ch, w, aw, es, left, base)
    PROVE  /\ ViewTables'
           /\ \A k \in Clients \ {Bot} : where'[k] = w[k]
           /\ \A a \in Addrs : base[a] \subseteq excused'[a]
           /\ Sent(es, CommandEvents(by, ch, w, es, left))
<1> DEFINE done == ChannelsAfterCleanup(ch, w, bots, left)
           put  == WhereAfterCleanup(ch, w, bots, left)
           gone == CleanedUp(ch, w, left)
           all  == CommandEvents(by, ch, w, es, left)
<1>1. /\ IsTable(done) /\ put \in Places /\ gone \subseteq Removable
      /\ \A k \in Clients : put[k] = w[k] \/ k = Bot
  <2>1. bots \subseteq {Bot}
    BY DEF ViewTables
  <2>2. IsTable(done)
    BY <2>1, CleanupChannels
  <2>3. put \in Places /\ \A k \in Clients : put[k] = w[k] \/ k = Bot
    BY <2>1, CleanupClients
  <2>4. gone \subseteq Removable
    BY <2>1, CleanupGone
  <2> QED
    BY <2>2, <2>3, <2>4
<1>2. Commit(done, put, aw, all, {}, base) /\ owed' = {}
  BY DEF FinishRequest
<1> HIDE DEF done, put, gone
<1>3. /\ CleanupEvents(owed, by) \in Seq(Notifications)
      /\ \A e \in ToSet(CleanupEvents(owed, by)), k \in Clients \ {Bot} : ~ Thrown(e, k)
  <2>1. PICK x : x = owed
    OBVIOUS
  <2>2. x \in SUBSET Removable
    BY <2>1 DEF ViewTables
  <2> QED
    BY <2>1, <2>2, CleanupList, CleanupThrowsNobody
<1>4. /\ CleanupEvents(gone, by) \in Seq(Notifications)
      /\ \A e \in ToSet(CleanupEvents(gone, by)), k \in Clients \ {Bot} : ~ Thrown(e, k)
  <2>1. PICK x : x = gone
    OBVIOUS
  <2>2. x \in SUBSET Removable
    BY <1>1, <2>1
  <2> QED
    BY <2>1, <2>2, CleanupList, CleanupThrowsNobody
<1>5. PICK u, v, x : u = CleanupEvents(owed, by) /\ v = CleanupEvents(gone, by) /\ x = es \o u
  OBVIOUS
<1>6. all = x \o v
  BY <1>5 DEF CommandEvents, gone
<1> HIDE DEF all
<1>7. x \in Seq(Notifications) /\ ToSet(x) = ToSet(es) \union ToSet(u)
  BY <1>3, <1>5, Joined
<1>8. all \in Seq(Notifications) /\ ToSet(all) = ToSet(es) \union ToSet(u) \union ToSet(v)
  <2>1. v \in Seq(Notifications)
    BY <1>4, <1>5
  <2>2. x \o v \in Seq(Notifications) /\ ToSet(x \o v) = ToSet(x) \union ToSet(v)
    BY <1>7, <2>1, Joined
  <2> QED
    BY <1>6, <1>7, <2>2
<1>9. \A e \in ToSet(all), k \in Clients \ {Bot} : Thrown(e, k) => e \in ToSet(es)
  BY <1>3, <1>4, <1>5, <1>8
<1>10. PICK d, p, a : d = done /\ p = put /\ a = all
  OBVIOUS
<1>11. /\ channels' = done /\ where' = put /\ away' = aw /\ bots' \subseteq {Bot}
       /\ queue' = queue \o all /\ queue' \in Seq(Notifications)
       /\ excused' \in [Addrs -> SUBSET Objects]
       /\ \A b \in Addrs : base[b] \subseteq excused'[b]
  <2>1. Commit(d, p, aw, a, {}, base)
    BY <1>2, <1>10
  <2>2. IsTable(d) /\ p \in Places /\ a \in Seq(Notifications)
    BY <1>1, <1>8, <1>10
  <2> QED
    BY <1>10, <2>1, <2>2, CommitFacts
<1>12. ViewTables'
  <2>1. IsTable(channels)' /\ where' \in Places /\ owed' = {}
    BY <1>1, <1>2, <1>11
  <2> QED
    BY <1>11, <2>1 DEF ViewTables
<1>13. ToSet(es) \subseteq ToSet(all)
  BY <1>8
<1>14. Sent(es, all)
  BY <1>8, <1>9, <1>11, <1>13 DEF Sent
<1> QED
  BY <1>1, <1>11, <1>12, <1>14 DEF all

-----------------------------------------------------------------------------
(* Who is online.                                                          *)

\* A step that opens no session: who is thrown out is told so or excused, and
\* only those that are announced as thrown out had been online.
LEMMA PresencesKept ==
    ASSUME ViewTables, SessionsOK, Presences, ViewTables', SessionsOK',
           nextId' = nextId,
           \A a \in Addrs : \/ sess'[a].id = 0
                            \/ /\ sess'[a].id = sess[a].id /\ sess'[a].named = sess[a].named
                               /\ sess'[a].on => sess[a].on
                               /\ sess[a].again => sess'[a].again,
           NEW es \in Seq(Notifications), queue' = queue \o es,
           \A k \in Clients \ {Bot} : where[k] = 0 /\ where'[k] # 0 =>
               \E a \in Addrs : sess'[a].id = k /\ sess'[a].again,
           \A a \in Addrs : Listening(a)' /\ where[sess[a].id] # 0 /\ where'[sess[a].id] = 0 =>
               \/ Client(sess[a].id) \in excused'[a]
               \/ \E e \in ToSet(es) : Thrown(e, sess[a].id),
           \A a \in Addrs : Listening(a)' => excused[a] \subseteq excused'[a],
           \A e \in ToSet(es), k \in Clients \ {Bot} : Thrown(e, k) =>
               where[k] # 0 /\ (where'[k] = 0 \/ e.by = k)
    PROVE  Presences'
<1>1. ToSet(queue') = ToSet(queue) \union ToSet(es)
  BY Joined DEF ViewTables
<1>2. \A a \in Addrs : sess'[a].id # 0 =>
         /\ sess'[a].id \in Clients \ {Bot} /\ sess'[a].id = sess[a].id
         /\ sess'[a].named = sess[a].named /\ (sess'[a].on => sess[a].on)
         /\ (sess[a].again => sess'[a].again)
  BY Numbers DEF SessionsOK, Session
<1>3. ASSUME NEW a \in Addrs PROVE Online(a)'
  <2> SUFFICES ASSUME Listening(a)', where'[sess'[a].id] = 0
               PROVE  \/ Client(sess'[a].id) \in excused'[a]
                      \/ \E e \in ToSet(queue') : Thrown(e, sess'[a].id)
    BY DEF Online, Thrown, Client
  <2>1. sess'[a].id # 0
    BY DEF SessionsOK, Listening
  <2>2. sess'[a].id = sess[a].id /\ Listening(a)
    BY <1>2, <2>1 DEF Listening
  <2>3. CASE where[sess[a].id] = 0
    <3>1. \/ Client(sess[a].id) \in excused[a]
          \/ \E e \in ToSet(queue) : Thrown(e, sess[a].id)
      BY <2>2, <2>3 DEF Presences, Online
    <3> QED
      BY <1>1, <2>2, <3>1
  <2>4. CASE where[sess[a].id] # 0
    BY <1>1, <2>2, <2>4
  <2> QED
    BY <2>3, <2>4
<1>4. ASSUME NEW a \in Addrs PROVE Novice(a)'
  <2> DEFINE k == sess[a].id
  <2> SUFFICES ASSUME sess'[a].id # 0, ~ sess'[a].again
               PROVE  /\ ~ sess'[a].named => where'[sess'[a].id] = 0
                      /\ \A e \in ToSet(queue') : Thrown(e, sess'[a].id) /\ e.by # sess'[a].id
                                   => sess'[a].named /\ where'[sess'[a].id] = 0
    BY DEF Novice, Thrown, Client
  <2>1. /\ k \in Clients \ {Bot} /\ sess'[a].id = k /\ k # 0
        /\ sess'[a].named = sess[a].named /\ ~ sess[a].again
    BY <1>2
  <2>2. where[k] = 0 => where'[k] = 0
    <3> SUFFICES ASSUME where[k] = 0, where'[k] # 0 PROVE FALSE
      OBVIOUS
    <3>1. PICK b \in Addrs : sess'[b].id = k /\ sess'[b].again
      BY <2>1
    <3>2. b = a
      BY <2>1, <3>1 DEF SessionsOK
    <3> QED
      BY <3>1, <3>2
  <2>3. /\ ~ sess[a].named => where[k] = 0
        /\ \A e \in ToSet(queue) : Thrown(e, k) /\ e.by # k => sess[a].named /\ where[k] = 0
    BY <2>1 DEF Presences, Novice
  <2>4. ASSUME NEW e \in ToSet(es), Thrown(e, k), e.by # k
        PROVE  sess[a].named /\ where'[k] = 0
    BY <2>1, <2>3, <2>4
  <2> QED
    BY <1>1, <2>1, <2>2, <2>3, <2>4
<1>5. Unused'
  <2> SUFFICES ASSUME NEW k \in Clients, nextId' <= k, k # Bot
               PROVE  where'[k] = 0 /\ \A e \in ToSet(queue') : ~ Thrown(e, k)
    BY DEF Unused, Thrown, Client
  <2>1. where[k] = 0 /\ \A e \in ToSet(queue) : ~ Thrown(e, k)
    BY DEF Presences, Unused
  <2>2. \A a \in Addrs : sess'[a].id # k
    BY Numbers DEF SessionsOK, Session
  <2>3. where'[k] = 0
    BY <2>1, <2>2
  <2> QED
    BY <1>1, <2>1, <2>3
<1> QED
  BY <1>3, <1>4, <1>5 DEF Presences

\* A step that leaves the sessions alone.
LEMMA PresencesAmongOthers ==
    ASSUME ViewInv, ViewTables', UNCHANGED <<sess, nextId>>,
           NEW es \in Seq(Notifications), queue' = queue \o es,
           \A k \in Clients \ {Bot} : where[k] = 0 => where'[k] = 0,
           \A k \in Clients \ {Bot} : where[k] # 0 /\ where'[k] = 0 =>
               \/ \E e \in ToSet(es) : Thrown(e, k)
               \/ \A a \in Addrs : sess[a].id = k => Client(k) \in excused'[a],
           \A a \in Addrs : excused[a] \subseteq excused'[a],
           \A e \in ToSet(es), k \in Clients \ {Bot} :
               Thrown(e, k) => where[k] # 0 /\ where'[k] = 0
    PROVE  SessionsOK' /\ Presences'
<1>1. SessionsOK'
  BY DEF ViewInv, SessionsOK
<1>2. \A a \in Addrs : sess[a].id = 0 \/ sess[a].id \in Clients \ {Bot}
  BY Numbers DEF ViewInv, SessionsOK, Session
<1>3. \A a \in Addrs : sess'[a] = sess[a]
  OBVIOUS
<1>4. ASSUME NEW a \in Addrs, Listening(a)', where[sess[a].id] # 0, where'[sess[a].id] = 0
      PROVE  \/ Client(sess[a].id) \in excused'[a]
             \/ \E e \in ToSet(es) : Thrown(e, sess[a].id)
  <2>1. sess[a].id # 0
    BY <1>3, <1>4 DEF ViewInv, SessionsOK, Listening
  <2> QED
    BY <1>2, <1>4, <2>1
<1>5. ViewTables /\ SessionsOK /\ Presences
  BY DEF ViewInv
<1>6. Presences'
  <2>1. \A a \in Addrs : \/ sess'[a].id = 0
                         \/ /\ sess'[a].id = sess[a].id /\ sess'[a].named = sess[a].named
                            /\ sess'[a].on => sess[a].on
                            /\ sess[a].again => sess'[a].again
    BY <1>3
  <2> QED
    BY <1>1, <1>4, <1>5, <2>1, PresencesKept
<1> QED
  BY <1>1, <1>6

LEMMA SameTask ==
    ASSUME ViewInv, UNCHANGED <<sess, task>>
    PROVE  TaskOK'
<1>1. TaskOK
  BY DEF ViewInv
<1> QED
  BY <1>1 DEF TaskOK, Listening

LEMMA ValueType ==
    ASSUME NEW ch, NEW w \in Places, NEW aw, NEW o \in Objects
    PROVE  Value(ch, w, aw, o) \in Values
<1>1. CASE o[1] = "channel"
  BY <1>1, Numbers DEF Value, Values
<1>2. CASE o[1] = "client"
  <2>1. w[o[2]] \in 0..MaxChannelId
    BY <1>2, ObjectShape DEF Places
  <2> QED
    BY <1>2, <2>1 DEF Value, Values
<1>3. CASE o[1] = "away"
  BY <1>3, Numbers DEF Value, Values
<1> QED
  BY <1>1, <1>2, <1>3, ObjectShape

\* Notifications that throw nobody out.
Plain(es) == es \in Seq(Notifications) /\ \A e \in ToSet(es), k \in Clients \ {Bot} : ~ Thrown(e, k)

LEMMA OnePlain ==
    ASSUME NEW t \in Types \ {"left"}, NEW o \in Objects, NEW v \in Values, NEW by \in 0..Invoker,
           o[1] = About(t)
    PROVE  Plain(<<Event(t, o, v, by)>>)
<1>1. PICK e : e = Event(t, o, v, by)
  OBVIOUS
<1>2. e \in Notifications /\ e.t = t
  BY <1>1, EventIsNotification, EventFields
<1>3. <<e>> \in Seq(Notifications) /\ ToSet(<<e>>) = {e}
  BY <1>2, Single
<1>4. Plain(<<e>>)
  BY <1>2, <1>3 DEF Thrown, Plain
<1> QED
  BY <1>1, <1>4

\* Once the clients are where w says, nobody is online who was not, and exactly
\* those that es say were thrown out have gone.
Announced(w, es) ==
    \A k \in Clients \ {Bot} :
        /\ where[k] = 0 => w[k] = 0
        /\ where[k] # 0 /\ w[k] = 0 => \E e \in ToSet(es) : Thrown(e, k)
        /\ \A e \in ToSet(es) : Thrown(e, k) => where[k] # 0 /\ w[k] = 0

\* A command of a query that moves or removes clients: only those it throws out
\* are not online afterwards.
LEMMA QueryStep ==
    ASSUME ViewInv, NEW ch, IsTable(ch), NEW w \in Places, NEW aw \in SUBSET Clients,
           NEW es \in Seq(Notifications), NEW left,
           FinishRequest(Invoker, ch, w, aw, es, left, excused),
           UNCHANGED <<sess, nextId, task>>, Announced(w, es)
    PROVE  ViewInv'
<1>1. ViewTables /\ excused \in [Addrs -> SUBSET Objects] /\ Invoker \in 0..Invoker
  BY Numbers DEF ViewInv, ViewTables
<1>2. PICK base, by : base = excused /\ by = Invoker
  OBVIOUS
<1>3. /\ FinishRequest(by, ch, w, aw, es, left, base) /\ by \in 0..Invoker
      /\ base \in [Addrs -> SUBSET Objects]
  BY <1>1, <1>2
<1>4. /\ ViewTables' /\ (\A k \in Clients \ {Bot} : where'[k] = w[k])
      /\ \A a \in Addrs : base[a] \subseteq excused'[a]
      /\ Sent(es, CommandEvents(by, ch, w, es, left))
  BY <1>1, <1>3, RequestFacts
<1>6. PICK all : all = CommandEvents(by, ch, w, es, left)
  OBVIOUS
<1>7. /\ all \in Seq(Notifications) /\ queue' = queue \o all
      /\ ToSet(es) \subseteq ToSet(all)
      /\ \A e \in ToSet(all), k \in Clients \ {Bot} : Thrown(e, k) => e \in ToSet(es)
  BY <1>4, <1>6 DEF Sent
<1>5. SessionsOK' /\ Presences'
  <2>1. /\ \A k \in Clients \ {Bot} : where[k] = 0 => where'[k] = 0
        /\ \A k \in Clients \ {Bot} : where[k] # 0 /\ where'[k] = 0 =>
               \E e \in ToSet(all) : Thrown(e, k)
        /\ \A e \in ToSet(all), k \in Clients \ {Bot} :
               Thrown(e, k) => where[k] # 0 /\ where'[k] = 0
    BY <1>4, <1>7 DEF Announced
  <2>2. \A a \in Addrs : excused[a] \subseteq excused'[a]
    BY <1>2, <1>4
  <2> QED
    BY <1>4, <1>7, <2>1, <2>2, PresencesAmongOthers
<1> QED
  BY <1>4, <1>5, SameTask DEF ViewInv

-----------------------------------------------------------------------------
(* Every step.                                                             *)

LEMMA QueryCreateSound ==
    ASSUME ViewInv, NEW p \in ParentsUsed, NEW kind \in CreateKinds, QueryCreate(p, kind)
    PROVE  ViewInv'
<1>1. PICK c \in ChannelIds :
         /\ IsNextChannelId(channels, c)
         /\ FinishRequest(Invoker, AddChannel(channels, c, p, None, kind, FALSE), where, away,
                <<Event("created", Channel(c),
                    Value(AddChannel(channels, c, p, None, kind, FALSE), where, away, Channel(c)),
                    Invoker)>>, 0, excused)
  BY DEF QueryCreate
<1>2. PICK ch, w, aw, v, e :
         /\ ch = AddChannel(channels, c, p, None, kind, FALSE) /\ w = where /\ aw = away
         /\ v = Value(ch, w, aw, Channel(c))
         /\ e = Event("created", Channel(c), v, Invoker)
  OBVIOUS
<1>3. IsTable(ch)
  <2>1. PICK old : old = channels
    OBVIOUS
  <2>2. /\ IsTable(old) /\ p \in 0..MaxChannelId /\ kind \in {"temporary", "permanent"}
        /\ c \notin DOMAIN old
    BY <1>1, <2>1, ViewBoundsAssumption DEF ViewInv, ViewTables, IsNextChannelId, IsTable, ChannelIds
  <2> QED
    BY <1>2, <2>1, <2>2, AddRow
<1>4. w \in Places /\ aw \in SUBSET Clients
  BY <1>2 DEF ViewInv, ViewTables
<1>5. Plain(<<e>>)
  <2>1. v \in Values /\ Invoker \in 0..Invoker /\ "created" \in Types \ {"left"}
        /\ Channel(c) \in Objects /\ Channel(c)[1] = About("created")
    <3>1. PICK o : o = Channel(c) /\ o \in Objects
      BY ObjectShape
    <3>2. v \in Values
      BY <1>2, <1>4, <3>1, ValueType
    <3> QED
      BY <3>2, ObjectShape, Numbers DEF Types, About
  <2> QED
    BY <1>2, <2>1, OnePlain
<1>6. FinishRequest(Invoker, ch, w, aw, <<e>>, 0, excused)
  BY <1>1, <1>2
<1>7. UNCHANGED <<sess, nextId, task>>
  BY DEF QueryCreate
<1>8. Announced(w, <<e>>) /\ <<e>> \in Seq(Notifications)
  BY <1>2, <1>5 DEF Announced, Plain
<1> QED
  BY <1>3, <1>4, <1>6, <1>7, <1>8, QueryStep

LEMMA QueryDeleteSound ==
    ASSUME ViewInv, NEW c \in ChannelIds, QueryDelete(c)
    PROVE  ViewInv'
<1> DEFINE D0 == Subtree(channels, c)
<1>1. /\ FinishRequest(Invoker, RemoveChannels(channels, D0, channels[c].parent),
             WhereAfterDelete(where, bots, D0, channels[c].kind, DefaultChannelId(channels)),
             away, <<Event("deleted", Channel(c), 0, Invoker)>>, 0, excused)
      /\ UNCHANGED <<sess, nextId, task>>
  BY DEF QueryDelete
<1>2. PICK D, p, kind, home, ch, w, aw, e, old :
         /\ D = D0 /\ p = channels[c].parent /\ kind = channels[c].kind
         /\ home = DefaultChannelId(channels)
         /\ ch = RemoveChannels(channels, D, p)
         /\ w = WhereAfterDelete(where, bots, D, kind, home) /\ aw = away
         /\ e = Event("deleted", Channel(c), 0, Invoker)
         /\ old = where
  OBVIOUS
<1> HIDE DEF D0
<1>3. IsTable(ch)
  <2>1. PICK t : t = channels /\ IsTable(t)
    BY DEF ViewInv, ViewTables
  <2> QED
    BY <1>2, <2>1, RemoveRows
<1>4. home \in ChannelIds /\ old \in Places /\ bots \subseteq {Bot} /\ aw \in SUBSET Clients
  <2>1. PICK t : t = channels /\ IsTable(t)
    BY DEF ViewInv, ViewTables
  <2> QED
    BY <1>2, <2>1, HomeIsId DEF ViewInv, ViewTables, IsTable
<1>5. w \in Places /\ \A k \in Clients \ {Bot} : w[k] \in {where[k], home}
      /\ (where[k] = 0 => w[k] = 0)
  <2>1. w = WhereAfterDelete(old, bots, D, kind, home)
    BY <1>2
  <2>2. /\ w \in Places
        /\ \A k \in Clients : k # Bot => w[k] \in {old[k], home}
        /\ \A k \in Clients \ bots : w[k] = IF old[k] \notin D THEN old[k] ELSE home
    BY <1>4, <2>1, DeleteFacts
  <2>3. 0 \notin D
    BY <1>2, Numbers DEF D0, Subtree, ViewInv, ViewTables, IsTable
  <2> QED
    BY <1>2, <1>4, <2>2, <2>3
<1>6. home # 0
  BY <1>4, Numbers
<1>7. Plain(<<e>>)
  <2>1. 0 \in Values /\ Invoker \in 0..Invoker /\ "deleted" \in Types \ {"left"}
        /\ Channel(c) \in Objects /\ Channel(c)[1] = About("deleted")
    BY ObjectShape, Numbers DEF Types, About, Values
  <2> QED
    BY <1>2, <2>1, OnePlain
<1>8. FinishRequest(Invoker, ch, w, aw, <<e>>, 0, excused)
  BY <1>1, <1>2
<1>9. Announced(w, <<e>>) /\ <<e>> \in Seq(Notifications)
  BY <1>5, <1>6, <1>7 DEF Announced, Plain
<1> QED
  BY <1>1, <1>3, <1>4, <1>5, <1>8, <1>9, QueryStep

LEMMA QueryEditSound ==
    ASSUME ViewInv, NEW c \in ChannelIds, NEW kind \in EditKinds, QueryEdit(c, kind)
    PROVE  ViewInv'
<1>1. PICK ch, w, aw, v, e :
         /\ ch = [channels EXCEPT ![c].kind = kind] /\ w = where /\ aw = away
         /\ v = Value(ch, w, aw, Channel(c))
         /\ e = Event("edited", Channel(c), v, Invoker)
  OBVIOUS
<1>2. /\ FinishRequest(Invoker, ch, w, aw, <<e>>, 0, excused)
      /\ UNCHANGED <<sess, nextId, task>> /\ c \in DOMAIN channels
  BY <1>1 DEF QueryEdit
<1>3. IsTable(ch)
  <2>1. IsTable(channels) /\ kind \in {"temporary", "permanent"}
    BY ViewBoundsAssumption DEF ViewInv, ViewTables
  <2> QED
    BY <1>1, <1>2, <2>1 DEF IsTable, Row
<1>4. w \in Places /\ aw \in SUBSET Clients
  BY <1>1 DEF ViewInv, ViewTables
<1>5. Plain(<<e>>)
  <2>1. v \in Values /\ Invoker \in 0..Invoker /\ "edited" \in Types \ {"left"}
        /\ Channel(c) \in Objects /\ Channel(c)[1] = About("edited")
    BY <1>1, <1>4, ObjectShape, ValueType, Numbers DEF Types, About
  <2> QED
    BY <1>1, <2>1, OnePlain
<1>6. Announced(w, <<e>>) /\ <<e>> \in Seq(Notifications)
  BY <1>1, <1>5 DEF Announced, Plain
<1> QED
  BY <1>2, <1>3, <1>4, <1>6, QueryStep

LEMMA QueryMoveSound ==
    ASSUME ViewInv, NEW k \in Clients, NEW c \in ChannelIds, QueryMove(k, c)
    PROVE  ViewInv'
<1>1. PICK ch, w, aw, e, left :
         /\ ch = channels /\ w = [where EXCEPT ![k] = c] /\ aw = away
         /\ e = Event("moved", Client(k), c, Invoker) /\ left = where[k]
  OBVIOUS
<1>2. /\ FinishRequest(Invoker, ch, w, aw, <<e>>, left, excused)
      /\ UNCHANGED <<sess, nextId, task>> /\ where[k] # 0
  BY <1>1 DEF QueryMove
<1>3. IsTable(ch) /\ aw \in SUBSET Clients /\ where \in Places
  BY <1>1 DEF ViewInv, ViewTables
<1>4. w \in Places /\ \A j \in Clients : w[j] = IF j = k THEN c ELSE where[j]
  BY <1>1, <1>3, Numbers DEF Places
<1>5. Plain(<<e>>)
  <2>1. c \in Values /\ Invoker \in 0..Invoker /\ "moved" \in Types \ {"left"}
        /\ Client(k) \in Objects /\ Client(k)[1] = About("moved")
    BY ObjectShape, Numbers DEF Types, About, Values
  <2> QED
    BY <1>1, <2>1, OnePlain
<1>6. c # 0
  BY Numbers
<1>7. Announced(w, <<e>>) /\ <<e>> \in Seq(Notifications)
  BY <1>2, <1>4, <1>5, <1>6 DEF Announced, Plain
<1> QED
  BY <1>2, <1>3, <1>4, <1>7, QueryStep

LEMMA CleanupPlain ==
    ASSUME NEW objs \in SUBSET Removable, NEW by \in 0..Invoker
    PROVE  Plain(CleanupEvents(objs, by))
BY CleanupList, CleanupThrowsNobody DEF Plain

\* Of the notifications es, only one throws a client out: by throws k out.
Throws(es, by, k) ==
    /\ es \in Seq(Notifications)
    /\ Event("left", Client(k), 0, by) \in ToSet(es)
    /\ \A e \in ToSet(es), j \in Clients \ {Bot} : Thrown(e, j) => j = k /\ e.by = by

\* Nothing is said of throwing out before or after it.
LEMMA ThrowsAfter ==
    ASSUME NEW s, NEW t, NEW by, NEW k, Plain(s), Throws(t, by, k)
    PROVE  Throws(s \o t, by, k)
<1>1. PICK u : u = s \o t
  OBVIOUS
<1>2. u \in Seq(Notifications) /\ ToSet(u) = ToSet(s) \union ToSet(t)
  BY <1>1, Joined DEF Plain, Throws
<1>3. Throws(u, by, k)
  BY <1>2 DEF Throws, Plain
<1> QED
  BY <1>1, <1>3

LEMMA ThrowsBefore ==
    ASSUME NEW s, NEW t, NEW by, NEW k, Throws(s, by, k), Plain(t)
    PROVE  Throws(s \o t, by, k)
<1>1. PICK u : u = s \o t
  OBVIOUS
<1>2. u \in Seq(Notifications) /\ ToSet(u) = ToSet(s) \union ToSet(t)
  BY <1>1, Joined DEF Plain, Throws
<1>3. Throws(u, by, k)
  BY <1>2 DEF Throws, Plain
<1> QED
  BY <1>1, <1>3

\* What clientkick does.
LEMMA KickFacts ==
    ASSUME ViewTables, NEW k \in Clients, NEW by \in 0..Invoker
    PROVE  /\ IsTable(KickChannels(k)) /\ KickWhere(k) \in Places
           /\ \A j \in Clients \ {Bot} : KickWhere(k)[j] = IF j = k THEN 0 ELSE where[j]
           /\ Plain(CleanupEvents(KickCleanup(k), 0))
           /\ Throws(KickEvents(by, k), by, k)
<1>1. PICK w, left, ch : w = [where EXCEPT ![k] = 0] /\ left = where[k] /\ ch = channels
  OBVIOUS
<1>2. /\ w \in Places /\ \A j \in Clients : w[j] = IF j = k THEN 0 ELSE where[j]
      /\ IsTable(ch) /\ bots \subseteq {Bot} /\ 0 \in 0..Invoker
  BY <1>1, Numbers DEF ViewTables, Places
<1>3. /\ KickChannels(k) = ChannelsAfterCleanup(ch, w, bots, left)
      /\ KickWhere(k) = WhereAfterCleanup(ch, w, bots, left)
      /\ KickCleanup(k) = CleanedUp(ch, w, left)
  BY <1>1 DEF KickChannels, KickWhere, KickCleanup
<1>4. IsTable(KickChannels(k))
  <2>1. IsTable(ChannelsAfterCleanup(ch, w, bots, left))
    BY <1>2, CleanupChannels
  <2> QED
    BY <1>3, <2>1
<1>5. /\ KickWhere(k) \in Places
      /\ \A j \in Clients : KickWhere(k)[j] = w[j] \/ (j = Bot /\ KickWhere(k)[j] = 0)
  BY <1>2, <1>3, CleanupClients
<1>6. PICK gone : gone = KickCleanup(k) /\ gone \subseteq Removable
  <2>1. CleanedUp(ch, w, left) \subseteq Removable
    BY <1>2, CleanupGone
  <2> QED
    BY <1>3, <2>1
<1>7. Plain(CleanupEvents(gone, 0)) /\ Plain(CleanupEvents(gone, by))
  BY <1>2, <1>6, CleanupPlain
<1>8. PICK e : e = Event("left", Client(k), 0, by)
  OBVIOUS
<1>9. e \in Notifications /\ e.t = "left" /\ e.o = Client(k) /\ e.by = by
  <2>1. /\ "left" \in Types /\ 0 \in Values /\ Client(k) \in Objects
        /\ Client(k)[1] = About("left")
    BY Numbers, ObjectShape DEF Types, Values, About
  <2> QED
    BY <1>8, <2>1, EventIsNotification, EventFields
<1>10. Throws(<<e>>, by, k)
  <2>1. <<e>> \in Seq(Notifications) /\ ToSet(<<e>>) = {e}
    BY <1>9, Single
  <2>2. ASSUME NEW j \in Clients \ {Bot}, Thrown(e, j) PROVE j = k /\ e.by = by
    BY <1>9, <2>2 DEF Thrown, Client
  <2> QED
    BY <1>8, <2>1, <2>2 DEF Throws
<1>11. Throws(KickEvents(by, k), by, k)
  <2>1. KickEvents(by, k) = <<e>> \o CleanupEvents(gone, by)
    BY <1>6, <1>8 DEF KickEvents
  <2>2. PICK t : t = CleanupEvents(gone, by)
    OBVIOUS
  <2>3. Throws(<<e>> \o t, by, k)
    BY <1>7, <1>10, <2>2, ThrowsBefore
  <2> QED
    BY <2>1, <2>2, <2>3
<1>12. \A j \in Clients \ {Bot} : KickWhere(k)[j] = IF j = k THEN 0 ELSE where[j]
  BY <1>2, <1>5
<1> QED
  BY <1>4, <1>5, <1>6, <1>7, <1>11, <1>12

LEMMA QueryKickSound ==
    ASSUME ViewInv, NEW k \in Clients, QueryKick(k)
    PROVE  ViewInv'
<1>1. PICK ch, w, aw, s, t, es :
         /\ ch = KickChannels(k) /\ w = KickWhere(k) /\ aw = away \ {k}
         /\ s = CleanupEvents(KickCleanup(k), 0) /\ t = KickEvents(Invoker, k)
         /\ es = s \o t
  OBVIOUS
<1>2. /\ FinishRequest(Invoker, ch, w, aw, es, 0, excused)
      /\ UNCHANGED <<sess, nextId, task>> /\ where[k] # 0
  BY <1>1 DEF QueryKick
<1>3. ViewTables /\ Invoker \in 0..Invoker /\ aw \in SUBSET Clients
  BY <1>1, Numbers DEF ViewInv, ViewTables
<1>4. /\ IsTable(ch) /\ w \in Places
      /\ \A j \in Clients \ {Bot} : w[j] = IF j = k THEN 0 ELSE where[j]
      /\ Plain(s) /\ Throws(t, Invoker, k)
  BY <1>1, <1>3, KickFacts
<1>5. Throws(es, Invoker, k)
  BY <1>1, <1>4, ThrowsAfter
<1>6. Thrown(Event("left", Client(k), 0, Invoker), k)
  BY Numbers, EventFields DEF Thrown
<1>7. Announced(w, es) /\ es \in Seq(Notifications)
  BY <1>2, <1>4, <1>5, <1>6 DEF Announced, Throws
<1> QED
  BY <1>2, <1>3, <1>4, <1>7, QueryStep

LEMMA PlainJoin == ASSUME NEW s, NEW t, Plain(s), Plain(t) PROVE Plain(s \o t)
<1>1. PICK u : u = s \o t
  OBVIOUS
<1>2. u \in Seq(Notifications) /\ ToSet(u) = ToSet(s) \union ToSet(t)
  BY <1>1, Joined DEF Plain
<1>3. Plain(u)
  BY <1>2 DEF Plain
<1> QED
  BY <1>1, <1>3

\* What remove_session_client does.
LEMMA RemovalFacts ==
    ASSUME ViewTables, NEW k \in Clients, NEW base \in [Addrs -> SUBSET Objects],
           RemoveUdpClient(k, base)
    PROVE  /\ ViewTables'
           /\ \A j \in Clients \ {Bot} : where'[j] = IF j = k THEN 0 ELSE where[j]
           /\ \A a \in Addrs : base[a] \subseteq excused'[a]
           /\ \E es : Plain(es) /\ queue' = queue \o es
<1>1. PICK w, left, ch, aw : /\ w = [where EXCEPT ![k] = 0] /\ left = where[k]
                             /\ ch = channels /\ aw = away \ {k}
  OBVIOUS
<1>2. /\ w \in Places /\ \A j \in Clients : w[j] = IF j = k THEN 0 ELSE where[j]
      /\ IsTable(ch) /\ bots \subseteq {Bot} /\ aw \in SUBSET Clients /\ 0 \in 0..Invoker
  BY <1>1, Numbers DEF ViewTables, Places
<1>3. PICK done, put, gone, first, last :
         /\ done = ChannelsAfterCleanup(ch, w, bots, left)
         /\ put = WhereAfterCleanup(ch, w, bots, left)
         /\ gone = CleanedUp(ch, w, left)
         /\ first = (IF left = 0 THEN <<>> ELSE <<Event("left", Client(k), 0, 0)>>)
         /\ last = CleanupEvents(gone, 0)
  OBVIOUS
<1>4. Commit(done, put, aw, first \o last, {}, base) /\ owed' = owed \union gone
  BY <1>1, <1>3 DEF RemoveUdpClient
<1>5. IsTable(done)
  <2>1. IsTable(ChannelsAfterCleanup(ch, w, bots, left))
    BY <1>2, CleanupChannels
  <2> QED
    BY <1>3, <2>1
<1>6. /\ put \in Places
      /\ \A j \in Clients \ {Bot} : put[j] = w[j]
  BY <1>2, <1>3, CleanupClients
<1>7. gone \subseteq Removable
  <2>1. CleanedUp(ch, w, left) \subseteq Removable
    BY <1>2, CleanupGone
  <2> QED
    BY <1>3, <2>1
<1>8. Plain(last)
  BY <1>2, <1>3, <1>7, CleanupPlain
<1>9. Plain(first)
  <2>1. CASE left = 0
    BY <1>3, <2>1, Empty DEF Plain
  <2>2. CASE left # 0
    <3>1. PICK e : e = Event("left", Client(k), 0, 0)
      OBVIOUS
    <3>2. e \in Notifications /\ e.by = 0
      <4>1. /\ "left" \in Types /\ 0 \in Values /\ Client(k) \in Objects
            /\ Client(k)[1] = About("left")
        BY Numbers, ObjectShape DEF Types, Values, About
      <4> QED
        BY <1>2, <3>1, <4>1, EventIsNotification, EventFields
    <3>3. <<e>> \in Seq(Notifications) /\ ToSet(<<e>>) = {e}
      BY <3>2, Single
    <3> QED
      BY <1>3, <2>2, <3>1, <3>2, <3>3 DEF Plain, Thrown
  <2> QED
    BY <2>1, <2>2
<1>10. PICK es : es = first \o last
  OBVIOUS
<1>11. Plain(es) /\ es \in Seq(Notifications)
  BY <1>8, <1>9, <1>10, PlainJoin DEF Plain
<1>12. Commit(done, put, aw, es, {}, base)
  BY <1>4, <1>10
<1>13. /\ channels' = done /\ where' = put /\ away' = aw /\ bots' \subseteq {Bot}
       /\ queue' = queue \o es /\ queue' \in Seq(Notifications)
       /\ excused' \in [Addrs -> SUBSET Objects]
       /\ \A a \in Addrs : base[a] \subseteq excused'[a]
  BY <1>2, <1>5, <1>6, <1>11, <1>12, CommitFacts
<1>14. ViewTables'
  <2>1. IsTable(channels)' /\ where' \in Places
    BY <1>5, <1>6, <1>13
  <2>2. owed' \subseteq Removable
    BY <1>4, <1>7 DEF ViewTables
  <2> QED
    BY <1>2, <1>13, <2>1, <2>2 DEF ViewTables
<1>15. \A j \in Clients \ {Bot} : where'[j] = IF j = k THEN 0 ELSE where[j]
  BY <1>2, <1>6, <1>13
<1> QED
  BY <1>11, <1>13, <1>14, <1>15

LEMMA ZombieSound ==
    ASSUME ViewInv, NEW k \in Clients, Zombie(k)
    PROVE  ViewInv'
<1>1. PICK base : base = [a \in Addrs |->
           IF sess[a].id = k THEN excused[a] \union {Client(k), Away(k)} ELSE excused[a]]
  OBVIOUS
<1>2. RemoveUdpClient(k, base) /\ UNCHANGED <<sess, nextId, task>> /\ where[k] # 0
  BY <1>1 DEF Zombie
<1>3. /\ base \in [Addrs -> SUBSET Objects]
      /\ \A a \in Addrs : excused[a] \subseteq base[a]
      /\ \A a \in Addrs : sess[a].id = k => Client(k) \in base[a]
  <2>1. excused \in [Addrs -> SUBSET Objects] /\ {Client(k), Away(k)} \subseteq Objects
    BY ObjectShape DEF ViewInv, ViewTables
  <2> QED
    BY <1>1, <2>1
<1>4. ViewTables
  BY DEF ViewInv
<1>5. /\ ViewTables'
      /\ \A j \in Clients \ {Bot} : where'[j] = IF j = k THEN 0 ELSE where[j]
      /\ \A a \in Addrs : base[a] \subseteq excused'[a]
  BY <1>2, <1>3, <1>4, RemovalFacts
<1>6. PICK es : Plain(es) /\ queue' = queue \o es
  BY <1>2, <1>3, <1>4, RemovalFacts
<1>7. SessionsOK' /\ Presences'
  <2>1. /\ es \in Seq(Notifications)
        /\ \A j \in Clients \ {Bot} : where[j] = 0 => where'[j] = 0
        /\ \A j \in Clients \ {Bot} : where[j] # 0 /\ where'[j] = 0 =>
               \A a \in Addrs : sess[a].id = j => Client(j) \in excused'[a]
        /\ \A a \in Addrs : excused[a] \subseteq excused'[a]
        /\ \A e \in ToSet(es), j \in Clients \ {Bot} : ~ Thrown(e, j)
    BY <1>3, <1>5, <1>6 DEF Plain
  <2> QED
    BY <1>2, <1>5, <1>6, <2>1, PresencesAmongOthers
<1> QED
  BY <1>2, <1>5, <1>7, SameTask DEF ViewInv

\* No command is under way.
LEMMA NoTask == ASSUME task' = Idle PROVE TaskOK'
BY DEF TaskOK, Idle, Client

\* A step of the handshake that opens no session.
LEMMA SessionStep ==
    ASSUME ViewInv, UNCHANGED <<channels, where, away, bots, owed, queue, nextId, task>>, task = Idle,
           NEW a \in Addrs, NEW s \in Session, sess' = [sess EXCEPT ![a] = s],
           excused' \in [Addrs -> SUBSET Objects],
           \A b \in Addrs \ {a} : excused'[b] = excused[b],
           \/ s.id = 0 /\ ~ s.on
           \/ /\ s.id = sess[a].id /\ s.named = sess[a].named /\ s.again = sess[a].again
              /\ s.on => sess[a].on
              /\ excused'[a] = excused[a]
    PROVE  ViewInv'
<1>1. ViewTables /\ SessionsOK /\ Presences
  BY DEF ViewInv
<1>2. ViewTables'
  BY <1>1 DEF ViewTables
<1>3. \A b \in Addrs : sess'[b] = IF b = a THEN s ELSE sess[b]
  BY <1>1 DEF SessionsOK
<1>4. SessionsOK'
  <2>1. sess' \in [Addrs -> Session]
    BY <1>1 DEF SessionsOK
  <2>2. \A b \in Addrs : sess'[b].id < nextId /\ (sess'[b].on => sess'[b].id # 0)
    BY <1>1, <1>3 DEF SessionsOK
  <2>3. \A b, c \in Addrs : sess'[b].id = sess'[c].id /\ b # c => sess'[b].id = 0
    BY <1>1, <1>3 DEF SessionsOK
  <2> QED
    BY <1>1, <2>1, <2>2, <2>3 DEF SessionsOK
<1>5. PICK es : es = <<>>
  OBVIOUS
<1>6. es \in Seq(Notifications) /\ ToSet(es) = {}
  BY <1>5, Empty
<1>7. queue' = queue \o es
  BY <1>1, <1>5 DEF ViewTables
<1>8. /\ \A b \in Addrs : \/ sess'[b].id = 0
                          \/ /\ sess'[b].id = sess[b].id /\ sess'[b].named = sess[b].named
                             /\ sess'[b].on => sess[b].on
                             /\ sess[b].again => sess'[b].again
      /\ \A b \in Addrs : Listening(b)' => excused[b] \subseteq excused'[b]
  BY <1>3 DEF Listening
<1>9. Presences'
  BY <1>1, <1>2, <1>4, <1>6, <1>7, <1>8, PresencesKept
<1> QED
  BY <1>2, <1>4, <1>9, NoTask DEF ViewInv

LEMMA GetCookieSound ==
    ASSUME ViewInv, NEW a \in Addrs, GetCookie(a)
    PROVE  ViewInv'
<1>1. sess[a] \in Session /\ excused \in [Addrs -> SUBSET Objects]
  BY DEF ViewInv, ViewTables, SessionsOK
<1>2. PICK s : s = [sess[a] EXCEPT !.on = FALSE]
  OBVIOUS
<1>3. /\ s \in Session /\ s.id = sess[a].id /\ s.named = sess[a].named
      /\ s.again = sess[a].again /\ ~ s.on
  BY <1>1, <1>2 DEF Session
<1>4. /\ UNCHANGED <<channels, where, away, bots, owed, queue, nextId, task>> /\ task = Idle
      /\ sess' = [sess EXCEPT ![a] = s] /\ excused' = excused
  BY <1>2 DEF GetCookie
<1>5. \A b \in Addrs : excused'[b] = excused[b]
  BY <1>4
<1>6. excused' \in [Addrs -> SUBSET Objects]
  BY <1>1, <1>4
<1> QED
  BY <1>3, <1>4, <1>5, <1>6, SessionStep

LEMMA RecognizeSound ==
    ASSUME ViewInv, NEW a \in Addrs, NEW kind \in KindsAt[a], Recognize(a, kind)
    PROVE  ViewInv'
<1>1. /\ sess[a] \in Session /\ excused \in [Addrs -> SUBSET Objects]
      /\ kind \in {"ts3", "ts6", "teaspeak"}
  BY ViewBoundsAssumption DEF ViewInv, ViewTables, SessionsOK
<1>2. PICK s : s = [sess[a] EXCEPT !.kind = kind]
  OBVIOUS
<1>3. /\ s \in Session /\ s.id = sess[a].id /\ s.named = sess[a].named
      /\ s.again = sess[a].again /\ s.on = sess[a].on
  BY <1>1, <1>2 DEF Session
<1>4. /\ UNCHANGED <<channels, where, away, bots, owed, queue, nextId, task>> /\ task = Idle
      /\ sess' = [sess EXCEPT ![a] = s] /\ excused' = excused
  BY <1>2 DEF Recognize
<1>5. \A b \in Addrs : excused'[b] = excused[b]
  BY <1>4
<1>6. excused' \in [Addrs -> SUBSET Objects]
  BY <1>1, <1>4
<1> QED
  BY <1>3, <1>4, <1>5, <1>6, SessionStep

LEMMA NoSessionFacts == NoSession \in Session /\ NoSession.id = 0 /\ ~ NoSession.on
BY Numbers DEF NoSession, Session

LEMMA DeadPacketSound ==
    ASSUME ViewInv, NEW a \in Addrs, DeadPacket(a)
    PROVE  ViewInv'
<1>1. excused \in [Addrs -> SUBSET Objects]
  BY DEF ViewInv, ViewTables
<1>2. PICK s : s = NoSession
  OBVIOUS
<1>3. s \in Session /\ s.id = 0 /\ ~ s.on
  BY <1>2, NoSessionFacts
<1>4. /\ UNCHANGED <<channels, where, away, bots, owed, queue, nextId, task>> /\ task = Idle
      /\ sess' = [sess EXCEPT ![a] = s] /\ excused' = [excused EXCEPT ![a] = {}]
  BY <1>2 DEF DeadPacket
<1>5. /\ excused' \in [Addrs -> SUBSET Objects]
      /\ \A b \in Addrs \ {a} : excused'[b] = excused[b]
  BY <1>1, <1>4
<1> QED
  BY <1>3, <1>4, <1>5, SessionStep

\* A new session has the id of the one it replaces, or an unused one.
LEMMA NewSessionSound ==
    ASSUME ViewInv, NEW a \in Addrs, NEW kind, NewSession(a, kind)
    PROVE  ViewInv'
<1> DEFINE k == AssignedClid(a)
<1>1. ViewTables /\ SessionsOK /\ Presences
  BY DEF ViewInv
<1>2. /\ UNCHANGED <<channels, where, away, bots, owed, queue, task>> /\ task = Idle
      /\ kind \in {"ts3", "ts6", "teaspeak"} /\ k <= MaxClid
      /\ sess' = [sess EXCEPT ![a] = [id |-> k, on |-> TRUE, named |-> FALSE, kind |-> kind,
                                      again |-> sess[a].id # 0]]
      /\ nextId' = IF sess[a].id = 0 THEN nextId + 1 ELSE nextId
      /\ excused' = [excused EXCEPT ![a] = {}]
  BY ViewBoundsAssumption DEF NewSession
<1>3. /\ nextId \in Nat /\ nextId <= MaxClid + 1 /\ 1 <= nextId /\ MaxClid \in Nat
      /\ \A b \in Addrs : sess[b].id \in Nat /\ sess[b].id < nextId
  BY <1>1, Numbers DEF SessionsOK, Session
<1>4. k = IF sess[a].id = 0 THEN nextId ELSE sess[a].id
  BY DEF AssignedClid
<1>5. k \in 0..MaxClid /\ k # 0 /\ k < nextId' /\ nextId' \in 1..(MaxClid + 1) /\ nextId <= nextId'
      /\ k \in Clients \ {Bot}
  BY <1>2, <1>3, <1>4, Numbers
<1> HIDE DEF k
<1>6. \A b \in Addrs : sess'[b] = IF b = a THEN [id |-> k, on |-> TRUE, named |-> FALSE, kind |-> kind,
                                                 again |-> sess[a].id # 0]
                                  ELSE sess[b]
  BY <1>1, <1>2 DEF SessionsOK
<1>7. /\ sess'[a].id = k /\ ~ sess'[a].named /\ sess'[a].again = (sess[a].id # 0)
      /\ \A b \in Addrs \ {a} : sess'[b] = sess[b] /\ sess[b].id # k
  <2>1. \A b \in Addrs \ {a} : sess[b].id # k
    BY <1>1, <1>3, <1>4, <1>5 DEF SessionsOK
  <2> QED
    BY <1>6, <2>1
<1>8. SessionsOK'
  <2>1. sess' \in [Addrs -> Session]
    <3>1. \A b \in Addrs : sess[b] \in Session
      BY <1>1 DEF SessionsOK
    <3>2. \A b \in Addrs : sess'[b] \in Session
      BY <1>2, <1>5, <1>6, <3>1 DEF Session
    <3>3. sess' = [b \in Addrs |-> sess'[b]]
      BY <1>1, <1>2 DEF SessionsOK
    <3> QED
      BY <3>2, <3>3
  <2>2. \A b \in Addrs : sess'[b].id < nextId' /\ (sess'[b].on => sess'[b].id # 0)
    <3>1. ASSUME NEW b \in Addrs PROVE sess'[b].id < nextId' /\ (sess'[b].on => sess'[b].id # 0)
      <4>1. CASE b = a
        BY <1>5, <1>7, <4>1
      <4>2. CASE b # a
        BY <1>1, <1>3, <1>5, <1>7, <4>2 DEF SessionsOK
      <4> QED
        BY <4>1, <4>2
    <3> QED
      BY <3>1
  <2>3. \A b, c \in Addrs : sess'[b].id = sess'[c].id /\ b # c => sess'[b].id = 0
    <3>1. ASSUME NEW b \in Addrs, NEW c \in Addrs, sess'[b].id = sess'[c].id, b # c
          PROVE  sess'[b].id = 0
      <4>1. b # a /\ c # a
        BY <1>7, <3>1
      <4> QED
        BY <1>1, <1>7, <3>1, <4>1 DEF SessionsOK
    <3> QED
      BY <3>1
  <2> QED
    BY <1>5, <2>1, <2>2, <2>3 DEF SessionsOK
<1>9. ViewTables'
  BY <1>1, <1>2 DEF ViewTables
<1>10. ASSUME NEW b \in Addrs PROVE Online(b)' /\ Novice(b)'
  <2>1. CASE b # a
    <3>1. sess'[b] = sess[b] /\ excused'[b] = excused[b] /\ where' = where /\ queue' = queue
      BY <1>1, <1>2, <1>7, <2>1 DEF ViewTables
    <3> QED
      BY <1>1, <3>1 DEF Presences, Online, Novice, Listening, Thrown, Client
  <2>2. CASE b = a
    <3>1. Online(b)'
      BY <1>7, <2>2 DEF Online, Listening
    <3>2. Novice(b)'
      <4> SUFFICES ASSUME ~ sess'[a].again
                   PROVE  where[k] = 0 /\ \A e \in ToSet(queue) : ~ Thrown(e, k)
        BY <1>2, <1>7, <2>2 DEF Novice, Thrown, Client
      <4>1. k = nextId
        BY <1>4, <1>7
      <4> QED
        BY <1>1, <1>3, <1>5, <4>1 DEF Presences, Unused
    <3> QED
      BY <3>1, <3>2
  <2> QED
    BY <2>1, <2>2
<1>11. Unused'
  <2>1. \A j \in Clients : nextId' <= j => nextId <= j
    BY <1>3, <1>5, Numbers
  <2> QED
    BY <1>1, <1>2, <2>1 DEF Presences, Unused, Thrown, Client
<1> QED
  BY <1>2, <1>8, <1>9, <1>10, <1>11, NoTask DEF ViewInv, Presences

\* clientinit: the client is online afterwards, and was not the first time.
LEMMA ClientInitSound ==
    ASSUME ViewInv, NEW a \in Addrs, NEW kind, ClientInit(a, kind)
    PROVE  ViewInv'
<1>1. ViewTables /\ SessionsOK /\ Presences
  BY DEF ViewInv
<1>2. PICK id, ch, home, w, aw, e, base :
         /\ id = sess[a].id /\ ch = channels /\ home = DefaultChannelId(channels)
         /\ w = [where EXCEPT ![id] = home] /\ aw = away \ {id}
         /\ e = Event("enter", Client(id), home, id)
         /\ base = [excused EXCEPT ![a] = Outdated(id, Snapshot(w, aw), queue \o <<e>>)]
  OBVIOUS
<1>3. /\ task = Idle /\ sess[a].on
      /\ sess' = [sess EXCEPT ![a].named = TRUE, ![a].again = @ \/ sess[a].named]
      /\ Commit(ch, w, aw, <<e>>, {}, base)
      /\ UNCHANGED <<owed, nextId, task>>
  BY <1>2 DEF ClientInit
<1>4. id \in Clients \ {Bot} /\ id # 0 /\ id \in 0..Invoker /\ id < nextId
  BY <1>1, <1>2, <1>3, Numbers DEF SessionsOK, Session
<1>5. home \in ChannelIds /\ home # 0 /\ home \in 0..MaxChannelId
  <2>1. IsTable(ch)
    BY <1>1, <1>2 DEF ViewTables
  <2>2. home \in ChannelIds
    BY <1>2, <2>1, HomeIsId DEF IsTable
  <2> QED
    BY <2>2, Numbers
<1>6. /\ w \in Places /\ (\A k \in Clients : w[k] = IF k = id THEN home ELSE where[k])
      /\ IsTable(ch) /\ aw \in SUBSET Clients
  BY <1>1, <1>2, <1>4, <1>5 DEF ViewTables, Places
<1>7. Plain(<<e>>)
  <2>1. home \in Values /\ "enter" \in Types \ {"left"}
        /\ Client(id) \in Objects /\ Client(id)[1] = About("enter")
    BY <1>4, <1>5, ObjectShape DEF Types, About, Values
  <2> QED
    BY <1>2, <1>4, <2>1, OnePlain
<1>8. base \in [Addrs -> SUBSET Objects] /\ \A b \in Addrs \ {a} : base[b] = excused[b]
  BY <1>1, <1>2 DEF ViewTables, Outdated
<1>9. PICK es : es = <<e>> /\ es \in Seq(Notifications)
  BY <1>7 DEF Plain
<1>10. /\ channels' = ch /\ where' = w /\ away' = aw /\ bots' \subseteq {Bot}
       /\ queue' \in Seq(Notifications)
       /\ ToSet(queue') = ToSet(queue) \union ToSet(es)
       /\ excused' \in [Addrs -> SUBSET Objects]
       /\ \A b \in Addrs : base[b] \subseteq excused'[b]
  <2>1. Commit(ch, w, aw, es, {}, base)
    BY <1>3, <1>9
  <2> QED
    BY <1>1, <1>6, <1>8, <1>9, <2>1, CommitFacts
<1>11. ViewTables'
  BY <1>1, <1>3, <1>6, <1>10 DEF ViewTables
<1>12. /\ sess'[a].id = id /\ sess'[a].on /\ sess'[a].named
       /\ sess'[a].again = (sess[a].again \/ sess[a].named)
       /\ sess'[a] \in Session
       /\ \A b \in Addrs \ {a} : sess'[b] = sess[b] /\ sess[b].id # id
  BY <1>1, <1>2, <1>3, <1>4 DEF SessionsOK, Session
<1>13. SessionsOK'
  <2>1. sess' \in [Addrs -> Session]
    BY <1>1, <1>3, <1>12 DEF SessionsOK
  <2>2. \A b \in Addrs : sess'[b].id = sess[b].id /\ (sess'[b].on => sess[b].on)
    BY <1>2, <1>3, <1>12
  <2> QED
    BY <1>1, <1>3, <2>1, <2>2 DEF SessionsOK
<1>14. \A x \in ToSet(queue'), k \in Clients \ {Bot} : Thrown(x, k) => x \in ToSet(queue)
  BY <1>7, <1>9, <1>10 DEF Plain
<1>15. ASSUME NEW b \in Addrs PROVE Online(b)' /\ Novice(b)'
  <2>1. CASE b # a
    <3>1. sess'[b] = sess[b] /\ excused[b] \subseteq excused'[b]
      BY <1>8, <1>10, <1>12, <2>1
    <3>2. CASE sess[b].id = 0
      <4>1. ~ Listening(b)'
        BY <1>1, <3>1, <3>2 DEF Listening, SessionsOK
      <4> QED
        BY <3>1, <3>2, <4>1 DEF Online, Novice
    <3>3. CASE sess[b].id # 0
      <4>1. sess[b].id \in Clients \ {Bot} /\ where'[sess[b].id] = where[sess[b].id]
        BY <1>1, <1>6, <1>10, <1>12, <2>1, <3>3, Numbers DEF SessionsOK, Session
      <4>2. Online(b)'
        BY <1>1, <1>10, <3>1, <4>1 DEF Presences, Online, Listening, Thrown, Client
      <4>3. Novice(b)'
        BY <1>1, <1>14, <3>1, <4>1 DEF Presences, Novice, Thrown, Client
      <4> QED
        BY <4>2, <4>3
    <3> QED
      BY <3>2, <3>3
  <2>2. CASE b = a
    <3>1. where'[id] # 0
      BY <1>4, <1>5, <1>6, <1>10
    <3>2. Online(b)'
      BY <1>12, <2>2, <3>1 DEF Online
    <3>3. Novice(b)'
      <4> SUFFICES ASSUME ~ sess'[a].again, NEW x \in ToSet(queue'), Thrown(x, id), x.by # id
                   PROVE  FALSE
        BY <1>12, <2>2 DEF Novice, Thrown, Client
      <4>1. x \in ToSet(queue)
        BY <1>4, <1>14
      <4> QED
        BY <1>1, <1>2, <1>4, <1>12, <4>1 DEF Presences, Novice
    <3> QED
      BY <3>2, <3>3
  <2> QED
    BY <2>1, <2>2
<1>16. Unused'
  <2> SUFFICES ASSUME NEW k \in Clients, nextId <= k, k # Bot
               PROVE  where'[k] = 0 /\ \A x \in ToSet(queue') : ~ Thrown(x, k)
    BY <1>3 DEF Unused, Thrown, Client
  <2>1. k # id
    BY <1>1, <1>4, Numbers DEF SessionsOK
  <2> QED
    BY <1>1, <1>6, <1>10, <1>14, <2>1 DEF Presences, Unused
<1> QED
  BY <1>3, <1>11, <1>13, <1>15, <1>16, NoTask DEF ViewInv, Presences

-----------------------------------------------------------------------------
(* Commands of a client.                                                   *)

\* Nobody comes online or goes, and nobody is said to be thrown out.
LEMMA CommitStep ==
    ASSUME ViewInv, NEW ch, IsTable(ch), NEW w \in Places, NEW aw \in SUBSET Clients,
           NEW es, Plain(es), NEW late, NEW base \in [Addrs -> SUBSET Objects],
           Commit(ch, w, aw, es, late, base),
           \A a \in Addrs : excused[a] \subseteq base[a],
           \A k \in Clients \ {Bot} : where[k] = 0 <=> w[k] = 0,
           UNCHANGED <<owed, sess, nextId>>
    PROVE  ViewTables' /\ SessionsOK' /\ Presences'
<1>1. ViewTables /\ es \in Seq(Notifications)
  BY DEF ViewInv, Plain
<1>2. /\ channels' = ch /\ where' = w /\ away' = aw /\ bots' \subseteq {Bot}
      /\ queue' = queue \o es /\ queue' \in Seq(Notifications)
      /\ excused' \in [Addrs -> SUBSET Objects]
      /\ \A a \in Addrs : base[a] \subseteq excused'[a]
  BY <1>1, CommitFacts
<1>3. ViewTables'
  <2>1. IsTable(channels)' /\ where' \in Places
    BY <1>2
  <2> QED
    BY <1>1, <1>2, <2>1 DEF ViewTables
<1>4. SessionsOK' /\ Presences'
  <2>1. \A a \in Addrs : excused[a] \subseteq excused'[a]
    BY <1>2
  <2>2. \A e \in ToSet(es), k \in Clients \ {Bot} : ~ Thrown(e, k)
    BY DEF Plain
  <2> QED
    BY <1>1, <1>2, <1>3, <2>1, <2>2, PresencesAmongOthers
<1> QED
  BY <1>3, <1>4

\* The first half of a command is done.
LEMMA TaskGoesOn ==
    ASSUME NEW stage \in Stages \ {"idle"}, NEW a \in Addrs, NEW o \in Objects, NEW v \in Values,
           NEW home \in 0..MaxChannelId, NEW temp \in BOOLEAN,
           Continue(stage, a, o, v, home, temp), Listening(a), UNCHANGED sess,
           o[1] = IF stage = "moved" THEN "client" ELSE "channel",
           stage = "vacate" => home # 0
    PROVE  TaskOK'
<1>1. task' = [stage |-> stage, addr |-> a, o |-> o, v |-> v, home |-> home, temp |-> temp]
  BY DEF Continue
<1>2. task' \in Job
  BY <1>1 DEF Job
<1> QED
  BY <1>1, <1>2 DEF TaskOK, Listening

LEMMA NothingSaid == Plain(<<>>)
BY Empty DEF Plain

LEMMA ExcusedForType ==
    ASSUME ViewTables, NEW a \in Addrs, NEW objs, NEW q, NEW base,
           base = ExcusedFor(a, Overtaken(a, q, objs)), objs \subseteq Objects
    PROVE  base \in [Addrs -> SUBSET Objects] /\ \A b \in Addrs : excused[b] \subseteq base[b]
<1>1. PICK x : x = Overtaken(a, q, objs) /\ x \subseteq Objects
  BY DEF Overtaken
<1>2. base = [excused EXCEPT ![a] = @ \union x]
  BY <1>1 DEF ExcusedFor
<1> QED
  BY <1>1, <1>2 DEF ViewTables

\* The first half of a command that changes the tables and says nothing yet.
LEMMA FirstHalf ==
    ASSUME ViewInv, NEW a \in Addrs, Listening(a),
           NEW ch, IsTable(ch), NEW w \in Places, NEW o \in Objects,
           Commit(ch, w, away, <<>>, {o}, ExcusedFor(a, Overtaken(a, queue, {o}))),
           \A k \in Clients \ {Bot} : where[k] = 0 <=> w[k] = 0,
           UNCHANGED <<owed, sess, nextId>>,
           NEW stage \in Stages \ {"idle"}, NEW v \in Values, NEW home \in 0..MaxChannelId,
           NEW temp \in BOOLEAN, Continue(stage, a, o, v, home, temp),
           o[1] = IF stage = "moved" THEN "client" ELSE "channel",
           stage = "vacate" => home # 0
    PROVE  ViewInv'
<1>1. PICK aw, es, late, base :
         /\ aw = away /\ es = <<>> /\ late = {o}
         /\ base = ExcusedFor(a, Overtaken(a, queue, {o}))
  OBVIOUS
<1>2. ViewTables /\ aw \in SUBSET Clients /\ Plain(es)
  BY <1>1, NothingSaid DEF ViewInv, ViewTables
<1>3. base \in [Addrs -> SUBSET Objects] /\ \A b \in Addrs : excused[b] \subseteq base[b]
  <2>1. {o} \subseteq Objects
    OBVIOUS
  <2> QED
    BY <1>1, <1>2, <2>1, ExcusedForType
<1>4. Commit(ch, w, aw, es, late, base)
  BY <1>1
<1>5. ViewTables' /\ SessionsOK' /\ Presences'
  BY <1>2, <1>3, <1>4, CommitStep
<1>6. TaskOK'
  BY TaskGoesOn
<1> QED
  BY <1>5, <1>6 DEF ViewInv

LEMMA UdpClientMoveSound ==
    ASSUME ViewInv, NEW a \in Addrs, NEW kind, NEW k \in Clients, NEW c \in ChannelIds,
           UdpClientMove(a, kind, k, c)
    PROVE  ViewInv'
<1>1. PICK ch, w, o, v, home :
         /\ ch = channels /\ w = (IF where[k] # 0 THEN [where EXCEPT ![k] = c] ELSE where)
         /\ o = Client(k) /\ v = c /\ home = 0
  OBVIOUS
<1>2. /\ Commit(ch, w, away, <<>>, {o}, ExcusedFor(a, Overtaken(a, queue, {o})))
      /\ Continue("moved", a, o, v, home, FALSE)
      /\ UNCHANGED <<owed, sess, nextId>> /\ Listening(a)
  BY <1>1 DEF UdpClientMove, Command, Listening
<1>3. /\ c \in 0..MaxChannelId /\ c # 0 /\ v \in Values /\ home \in 0..MaxChannelId
      /\ o \in Objects /\ o[1] = "client"
  BY <1>1, Numbers, ObjectShape DEF Values
<1>4. /\ IsTable(ch) /\ w \in Places
      /\ \A j \in Clients \ {Bot} : where[j] = 0 <=> w[j] = 0
  BY <1>1, <1>3 DEF ViewInv, ViewTables, Places
<1>5. PICK stage, temp : stage = "moved" /\ temp = FALSE
  OBVIOUS
<1>6. /\ stage \in Stages \ {"idle"} /\ temp \in BOOLEAN /\ Continue(stage, a, o, v, home, temp)
      /\ o[1] = (IF stage = "moved" THEN "client" ELSE "channel") /\ stage # "vacate"
  BY <1>2, <1>3, <1>5 DEF Stages
<1> QED
  BY <1>2, <1>3, <1>4, <1>6, FirstHalf

\* What the commands about channels have in common: nobody moves.
LEMMA ChannelHalf ==
    ASSUME ViewInv, NEW a \in Addrs, Listening(a), NEW ch, IsTable(ch), NEW c \in ChannelIds,
           Commit(ch, where, away, <<>>, {Channel(c)},
                  ExcusedFor(a, Overtaken(a, queue, {Channel(c)}))),
           UNCHANGED <<owed, sess, nextId>>,
           NEW stage \in {"created", "edited", "vacate"}, NEW v \in Values,
           NEW home \in 0..MaxChannelId,
           NEW temp \in BOOLEAN, Continue(stage, a, Channel(c), v, home, temp),
           stage = "vacate" => home # 0
    PROVE  ViewInv'
<1>1. PICK w, o : w = where /\ o = Channel(c)
  OBVIOUS
<1>2. /\ w \in Places /\ (\A k \in Clients \ {Bot} : where[k] = 0 <=> w[k] = 0)
      /\ o \in Objects /\ o[1] = "channel"
  BY <1>1, ObjectShape DEF ViewInv, ViewTables
<1>3. /\ Commit(ch, w, away, <<>>, {o}, ExcusedFor(a, Overtaken(a, queue, {o})))
      /\ Continue(stage, a, o, v, home, temp) /\ stage \in Stages \ {"idle"}
      /\ o[1] = (IF stage = "moved" THEN "client" ELSE "channel")
  BY <1>1, <1>2 DEF Stages
<1> QED
  BY <1>2, <1>3, FirstHalf

LEMMA UdpChannelCreateSound ==
    ASSUME ViewInv, NEW a \in Addrs, NEW kind, NEW p \in ParentsUsed, NEW ck \in CreateKinds,
           NEW flag \in BOOLEAN, UdpChannelCreate(a, kind, p, ck, flag)
    PROVE  ViewInv'
<1> DEFINE Grown(c) == [d \in DOMAIN channels \union {c} |->
                           IF d = c THEN [parent |-> p, order |-> 0, kind |-> ck, dflt |-> flag]
                           ELSE [channels[d] EXCEPT !.dflt = @ /\ ~ flag]]
<1>1. PICK c \in ChannelIds :
         /\ Commit(Grown(c), where, away, <<>>, {Channel(c)},
                ExcusedFor(a, Overtaken(a, queue, {Channel(c)})))
         /\ Continue("created", a, Channel(c), Value(Grown(c), where, away, Channel(c)), 0, FALSE)
  BY DEF UdpChannelCreate
<1>2. /\ UNCHANGED <<owed, sess, nextId>> /\ Listening(a)
      /\ p \in 0..MaxChannelId /\ ck \in {"temporary", "permanent"} /\ 0 \in 0..MaxChannelId
  BY ViewBoundsAssumption, Numbers DEF UdpChannelCreate, Command, Listening
<1>3. IsTable(Grown(c))
  <2>1. IsTable(channels)
    BY DEF ViewInv, ViewTables
  <2>2. \A d \in DOMAIN channels \union {c} : Grown(c)[d] \in Row
    <3> SUFFICES ASSUME NEW d \in DOMAIN channels \union {c} PROVE Grown(c)[d] \in Row
      OBVIOUS
    <3>1. CASE d = c
      BY <1>2, <3>1 DEF Row
    <3>2. CASE d # c
      <4>1. channels[d] \in Row
        BY <2>1, <3>2 DEF IsTable
      <4>2. [channels[d] EXCEPT !.dflt = @ /\ ~ flag] \in Row
        BY <4>1 DEF Row
      <4> QED
        BY <3>2, <4>2
    <3> QED
      BY <3>1, <3>2
  <2>3. DOMAIN Grown(c) = DOMAIN channels \union {c} /\ Grown(c) = [d \in DOMAIN channels \union {c} |-> Grown(c)[d]]
    OBVIOUS
  <2> HIDE DEF Grown
  <2>4. Grown(c) \in [DOMAIN channels \union {c} -> Row]
    BY <2>2, <2>3
  <2> QED
    BY <2>1, <2>3, <2>4 DEF IsTable
<1> HIDE DEF Grown
<1>4. PICK ch, v, stage, home, temp :
         /\ ch = Grown(c) /\ v = Value(ch, where, away, Channel(c)) /\ stage = "created"
         /\ home = 0 /\ temp = FALSE
  OBVIOUS
<1>5. v \in Values
  <2>1. PICK w, aw, o : w = where /\ aw = away /\ o = Channel(c)
    OBVIOUS
  <2>2. w \in Places /\ o \in Objects
    BY <2>1, ObjectShape DEF ViewInv, ViewTables
  <2> QED
    BY <1>4, <2>1, <2>2, ValueType
<1>6. /\ IsTable(ch) /\ stage \in {"created", "edited", "vacate"} /\ stage # "vacate"
      /\ home \in 0..MaxChannelId /\ temp \in BOOLEAN
      /\ Commit(ch, where, away, <<>>, {Channel(c)},
                ExcusedFor(a, Overtaken(a, queue, {Channel(c)})))
      /\ Continue(stage, a, Channel(c), v, home, temp)
  BY <1>1, <1>2, <1>3, <1>4
<1> QED
  BY <1>2, <1>5, <1>6, ChannelHalf

LEMMA UdpChannelEditSound ==
    ASSUME ViewInv, NEW a \in Addrs, NEW kind, NEW c \in ChannelIds, NEW ck \in EditKinds,
           NEW flag \in BOOLEAN, UdpChannelEdit(a, kind, c, ck, flag)
    PROVE  ViewInv'
<1> DEFINE F == [d \in DOMAIN channels |->
                   IF flag THEN [channels[d] EXCEPT !.dflt = d = c] ELSE channels[d]]
           T == IF c \in DOMAIN channels THEN [F EXCEPT ![c].kind = ck] ELSE F
<1>1. PICK flagged, ch, v :
         /\ flagged = F
         /\ ch = (IF c \in DOMAIN channels THEN [flagged EXCEPT ![c].kind = ck] ELSE flagged)
         /\ v = Value(ch, where, away, Channel(c))
         /\ ch = T
  OBVIOUS
<1>2. /\ Commit(ch, where, away, <<>>, {Channel(c)},
                ExcusedFor(a, Overtaken(a, queue, {Channel(c)})))
      /\ IF c \in DOMAIN channels
         THEN Continue("edited", a, Channel(c), v, 0, FALSE)
         ELSE UNCHANGED task
      /\ UNCHANGED <<owed, sess, nextId>> /\ Listening(a)
      /\ ck \in {"temporary", "permanent"} /\ 0 \in 0..MaxChannelId
  <2>1. /\ Commit(T, where, away, <<>>, {Channel(c)},
                  ExcusedFor(a, Overtaken(a, queue, {Channel(c)})))
        /\ IF c \in DOMAIN channels
           THEN Continue("edited", a, Channel(c), Value(T, where, away, Channel(c)), 0, FALSE)
           ELSE UNCHANGED task
        /\ UNCHANGED <<owed, sess, nextId>> /\ Command(a, kind)
    BY DEF UdpChannelEdit
  <2> HIDE DEF F, T
  <2>2. Commit(ch, where, away, <<>>, {Channel(c)},
               ExcusedFor(a, Overtaken(a, queue, {Channel(c)})))
    BY <1>1, <2>1
  <2>3. IF c \in DOMAIN channels
        THEN Continue("edited", a, Channel(c), v, 0, FALSE)
        ELSE UNCHANGED task
    BY <1>1, <2>1
  <2>4. Listening(a) /\ ck \in {"temporary", "permanent"} /\ 0 \in 0..MaxChannelId
    BY <2>1, ViewBoundsAssumption, Numbers DEF Command, Listening
  <2> QED
    BY <2>1, <2>2, <2>3, <2>4, Zenon
<1>3. IsTable(ch)
  <2>1. IsTable(channels)
    BY DEF ViewInv, ViewTables
  <2>2. \A d \in DOMAIN channels : flagged[d] \in Row
    <3> SUFFICES ASSUME NEW d \in DOMAIN channels PROVE flagged[d] \in Row
      OBVIOUS
    <3>1. channels[d] \in Row /\ (d = c) \in BOOLEAN
      BY <2>1 DEF IsTable
    <3>2. [channels[d] EXCEPT !.dflt = d = c] \in Row
      BY <3>1 DEF Row
    <3> QED
      BY <1>1, <3>1, <3>2
  <2>3. flagged \in [DOMAIN channels -> Row] /\ DOMAIN flagged = DOMAIN channels
    BY <1>1, <2>2
  <2>4. CASE c \in DOMAIN channels
    <3>1. [flagged[c] EXCEPT !.kind = ck] \in Row
      BY <1>2, <2>3, <2>4 DEF Row
    <3>2. ch = [flagged EXCEPT ![c] = [flagged[c] EXCEPT !.kind = ck]]
      BY <1>1, <2>4
    <3>3. ch \in [DOMAIN channels -> Row] /\ DOMAIN ch = DOMAIN channels
      BY <2>3, <3>1, <3>2
    <3> QED
      BY <2>1, <3>3 DEF IsTable
  <2>5. CASE c \notin DOMAIN channels
    BY <1>1, <2>1, <2>3, <2>5 DEF IsTable
  <2> QED
    BY <2>4, <2>5
<1>4. v \in Values
  <2>1. PICK w, aw, o : w = where /\ aw = away /\ o = Channel(c)
    OBVIOUS
  <2>2. w \in Places /\ o \in Objects
    BY <2>1, ObjectShape DEF ViewInv, ViewTables
  <2> QED
    BY <1>1, <2>1, <2>2, ValueType
<1>5. CASE c \in DOMAIN channels
  <2>1. PICK stage, home, temp : stage = "edited" /\ home = 0 /\ temp = FALSE
    OBVIOUS
  <2>2. /\ stage \in {"created", "edited", "vacate"} /\ stage # "vacate"
        /\ home \in 0..MaxChannelId /\ temp \in BOOLEAN
        /\ Continue(stage, a, Channel(c), v, home, temp)
    BY <1>2, <1>5, <2>1
  <2> QED
    BY <1>2, <1>3, <1>4, <2>2, ChannelHalf
<1>6. CASE c \notin DOMAIN channels
  <2>1. PICK w, aw, es, late, base :
           /\ w = where /\ aw = away /\ es = <<>> /\ late = {Channel(c)}
           /\ base = ExcusedFor(a, Overtaken(a, queue, late))
    OBVIOUS
  <2>2. ViewTables /\ w \in Places /\ aw \in SUBSET Clients /\ Plain(es)
        /\ late \subseteq Objects /\ \A k \in Clients \ {Bot} : where[k] = 0 <=> w[k] = 0
    BY <2>1, NothingSaid, ObjectShape DEF ViewInv, ViewTables
  <2>3. base \in [Addrs -> SUBSET Objects] /\ \A b \in Addrs : excused[b] \subseteq base[b]
    BY <2>1, <2>2, ExcusedForType
  <2>4. Commit(ch, w, aw, es, late, base)
    BY <1>2, <2>1
  <2>5. ViewTables' /\ SessionsOK' /\ Presences'
    BY <1>2, <1>3, <2>2, <2>3, <2>4, CommitStep
  <2>6. TaskOK'
    BY <1>2, <1>6, SameTask
  <2> QED
    BY <2>5, <2>6 DEF ViewInv
<1> QED
  BY <1>5, <1>6

LEMMA UdpChannelDeleteSound ==
    ASSUME ViewInv, NEW a \in Addrs, NEW kind, NEW c \in ChannelIds, UdpChannelDelete(a, kind, c)
    PROVE  ViewInv'
<1>1. PICK ch, home, v, stage, temp :
         /\ ch = [d \in DOMAIN channels \ {c} |-> channels[d]]
         /\ home = DefaultChannelId(channels) /\ v = 0 /\ stage = "vacate"
         /\ temp = (channels[c].kind = "temporary")
  OBVIOUS
<1>2. /\ Commit(ch, where, away, <<>>, {Channel(c)},
                ExcusedFor(a, Overtaken(a, queue, {Channel(c)})))
      /\ Continue(stage, a, Channel(c), v, home, temp)
      /\ UNCHANGED <<owed, sess, nextId>> /\ Listening(a)
  BY <1>1 DEF UdpChannelDelete, Command, Listening
<1>3. /\ IsTable(ch) /\ v \in Values /\ temp \in BOOLEAN
      /\ stage \in {"created", "edited", "vacate"}
  BY <1>1, Numbers DEF ViewInv, ViewTables, IsTable, Values
<1>4. home \in 0..MaxChannelId /\ home # 0
  <2>1. PICK t : t = channels /\ IsTable(t)
    BY DEF ViewInv, ViewTables
  <2>2. home \in ChannelIds
    BY <1>1, <2>1, HomeIsId DEF IsTable
  <2> QED
    BY <2>2, Numbers
<1> QED
  BY <1>2, <1>3, <1>4, ChannelHalf

\* The second half: the notification is not one of leaving.
LEMMA PublishSound ==
    ASSUME ViewInv, NEW kind, NEW stage \in Types \ {"left", "enter", "update"}, Publish(kind, stage)
    PROVE  ViewInv'
<1>1. ViewTables /\ SessionsOK /\ Presences /\ TaskOK
  BY DEF ViewInv
<1>2. PICK a, o, v, by, e : /\ a = task.addr /\ o = task.o /\ v = task.v /\ by = sess[a].id
                            /\ e = Event(stage, o, v, by)
  OBVIOUS
<1>3. /\ task.stage = stage /\ queue' = Append(queue, e) /\ task' = Idle
      /\ UNCHANGED <<channels, where, away, bots, owed, sess, nextId, excused>>
  BY <1>2 DEF Publish
<1>4. task # Idle
  BY <1>3 DEF Idle, Types
<1>5. /\ a \in Addrs /\ o \in Objects /\ v \in Values /\ by \in 0..Invoker
      /\ o[1] = IF stage = "moved" THEN "client" ELSE "channel"
  <2>1. task \in Job /\ task.o[1] = IF task.stage = "moved" THEN "client" ELSE "channel"
    BY <1>1, <1>4 DEF TaskOK
  <2>2. sess[a].id \in 0..MaxClid
    BY <1>1, <1>2, <2>1 DEF SessionsOK, Session, Job
  <2> QED
    BY <1>2, <1>3, <2>1, <2>2, Numbers DEF Job
<1>6. PICK es : es = <<e>>
  OBVIOUS
<1>7. Plain(es)
  <2>1. stage \in Types \ {"left"} /\ o[1] = About(stage)
    BY <1>5 DEF About, Types
  <2> QED
    BY <1>2, <1>5, <1>6, <2>1, OnePlain
<1>8. queue' = queue \o es /\ es \in Seq(Notifications)
  <2>1. e \in Notifications
    <3>1. stage \in Types /\ o[1] = About(stage)
      BY <1>5 DEF About, Types
    <3> QED
      BY <1>2, <1>5, <3>1, EventIsNotification
  <2> QED
    BY <1>1, <1>3, <1>6, <2>1 DEF ViewTables
<1>9. ViewTables'
  <2>1. queue' \in Seq(Notifications)
    BY <1>1, <1>8, Joined DEF ViewTables
  <2> QED
    BY <1>1, <1>3, <2>1 DEF ViewTables
<1>10. SessionsOK' /\ Presences'
  <2>1. /\ \A x \in ToSet(es), k \in Clients \ {Bot} : ~ Thrown(x, k)
        /\ \A b \in Addrs : excused[b] \subseteq excused'[b]
        /\ \A k \in Clients \ {Bot} : where'[k] = where[k]
    BY <1>3, <1>7 DEF Plain
  <2> QED
    BY <1>3, <1>8, <1>9, <2>1, PresencesAmongOthers
<1> QED
  BY <1>3, <1>9, <1>10, NoTask DEF ViewInv

\* The notifications about some clients.
LEMMA ClientEvents ==
    ASSUME NEW t \in {"left", "moved"}, NEW K \in SUBSET Clients, NEW v \in Values,
           NEW by \in 0..Invoker, t = "left" => by = 0
    PROVE  Plain(SetToSeq({Event(t, Client(k), v, by) : k \in K}))
<1>1. PICK S, s : S = {Client(k) : k \in K} /\ s = Each(t, S, v, by)
  OBVIOUS
<1>2. t \in Types /\ S \in SUBSET Objects /\ \A o \in S : o[1] = About(t)
  BY <1>1, ObjectShape DEF About, Types
<1>3. s \in Seq(Notifications) /\ \A e : e \in ToSet(s) <=> \E o \in S : e = Event(t, o, v, by)
  <2>1. /\ Each(t, S, v, by) \in Seq(Notifications)
        /\ \A e : e \in ToSet(Each(t, S, v, by)) <=> \E o \in S : e = Event(t, o, v, by)
    BY <1>2, EventList, Zenon
  <2> QED
    BY <1>1, <2>1
<1>4. {Event(t, o, v, by) : o \in S} = {Event(t, Client(k), v, by) : k \in K}
  BY <1>1
<1>5. s = SetToSeq({Event(t, Client(k), v, by) : k \in K})
  BY <1>1, <1>4 DEF Each
<1>6. \A e \in ToSet(s) : e.t = t /\ e.by = by
  BY <1>3, EventFields
<1>7. Plain(s)
  BY <1>3, <1>6 DEF Plain, Thrown
<1> QED
  BY <1>5, <1>7

\* The second part of channeldelete moves only clients that are somewhere, and
\* removes only music bots.
LEMMA VacateSound ==
    ASSUME ViewInv, NEW moved \in SUBSET InDeleted, NEW removed \in SUBSET {Bot},
           Vacate(moved, removed)
    PROVE  ViewInv'
<1>1. ViewTables /\ SessionsOK /\ Presences /\ TaskOK
  BY DEF ViewInv
<1>2. task # Idle /\ task.stage = "vacate"
  BY DEF Vacate, Idle
<1>3. PICK a, id, o, home, ch, w, aw, objs :
         /\ a = task.addr /\ id = sess[a].id /\ o = task.o /\ home = task.home
         /\ ch = channels /\ aw = away
         /\ w = [k \in Clients |-> IF k \in removed THEN 0 ELSE IF k \in moved THEN home ELSE where[k]]
         /\ objs = {Client(k) : k \in moved}
  OBVIOUS
<1>4. PICK s, t, es, base :
         /\ s = SetToSeq({Event("left", Client(k), 0, 0) : k \in removed})
         /\ t = SetToSeq({Event("moved", Client(k), home, id) : k \in moved})
         /\ es = s \o t
         /\ base = ExcusedFor(a, Overtaken(a, queue, objs))
  OBVIOUS
<1>5. /\ Commit(ch, w, aw, es, {}, base)
      /\ Continue("deleted", a, o, 0, 0, FALSE)
      /\ UNCHANGED <<owed, sess, nextId>>
  BY <1>3, <1>4 DEF Vacate
<1>6. /\ a \in Addrs /\ o \in Objects /\ o[1] = "channel" /\ Listening(a)
      /\ home \in 0..MaxChannelId /\ home # 0
  BY <1>1, <1>2, <1>3 DEF TaskOK, Job
<1>7. /\ id \in 0..Invoker /\ 0 \in 0..Invoker /\ 0 \in 0..MaxChannelId /\ 0 \in Values
      /\ home \in Values /\ moved \subseteq Clients /\ removed \subseteq Clients
      /\ \A k \in moved : where[k] # 0
  <2>1. id \in 0..MaxClid
    BY <1>1, <1>3, <1>6 DEF SessionsOK, Session
  <2> QED
    BY <1>6, <2>1, Numbers DEF Values, InDeleted
<1>8. Plain(s)
  <2>1. PICK tt, v, by : tt = "left" /\ v = 0 /\ by = 0
    OBVIOUS
  <2>2. Plain(SetToSeq({Event(tt, Client(k), v, by) : k \in removed}))
    BY <1>7, <2>1, ClientEvents
  <2> QED
    BY <1>4, <2>1, <2>2
<1>9. Plain(t)
  <2>1. PICK tt : tt = "moved"
    OBVIOUS
  <2>2. Plain(SetToSeq({Event(tt, Client(k), home, id) : k \in moved}))
    BY <1>7, <2>1, ClientEvents
  <2> QED
    BY <1>4, <2>1, <2>2
<1>10. Plain(es)
  BY <1>4, <1>8, <1>9, PlainJoin
<1>11. /\ IsTable(ch) /\ w \in Places /\ aw \in SUBSET Clients
       /\ \A k \in Clients \ {Bot} : where[k] = 0 <=> w[k] = 0
  BY <1>1, <1>3, <1>6, <1>7 DEF ViewTables, Places
<1>12. base \in [Addrs -> SUBSET Objects] /\ \A b \in Addrs : excused[b] \subseteq base[b]
  <2>1. objs \subseteq Objects
    BY <1>3, <1>7, ObjectShape
  <2> QED
    BY <1>1, <1>4, <1>6, <2>1, ExcusedForType
<1>13. PICK late : late = {} /\ Commit(ch, w, aw, es, late, base)
  BY <1>5
<1>14. ViewTables' /\ SessionsOK' /\ Presences'
  BY <1>5, <1>10, <1>11, <1>12, <1>13, CommitStep
<1>15. TaskOK'
  <2>1. PICK stage, v, h, temp : stage = "deleted" /\ v = 0 /\ h = 0 /\ temp = FALSE
    OBVIOUS
  <2>2. /\ stage \in Stages \ {"idle"} /\ v \in Values /\ h \in 0..MaxChannelId /\ temp \in BOOLEAN
        /\ Continue(stage, a, o, v, h, temp) /\ stage # "vacate"
        /\ o[1] = (IF stage = "moved" THEN "client" ELSE "channel")
    BY <1>5, <1>6, <1>7, <2>1 DEF Stages
  <2> QED
    BY <1>5, <1>6, <2>2, TaskGoesOn
<1> QED
  BY <1>14, <1>15 DEF ViewInv

LEMMA VacatesSound ==
    ASSUME ViewInv, Ts3Vacate \/ Ts6Vacate \/ TeaVacate
    PROVE  ViewInv'
<1>1. InDeleted \subseteq Clients /\ bots \subseteq {Bot}
  BY DEF InDeleted, ViewInv, ViewTables
<1>2. \E moved \in SUBSET InDeleted, removed \in SUBSET {Bot} : Vacate(moved, removed)
  <2>1. CASE Ts3Vacate
    BY <2>1 DEF Ts3Vacate
  <2>2. CASE Ts6Vacate
    BY <2>2 DEF Ts6Vacate
  <2>3. CASE TeaVacate
    <3>1. /\ InDeleted \intersect {sess[task.addr].id} \in SUBSET InDeleted
          /\ InDeleted \intersect ({sess[task.addr].id} \union bots) \in SUBSET InDeleted
          /\ InDeleted \intersect bots \in SUBSET {Bot} /\ {} \in SUBSET {Bot}
      BY <1>1
    <3> QED
      BY <2>3, <3>1 DEF TeaVacate
  <2> QED
    BY <2>1, <2>2, <2>3
<1> QED
  BY <1>2, VacateSound

LEMMA ClientUpdateSound ==
    ASSUME ViewInv, NEW a \in Addrs, NEW kind, NEW flag \in BOOLEAN, ClientUpdate(a, kind, flag)
    PROVE  ViewInv'
<1>1. PICK id, ch, w, aw, v, e, es, late, base :
         /\ id = sess[a].id /\ ch = channels /\ w = where
         /\ aw = (IF flag THEN away \union {id} ELSE away \ {id})
         /\ v = (IF flag THEN 1 ELSE 0)
         /\ e = Event("update", Away(id), v, id) /\ es = <<e>> /\ late = {} /\ base = excused
  OBVIOUS
<1>2. /\ Commit(ch, w, aw, es, late, base) /\ UNCHANGED <<owed, sess, nextId, task>>
      /\ task = Idle /\ sess[a].on
  BY <1>1 DEF ClientUpdate, Command
<1>3. id \in Clients /\ id \in 0..Invoker /\ v \in Values
  BY <1>1, <1>2, Numbers DEF ViewInv, SessionsOK, Session, Values
<1>4. Plain(es)
  <2>1. "update" \in Types \ {"left"} /\ Away(id) \in Objects /\ Away(id)[1] = About("update")
    BY <1>3, ObjectShape DEF About, Types
  <2> QED
    BY <1>1, <1>3, <2>1, OnePlain
<1>5. /\ IsTable(ch) /\ w \in Places /\ aw \in SUBSET Clients
      /\ base \in [Addrs -> SUBSET Objects]
      /\ \A b \in Addrs : excused[b] \subseteq base[b]
      /\ \A k \in Clients \ {Bot} : where[k] = 0 <=> w[k] = 0
  BY <1>1, <1>3 DEF ViewInv, ViewTables
<1>6. ViewTables' /\ SessionsOK' /\ Presences'
  BY <1>2, <1>4, <1>5, CommitStep
<1> QED
  BY <1>2, <1>6, NoTask DEF ViewInv

\* A step that changes only what a client believes.
LEMMA OtherStep ==
    ASSUME ViewInv, UNCHANGED <<channels, where, away, bots, owed, queue, sess, nextId, task, excused>>
    PROVE  ViewInv'
<1>1. ViewTables'
  BY DEF ViewInv, ViewTables
<1>2. SessionsOK'
  BY DEF ViewInv, SessionsOK
<1>3. TaskOK'
  BY SameTask
<1>4. Presences'
  <2>1. \A a \in Addrs : Online(a)' /\ Novice(a)'
    BY DEF ViewInv, Presences, Online, Novice, Listening, Thrown, Client
  <2>2. Unused'
    BY DEF ViewInv, Presences, Unused, Thrown, Client
  <2> QED
    BY <2>1, <2>2 DEF Presences
<1> QED
  BY <1>1, <1>2, <1>3, <1>4 DEF ViewInv

LEMMA ClientDisconnectSound ==
    ASSUME ViewInv, NEW a \in Addrs, NEW kind, ClientDisconnect(a, kind)
    PROVE  ViewInv'
<1>1. ViewTables /\ SessionsOK /\ Presences
  BY DEF ViewInv
<1>2. PICK k, base : k = sess[a].id /\ base = [excused EXCEPT ![a] = {}]
  OBVIOUS
<1>3. /\ RemoveUdpClient(k, base) /\ sess' = [sess EXCEPT ![a] = NoSession]
      /\ UNCHANGED <<nextId, task>> /\ task = Idle /\ sess[a].on
  BY <1>2 DEF ClientDisconnect, Command
<1>4. k \in Clients \ {Bot}
  BY <1>1, <1>2, <1>3, Numbers DEF SessionsOK, Session
<1>5. base \in [Addrs -> SUBSET Objects] /\ \A b \in Addrs \ {a} : base[b] = excused[b]
  BY <1>1, <1>2 DEF ViewTables
<1>6. /\ ViewTables'
      /\ \A j \in Clients \ {Bot} : where'[j] = IF j = k THEN 0 ELSE where[j]
      /\ \A b \in Addrs : base[b] \subseteq excused'[b]
  BY <1>1, <1>3, <1>4, <1>5, RemovalFacts
<1>7. PICK es : Plain(es) /\ queue' = queue \o es
  BY <1>1, <1>3, <1>4, <1>5, RemovalFacts
<1>8. /\ \A b \in Addrs : sess'[b] = IF b = a THEN NoSession ELSE sess[b]
      /\ sess' \in [Addrs -> Session]
  BY <1>1, <1>3, NoSessionFacts DEF SessionsOK
<1>9. SessionsOK'
  BY <1>1, <1>3, <1>8, NoSessionFacts DEF SessionsOK
<1>10. Presences'
  <2>1. \A b \in Addrs : \/ sess'[b].id = 0
                         \/ /\ sess'[b].id = sess[b].id /\ sess'[b].named = sess[b].named
                            /\ sess'[b].on => sess[b].on
                            /\ sess[b].again => sess'[b].again
    BY <1>8, NoSessionFacts
  <2>2. es \in Seq(Notifications) /\ \A e \in ToSet(es), j \in Clients \ {Bot} : ~ Thrown(e, j)
    BY <1>7 DEF Plain
  <2>3. ASSUME NEW b \in Addrs, Listening(b)'
        PROVE  b # a /\ (where[sess[b].id] # 0 => where'[sess[b].id] # 0)
    <3>1. b # a
      BY <1>8, <2>3, NoSessionFacts DEF Listening
    <3>2. sess[b].id # 0
      BY <1>1, <1>8, <2>3, <3>1 DEF Listening, SessionsOK
    <3>3. sess[b].id \in Clients \ {Bot} /\ sess[b].id # k
      BY <1>1, <1>2, <3>1, <3>2, Numbers DEF SessionsOK, Session
    <3> QED
      BY <1>6, <3>1, <3>3
  <2>4. \A b \in Addrs : Listening(b)' => excused[b] \subseteq excused'[b]
    BY <1>5, <1>6, <2>3
  <2>5. \A j \in Clients \ {Bot} : where[j] = 0 => where'[j] = 0
    BY <1>6
  <2> QED
    BY <1>1, <1>3, <1>6, <1>7, <1>9, <2>1, <2>2, <2>3, <2>4, <2>5, PresencesKept
<1> QED
  BY <1>3, <1>6, <1>9, <1>10, NoTask DEF ViewInv

\* What a command through the runtime announces: nothing of throwing out, or that
\* its client threw out k, who had been online.
Deeds(es, w, by) ==
    \/ Plain(es) /\ w = where
    \/ \E k \in Clients : /\ Throws(es, by, k) /\ where[k] # 0
                          /\ \A j \in Clients \ {Bot} : w[j] = IF j = k THEN 0 ELSE where[j]

\* What is said of a notification is said of objects.
LEMMA ToldObjects ==
    ASSUME NEW s \in Seq(Notifications), NEW S \in SUBSET ToSet(s)
    PROVE  UNION {Told(e) : e \in S} \subseteq Objects
<1> SUFFICES ASSUME NEW e \in S PROVE Told(e) \subseteq Objects
  OBVIOUS
<1>1. e \in Notifications
  BY Elements
<1>2. e.o \in Objects /\ e.o[1] = About(e.t)
  BY <1>1 DEF Notifications
<1>3. CASE e.t \in {"enter", "left"}
  <2>1. e.o[1] = "client"
    BY <1>2, <1>3 DEF About
  <2>2. Away(e.o[2]) \in Objects
    BY <1>2, <2>1, ObjectShape
  <2> QED
    BY <1>2, <1>3, <2>2 DEF Told
<1>4. CASE e.t \notin {"enter", "left"}
  BY <1>2, <1>4 DEF Told
<1> QED
  BY <1>3, <1>4

LEMMA CommandEventsType ==
    ASSUME ViewTables, NEW by \in 0..Invoker, NEW ch, IsTable(ch), NEW w \in Places,
           NEW es \in Seq(Notifications), NEW left
    PROVE  CommandEvents(by, ch, w, es, left) \in Seq(Notifications)
<1>1. PICK o, g : o = owed /\ g = CleanedUp(ch, w, left)
  OBVIOUS
<1>2. o \in SUBSET Removable /\ bots \subseteq {Bot}
  BY <1>1 DEF ViewTables
<1>3. g \in SUBSET Removable
  <2>1. CleanedUp(ch, w, left) \subseteq Removable
    BY <1>2, CleanupGone
  <2> QED
    BY <1>1, <2>1
<1>4. PICK u, v, x : u = CleanupEvents(o, by) /\ v = CleanupEvents(g, by) /\ x = es \o u
  OBVIOUS
<1>5. u \in Seq(Notifications) /\ v \in Seq(Notifications)
  BY <1>2, <1>3, <1>4, CleanupList
<1>6. x \in Seq(Notifications)
  BY <1>4, <1>5, Joined
<1>7. x \o v \in Seq(Notifications)
  BY <1>5, <1>6, Joined
<1> QED
  BY <1>1, <1>4, <1>7 DEF CommandEvents

\* A command through the runtime puts its client back.
LEMMA RuntimeSound ==
    ASSUME ViewInv, NEW a \in Addrs, NEW kind, NEW ch, IsTable(ch), NEW w \in Places,
           NEW aw \in SUBSET Clients, NEW first \in Seq(Notifications),
           NEW es \in Seq(Notifications),
           Runtime(a, kind, ch, w, aw, first, es),
           Deeds(first \o es, w, sess[a].id)
    PROVE  ViewInv'
<1>1. ViewTables /\ SessionsOK /\ Presences
  BY DEF ViewInv
<1>2. PICK id, all, answer, lost, objs, put, aw2, own, base :
         /\ id = sess[a].id
         /\ all = CommandEvents(id, ch, w, es, 0)
         /\ answer = Answered(kind, all)
         /\ objs = UNION {Told(e) : e \in answer}
         /\ lost = UNION {Told(e) : e \in Withheld(id, all, answer)}
         /\ put = Synced(a, w) /\ aw2 = aw \ {id} /\ own = first \o es
         /\ base = ExcusedFor(a, lost \union Overtaken(a, queue, objs))
  OBVIOUS
<1>3. /\ FinishRequest(id, ch, put, aw2, own, 0, base)
      /\ sess' = [sess EXCEPT ![a].again = @ \/ where[id] = 0]
      /\ UNCHANGED <<nextId, task>> /\ task = Idle /\ sess[a].on
  <2>1. /\ FinishRequest(sess[a].id, ch, Synced(a, w), aw \ {sess[a].id}, first \o es, 0, base)
        /\ sess' = [sess EXCEPT ![a].again = @ \/ where[sess[a].id] = 0]
        /\ UNCHANGED <<nextId, task>> /\ Command(a, kind)
    BY <1>2 DEF Runtime
  <2> QED
    BY <1>2, <2>1 DEF Command
<1>4. id \in Clients \ {Bot} /\ id # 0 /\ id \in 0..Invoker
  BY <1>1, <1>2, <1>3, Numbers DEF SessionsOK, Session
<1>5. base \in [Addrs -> SUBSET Objects] /\ \A b \in Addrs : excused[b] \subseteq base[b]
  <2>1. all \in Seq(Notifications)
    BY <1>1, <1>2, <1>4, CommandEventsType
  <2>2. answer \in SUBSET ToSet(all) /\ Withheld(id, all, answer) \in SUBSET ToSet(all)
    BY <1>2 DEF Answered, Withheld
  <2>3. lost \subseteq Objects
    <3>1. PICK S : S = Withheld(id, all, answer)
      OBVIOUS
    <3>2. UNION {Told(e) : e \in S} \subseteq Objects
      BY <2>1, <2>2, <3>1, ToldObjects
    <3> QED
      BY <1>2, <3>1, <3>2
  <2>4. PICK x : x = lost \union Overtaken(a, queue, objs)
    OBVIOUS
  <2>5. objs \subseteq Objects
    BY <1>2, <2>1, <2>2, ToldObjects
  <2>6. x \subseteq Objects
    BY <2>3, <2>4, <2>5 DEF Overtaken
  <2>7. base = [excused EXCEPT ![a] = @ \union x]
    BY <1>2, <2>4 DEF ExcusedFor
  <2> QED
    BY <1>1, <2>6, <2>7 DEF ViewTables
<1>6. put \in Places /\ put[id] # 0 /\ \A k \in Clients \ {id} : put[k] = w[k]
  <2>1. PICK h : h = IF where[id] # 0 THEN where[id] ELSE 1
    OBVIOUS
  <2>2. h \in 0..MaxChannelId /\ h # 0
    <3>1. where[id] \in 0..MaxChannelId /\ 1 \in 0..MaxChannelId
      BY <1>1, <1>4, Numbers DEF ViewTables, Places
    <3> QED
      BY <2>1, <3>1
  <2>3. put = [w EXCEPT ![id] = h]
    BY <1>2, <2>1 DEF Synced
  <2> QED
    BY <1>4, <2>2, <2>3 DEF Places
<1>7. own \in Seq(Notifications) /\ aw2 \in SUBSET Clients
  BY <1>2, Joined
<1>8. PICK left : left = 0
  OBVIOUS
<1>9. FinishRequest(id, ch, put, aw2, own, left, base)
  BY <1>3, <1>8
<1>10. /\ ViewTables' /\ (\A k \in Clients \ {Bot} : where'[k] = put[k])
       /\ (\A b \in Addrs : base[b] \subseteq excused'[b])
       /\ Sent(own, CommandEvents(id, ch, put, own, left))
  BY <1>1, <1>4, <1>5, <1>6, <1>7, <1>9, RequestFacts
<1>11. PICK sent : sent = CommandEvents(id, ch, put, own, left)
  OBVIOUS
<1>12. /\ sent \in Seq(Notifications) /\ queue' = queue \o sent
       /\ ToSet(own) \subseteq ToSet(sent)
       /\ \A e \in ToSet(sent), k \in Clients \ {Bot} : Thrown(e, k) => e \in ToSet(own)
  BY <1>10, <1>11 DEF Sent
<1>13. /\ \A b \in Addrs \ {a} : sess'[b] = sess[b]
       /\ sess'[a].id = id /\ sess'[a].on = sess[a].on /\ sess'[a].named = sess[a].named
       /\ sess'[a].again = (sess[a].again \/ where[id] = 0)
       /\ sess' \in [Addrs -> Session]
  <2>1. sess[a] \in Session
    BY <1>1 DEF SessionsOK
  <2>2. [sess[a] EXCEPT !.again = @ \/ where[id] = 0] \in Session
    BY <2>1 DEF Session
  <2> QED
    BY <1>1, <1>2, <1>3, <2>1, <2>2 DEF SessionsOK, Session
<1>14. SessionsOK'
  <2>1. \A b \in Addrs : sess'[b].id = sess[b].id /\ sess'[b].on = sess[b].on
    BY <1>2, <1>13
  <2> QED
    BY <1>1, <1>3, <1>13, <2>1 DEF SessionsOK
<1>15. \A k \in Clients \ {Bot} : where[k] = 0 /\ where'[k] # 0 => k = id
  BY <1>2, <1>6, <1>10 DEF Deeds
<1>16. \A k \in Clients \ {Bot} : where[k] # 0 /\ where'[k] = 0 =>
          \E e \in ToSet(sent) : Thrown(e, k)
  <2> SUFFICES ASSUME NEW k \in Clients \ {Bot}, where[k] # 0, where'[k] = 0
               PROVE  \E e \in ToSet(sent) : Thrown(e, k)
    OBVIOUS
  <2>1. k # id /\ w[k] = 0
    BY <1>6, <1>10
  <2>2. Throws(own, id, k)
    BY <1>2, <2>1 DEF Deeds
  <2>3. Event("left", Client(k), 0, id) \in ToSet(sent)
    BY <1>12, <2>2 DEF Throws
  <2> QED
    BY <1>4, <2>3, EventFields DEF Thrown
<1>17. \A e \in ToSet(sent), k \in Clients \ {Bot} : Thrown(e, k) =>
          where[k] # 0 /\ (where'[k] = 0 \/ e.by = k)
  <2> SUFFICES ASSUME NEW e \in ToSet(sent), NEW k \in Clients \ {Bot}, Thrown(e, k)
               PROVE  where[k] # 0 /\ (where'[k] = 0 \/ e.by = k)
    OBVIOUS
  <2>1. e \in ToSet(own)
    BY <1>12
  <2>2. PICK j \in Clients : /\ Throws(own, id, j) /\ where[j] # 0
                             /\ \A i \in Clients \ {Bot} : w[i] = IF i = j THEN 0 ELSE where[i]
    BY <1>2, <2>1 DEF Deeds, Plain
  <2>3. j = k /\ e.by = id
    BY <2>1, <2>2 DEF Throws
  <2> QED
    BY <1>6, <1>10, <2>2, <2>3
<1>18. Presences'
  <2>1. \A b \in Addrs : \/ sess'[b].id = 0
                         \/ /\ sess'[b].id = sess[b].id /\ sess'[b].named = sess[b].named
                            /\ sess'[b].on => sess[b].on
                            /\ sess[b].again => sess'[b].again
    BY <1>2, <1>13
  <2>2. \A k \in Clients \ {Bot} : where[k] = 0 /\ where'[k] # 0 =>
            \E b \in Addrs : sess'[b].id = k /\ sess'[b].again
    BY <1>13, <1>15
  <2>3. \A b \in Addrs : Listening(b)' /\ where[sess[b].id] # 0 /\ where'[sess[b].id] = 0 =>
            \/ Client(sess[b].id) \in excused'[b]
            \/ \E e \in ToSet(sent) : Thrown(e, sess[b].id)
    <3> SUFFICES ASSUME NEW b \in Addrs, Listening(b)', where[sess[b].id] # 0,
                        where'[sess[b].id] = 0
                 PROVE  \E e \in ToSet(sent) : Thrown(e, sess[b].id)
      OBVIOUS
    <3>1. sess[b].id \in Clients \ {Bot}
      <4>1. sess[b].on
        BY <1>13 DEF Listening
      <4> QED
        BY <1>1, <4>1, Numbers DEF SessionsOK, Session
    <3> QED
      BY <1>16, <3>1
  <2>4. \A b \in Addrs : Listening(b)' => excused[b] \subseteq excused'[b]
    BY <1>5, <1>10
  <2> QED
    BY <1>1, <1>3, <1>10, <1>12, <1>14, <1>17, <2>1, <2>2, <2>3, <2>4, PresencesKept
<1> QED
  BY <1>3, <1>10, <1>14, <1>18, NoTask DEF ViewInv

LEMMA RuntimeCommandSound ==
    ASSUME ViewInv, NEW a \in Addrs, NEW kind, RuntimeCommand(a, kind)
    PROVE  ViewInv'
<1>1. ViewTables /\ SessionsOK
  BY DEF ViewInv
<1>2. CASE Runtime(a, kind, channels, where, away, <<>>, <<>>)
  <2>1. PICK ch, w, aw, first, es : /\ ch = channels /\ w = where /\ aw = away
                                    /\ first = <<>> /\ es = <<>>
    OBVIOUS
  <2>2. /\ IsTable(ch) /\ w \in Places /\ aw \in SUBSET Clients
        /\ first \in Seq(Notifications) /\ es \in Seq(Notifications)
        /\ Runtime(a, kind, ch, w, aw, first, es) /\ first \o es = <<>>
    BY <1>1, <1>2, <2>1, Empty DEF ViewTables
  <2>3. Deeds(first \o es, w, sess[a].id)
    BY <2>1, <2>2, NothingSaid DEF Deeds
  <2> QED
    BY <2>2, <2>3, RuntimeSound
<1>3. ASSUME NEW k \in Clients, where[k] # 0,
             Runtime(a, kind, KickChannels(k), KickWhere(k), away \ {k},
                     CleanupEvents(KickCleanup(k), 0), KickEvents(sess[a].id, k))
      PROVE  ViewInv'
  <2>1. PICK ch, w, aw, first, es, by :
           /\ ch = KickChannels(k) /\ w = KickWhere(k) /\ aw = away \ {k}
           /\ first = CleanupEvents(KickCleanup(k), 0) /\ by = sess[a].id
           /\ es = KickEvents(by, k)
    OBVIOUS
  <2>2. by \in 0..Invoker
    BY <1>1, <2>1, Numbers DEF SessionsOK, Session
  <2>3. /\ IsTable(ch) /\ w \in Places
        /\ \A j \in Clients \ {Bot} : w[j] = IF j = k THEN 0 ELSE where[j]
        /\ Plain(first) /\ Throws(es, by, k)
    BY <1>1, <2>1, <2>2, KickFacts
  <2>4. Throws(first \o es, by, k)
    BY <2>3, ThrowsAfter
  <2>5. Deeds(first \o es, w, by)
    BY <1>3, <2>3, <2>4 DEF Deeds
  <2>6. /\ aw \in SUBSET Clients /\ first \in Seq(Notifications) /\ es \in Seq(Notifications)
        /\ Runtime(a, kind, ch, w, aw, first, es) /\ Deeds(first \o es, w, sess[a].id)
    BY <1>1, <1>3, <2>1, <2>3, <2>5 DEF ViewTables, Plain, Throws
  <2> QED
    BY <2>3, <2>6, RuntimeSound
<1> QED
  BY <1>2, <1>3 DEF RuntimeCommand

-----------------------------------------------------------------------------
(* A notification is delivered.                                            *)

\* A client reads everything that says it was thrown out.
LEMMA ReadsOfLeaving ==
    ASSUME NEW e, NEW k, Thrown(e, k)
    PROVE  ~ IsSelfAlreadySent(e, k) /\ e.t = "left" /\ e.o[2] = k
BY DEF Thrown, IsSelfAlreadySent, Client

\* The queue is its head and the rest.
LEMMA HeadAndTail ==
    ASSUME NEW S, NEW q \in Seq(S), q # <<>>
    PROVE  /\ Head(q) \in S /\ Tail(q) \in Seq(S)
           /\ ToSet(q) = {Head(q)} \union ToSet(Tail(q))
<1> DEFINE t == Tail(q)
<1>1. /\ Head(q) \in S /\ t \in Seq(S) /\ Len(t) = Len(q) - 1 /\ Len(q) \in Nat \ {0}
      /\ \A i \in 1..Len(t) : t[i] = q[i+1]
      /\ Head(q) = q[1]
  <2>1. Len(q) \in Nat \ {0} /\ Head(q) \in S /\ t \in Seq(S) /\ Len(t) = Len(q) - 1
    BY HeadTailProperties, EmptySeq, LenProperties
  <2> QED
    BY <2>1
<1> HIDE DEF t
<1>2. ASSUME NEW x \in ToSet(q) PROVE x = Head(q) \/ x \in ToSet(t)
  <2>1. PICK i \in 1..Len(q) : q[i] = x
    BY Elements
  <2>2. CASE i = 1
    BY <1>1, <2>1, <2>2
  <2>3. CASE i # 1
    <3>1. i - 1 \in 1..Len(t) /\ i - 1 + 1 = i
      BY <1>1, <2>1, <2>3
    <3>2. t[i - 1] = x
      BY <1>1, <2>1, <3>1
    <3> QED
      BY <1>1, <3>1, <3>2, Elements
  <2> QED
    BY <2>2, <2>3
<1>3. ASSUME NEW x \in ToSet(t) PROVE x \in ToSet(q)
  <2>1. PICK i \in 1..Len(t) : t[i] = x
    BY <1>1, Elements
  <2>2. i + 1 \in 1..Len(q) /\ q[i + 1] = x
    BY <1>1, <2>1
  <2> QED
    BY <2>2, Elements
<1>4. Head(q) \in ToSet(q)
  <2>1. 1 \in 1..Len(q) /\ q[1] = Head(q)
    BY <1>1
  <2> QED
    BY <2>1, Elements
<1> QED
  BY <1>1, <1>2, <1>3, <1>4 DEF t

LEMMA NotifySound ==
    ASSUME ViewInv, Notify
    PROVE  ViewInv'
<1>1. ViewTables /\ SessionsOK /\ Presences
  BY DEF ViewInv
<1>2. PICK e : e = Head(queue)
  OBVIOUS
<1>3. /\ queue # <<>> /\ queue' = Tail(queue) /\ task = Idle
      /\ UNCHANGED <<channels, where, away, bots, owed, nextId, task>>
      /\ sess' = [a \in Addrs |-> IF sess[a].on /\ ~ Ends(a, e) THEN sess[a] ELSE NoSession]
      /\ excused' = [a \in Addrs |-> IF sess[a].on /\ ~ Ends(a, e) THEN excused[a] ELSE {}]
  BY <1>2 DEF Notify
<1>4. /\ queue' \in Seq(Notifications)
      /\ ToSet(queue) = {e} \union ToSet(queue')
  <2>1. queue \in Seq(Notifications)
    BY <1>1 DEF ViewTables
  <2>2. PICK q : q = queue
    OBVIOUS
  <2>3. Tail(q) \in Seq(Notifications) /\ ToSet(q) = {Head(q)} \union ToSet(Tail(q))
    BY <1>3, <2>1, <2>2, HeadAndTail
  <2> QED
    BY <1>2, <1>3, <2>2, <2>3
<1>5. \A a \in Addrs : \/ sess'[a] = NoSession
                       \/ sess'[a] = sess[a] /\ ~ Ends(a, e) /\ excused'[a] = excused[a]
  BY <1>3
<1>6. ViewTables'
  <2>1. excused' \in [Addrs -> SUBSET Objects]
    BY <1>1, <1>3 DEF ViewTables
  <2> QED
    BY <1>1, <1>3, <1>4, <2>1 DEF ViewTables
<1>7. SessionsOK'
  <2>1. sess' \in [Addrs -> Session]
    BY <1>1, <1>3, NoSessionFacts DEF SessionsOK
  <2>2. \A a \in Addrs : sess'[a].id < nextId /\ (sess'[a].on => sess'[a].id # 0)
    BY <1>1, <1>5, NoSessionFacts, Numbers DEF SessionsOK
  <2>3. \A a, b \in Addrs : sess'[a].id = sess'[b].id /\ a # b => sess'[a].id = 0
    BY <1>1, <1>5, NoSessionFacts DEF SessionsOK
  <2> QED
    BY <1>1, <1>3, <2>1, <2>2, <2>3 DEF SessionsOK
<1>8. ASSUME NEW a \in Addrs PROVE Online(a)' /\ Novice(a)'
  <2>1. CASE sess'[a] = NoSession
    BY <2>1, NoSessionFacts DEF Online, Novice, Listening
  <2>2. CASE sess'[a] # NoSession
    <3>1. sess'[a] = sess[a] /\ ~ Ends(a, e) /\ excused'[a] = excused[a]
      BY <1>5, <2>2
    <3>2. Online(a)'
      <4> SUFFICES ASSUME Listening(a)', where'[sess'[a].id] = 0
                   PROVE  \/ Client(sess'[a].id) \in excused'[a]
                          \/ \E x \in ToSet(queue') : Thrown(x, sess'[a].id)
        BY DEF Online, Thrown, Client
      <4>1. Listening(a) /\ where[sess[a].id] = 0
        BY <1>3, <3>1 DEF Listening
      <4>2. \/ Client(sess[a].id) \in excused[a]
            \/ \E x \in ToSet(queue) : Thrown(x, sess[a].id)
        BY <1>1, <4>1 DEF Presences, Online
      <4>3. ~ Thrown(e, sess[a].id)
        BY <3>1, <4>1, ReadsOfLeaving DEF Ends
      <4> QED
        BY <1>4, <3>1, <4>2, <4>3
    <3>3. Novice(a)'
      BY <1>1, <1>3, <1>4, <3>1 DEF Presences, Novice, Thrown, Client
    <3> QED
      BY <3>2, <3>3
  <2> QED
    BY <2>1, <2>2
<1>9. Unused'
  BY <1>1, <1>3, <1>4 DEF Presences, Unused, Thrown, Client
<1> QED
  BY <1>3, <1>6, <1>7, <1>8, <1>9, NoTask DEF ViewInv, Presences

-----------------------------------------------------------------------------
(* The invariant holds in every reachable state.                           *)

LEMMA ClientStep ==
    ASSUME ViewInv, NEW a \in Addrs,
           \/ GetCookie(a) \/ SolvePuzzleTeaSpeak(a) \/ SolvePuzzleOt1(a)
           \/ DeadPacket(a) \/ \E kind \in KindsAt[a] : Recognize(a, kind)
           \/ Ts3ClientInit(a) \/ Ts6ClientInit(a) \/ TeaClientInit(a)
           \/ Ts3ClientDisconnect(a) \/ Ts6ClientDisconnect(a) \/ TeaClientDisconnect(a)
           \/ Ts3RuntimeCommand(a) \/ Ts6RuntimeCommand(a) \/ TeaRuntimeCommand(a)
           \/ \E k \in Clients :
                 Ts3GetVariables(a, k) \/ Ts6GetVariables(a, k) \/ TeaGetVariables(a, k)
    PROVE  ViewInv'
<1>1. CASE GetCookie(a)
  BY <1>1, GetCookieSound
<1>2. CASE SolvePuzzleTeaSpeak(a) \/ SolvePuzzleOt1(a)
  BY <1>2, NewSessionSound DEF SolvePuzzleTeaSpeak, SolvePuzzleOt1
<1>3. CASE DeadPacket(a)
  BY <1>3, DeadPacketSound
<1>4. CASE \E kind \in KindsAt[a] : Recognize(a, kind)
  BY <1>4, RecognizeSound
<1>5. CASE Ts3ClientInit(a) \/ Ts6ClientInit(a) \/ TeaClientInit(a)
  BY <1>5, ClientInitSound DEF Ts3ClientInit, Ts6ClientInit, TeaClientInit
<1>6. CASE Ts3ClientDisconnect(a) \/ Ts6ClientDisconnect(a) \/ TeaClientDisconnect(a)
  BY <1>6, ClientDisconnectSound DEF Ts3ClientDisconnect, Ts6ClientDisconnect, TeaClientDisconnect
<1>7. CASE Ts3RuntimeCommand(a) \/ Ts6RuntimeCommand(a) \/ TeaRuntimeCommand(a)
  BY <1>7, RuntimeCommandSound DEF Ts3RuntimeCommand, Ts6RuntimeCommand, TeaRuntimeCommand
<1>8. CASE \E k \in Clients :
              Ts3GetVariables(a, k) \/ Ts6GetVariables(a, k) \/ TeaGetVariables(a, k)
  <2>1. UNCHANGED <<channels, where, away, bots, owed, queue, sess, nextId, task, excused>>
    BY <1>8 DEF Ts3GetVariables, Ts6GetVariables, TeaGetVariables, GetVariables
  <2> QED
    BY <2>1, OtherStep
<1> QED
  BY <1>1, <1>2, <1>3, <1>4, <1>5, <1>6, <1>7, <1>8

LEMMA TableStep ==
    ASSUME ViewInv, NEW a \in Addrs,
           \/ \E k \in Clients, c \in ChannelIds :
                 Ts3ClientMove(a, k, c) \/ Ts6ClientMove(a, k, c) \/ TeaClientMove(a, k, c)
           \/ \E p \in ParentsUsed, ck \in CreateKinds, flag \in BOOLEAN :
                 \/ Ts3ChannelCreate(a, p, ck, flag) \/ Ts6ChannelCreate(a, p, ck, flag)
                 \/ TeaChannelCreate(a, p, ck, flag)
           \/ \E c \in ChannelIds, ck \in EditKinds, flag \in BOOLEAN :
                 \/ Ts3ChannelEdit(a, c, ck, flag) \/ Ts6ChannelEdit(a, c, ck, flag)
                 \/ TeaChannelEdit(a, c, ck, flag)
           \/ \E c \in ChannelIds :
                 Ts3ChannelDelete(a, c) \/ Ts6ChannelDelete(a, c) \/ TeaChannelDelete(a, c)
           \/ \E flag \in BOOLEAN :
                 Ts3ClientUpdate(a, flag) \/ Ts6ClientUpdate(a, flag) \/ TeaClientUpdate(a, flag)
    PROVE  ViewInv'
<1>1. ASSUME NEW k \in Clients, NEW c \in ChannelIds,
             Ts3ClientMove(a, k, c) \/ Ts6ClientMove(a, k, c) \/ TeaClientMove(a, k, c)
      PROVE  ViewInv'
  BY <1>1, UdpClientMoveSound DEF Ts3ClientMove, Ts6ClientMove, TeaClientMove
<1>2. ASSUME NEW p \in ParentsUsed, NEW ck \in CreateKinds, NEW flag \in BOOLEAN,
             \/ Ts3ChannelCreate(a, p, ck, flag) \/ Ts6ChannelCreate(a, p, ck, flag)
             \/ TeaChannelCreate(a, p, ck, flag)
      PROVE  ViewInv'
  BY <1>2, UdpChannelCreateSound DEF Ts3ChannelCreate, Ts6ChannelCreate, TeaChannelCreate
<1>3. ASSUME NEW c \in ChannelIds, NEW ck \in EditKinds, NEW flag \in BOOLEAN,
             \/ Ts3ChannelEdit(a, c, ck, flag) \/ Ts6ChannelEdit(a, c, ck, flag)
             \/ TeaChannelEdit(a, c, ck, flag)
      PROVE  ViewInv'
  BY <1>3, UdpChannelEditSound DEF Ts3ChannelEdit, Ts6ChannelEdit, TeaChannelEdit
<1>4. ASSUME NEW c \in ChannelIds,
             Ts3ChannelDelete(a, c) \/ Ts6ChannelDelete(a, c) \/ TeaChannelDelete(a, c)
      PROVE  ViewInv'
  BY <1>4, UdpChannelDeleteSound DEF Ts3ChannelDelete, Ts6ChannelDelete, TeaChannelDelete
<1>5. ASSUME NEW flag \in BOOLEAN,
             Ts3ClientUpdate(a, flag) \/ Ts6ClientUpdate(a, flag) \/ TeaClientUpdate(a, flag)
      PROVE  ViewInv'
  BY <1>5, ClientUpdateSound DEF Ts3ClientUpdate, Ts6ClientUpdate, TeaClientUpdate
<1> QED
  BY <1>1, <1>2, <1>3, <1>4, <1>5

LEMMA PublishStep ==
    ASSUME ViewInv,
           \/ Ts3Created \/ Ts6Created \/ TeaCreated \/ Ts3Edited \/ Ts6Edited \/ TeaEdited
           \/ Ts3Deleted \/ Ts6Deleted \/ TeaDeleted \/ Ts3Moved \/ Ts6Moved \/ TeaMoved
    PROVE  ViewInv'
<1>1. PICK stage \in {"created", "edited", "deleted", "moved"}, kind \in {"ts3", "ts6", "teaspeak"} :
         Publish(kind, stage)
  BY DEF Ts3Created, Ts6Created, TeaCreated, Ts3Edited, Ts6Edited, TeaEdited,
         Ts3Deleted, Ts6Deleted, TeaDeleted, Ts3Moved, Ts6Moved, TeaMoved
<1>2. stage \in Types \ {"left", "enter", "update"}
  BY DEF Types
<1> QED
  BY <1>1, <1>2, PublishSound

\* Every step preserves the invariant.
LEMMA ViewInductive ==
    ASSUME ViewInv, [ViewNext]_viewVars
    PROVE  ViewInv'
<1>1. CASE UNCHANGED viewVars
  BY <1>1, OtherStep DEF viewVars
<1>2. CASE ViewNext
  <2>1. ASSUME NEW p \in ParentsUsed, NEW kind \in CreateKinds, QueryCreate(p, kind) PROVE ViewInv'
    BY <2>1, QueryCreateSound
  <2>2. ASSUME NEW c \in ChannelIds, QueryDelete(c) PROVE ViewInv'
    BY <2>2, QueryDeleteSound
  <2>3. ASSUME NEW c \in ChannelIds, NEW kind \in EditKinds, QueryEdit(c, kind) PROVE ViewInv'
    BY <2>3, QueryEditSound
  <2>4. ASSUME NEW k \in Clients, Zombie(k) PROVE ViewInv'
    BY <2>4, ZombieSound
  <2>5. ASSUME NEW k \in Clients, QueryKick(k) PROVE ViewInv'
    BY <2>5, QueryKickSound
  <2>6. ASSUME NEW k \in Clients, NEW c \in ChannelIds, QueryMove(k, c) PROVE ViewInv'
    BY <2>6, QueryMoveSound
  <2> QED
    BY <1>2, <2>1, <2>2, <2>3, <2>4, <2>5, <2>6, ClientStep, TableStep, PublishStep,
       VacatesSound, NotifySound DEF ViewNext
<1> QED
  BY <1>1, <1>2

LEMMA ViewInitSound == ViewInit => ViewInv
<1> SUFFICES ASSUME ViewInit PROVE ViewInv
  OBVIOUS
<1>1. ViewTables
  <2>1. IsTable(channels)
    BY Numbers DEF ViewInit, IsTable, Row
  <2>2. where \in Places
    BY Numbers DEF ViewInit, Places
  <2>3. queue \in Seq(Notifications) /\ owed \subseteq Removable /\ bots \subseteq {Bot}
    BY DEF ViewInit
  <2>4. excused \in [Addrs -> SUBSET Objects] /\ away \subseteq Clients
    BY DEF ViewInit
  <2> QED
    BY <2>1, <2>2, <2>3, <2>4 DEF ViewTables
<1>2. \A a \in Addrs : sess[a] = NoSession
  BY DEF ViewInit
<1>3. SessionsOK
  <2>1. sess \in [Addrs -> Session]
    BY NoSessionFacts DEF ViewInit
  <2>2. nextId = 1
    BY DEF ViewInit
  <2> QED
    BY <1>2, <2>1, <2>2, NoSessionFacts, Numbers DEF SessionsOK
<1>4. TaskOK
  BY DEF ViewInit, TaskOK
<1>5. Presences
  <2>1. \A a \in Addrs : Online(a) /\ Novice(a)
    BY <1>2, NoSessionFacts DEF Online, Novice, Listening
  <2>2. \A k \in Clients : k # Bot => where[k] = 0
    BY DEF ViewInit
  <2>3. ToSet(queue) = {}
    BY DEF ViewInit, ToSet
  <2> QED
    BY <2>1, <2>2, <2>3 DEF Presences, Unused
<1> QED
  BY <1>1, <1>3, <1>4, <1>5 DEF ViewInv

LEMMA ViewInvariant == ViewSpec => []ViewInv
<1>1. ViewInv /\ [ViewNext]_viewVars => ViewInv'
  BY ViewInductive
<1> QED
  BY <1>1, ViewInitSound, PTL DEF ViewSpec

-----------------------------------------------------------------------------
(* What a client makes of the notifications that it has yet to read.       *)

Mains  == {o \in Objects : o[1] # "away"}
Views  == [Objects -> Values]

\* What a client believes of a channel or client: its value and its away flag; -1
\* is the flag that the tables have.
Belief == [x : Values, y : Values \union {-1}]

Learns(p, e, m) ==
    CASE e.o = m /\ e.t = "enter" -> [x |-> e.v, y |-> -1]
      [] e.o = m /\ e.t = "left"  -> [x |-> 0, y |-> 0]
      [] e.o = m /\ e.t \in {"moved", "edited"} -> [x |-> IF p.x = 0 THEN 0 ELSE e.v, y |-> p.y]
      [] e.o = m /\ e.t \in {"created", "deleted"} -> [x |-> e.v, y |-> p.y]
      [] m[1] = "client" /\ e.o = Away(m[2]) /\ e.t = "update" ->
             [x |-> p.x, y |-> IF p.x = 0 THEN 0 ELSE e.v]
      [] OTHER -> p

Reads(p, e, id, m) == IF IsSelfAlreadySent(e, id) THEN p ELSE Learns(p, e, m)

\* h is what client id believes of m, notification by notification.
Reading(h, p, q, id, m) ==
    /\ h \in [0..Len(q) -> Belief]
    /\ h[0] = p
    /\ \A i \in 1..Len(q) : h[i] = Reads(h[i-1], q[i], id, m)

\* Having read q, and then e, the client knows that m is x (that its flag is y).
Foresees(p, q, e, id, m, x) ==
    \A h : Reading(h, p, q, id, m) => Reads(h[Len(q)], e, id, m).x = x
ForeseesAway(p, q, e, id, m, y) ==
    \A h : Reading(h, p, q, id, m) => Reads(h[Len(q)], e, id, m).y \in {-1, y}

LEMMA MainShape ==
    ASSUME NEW m \in Mains
    PROVE  /\ m \in Objects
           /\ \/ m[1] = "channel" /\ m = Channel(m[2]) /\ m[2] \in ChannelIds
              \/ m[1] = "client" /\ m = Client(m[2]) /\ m[2] \in Clients /\ Away(m[2]) \in Objects
           /\ \A k : m # Away(k)
BY ObjectShape DEF Mains

LEMMA LearnsType ==
    ASSUME NEW p \in Belief, NEW e, e.v \in Values, NEW m
    PROVE  Learns(p, e, m) \in Belief /\ \A id : Reads(p, e, id, m) \in Belief
<1>1. 0 \in Values /\ p.x \in Values /\ p.y \in Values \union {-1}
  BY Numbers DEF Values, Belief
<1>2. Learns(p, e, m) \in Belief
  <2>1. CASE e.o = m /\ e.t = "enter"
    BY <1>1, <2>1 DEF Learns, Belief
  <2>2. CASE e.o = m /\ e.t = "left"
    BY <1>1, <2>2 DEF Learns, Belief
  <2>3. CASE e.o = m /\ e.t \in {"moved", "edited"}
    BY <1>1, <2>3 DEF Learns, Belief
  <2>4. CASE e.o = m /\ e.t \in {"created", "deleted"}
    BY <1>1, <2>4 DEF Learns, Belief
  <2>5. CASE e.o # m \/ e.t \notin {"enter", "left", "moved", "edited", "created", "deleted"}
    BY <1>1, <2>5 DEF Learns, Belief
  <2> QED
    BY <2>1, <2>2, <2>3, <2>4, <2>5
<1> QED
  BY <1>2 DEF Reads

LEMMA ReadingShape ==
    ASSUME NEW q \in Seq(Notifications), NEW id, NEW m, NEW p, NEW h, Reading(h, p, q, id, m)
    PROVE  /\ Len(q) \in Nat /\ 0 \in 0..Len(q) /\ Len(q) \in 0..Len(q)
           /\ h[0] = p /\ p \in Belief /\ \A i \in 0..Len(q) : h[i] \in Belief
<1>1. Len(q) \in Nat
  BY LenProperties
<1>2. 0 \in 0..Len(q) /\ Len(q) \in 0..Len(q)
  BY <1>1
<1>3. h[0] = p /\ h \in [0..Len(q) -> Belief]
  BY DEF Reading
<1> QED
  BY <1>1, <1>2, <1>3

\* What is kept by every notification is kept to the end.
LEMMA KeptFrom ==
    ASSUME NEW q \in Seq(Notifications), NEW id, NEW m, NEW h, NEW p, Reading(h, p, q, id, m),
           NEW P, NEW j \in 0..Len(q), h[j] \in P,
           \A e \in ToSet(q), b \in Belief : b \in P => Reads(b, e, id, m) \in P
    PROVE  \A i \in j..Len(q) : h[i] \in P
<1> DEFINE bad == {i \in Nat : i \in j..Len(q) /\ h[i] \notin P}
<1>0. Len(q) \in Nat /\ j \in Nat
  BY LenProperties
<1>1. ASSUME bad # {} PROVE FALSE
  <2>1. PICK x \in bad : \A y \in bad : x <= y
    <3>1. bad \in SUBSET Nat
      OBVIOUS
    <3> HIDE DEF bad
    <3> QED
      BY <1>1, <3>1, LeastOf
  <2>2. x # j /\ x \in Nat /\ x \in j..Len(q) /\ h[x] \notin P
    BY <2>1
  <2>3. x - 1 \in j..Len(q) /\ x - 1 \in Nat /\ x \in 1..Len(q) /\ x - 1 \notin bad /\ x - 1 \in 0..Len(q)
    BY <1>0, <2>1, <2>2
  <2>4. h[x-1] \in P /\ h[x-1] \in Belief
    BY <2>3 DEF Reading
  <2>5. h[x] = Reads(h[x-1], q[x], id, m) /\ q[x] \in ToSet(q)
    BY <2>3, Elements DEF Reading
  <2> QED
    BY <2>2, <2>4, <2>5
<1>2. \A i \in j..Len(q) : i \in Nat
  BY <1>0
<1> QED
  BY <1>1, <1>2

\* So it is if two readers are compared.
LEMMA KeptBoth ==
    ASSUME NEW q \in Seq(Notifications), NEW id, NEW m,
           NEW h, NEW p, Reading(h, p, q, id, m), NEW g, NEW r, Reading(g, r, q, id, m),
           NEW R, <<p, r>> \in R,
           \A e \in ToSet(q), b, c \in Belief :
               <<b, c>> \in R => <<Reads(b, e, id, m), Reads(c, e, id, m)>> \in R
    PROVE  <<h[Len(q)], g[Len(q)]>> \in R
<1> DEFINE bad == {i \in Nat : i \in 0..Len(q) /\ <<h[i], g[i]>> \notin R}
<1>n. Len(q) \in Nat
  BY LenProperties
<1> SUFFICES bad = {}
  <2>1. Len(q) \in Nat /\ Len(q) \in 0..Len(q)
    BY <1>n
  <2> QED
    BY <2>1
<1> SUFFICES ASSUME bad # {} PROVE FALSE
  OBVIOUS
<1>1. PICK x \in bad : \A y \in bad : x <= y
  <2>1. bad \in SUBSET Nat
    OBVIOUS
  <2> HIDE DEF bad
  <2> QED
    BY <2>1, LeastOf
<1>2. x # 0 /\ x \in Nat /\ x \in 0..Len(q) /\ <<h[x], g[x]>> \notin R
  BY <1>1 DEF Reading
<1>3. x - 1 \in 0..Len(q) /\ x - 1 \in Nat /\ x \in 1..Len(q) /\ x - 1 \notin bad
  BY <1>1, <1>2, <1>n
<1>4. <<h[x-1], g[x-1]>> \in R /\ h[x-1] \in Belief /\ g[x-1] \in Belief
  BY <1>3 DEF Reading
<1>5. /\ h[x] = Reads(h[x-1], q[x], id, m) /\ g[x] = Reads(g[x-1], q[x], id, m)
      /\ q[x] \in ToSet(q)
  BY <1>3, Elements DEF Reading
<1> QED
  BY <1>2, <1>4, <1>5

\* g goes from base through n of the steps that table F has.
Recurs(g, S, base, n, F) ==
    /\ g \in [0..n -> S] /\ g[0] = base
    /\ \A i \in 1..n : g[i] = F[<<g[i-1], i>>]

LEMMA Recursion ==
    ASSUME NEW S, NEW base \in S, NEW n \in Nat, NEW F \in [S \X (1..n) -> S]
    PROVE  \E g : Recurs(g, S, base, n, F)
<1> USE DEF Recurs
<1> DEFINE Fine(g, k) == Recurs(g, S, base, k, F)
           bad == {k \in Nat : k \in 0..n /\ ~ \E g : Fine(g, k)}
<1> SUFFICES bad = {}
  <2>1. n \in 0..n /\ n \in Nat
    OBVIOUS
  <2>2. \E g : Fine(g, n)
    BY <2>1
  <2> QED
    BY <2>2
<1> SUFFICES ASSUME bad # {} PROVE FALSE
  OBVIOUS
<1>1. PICK x \in bad : \A y \in bad : x <= y
  <2>1. bad \in SUBSET Nat
    OBVIOUS
  <2> HIDE DEF bad
  <2> QED
    BY <2>1, LeastOf
<1>2. x \in Nat /\ x \in 0..n /\ ~ \E g : Fine(g, x)
  BY <1>1
<1>3. CASE x = 0
  <2>1. Fine([i \in 0..0 |-> base], 0)
    OBVIOUS
  <2> QED
    BY <1>2, <1>3, <2>1
<1>4. CASE x # 0
  <2>1. x - 1 \in Nat /\ x - 1 \in 0..n /\ x - 1 \notin bad /\ x \in 1..n
    BY <1>1, <1>2, <1>4
  <2>2. PICK h : Fine(h, x - 1)
    BY <2>1
  <2>3. /\ h \in [0..(x - 1) -> S] /\ h[0] = base
        /\ \A i \in 1..(x - 1) : h[i] = F[<<h[i-1], i>>]
    BY <2>2
  <2> DEFINE g == [i \in 0..x |-> IF i = x THEN F[<<h[x - 1], x>>] ELSE h[i]]
  <2>4. h[x - 1] \in S /\ F[<<h[x - 1], x>>] \in S
    <3>1. x - 1 \in 0..(x - 1)
      BY <2>1
    <3>2. h[x - 1] \in S
      BY <2>3, <3>1
    <3>3. <<h[x - 1], x>> \in S \X (1..n)
      BY <2>1, <3>2
    <3> QED
      BY <3>2, <3>3
  <2>5. g \in [0..x -> S]
    <3>1. \A i \in 0..x : i # x => i \in 0..(x - 1)
      BY <1>2
    <3> QED
      BY <2>3, <2>4, <3>1
  <2>6. g[0] = base
    BY <1>2, <1>4, <2>3
  <2>7. ASSUME NEW i \in 1..x PROVE g[i] = F[<<g[i-1], i>>]
    <3>1. i - 1 \in 0..x /\ i - 1 # x /\ i \in 0..x
      BY <1>2
    <3>2. g[i-1] = h[i-1]
      BY <3>1
    <3>3. CASE i = x
      BY <3>1, <3>2, <3>3
    <3>4. CASE i # x
      <4>1. i \in 1..(x - 1)
        BY <1>2, <3>4
      <4>2. h[i] = F[<<h[i-1], i>>] /\ g[i] = h[i]
        BY <2>3, <3>1, <3>4, <4>1
      <4> QED
        BY <3>2, <4>2
    <3> QED
      BY <3>3, <3>4
  <2>8. Fine(g, x)
    <3> HIDE DEF g
    <3> QED
      BY <2>5, <2>6, <2>7
  <2> QED
    BY <1>2, <2>8
<1> QED
  BY <1>3, <1>4

\* Whatever waits can be read.
LEMMA ReadingExists ==
    ASSUME NEW q \in Seq(Notifications), NEW p \in Belief, NEW id, NEW m
    PROVE  \E h : Reading(h, p, q, id, m)
<1> DEFINE n == Len(q)
           F == [s \in Belief \X (1..n) |-> Reads(s[1], q[s[2]], id, m)]
<1>1. n \in Nat /\ \A i \in 1..n : q[i] \in Notifications
  BY LenProperties, ElementOfSeq
<1>2. \A b \in Belief, i \in 1..n : Reads(b, q[i], id, m) \in Belief
  <2> SUFFICES ASSUME NEW b \in Belief, NEW i \in 1..n PROVE Reads(b, q[i], id, m) \in Belief
    OBVIOUS
  <2>1. PICK e : e = q[i] /\ e.v \in Values
    BY <1>1 DEF Notifications
  <2> QED
    BY <2>1, LearnsType
<1>3. F \in [Belief \X (1..n) -> Belief]
  BY <1>2
<1>4. \A b \in Belief, i \in 1..n : F[<<b, i>>] = Reads(b, q[i], id, m)
  OBVIOUS
<1> HIDE DEF n, F
<1>7. PICK g : Recurs(g, Belief, p, n, F)
  BY <1>1, <1>3, Recursion
<1>5. /\ g \in [0..n -> Belief] /\ g[0] = p
      /\ \A i \in 1..n : g[i] = F[<<g[i-1], i>>]
  BY <1>7 DEF Recurs
<1>6. \A i \in 1..n : g[i] = Reads(g[i-1], q[i], id, m)
  <2> SUFFICES ASSUME NEW i \in 1..n PROVE g[i] = Reads(g[i-1], q[i], id, m)
    OBVIOUS
  <2>1. i - 1 \in 0..n
    BY <1>1
  <2> QED
    BY <1>4, <1>5, <2>1
<1> QED
  BY <1>5, <1>6 DEF Reading, n

\* What is read of two lists is read of the first and then of the second.
LEMMA SplitReading ==
    ASSUME NEW q \in Seq(Notifications), NEW es \in Seq(Notifications), NEW id, NEW m,
           NEW p, NEW h, Reading(h, p, q \o es, id, m)
    PROVE  \E g, f, c : /\ Reading(g, p, q, id, m) /\ c = g[Len(q)] /\ c \in Belief
                        /\ Reading(f, c, es, id, m) /\ h[Len(q \o es)] = f[Len(es)]
<1> DEFINE k == Len(q)
           n == Len(es)
           g == [i \in 0..k |-> h[i]]
           f == [i \in 0..n |-> h[k + i]]
<1>1. /\ k \in Nat /\ n \in Nat /\ Len(q \o es) = k + n
      /\ \A i \in 1..k + n : (q \o es)[i] = IF i <= k THEN q[i] ELSE es[i - k]
  BY ConcatProperties, LenProperties
<1>2. /\ h \in [0..(k + n) -> Belief] /\ h[0] = p
      /\ \A i \in 1..(k + n) : h[i] = Reads(h[i-1], (q \o es)[i], id, m)
  BY <1>1 DEF Reading
<1>3. Reading(g, p, q, id, m)
  <2>1. g \in [0..k -> Belief] /\ g[0] = p
    BY <1>1, <1>2
  <2>2. ASSUME NEW i \in 1..k PROVE g[i] = Reads(g[i-1], q[i], id, m)
    <3>1. i \in 1..(k + n) /\ i \in 0..k /\ i - 1 \in 0..k /\ i <= k
      BY <1>1
    <3>2. g[i] = h[i] /\ g[i-1] = h[i-1] /\ (q \o es)[i] = q[i]
      BY <1>1, <3>1
    <3> HIDE DEF g
    <3> QED
      BY <1>2, <3>1, <3>2
  <2> HIDE DEF g
  <2> QED
    BY <2>1, <2>2 DEF Reading
<1>4. Reading(f, g[k], es, id, m)
  <2>1. f \in [0..n -> Belief] /\ f[0] = g[k]
    BY <1>1, <1>2
  <2>2. ASSUME NEW i \in 1..n PROVE f[i] = Reads(f[i-1], es[i], id, m)
    <3>1. k + i \in 1..(k + n) /\ i \in 0..n /\ i - 1 \in 0..n /\ ~ (k + i <= k) /\ (k + i) - k = i
          /\ (k + i) - 1 = k + (i - 1)
      BY <1>1
    <3>2. f[i] = h[k + i] /\ f[i-1] = h[k + (i - 1)] /\ (q \o es)[k + i] = es[i]
      BY <1>1, <3>1
    <3>3. h[k + i] = Reads(h[(k + i) - 1], (q \o es)[k + i], id, m)
      BY <1>2, <3>1
    <3> HIDE DEF f
    <3> QED
      BY <3>1, <3>2, <3>3
  <2> HIDE DEF f
  <2> QED
    BY <2>1, <2>2 DEF Reading
<1>5. h[Len(q \o es)] = f[n] /\ g[k] \in Belief
  <2>1. n \in 0..n /\ k \in 0..k
    BY <1>1
  <2>2. f[n] = h[k + n]
    BY <2>1
  <2>3. g[k] \in Belief
    BY <1>3, <2>1 DEF Reading
  <2> QED
    BY <1>1, <2>2, <2>3
<1> HIDE DEF g, f
<1> QED
  BY <1>3, <1>4, <1>5

LEMMA ReadNothing ==
    ASSUME NEW p \in Belief, NEW id, NEW m
    PROVE  \E h : Reading(h, p, <<>>, id, m) /\ h[Len(<<>>)] = p
<1> DEFINE h == [i \in 0..0 |-> p]
<1>1. Len(<<>>) = 0 /\ h \in [0..0 -> Belief] /\ h[0] = p /\ 1..0 = {}
  OBVIOUS
<1> HIDE DEF h
<1>2. Reading(h, p, <<>>, id, m)
  BY <1>1 DEF Reading
<1> QED
  BY <1>1, <1>2

\* Reading one notification is a step.
LEMMA ReadOne ==
    ASSUME NEW e \in Notifications, NEW id, NEW m, NEW p, NEW h, Reading(h, p, <<e>>, id, m)
    PROVE  h[Len(<<e>>)] = Reads(p, e, id, m)
<1>1. Len(<<e>>) = 1 /\ <<e>>[1] = e /\ 1 \in 1..1 /\ 1 - 1 = 0
  OBVIOUS
<1> QED
  BY <1>1 DEF Reading

\* The first notification, and then the rest.
Continues(h, t, p, q, id, m) == \E g : Reading(g, p, q, id, m) /\ g[Len(q)] = h[Len(t)]

LEMMA ReadFirst ==
    ASSUME NEW q \in Seq(Notifications), q # <<>>, NEW id, NEW m, NEW p \in Belief,
           NEW b, b = Reads(p, Head(q), id, m), NEW t, t = Tail(q),
           NEW h, Reading(h, b, t, id, m)
    PROVE  Continues(h, t, p, q, id, m)
<1> DEFINE n == Len(q)
           g == [i \in 0..n |-> IF i = 0 THEN p ELSE h[i - 1]]
<1>1. /\ n \in Nat /\ n # 0 /\ t \in Seq(Notifications) /\ Len(t) = n - 1
      /\ Head(q) = q[1] /\ \A i \in 1..(n - 1) : t[i] = q[i + 1]
  BY EmptySeq, LenProperties, HeadTailProperties
<1>2. /\ h \in [0..(n - 1) -> Belief] /\ h[0] = Reads(p, q[1], id, m)
      /\ \A i \in 1..(n - 1) : h[i] = Reads(h[i-1], t[i], id, m)
  BY <1>1 DEF Reading
<1>3. g \in [0..n -> Belief] /\ g[0] = p
  <2>1. \A i \in 0..n : i # 0 => i - 1 \in 0..(n - 1)
    BY <1>1
  <2> QED
    BY <1>1, <1>2, <2>1
<1>4. ASSUME NEW i \in 1..n PROVE g[i] = Reads(g[i-1], q[i], id, m)
  <2>1. i \in 0..n /\ i - 1 \in 0..n /\ i # 0
    BY <1>1
  <2>2. g[i] = h[i-1]
    BY <2>1
  <2>3. CASE i = 1
    <3>1. g[i-1] = p /\ h[i-1] = h[0]
      BY <2>1, <2>3
    <3> HIDE DEF g
    <3> QED
      BY <1>2, <2>2, <2>3, <3>1
  <2>4. CASE i # 1
    <3>1. i - 1 \in 1..(n - 1) /\ (i - 1) + 1 = i /\ i - 1 # 0
      BY <1>1, <2>4
    <3>2. g[i-1] = h[(i - 1) - 1] /\ t[i-1] = q[i]
      BY <1>1, <2>1, <3>1
    <3>3. h[i-1] = Reads(h[(i - 1) - 1], t[i-1], id, m)
      BY <1>2, <3>1
    <3> HIDE DEF g
    <3> QED
      BY <2>2, <3>2, <3>3
  <2> QED
    BY <2>3, <2>4
<1>5. g[n] = h[Len(t)]
  <2>1. n \in 0..n
    BY <1>1
  <2> QED
    BY <1>1, <2>1
<1> HIDE DEF g
<1>6. Reading(g, p, q, id, m)
  BY <1>3, <1>4 DEF Reading
<1> QED
  BY <1>5, <1>6 DEF Continues

-----------------------------------------------------------------------------
(* What is foreseen, and what changes it.                                  *)

\* A notification that the task will send, or none (`idle').
Later(e) == e.v \in Values /\ e.t \in {"idle", "created", "edited", "deleted", "moved"}

\* Once a client that believed x0 reads e, it believes x1.
Says(e, x0, x1) ==
    \/ e.t \in {"enter", "created", "deleted"} /\ e.v = x1
    \/ e.t = "left" /\ x1 = 0
    \/ e.t \in {"moved", "edited"} /\ e.v = x1 /\ x0 # 0

\* e is shown to client id and tells of m.
Tells(e, id, m) == e.o = m /\ ~ IsSelfAlreadySent(e, id)

LEMMA LearnsValue ==
    ASSUME NEW b \in Belief, NEW e, NEW m \in Mains
    PROVE  /\ e.o # m => Learns(b, e, m).x = b.x
           /\ e.o = m /\ e.t \in {"enter", "created", "deleted"} => Learns(b, e, m).x = e.v
           /\ e.o = m /\ e.t = "left" => Learns(b, e, m).x = 0
           /\ e.o = m /\ e.t \in {"moved", "edited"} =>
                 Learns(b, e, m).x = IF b.x = 0 THEN 0 ELSE e.v
           /\ e.t = "idle" => Learns(b, e, m) = b
<1>1. \A k : m # Away(k)
  BY MainShape
<1>2. CASE e.o # m
  <2>1. Learns(b, e, m) = IF m[1] = "client" /\ e.o = Away(m[2]) /\ e.t = "update"
          THEN [x |-> b.x, y |-> IF b.x = 0 THEN 0 ELSE e.v] ELSE b
    BY <1>2 DEF Learns
  <2> QED
    BY <1>2, <2>1
<1>3. CASE e.o = m
  BY <1>1, <1>3 DEF Learns
<1> QED
  BY <1>2, <1>3

LEMMA LearnsFlag ==
    ASSUME NEW b \in Belief, NEW e, NEW m \in Mains
    PROVE  /\ e.o = m /\ e.t = "enter" => Learns(b, e, m).y = -1
           /\ e.o = m /\ e.t = "left" => Learns(b, e, m).y = 0
           /\ m[1] = "client" /\ e.o = Away(m[2]) /\ e.t = "update" =>
                 Learns(b, e, m).y = IF b.x = 0 THEN 0 ELSE e.v
           /\ ~ (e.o = m /\ e.t \in {"enter", "left"})
              /\ ~ (m[1] = "client" /\ e.o = Away(m[2]) /\ e.t = "update") =>
                 Learns(b, e, m).y = b.y
<1>1. \A k : m # Away(k)
  BY MainShape
<1>2. CASE e.o # m
  <2>1. Learns(b, e, m) = IF m[1] = "client" /\ e.o = Away(m[2]) /\ e.t = "update"
          THEN [x |-> b.x, y |-> IF b.x = 0 THEN 0 ELSE e.v] ELSE b
    BY <1>2 DEF Learns
  <2> QED
    BY <1>2, <2>1
<1>3. CASE e.o = m
  BY <1>1, <1>3 DEF Learns
<1> QED
  BY <1>2, <1>3

LEMMA LaterKeepsFlag ==
    ASSUME NEW b \in Belief, NEW e, Later(e), NEW m \in Mains, NEW id
    PROVE  Reads(b, e, id, m).y = b.y
BY LearnsFlag DEF Later, Reads

\* A main object is told of by nothing but its own notifications.
LEMMA MainEvents ==
    ASSUME NEW e \in Notifications, NEW m \in Mains, e.o = m
    PROVE  /\ e.t # "update" /\ e.v \in Values
           /\ m[1] = "client" => e.t \in {"enter", "left", "moved"}
           /\ m[1] = "channel" => e.t \in {"created", "edited", "deleted"}
BY DEF Notifications, Types, About, Mains

\* The notifications es about m say what it is from now on.
LEMMA Heard ==
    ASSUME NEW q \in Seq(Notifications), NEW es \in Seq(Notifications), NEW p \in Belief, NEW id,
           NEW m \in Mains, NEW e0, Later(e0), NEW x0 \in Values, NEW x1 \in Values,
           Foresees(p, q, e0, id, m, x0),
           \A e \in ToSet(es) : Tells(e, id, m) => Says(e, x0, x1),
           x1 = x0 \/ \E e \in ToSet(es) : Tells(e, id, m),
           e0.t # "idle" /\ Tells(e0, id, m) => x1 = x0
    PROVE  Foresees(p, q \o es, e0, id, m, x1)
<1> SUFFICES ASSUME NEW h, Reading(h, p, q \o es, id, m)
             PROVE  Reads(h[Len(q \o es)], e0, id, m).x = x1
  BY DEF Foresees
<1>1. PICK g, f, c : /\ Reading(g, p, q, id, m) /\ c = g[Len(q)] /\ c \in Belief
                     /\ Reading(f, c, es, id, m) /\ h[Len(q \o es)] = f[Len(es)]
  BY SplitReading
<1>2. Reads(c, e0, id, m).x = x0
  BY <1>1 DEF Foresees
<1>3. /\ Len(es) \in Nat /\ 0 \in 0..Len(es) /\ Len(es) \in 0..Len(es) /\ f[0] = c
      /\ \A i \in 0..Len(es) : f[i] \in Belief
  BY <1>1, ReadingShape
<1>4. \A b \in Belief : \A e : Reads(b, e, id, m) = IF IsSelfAlreadySent(e, id) THEN b ELSE Learns(b, e, m)
  BY DEF Reads
<1>5. \A e \in ToSet(es) : e \in Notifications /\ e.v \in Values
  BY Elements DEF Notifications
<1>6. ASSUME NEW e \in ToSet(es), NEW b \in Belief
      PROVE  /\ Reads(b, e, id, m) \in Belief
             /\ ~ Tells(e, id, m) => Reads(b, e, id, m).x = b.x
             /\ Tells(e, id, m) => Reads(b, e, id, m).x \in {x1, IF b.x = 0 THEN 0 ELSE x1}
             /\ Tells(e, id, m) /\ Reads(b, e, id, m).x # x1 => b.x = 0 /\ x0 # 0 /\ x1 # 0
                                                               /\ Reads(b, e, id, m).x = 0
  <2>1. Reads(b, e, id, m) \in Belief
    BY <1>5, LearnsType
  <2>2. CASE ~ Tells(e, id, m)
    BY <1>4, <2>1, <2>2, LearnsValue DEF Tells
  <2>3. CASE Tells(e, id, m)
    <3>1. Says(e, x0, x1) /\ e.o = m /\ Reads(b, e, id, m) = Learns(b, e, m)
      BY <1>4, <2>3 DEF Tells
    <3> QED
      BY <2>1, <2>3, <3>1, LearnsValue DEF Says
  <2> QED
    BY <2>2, <2>3
<1>7. CASE e0.t # "idle" /\ Tells(e0, id, m)
  <2> DEFINE P == {b \in Belief : Reads(b, e0, id, m).x = x0}
  <2>1. x1 = x0 /\ c \in P
    BY <1>1, <1>2, <1>7
  <2>2. ASSUME NEW b \in Belief PROVE
          \/ \A d \in Belief : Reads(d, e0, id, m).x = e0.v
          \/ Reads(b, e0, id, m).x = IF b.x = 0 THEN 0 ELSE e0.v
    <3>1. e0.o = m /\ (\A d \in Belief : Reads(d, e0, id, m) = Learns(d, e0, m))
          /\ e0.t \in {"created", "edited", "deleted", "moved"}
      BY <1>4, <1>7 DEF Tells, Later
    <3>2. CASE e0.t \in {"created", "deleted"}
      BY <3>1, <3>2, LearnsValue
    <3>3. CASE e0.t \in {"edited", "moved"}
      BY <3>1, <3>3, LearnsValue
    <3> QED
      BY <3>1, <3>2, <3>3
  <2>3. ASSUME NEW e \in ToSet(es), NEW b \in Belief, b \in P PROVE Reads(b, e, id, m) \in P
    <3>1. PICK d : d = Reads(b, e, id, m)
      OBVIOUS
    <3>2. d \in Belief /\ d.x \in {b.x, x0}
      BY <1>6, <2>1, <3>1
    <3>3. Reads(b, e0, id, m).x = x0
      BY <2>3
    <3>4. CASE \A y \in Belief : Reads(y, e0, id, m).x = e0.v
      BY <2>3, <3>1, <3>2, <3>3, <3>4
    <3>5. CASE /\ Reads(b, e0, id, m).x = IF b.x = 0 THEN 0 ELSE e0.v
               /\ Reads(d, e0, id, m).x = IF d.x = 0 THEN 0 ELSE e0.v
      BY <3>1, <3>2, <3>3, <3>5
    <3> QED
      BY <2>2, <3>2, <3>4, <3>5
  <2> HIDE DEF P
  <2>4. f[Len(es)] \in P
    BY <1>1, <1>3, <2>1, <2>3, KeptFrom
  <2> QED
    BY <1>1, <2>1, <2>4 DEF P
<1>8. CASE ~ (e0.t # "idle" /\ Tells(e0, id, m))
  <2>1. \A b \in Belief : Reads(b, e0, id, m).x = b.x
    BY <1>4, <1>8, LearnsValue DEF Tells, Later
  <2>2. c.x = x0
    BY <1>1, <1>2, <2>1
  <2> DEFINE P == {b \in Belief : b.x = x0 \/ b.x = x1}
             R == {b \in Belief : b.x = x1}
  <2>3. \A e \in ToSet(es), b \in Belief : b \in P => Reads(b, e, id, m) \in P
    BY <1>6
  <2>4. \A e \in ToSet(es), b \in Belief : b \in R => Reads(b, e, id, m) \in R
    BY <1>6
  <2>5. c \in P
    BY <1>1, <2>2
  <2>6. \A e \in ToSet(es), b \in Belief : b \in P /\ Tells(e, id, m) => Reads(b, e, id, m) \in R
    <3> SUFFICES ASSUME NEW e \in ToSet(es), NEW b \in Belief, b \in P, Tells(e, id, m)
                 PROVE  Reads(b, e, id, m) \in R
      OBVIOUS
    <3>1. Reads(b, e, id, m).x = x1
      BY <1>6
    <3> QED
      BY <1>6, <3>1
  <2>7. CASE \E e \in ToSet(es) : Tells(e, id, m)
    <3>1. PICK e \in ToSet(es) : Tells(e, id, m)
      BY <2>7
    <3>2. PICK i \in 1..Len(es) : es[i] = e
      BY Elements
    <3>3. i \in 0..Len(es) /\ i - 1 \in 0..Len(es) /\ f[i] = Reads(f[i-1], e, id, m)
          /\ Len(es) \in i..Len(es) /\ i - 1 \in 0..Len(es)
      BY <1>1, <1>3, <3>2 DEF Reading
    <3> HIDE DEF P, R
    <3>4. \A k \in 0..Len(es) : f[k] \in P
      BY <1>1, <1>3, <2>3, <2>5, KeptFrom
    <3>5. f[i] \in R
      BY <1>3, <2>6, <3>1, <3>3, <3>4
    <3>6. \A k \in i..Len(es) : f[k] \in R
      BY <1>1, <2>4, <3>3, <3>5, KeptFrom
    <3>7. f[Len(es)] \in R
      BY <3>3, <3>6
    <3> QED
      BY <1>1, <2>1, <3>7 DEF R
  <2>8. CASE ~ \E e \in ToSet(es) : Tells(e, id, m)
    <3>1. c \in R
      BY <1>1, <2>2, <2>8
    <3> HIDE DEF R
    <3>2. \A k \in 0..Len(es) : f[k] \in R
      BY <1>1, <1>3, <2>4, <3>1, KeptFrom
    <3>3. f[Len(es)] \in R
      BY <1>3, <3>2
    <3> QED
      BY <1>1, <2>1, <3>3 DEF R
  <2> QED
    BY <2>7, <2>8
<1> QED
  BY <1>7, <1>8

\* The same of its away flag.
LEMMA HeardAway ==
    ASSUME NEW q \in Seq(Notifications), NEW es \in Seq(Notifications), NEW p \in Belief, NEW id,
           NEW m \in Mains, NEW e0, Later(e0), NEW y0 \in Values, NEW y1 \in Values,
           ForeseesAway(p, q, e0, id, m, y0),
           \A e \in ToSet(es) : ~ (e.t = "update" /\ e.o = Away(m[2])),
           \A e \in ToSet(es) : Tells(e, id, m) /\ e.t = "left" => y1 = 0,
           y1 = y0 \/ \E e \in ToSet(es) : Tells(e, id, m) /\ e.t \in {"left", "enter"}
    PROVE  ForeseesAway(p, q \o es, e0, id, m, y1)
<1> SUFFICES ASSUME NEW h, Reading(h, p, q \o es, id, m)
             PROVE  Reads(h[Len(q \o es)], e0, id, m).y \in {-1, y1}
  BY DEF ForeseesAway
<1>1. PICK g, f, c : /\ Reading(g, p, q, id, m) /\ c = g[Len(q)] /\ c \in Belief
                     /\ Reading(f, c, es, id, m) /\ h[Len(q \o es)] = f[Len(es)]
  BY SplitReading
<1>2. c.y \in {-1, y0}
  BY <1>1, LaterKeepsFlag DEF ForeseesAway
<1>3. /\ Len(es) \in Nat /\ 0 \in 0..Len(es) /\ Len(es) \in 0..Len(es) /\ f[0] = c
      /\ \A i \in 0..Len(es) : f[i] \in Belief
  BY <1>1, ReadingShape
<1>4. \A b \in Belief : \A e : Reads(b, e, id, m) = IF IsSelfAlreadySent(e, id) THEN b ELSE Learns(b, e, m)
  BY DEF Reads
<1>5. \A e \in ToSet(es) : e \in Notifications /\ e.v \in Values
  BY Elements DEF Notifications
<1> DEFINE R == {b \in Belief : b.y \in {-1, y1}}
<1>6. ASSUME NEW e \in ToSet(es), NEW b \in Belief
      PROVE  /\ Reads(b, e, id, m) \in Belief
             /\ b \in R => Reads(b, e, id, m) \in R
             /\ Tells(e, id, m) /\ e.t \in {"left", "enter"} => Reads(b, e, id, m) \in R
  <2>1. Reads(b, e, id, m) \in Belief
    BY <1>5, LearnsType
  <2>2. CASE Tells(e, id, m) /\ e.t \in {"left", "enter"}
    <3>1. e.o = m /\ Reads(b, e, id, m) = Learns(b, e, m)
      BY <1>4, <2>2 DEF Tells
    <3>2. Learns(b, e, m).y \in {-1, y1}
      BY <2>2, <3>1, LearnsFlag
    <3> QED
      BY <2>1, <3>1, <3>2
  <2>3. CASE ~ (Tells(e, id, m) /\ e.t \in {"left", "enter"})
    <3>1. Reads(b, e, id, m).y = b.y
      BY <1>4, <2>3, LearnsFlag DEF Tells
    <3> QED
      BY <2>1, <2>3, <3>1
  <2> QED
    BY <2>2, <2>3
<1> HIDE DEF R
<1>7. CASE \E e \in ToSet(es) : Tells(e, id, m) /\ e.t \in {"left", "enter"}
  <2>1. PICK e \in ToSet(es) : Tells(e, id, m) /\ e.t \in {"left", "enter"}
    BY <1>7
  <2>2. PICK i \in 1..Len(es) : es[i] = e
    BY Elements
  <2>3. i \in 0..Len(es) /\ i - 1 \in 0..Len(es) /\ f[i] = Reads(f[i-1], e, id, m)
        /\ Len(es) \in i..Len(es)
    BY <1>1, <1>3, <2>2 DEF Reading
  <2>4. f[i] \in R
    BY <1>3, <1>6, <2>1, <2>3
  <2>5. \A k \in i..Len(es) : f[k] \in R
    BY <1>1, <1>6, <2>3, <2>4, KeptFrom
  <2>6. f[Len(es)] \in R
    BY <2>3, <2>5
  <2> QED
    BY <1>1, <1>3, <2>6, LaterKeepsFlag DEF R
<1>8. CASE ~ \E e \in ToSet(es) : Tells(e, id, m) /\ e.t \in {"left", "enter"}
  <2>1. c \in R
    BY <1>1, <1>2, <1>8 DEF R
  <2>2. \A k \in 0..Len(es) : f[k] \in R
    BY <1>1, <1>3, <1>6, <2>1, KeptFrom
  <2>3. f[Len(es)] \in R
    BY <1>3, <2>2
  <2> QED
    BY <1>1, <1>3, <2>3, LaterKeepsFlag DEF R
<1> QED
  BY <1>7, <1>8

-----------------------------------------------------------------------------
(* The client is answered, ahead of what it has yet to read.               *)

\* Nothing that client id has yet to read tells of m.
Quiet(q, id, m) == \A e \in ToSet(q) : ~ Tells(e, id, m)

LEMMA QuietReading ==
    ASSUME NEW q \in Seq(Notifications), NEW id, NEW m \in Mains, Quiet(q, id, m),
           NEW p, NEW h, Reading(h, p, q, id, m)
    PROVE  h[Len(q)].x = p.x
<1> DEFINE P == {b \in Belief : b.x = p.x}
<1>1. /\ 0 \in 0..Len(q) /\ Len(q) \in 0..Len(q) /\ h[0] \in P
      /\ \A e \in ToSet(q) : e.v \in Values
  BY ReadingShape, Elements DEF Notifications
<1>2. ASSUME NEW e \in ToSet(q), NEW b \in Belief, b \in P PROVE Reads(b, e, id, m) \in P
  <2>1. Reads(b, e, id, m) \in Belief
    BY <1>1, LearnsType
  <2>2. IsSelfAlreadySent(e, id) \/ e.o # m
    BY DEF Quiet, Tells
  <2>3. Reads(b, e, id, m).x = b.x
    BY <2>2, LearnsValue DEF Reads
  <2> QED
    BY <1>2, <2>1, <2>3
<1> HIDE DEF P
<1>3. \A i \in 0..Len(q) : h[i] \in P
  BY <1>1, <1>2, KeptFrom
<1>4. h[Len(q)] \in P
  BY <1>1, <1>3
<1> QED
  BY <1>4 DEF P

\* So what the client believes of m now is all that counts.
LEMMA QuietNow ==
    ASSUME NEW q \in Seq(Notifications), NEW id, NEW m \in Mains, Quiet(q, id, m),
           NEW p \in Belief, NEW e0, e0.t = "idle", NEW x, Foresees(p, q, e0, id, m, x)
    PROVE  p.x = x
<1>1. PICK h : Reading(h, p, q, id, m)
  BY ReadingExists
<1>2. h[Len(q)].x = p.x /\ h[Len(q)] \in Belief
  BY <1>1, QuietReading, ReadingShape
<1>3. Reads(h[Len(q)], e0, id, m) = h[Len(q)]
  BY <1>2, LearnsValue DEF Reads
<1> QED
  BY <1>1, <1>2, <1>3 DEF Foresees

LEMMA QuietThen ==
    ASSUME NEW q \in Seq(Notifications), NEW id, NEW m \in Mains, Quiet(q, id, m),
           NEW p, NEW e0, e0.t = "idle" \/ ~ Tells(e0, id, m)
    PROVE  Foresees(p, q, e0, id, m, p.x)
<1> SUFFICES ASSUME NEW h, Reading(h, p, q, id, m) PROVE Reads(h[Len(q)], e0, id, m).x = p.x
  BY DEF Foresees
<1>1. h[Len(q)].x = p.x /\ h[Len(q)] \in Belief
  BY QuietReading, ReadingShape
<1> QED
  BY <1>1, LearnsValue DEF Reads, Tells

\* The value of m does not depend on the away flag.
LEMMA SameValueForeseen ==
    ASSUME NEW q \in Seq(Notifications), NEW id, NEW m \in Mains, NEW p \in Belief,
           NEW r \in Belief, r.x = p.x, NEW e0, Later(e0), NEW x, Foresees(p, q, e0, id, m, x)
    PROVE  Foresees(r, q, e0, id, m, x)
<1> SUFFICES ASSUME NEW h, Reading(h, r, q, id, m) PROVE Reads(h[Len(q)], e0, id, m).x = x
  BY DEF Foresees
<1>1. PICK g : Reading(g, p, q, id, m)
  BY ReadingExists
<1> DEFINE R == {s \in Belief \X Belief : s[1].x = s[2].x}
<1>2. ASSUME NEW e, e.v \in Values, NEW b \in Belief, NEW c \in Belief, <<b, c>> \in R
      PROVE  <<Reads(b, e, id, m), Reads(c, e, id, m)>> \in R
  <2>1. Reads(b, e, id, m) \in Belief /\ Reads(c, e, id, m) \in Belief
    BY <1>2, LearnsType
  <2>2. b.x = c.x
    BY <1>2
  <2>3. Learns(b, e, m).x = Learns(c, e, m).x
    BY <2>2 DEF Learns
  <2>4. Reads(b, e, id, m).x = Reads(c, e, id, m).x
    BY <2>2, <2>3 DEF Reads
  <2> QED
    BY <2>1, <2>4
<1>3. \A e \in ToSet(q) : e.v \in Values
  BY Elements DEF Notifications
<1>4. <<r, p>> \in R
  OBVIOUS
<1> HIDE DEF R
<1>5. <<h[Len(q)], g[Len(q)]>> \in R
  BY <1>1, <1>2, <1>3, <1>4, KeptBoth
<1>6. h[Len(q)] \in Belief /\ g[Len(q)] \in Belief
  BY <1>1, ReadingShape
<1>7. <<Reads(h[Len(q)], e0, id, m), Reads(g[Len(q)], e0, id, m)>> \in R
  BY <1>2, <1>5, <1>6 DEF Later
<1> QED
  BY <1>1, <1>7 DEF R, Foresees

\* The client is told the flag of m as it is; if it does not know m, it ignores that.
LEMMA FlagAnswered ==
    ASSUME NEW q \in Seq(Notifications), NEW id, NEW m \in Mains, m[1] = "client",
           NEW p \in Belief, NEW r \in Belief, r.x = p.x,
           NEW e0, e0.t = "idle", e0.v \in Values,
           NEW x \in Values, Foresees(p, q, e0, id, m, x),
           NEW y \in Values, ForeseesAway(p, q, e0, id, m, y), x = 0 => y = 0,
           r.y = (IF p.x = 0 THEN 0 ELSE y)
    PROVE  ForeseesAway(r, q, e0, id, m, y)
<1>0. Later(e0)
  BY DEF Later
<1> SUFFICES ASSUME NEW h, Reading(h, r, q, id, m)
             PROVE  Reads(h[Len(q)], e0, id, m).y \in {-1, y}
  BY DEF ForeseesAway
<1>1. PICK g : Reading(g, p, q, id, m)
  BY ReadingExists
<1> DEFINE R == {s \in Belief \X Belief :
                     /\ s[1].x = s[2].x
                     /\ s[1].y = s[2].y \/ (s[1].y = r.y /\ (p.x = 0 => s[1].x = 0))}
<1>2. ASSUME NEW e \in Notifications, NEW b \in Belief, NEW c \in Belief, <<b, c>> \in R
      PROVE  <<Reads(b, e, id, m), Reads(c, e, id, m)>> \in R
  <2>1. Reads(b, e, id, m) \in Belief /\ Reads(c, e, id, m) \in Belief
    BY <1>2, LearnsType DEF Notifications
  <2>2. b.x = c.x /\ (b.y = c.y \/ (b.y = r.y /\ (p.x = 0 => b.x = 0)))
    BY <1>2
  <2>3. CASE IsSelfAlreadySent(e, id)
    BY <1>2, <2>3 DEF Reads
  <2>4. CASE ~ IsSelfAlreadySent(e, id)
    <3>1. Reads(b, e, id, m) = Learns(b, e, m) /\ Reads(c, e, id, m) = Learns(c, e, m)
      BY <2>4 DEF Reads
    <3>2. Learns(b, e, m).x = Learns(c, e, m).x
      BY <2>2 DEF Learns
    <3>3. CASE e.o = m /\ e.t \in {"enter", "left"}
      <4>1. Learns(b, e, m).y = Learns(c, e, m).y
        BY <3>3, LearnsFlag
      <4> QED
        BY <2>1, <3>1, <3>2, <4>1
    <3>4. CASE e.o = Away(m[2]) /\ e.t = "update"
      <4>1. Learns(b, e, m).y = Learns(c, e, m).y
        BY <2>2, <3>4, LearnsFlag
      <4> QED
        BY <2>1, <3>1, <3>2, <4>1
    <3>5. CASE ~ (e.o = m /\ e.t \in {"enter", "left"}) /\ ~ (e.o = Away(m[2]) /\ e.t = "update")
      <4>1. Learns(b, e, m).y = b.y /\ Learns(c, e, m).y = c.y
        BY <3>5, LearnsFlag
      <4>2. b.x = 0 => Learns(b, e, m).x = 0
        <5>1. e.o = m => e.t = "moved"
          BY <3>5, MainEvents
        <5> QED
          BY <5>1, LearnsValue
      <4> QED
        BY <2>1, <2>2, <3>1, <3>2, <4>1, <4>2
    <3> QED
      BY <3>3, <3>4, <3>5
  <2> QED
    BY <2>3, <2>4
<1>3. \A e \in ToSet(q) : e \in Notifications
  BY Elements
<1>4. <<r, p>> \in R
  OBVIOUS
<1> HIDE DEF R
<1>5. <<h[Len(q)], g[Len(q)]>> \in R
  BY <1>1, <1>2, <1>3, <1>4, KeptBoth
<1>6. h[Len(q)] \in Belief /\ g[Len(q)] \in Belief
  BY <1>1, ReadingShape
<1>7. /\ Reads(h[Len(q)], e0, id, m) = h[Len(q)] /\ Reads(g[Len(q)], e0, id, m) = g[Len(q)]
  BY <1>6, LearnsValue DEF Reads
<1>8. g[Len(q)].x = x /\ g[Len(q)].y \in {-1, y}
  BY <1>1, <1>7 DEF Foresees, ForeseesAway
<1>9. /\ h[Len(q)].x = g[Len(q)].x
      /\ h[Len(q)].y = g[Len(q)].y \/ (h[Len(q)].y = r.y /\ (p.x = 0 => h[Len(q)].x = 0))
  BY <1>5 DEF R
<1> QED
  BY <1>7, <1>8, <1>9

\* The client is told where m is; nothing else that it has yet to read says so.
LEMMA MoveAnswered ==
    ASSUME NEW q \in Seq(Notifications), NEW id, NEW m \in Mains, Quiet(q, id, m),
           NEW p \in Belief, NEW r \in Belief, r.y = p.y, r.x = 0 <=> p.x = 0,
           NEW e0, Later(e0), NEW e1, Later(e1), NEW y, ForeseesAway(p, q, e0, id, m, y)
    PROVE  ForeseesAway(r, q, e1, id, m, y)
<1> SUFFICES ASSUME NEW h, Reading(h, r, q, id, m)
             PROVE  Reads(h[Len(q)], e1, id, m).y \in {-1, y}
  BY DEF ForeseesAway
<1>1. PICK g : Reading(g, p, q, id, m)
  BY ReadingExists
<1> DEFINE R == {s \in Belief \X Belief : s[1].y = s[2].y /\ (s[1].x = 0 <=> s[2].x = 0)}
<1>2. ASSUME NEW e \in ToSet(q), NEW b \in Belief, NEW c \in Belief, <<b, c>> \in R
      PROVE  <<Reads(b, e, id, m), Reads(c, e, id, m)>> \in R
  <2>0. e.v \in Values
    BY Elements DEF Notifications
  <2>1. Reads(b, e, id, m) \in Belief /\ Reads(c, e, id, m) \in Belief
    BY <2>0, LearnsType
  <2>2. b.y = c.y /\ (b.x = 0 <=> c.x = 0)
    BY <1>2
  <2>3. CASE IsSelfAlreadySent(e, id)
    BY <1>2, <2>3 DEF Reads
  <2>4. CASE ~ IsSelfAlreadySent(e, id)
    <3>1. Reads(b, e, id, m) = Learns(b, e, m) /\ Reads(c, e, id, m) = Learns(c, e, m)
      BY <2>4 DEF Reads
    <3>2. e.o # m
      BY <2>4 DEF Quiet, Tells
    <3>3. Learns(b, e, m).x = b.x /\ Learns(c, e, m).x = c.x
      BY <3>2, LearnsValue
    <3>4. Learns(b, e, m).y = Learns(c, e, m).y
      BY <2>2 DEF Learns
    <3> QED
      BY <2>1, <2>2, <3>1, <3>3, <3>4
  <2> QED
    BY <2>3, <2>4
<1>3. <<r, p>> \in R
  OBVIOUS
<1> HIDE DEF R
<1>5. <<h[Len(q)], g[Len(q)]>> \in R
  BY <1>1, <1>2, <1>3, KeptBoth
<1>6. h[Len(q)] \in Belief /\ g[Len(q)] \in Belief
  BY <1>1, ReadingShape
<1>7. Reads(h[Len(q)], e1, id, m).y = h[Len(q)].y /\ Reads(g[Len(q)], e0, id, m).y = g[Len(q)].y
  BY <1>6, LaterKeepsFlag
<1>8. g[Len(q)].y \in {-1, y}
  BY <1>1, <1>7 DEF ForeseesAway
<1> QED
  BY <1>5, <1>7, <1>8 DEF R

-----------------------------------------------------------------------------
(* What a client sees, and what it will see.                               *)

SeenIn(v, m) == [x |-> v[m], y |-> IF m[1] = "client" THEN v[Away(m[2])] ELSE 0]

\* What the task will send at the end of the command that it is in the middle of.
Pending == Event(IF task.stage = "vacate" THEN "deleted" ELSE task.stage, task.o, task.v,
                 sess[task.addr].id)

\* The client that gave the command is answered before it reads anything else.
Knows(a, m) == IF task.addr = a THEN Learns(SeenIn(view[a], m), Pending, m) ELSE SeenIn(view[a], m)

Foreseen(a, m) ==
    m \notin excused[a] =>
        /\ Foresees(Knows(a, m), queue, Pending, sess[a].id, m, Value(channels, where, away, m))
        /\ m[1] = "client" /\ Away(m[2]) \notin excused[a] =>
              ForeseesAway(Knows(a, m), queue, Pending, sess[a].id, m,
                           Value(channels, where, away, Away(m[2])))

Sees(a) == Listening(a) => \A m \in Mains : Foreseen(a, m)

ViewsSeen ==
    /\ view \in [Addrs -> Views]
    /\ task.stage = "vacate" => task.v = 0
    /\ \A a \in Addrs : Sees(a)

SeesInv == ViewInv /\ ViewsSeen

\* About a client, the notifications name its flag, too.
LEMMA NotificationShape ==
    ASSUME NEW e \in Notifications
    PROVE  /\ e.o \in Objects /\ e.v \in Values /\ e.t \in Types /\ e.by \in 0..Invoker
           /\ e.t \in {"enter", "left", "moved"} =>
                 e.o \in Mains /\ e.o = Client(e.o[2]) /\ Away(e.o[2]) \in Objects /\ e.o[2] \in Clients
           /\ e.t = "update" => e.o = Away(e.o[2]) /\ Client(e.o[2]) \in Mains /\ e.o[2] \in Clients
           /\ e.t \in {"created", "edited", "deleted"} => e.o \in Mains /\ e.o[1] = "channel"
<1>1. e.o \in Objects /\ e.v \in Values /\ e.t \in Types /\ e.by \in 0..Invoker /\ e.o[1] = About(e.t)
  BY DEF Notifications
<1>2. CASE e.t \in {"enter", "left", "moved"}
  <2>1. e.o[1] = "client"
    BY <1>1, <1>2 DEF About
  <2> QED
    BY <1>1, <1>2, <2>1, ObjectShape DEF Mains
<1>3. CASE e.t = "update"
  <2>1. e.o[1] = "away"
    BY <1>1, <1>3 DEF About
  <2> QED
    BY <1>1, <1>3, <2>1, ObjectShape DEF Mains
<1>4. CASE e.t \in {"created", "edited", "deleted"}
  <2>1. e.o[1] = "channel"
    BY <1>1, <1>4 DEF About
  <2> QED
    BY <1>1, <1>4, <2>1, ObjectShape DEF Mains
<1> QED
  BY <1>1, <1>2, <1>3, <1>4 DEF Types

LEMMA SeenType ==
    ASSUME NEW v \in Views, NEW m \in Mains
    PROVE  SeenIn(v, m) \in Belief
BY MainShape, Numbers DEF Views, SeenIn, Belief, Values

LEMMA ApplyType ==
    ASSUME ViewTables, NEW v \in Views, NEW e \in Notifications
    PROVE  Apply(v, e) \in Views
<1>1. \A o \in Objects : Value(channels, where, away, o) \in Values
  BY ValueType DEF ViewTables
<1>2. 0 \in Values
  BY Numbers DEF Values
<1>3. e.o \in Objects /\ e.v \in Values
  BY NotificationShape
<1>4. CASE e.t = "enter"
  BY <1>1, <1>3, <1>4, NotificationShape DEF Apply, Views
<1>5. CASE e.t = "left"
  BY <1>2, <1>3, <1>5, NotificationShape DEF Apply, Views
<1>6. CASE e.t \in {"moved", "edited"}
  BY <1>2, <1>3, <1>6 DEF Apply, Views
<1>7. CASE e.t = "update"
  BY <1>2, <1>3, <1>7 DEF Apply, Views
<1>8. CASE e.t \notin {"enter", "left", "moved", "edited", "update"}
  BY <1>3, <1>8 DEF Apply, Views
<1> QED
  BY <1>4, <1>5, <1>6, <1>7, <1>8

\* A client that is sent e learns it; a flag that goes with an entry is read
\* from the tables.
LEMMA ApplyLearns ==
    ASSUME NEW v \in Views, NEW e \in Notifications, NEW m \in Mains
    PROVE  /\ Apply(v, e)[m] = Learns(SeenIn(v, m), e, m).x
           /\ m[1] = "client" =>
                 \/ Apply(v, e)[Away(m[2])] = Learns(SeenIn(v, m), e, m).y
                 \/ /\ e.o = m /\ e.t = "enter" /\ Learns(SeenIn(v, m), e, m).y = -1
                    /\ Apply(v, e)[Away(m[2])] = Value(channels, where, away, Away(m[2]))
<1>1. /\ m \in Objects
      /\ m[1] = "client" => Away(m[2]) \in Objects /\ m = Client(m[2])
      /\ \A k : m # Away(k)
      /\ \A j, k : (Away(j) = Away(k) => j = k) /\ (Client(j) = Client(k) => j = k) /\ Client(j) # Away(k)
      /\ \A k : Client(k)[2] = k
  BY MainShape DEF Away, Client
<1>2. \A w : v \in [Objects -> Values] /\ e.o \in Objects
  BY NotificationShape DEF Views
<1>3. SeenIn(v, m).x = v[m] /\ (m[1] = "client" => SeenIn(v, m).y = v[Away(m[2])])
  BY DEF SeenIn
<1>4. CASE e.t = "enter"
  <2>1. e.o = Client(e.o[2]) /\ Away(e.o[2]) \in Objects
    BY <1>4, NotificationShape
  <2>2. Apply(v, e) = [v EXCEPT ![e.o] = e.v, ![Away(e.o[2])] = Value(channels, where, away, Away(e.o[2]))]
    BY <1>4 DEF Apply
  <2>3. CASE e.o = m
    <3>1. Learns(SeenIn(v, m), e, m) = [x |-> e.v, y |-> -1]
      BY <1>4, <2>3 DEF Learns
    <3> QED
      BY <1>1, <1>2, <1>4, <2>1, <2>2, <2>3, <3>1
  <2>4. CASE e.o # m
    <3>1. Learns(SeenIn(v, m), e, m) = SeenIn(v, m)
      BY <1>4, <2>4 DEF Learns
    <3>2. m[1] = "client" => Away(m[2]) # Away(e.o[2])
      BY <1>1, <2>1, <2>4
    <3>3. Apply(v, e)[m] = v[m] /\ (m[1] = "client" => Apply(v, e)[Away(m[2])] = v[Away(m[2])])
      BY <1>1, <1>2, <2>1, <2>2, <2>4, <3>2
    <3> QED
      BY <1>3, <3>1, <3>3
  <2> QED
    BY <2>3, <2>4
<1>5. CASE e.t = "left"
  <2>1. e.o = Client(e.o[2]) /\ Away(e.o[2]) \in Objects
    BY <1>5, NotificationShape
  <2>2. Apply(v, e) = [v EXCEPT ![e.o] = 0, ![Away(e.o[2])] = 0]
    BY <1>5 DEF Apply
  <2>3. CASE e.o = m
    <3>1. Learns(SeenIn(v, m), e, m) = [x |-> 0, y |-> 0]
      BY <1>5, <2>3 DEF Learns
    <3> QED
      BY <1>1, <1>2, <1>5, <2>1, <2>2, <2>3, <3>1
  <2>4. CASE e.o # m
    <3>1. Learns(SeenIn(v, m), e, m) = SeenIn(v, m)
      BY <1>5, <2>4 DEF Learns
    <3>2. m[1] = "client" => Away(m[2]) # Away(e.o[2])
      BY <1>1, <2>1, <2>4
    <3>3. Apply(v, e)[m] = v[m] /\ (m[1] = "client" => Apply(v, e)[Away(m[2])] = v[Away(m[2])])
      BY <1>1, <1>2, <2>1, <2>2, <2>4, <3>2
    <3> QED
      BY <1>3, <3>1, <3>3
  <2> QED
    BY <2>3, <2>4
<1>6. CASE e.t = "update"
  <2>1. e.o = Away(e.o[2]) /\ Client(e.o[2]) \in Mains
    BY <1>6, NotificationShape
  <2>2. Apply(v, e) = [v EXCEPT ![e.o] = IF v[Client(e.o[2])] = 0 THEN 0 ELSE e.v]
    BY <1>6 DEF Apply
  <2>3. Apply(v, e)[m] = v[m] /\ e.o # m
    BY <1>1, <1>2, <2>1, <2>2
  <2>4. CASE m[1] = "client" /\ e.o = Away(m[2])
    <3>1. Learns(SeenIn(v, m), e, m) = [x |-> v[m], y |-> IF v[m] = 0 THEN 0 ELSE e.v]
      BY <1>3, <1>6, <2>3, <2>4 DEF Learns
    <3>2. Client(e.o[2]) = m
      BY <1>1, <2>1, <2>4
    <3>3. Apply(v, e)[Away(m[2])] = IF v[m] = 0 THEN 0 ELSE e.v
      BY <1>2, <2>2, <2>4, <3>2
    <3> QED
      BY <2>3, <3>1, <3>3
  <2>5. CASE ~ (m[1] = "client" /\ e.o = Away(m[2]))
    <3>1. Learns(SeenIn(v, m), e, m) = SeenIn(v, m)
      BY <1>6, <2>3, <2>5 DEF Learns
    <3>2. m[1] = "client" => Apply(v, e)[Away(m[2])] = v[Away(m[2])]
      BY <1>1, <1>2, <2>2, <2>5
    <3> QED
      BY <1>3, <2>3, <3>1, <3>2
  <2> QED
    BY <2>4, <2>5
<1>7. CASE e.t \in {"moved", "edited"}
  <2>1. Apply(v, e) = [v EXCEPT ![e.o] = IF @ = 0 THEN 0 ELSE e.v] /\ \A k : e.o # Away(k)
    BY <1>7, NotificationShape, MainShape DEF Apply
  <2>2. Apply(v, e)[m] = IF e.o = m THEN (IF v[m] = 0 THEN 0 ELSE e.v) ELSE v[m]
    BY <1>1, <1>2, <2>1
  <2>3. m[1] = "client" => Apply(v, e)[Away(m[2])] = v[Away(m[2])]
    BY <1>1, <1>2, <2>1
  <2>4. Learns(SeenIn(v, m), e, m) =
          IF e.o = m THEN [x |-> IF v[m] = 0 THEN 0 ELSE e.v, y |-> SeenIn(v, m).y] ELSE SeenIn(v, m)
    BY <1>3, <1>7 DEF Learns
  <2> QED
    BY <1>3, <2>2, <2>3, <2>4
<1>8. CASE e.t \in {"created", "deleted"}
  <2>1. Apply(v, e) = [v EXCEPT ![e.o] = e.v] /\ \A k : e.o # Away(k)
    BY <1>8, NotificationShape, MainShape DEF Apply
  <2>2. Apply(v, e)[m] = IF e.o = m THEN e.v ELSE v[m]
    BY <1>1, <1>2, <2>1
  <2>3. m[1] = "client" => Apply(v, e)[Away(m[2])] = v[Away(m[2])]
    BY <1>1, <1>2, <2>1
  <2>4. Learns(SeenIn(v, m), e, m) =
          IF e.o = m THEN [x |-> e.v, y |-> SeenIn(v, m).y] ELSE SeenIn(v, m)
    BY <1>8 DEF Learns
  <2> QED
    BY <1>3, <2>2, <2>3, <2>4
<1> QED
  BY <1>4, <1>5, <1>6, <1>7, <1>8, NotificationShape DEF Types

\* f is what becomes of view v with each of the notifications es that is in sent.
Applies(f, v, es, sent) ==
    /\ f \in [0..Len(es) -> Views] /\ f[0] = v
    /\ \A i \in 1..Len(es) : f[i] = IF es[i] \in sent THEN Apply(f[i-1], es[i]) ELSE f[i-1]

\* What is sent of a list, one notification after the other.
LEMMA AppliedInTurn ==
    ASSUME ViewTables, NEW v \in Views, NEW es \in Seq(Notifications), NEW sent
    PROVE  \E f : Applies(f, v, es, sent) /\ ApplyAll(v, es, sent) = f[Len(es)]
<1> DEFINE n == Len(es)
           F == [s \in Views \X (1..n) |->
                    IF es[s[2]] \in sent THEN Apply(s[1], es[s[2]]) ELSE s[1]]
           Step(after, i) == IF i = 0 THEN v
                             ELSE IF es[i] \in sent THEN Apply(after[i-1], es[i]) ELSE after[i-1]
<1>1. n \in Nat /\ \A i \in 1..n : es[i] \in Notifications
  BY LenProperties, ElementOfSeq
<1>2. \A w \in Views, i \in 1..n : (IF es[i] \in sent THEN Apply(w, es[i]) ELSE w) \in Views
  BY <1>1, ApplyType
<1>3. F \in [Views \X (1..n) -> Views]
  BY <1>2
<1>4. \A w \in Views, i \in 1..n : F[<<w, i>>] = IF es[i] \in sent THEN Apply(w, es[i]) ELSE w
  OBVIOUS
<1> HIDE DEF F
<1>5. PICK g : Recurs(g, Views, v, n, F)
  BY <1>1, <1>3, Recursion
<1>6. g \in [0..n -> Views] /\ g[0] = v /\ \A i \in 1..n : g[i] = F[<<g[i-1], i>>]
  BY <1>5 DEF Recurs
<1>7. ASSUME NEW i \in 1..n
      PROVE  g[i] = IF es[i] \in sent THEN Apply(g[i-1], es[i]) ELSE g[i-1]
  <2>1. i - 1 \in 0..n
    BY <1>1
  <2> QED
    BY <1>4, <1>6, <2>1
<1>8. g = [i \in 0..n |-> Step(g, i)]
  <2>1. \A i \in 0..n : i # 0 => i \in 1..n
    BY <1>1
  <2>2. \A i \in 0..n : g[i] = Step(g, i)
    BY <1>6, <1>7, <2>1
  <2> QED
    BY <1>6, <2>2
<1> DEFINE rec == CHOOSE after : after = [i \in 0..n |-> Step(after, i)]
<1>9. rec = [i \in 0..n |-> Step(rec, i)]
  BY <1>8
<1>10. ApplyAll(v, es, sent) = rec[n]
  BY DEF ApplyAll
<1> HIDE DEF rec
<1>11. rec[0] = v /\ \A i \in 1..n : rec[i] = IF es[i] \in sent THEN Apply(rec[i-1], es[i]) ELSE rec[i-1]
  <2>1. 0 \in 0..n /\ \A i \in 1..n : i \in 0..n /\ i # 0
    BY <1>1
  <2>2. \A i \in 0..n : rec[i] = Step(rec, i)
    BY <1>9
  <2> QED
    BY <2>1, <2>2
<1>12. \A i \in 0..n : rec[i] = g[i]
  <2> DEFINE bad == {i \in Nat : i \in 0..n /\ rec[i] # g[i]}
  <2>1. ASSUME bad # {} PROVE FALSE
    <3>1. PICK x \in bad : \A y \in bad : x <= y
      <4>1. bad \in SUBSET Nat
        OBVIOUS
      <4> HIDE DEF bad
      <4> QED
        BY <2>1, <4>1, LeastOf
    <3>2. x \in Nat /\ x \in 0..n /\ rec[x] # g[x] /\ x # 0
      BY <1>6, <1>11, <3>1
    <3>3. x \in 1..n /\ x - 1 \in Nat /\ x - 1 \in 0..n /\ x - 1 \notin bad
      BY <1>1, <3>1, <3>2
    <3>4. rec[x-1] = g[x-1]
      BY <3>3
    <3> QED
      BY <1>7, <1>11, <3>2, <3>3, <3>4
  <2>2. \A i \in 0..n : i \in Nat
    BY <1>1
  <2> QED
    BY <2>1, <2>2
<1>13. n \in 0..n
  BY <1>1
<1> HIDE DEF n
<1>14. ApplyAll(v, es, sent) = g[n]
  BY <1>10, <1>12, <1>13
<1>15. Applies(g, v, es, sent)
  BY <1>6, <1>7 DEF n, Applies
<1> QED
  BY <1>14, <1>15 DEF n

-----------------------------------------------------------------------------
(* The notification of the task itself.                                    *)

LEMMA PendingFacts ==
    ASSUME SeesInv
    PROVE  /\ Later(Pending)
           /\ task = Idle => Pending.t = "idle"
           /\ task # Idle =>
                 /\ Pending \in Notifications /\ Pending.o = task.o /\ Pending.v = task.v
                 /\ Pending.by = sess[task.addr].id /\ task.addr \in Addrs
                 /\ Pending.t = IF task.stage = "vacate" THEN "deleted" ELSE task.stage
                 /\ Pending.t \in {"created", "edited", "deleted", "moved"}
<1>1. PICK t : t = IF task.stage = "vacate" THEN "deleted" ELSE task.stage
  OBVIOUS
<1>2. Pending.t = t /\ Pending.o = task.o /\ Pending.v = task.v /\ Pending.by = sess[task.addr].id
  BY <1>1, EventFields DEF Pending
<1>3. CASE task = Idle
  <2>1. task.stage = "idle" /\ task.v = 0 /\ 0 \in Values
    BY <1>3, Numbers DEF Idle, Values
  <2> QED
    BY <1>1, <1>2, <1>3, <2>1 DEF Later
<1>4. CASE task # Idle
  <2>1. /\ task \in Job /\ Listening(task.addr)
        /\ task.o[1] = IF task.stage = "moved" THEN "client" ELSE "channel"
    BY <1>4 DEF SeesInv, ViewInv, TaskOK
  <2>2. /\ task.stage \in {"created", "edited", "deleted", "moved", "vacate"}
        /\ task.addr \in Addrs /\ task.o \in Objects /\ task.v \in Values
    BY <2>1 DEF Job, Stages
  <2>3. t \in {"created", "edited", "deleted", "moved"}
    BY <1>1, <2>2
  <2>4. sess[task.addr].id \in 0..Invoker
    BY <2>2, Numbers DEF SeesInv, ViewInv, SessionsOK, Session
  <2>5. t \in Types /\ task.o[1] = About(t)
    BY <1>1, <2>1, <2>2, <2>3 DEF Types, About
  <2>6. Pending \in Notifications
    BY <1>1, <2>2, <2>4, <2>5, EventIsNotification DEF Pending
  <2> QED
    BY <1>1, <1>2, <1>4, <2>2, <2>3, <2>6 DEF Later
<1> QED
  BY <1>3, <1>4

LEMMA KnowsType ==
    ASSUME SeesInv, NEW b \in Addrs, NEW m \in Mains
    PROVE  SeenIn(view[b], m) \in Belief /\ Knows(b, m) \in Belief
<1>1. SeenIn(view[b], m) \in Belief
  BY SeenType DEF SeesInv, ViewsSeen
<1>2. PICK e, p : e = Pending /\ p = SeenIn(view[b], m)
  OBVIOUS
<1>3. e.v \in Values
  BY <1>2, PendingFacts DEF Later
<1>4. Learns(p, e, m) \in Belief
  BY <1>1, <1>2, <1>3, LearnsType
<1> QED
  BY <1>1, <1>2, <1>4 DEF Knows

\* Between two commands, a client knows what it was sent.
LEMMA IdleKnows ==
    ASSUME NEW b \in Addrs, NEW m \in Mains, SeesInv, task = Idle
    PROVE  Knows(b, m) = SeenIn(view[b], m)
<1>1. PICK e, p : e = Pending /\ p = SeenIn(view[b], m) /\ p \in Belief /\ e.t = "idle"
  BY KnowsType, PendingFacts
<1>2. Learns(p, e, m) = p
  BY <1>1, LearnsValue
<1> QED
  BY <1>1, <1>2 DEF Knows

\* The others do not see it before it is queued.
LEMMA OthersKnow ==
    ASSUME NEW b \in Addrs, NEW m \in Mains, SeesInv, task.addr # b
    PROVE  Knows(b, m) = SeenIn(view[b], m)
BY DEF Knows

\* A notification that the client does not read, or that is not of m.
Unread(e, id, m) == e.t = "idle" \/ ~ Tells(e, id, m)

LEMMA UnreadForeseen ==
    ASSUME NEW q \in Seq(Notifications), NEW p, NEW id, NEW m \in Mains,
           NEW e0, Unread(e0, id, m), NEW e1, Unread(e1, id, m), NEW x, Foresees(p, q, e0, id, m, x)
    PROVE  Foresees(p, q, e1, id, m, x)
<1> SUFFICES ASSUME NEW h, Reading(h, p, q, id, m) PROVE Reads(h[Len(q)], e1, id, m).x = x
  BY DEF Foresees
<1>1. PICK b : b = h[Len(q)] /\ b \in Belief
  BY ReadingShape
<1>2. Reads(b, e0, id, m).x = x
  BY <1>1 DEF Foresees
<1>3. ASSUME NEW e, Unread(e, id, m) PROVE Reads(b, e, id, m).x = b.x
  BY <1>1, <1>3, LearnsValue DEF Unread, Tells, Reads
<1> QED
  BY <1>1, <1>2, <1>3

LEMMA LaterAway ==
    ASSUME NEW q \in Seq(Notifications), NEW p, NEW id, NEW m \in Mains,
           NEW e0, Later(e0), NEW e1, Later(e1), NEW y, ForeseesAway(p, q, e0, id, m, y)
    PROVE  ForeseesAway(p, q, e1, id, m, y)
<1> SUFFICES ASSUME NEW h, Reading(h, p, q, id, m) PROVE Reads(h[Len(q)], e1, id, m).y \in {-1, y}
  BY DEF ForeseesAway
<1>1. PICK b : b = h[Len(q)] /\ b \in Belief
  BY ReadingShape
<1>2. Reads(b, e0, id, m).y \in {-1, y}
  BY <1>1 DEF ForeseesAway
<1>3. Reads(b, e0, id, m).y = b.y /\ Reads(b, e1, id, m).y = b.y
  BY <1>1, LaterKeepsFlag
<1> QED
  BY <1>1, <1>2, <1>3

\* Only one thing can be made of what waits.
LEMMA SameReading ==
    ASSUME NEW q \in Seq(Notifications), NEW id, NEW m, NEW p, NEW h, Reading(h, p, q, id, m),
           NEW g, Reading(g, p, q, id, m)
    PROVE  h[Len(q)] = g[Len(q)]
<1> DEFINE R == {s \in Belief \X Belief : s[1] = s[2]}
<1>1. p \in Belief /\ <<p, p>> \in R
  BY ReadingShape
<1>2. ASSUME NEW e \in ToSet(q), NEW b \in Belief, NEW c \in Belief, <<b, c>> \in R
      PROVE  <<Reads(b, e, id, m), Reads(c, e, id, m)>> \in R
  <2>1. e.v \in Values /\ b = c
    BY <1>2, Elements DEF Notifications
  <2>2. Reads(b, e, id, m) \in Belief
    BY <2>1, LearnsType
  <2> QED
    BY <2>1, <2>2
<1> HIDE DEF R
<1>3. <<h[Len(q)], g[Len(q)]>> \in R
  BY <1>1, <1>2, KeptBoth
<1> QED
  BY <1>3 DEF R

\* It is the same whether e waits at the end of the queue or comes after it.
LEMMA ReadLast ==
    ASSUME NEW q \in Seq(Notifications), NEW p \in Belief, NEW id, NEW m \in Mains,
           NEW e \in Notifications, NEW h, Reading(h, p, q \o <<e>>, id, m),
           NEW g, Reading(g, p, q, id, m)
    PROVE  h[Len(q \o <<e>>)] = Reads(g[Len(q)], e, id, m)
<1>1. PICK es : es = <<e>> /\ es \in Seq(Notifications)
  BY Single
<1>2. PICK k, f, c : /\ Reading(k, p, q, id, m) /\ c = k[Len(q)] /\ c \in Belief
                     /\ Reading(f, c, es, id, m) /\ h[Len(q \o es)] = f[Len(es)]
  BY <1>1, SplitReading
<1>3. k[Len(q)] = g[Len(q)]
  BY <1>2, SameReading
<1>4. f[Len(es)] = Reads(c, e, id, m)
  BY <1>1, <1>2, ReadOne
<1> QED
  BY <1>1, <1>2, <1>3, <1>4

LEMMA Queued ==
    ASSUME NEW q \in Seq(Notifications), NEW p \in Belief, NEW id, NEW m \in Mains,
           NEW e \in Notifications, NEW e0, e0.t = "idle"
    PROVE  /\ \A x : Foresees(p, q \o <<e>>, e0, id, m, x) <=> Foresees(p, q, e, id, m, x)
           /\ \A y : ForeseesAway(p, q \o <<e>>, e0, id, m, y) <=> ForeseesAway(p, q, e, id, m, y)
<1>1. q \o <<e>> \in Seq(Notifications)
  BY Single, Joined
<1>2. PICK h : Reading(h, p, q \o <<e>>, id, m)
  BY <1>1, ReadingExists
<1>3. PICK g : Reading(g, p, q, id, m)
  BY ReadingExists
<1>4. PICK u : u = q \o <<e>> /\ u \in Seq(Notifications) /\ Reading(h, p, u, id, m)
  BY <1>1, <1>2
<1>5. PICK b, c : b = h[Len(u)] /\ c = g[Len(q)] /\ b = Reads(c, e, id, m) /\ b \in Belief
  <2>1. h[Len(u)] \in Belief
    BY <1>1, <1>2, <1>4, ReadingShape
  <2> QED
    BY <1>2, <1>3, <1>4, <2>1, ReadLast
<1>6. Reads(b, e0, id, m) = b
  BY <1>5, LearnsValue DEF Reads
<1>7. \A k : Reading(k, p, u, id, m) => k[Len(u)] = b
  <2> SUFFICES ASSUME NEW k, Reading(k, p, u, id, m) PROVE k[Len(u)] = h[Len(u)]
    BY <1>5
  <2>1. u \in Seq(Notifications) /\ Reading(h, p, u, id, m)
    BY <1>4
  <2> QED
    BY <2>1, SameReading, Zenon
<1>8. \A k : Reading(k, p, q, id, m) => k[Len(q)] = c
  BY <1>3, <1>5, SameReading
<1>9. \A x : Foresees(p, u, e0, id, m, x) <=> b.x = x
  BY <1>2, <1>4, <1>6, <1>7 DEF Foresees
<1>10. \A x : Foresees(p, q, e, id, m, x) <=> b.x = x
  BY <1>3, <1>5, <1>8 DEF Foresees
<1>11. \A y : ForeseesAway(p, u, e0, id, m, y) <=> b.y \in {-1, y}
  BY <1>2, <1>4, <1>6, <1>7 DEF ForeseesAway
<1>12. \A y : ForeseesAway(p, q, e, id, m, y) <=> b.y \in {-1, y}
  BY <1>3, <1>5, <1>8 DEF ForeseesAway
<1> QED
  BY <1>4, <1>9, <1>10, <1>11, <1>12

-----------------------------------------------------------------------------
(* The tables change, and notifications are queued.                        *)

\* What the notifications es say of what they are about is so in the new tables.
Truthful(ch, w, aw, es) ==
    \A e \in ToSet(es) :
        \/ e.t \in {"left", "deleted"} /\ e.v = 0
        \/ e.t \in {"enter", "created"} /\ e.v = Value(ch, w, aw, e.o)
        \/ /\ e.t \in {"moved", "edited"} /\ e.v = Value(ch, w, aw, e.o)
           /\ Value(channels, where, away, e.o) # 0

\* Client id is shown what es tells of m.
Shown(es, id, m) == \A e \in ToSet(es) : e.o = m => ~ IsSelfAlreadySent(e, id)

\* What is not excused.
LEMMA CommitExcuses ==
    ASSUME NEW ch, NEW w, NEW aw, NEW es, NEW late, NEW base, Commit(ch, w, aw, es, late, base),
           NEW b \in Addrs, NEW o \in Objects, o \notin excused'[b]
    PROVE  /\ o \notin base[b]
           /\ Value(ch, w, aw, o) # Value(channels, where, away, o) =>
                 /\ o \in late \/ \E e \in ToSet(es) : o \in Told(e)
                 /\ ~ (task # Idle /\ task.addr # b /\ o = task.o)
           /\ Value(ch, w, aw, o) # 0 =>
                 \A e \in ToSet(es) : e.t \in {"left", "deleted"} => o \notin Told(e)
<1> DEFINE Now(u) == Value(ch, w, aw, u)
           changed == {u \in Objects : Now(u) # Value(channels, where, away, u)}
<1>1. excused'[b] = base[b] \union Torn(b, changed) \union Silent(changed, es, late) \union Denied(Now, es)
  BY DEF Commit
<1>2. o \notin base[b] /\ o \notin Torn(b, changed) /\ o \notin Silent(changed, es, late)
      /\ o \notin Denied(Now, es)
  BY <1>1
<1>3. Now(o) # 0 => \A e \in ToSet(es) : e.t \in {"left", "deleted"} => o \notin Told(e)
  BY <1>2 DEF Denied
<1>4. o \in changed <=> Value(ch, w, aw, o) # Value(channels, where, away, o)
  OBVIOUS
<1> HIDE DEF changed
<1>5. o \in changed => o \in late \/ \E e \in ToSet(es) : o \in Told(e)
  BY <1>2 DEF Silent
<1>6. o \in changed => ~ (task # Idle /\ task.addr # b /\ o = task.o)
  BY <1>2 DEF Torn
<1> QED
  BY <1>2, <1>3, <1>4, <1>5, <1>6

LEMMA ToldMain ==
    ASSUME NEW e \in Notifications, NEW m \in Mains
    PROVE  /\ m \in Told(e) <=> e.o = m
           /\ m[1] = "client" => (Away(m[2]) \in Told(e) <=>
                 (e.o = m /\ e.t \in {"enter", "left"}) \/ (e.t = "update" /\ e.o = Away(m[2])))
<1>1. \A k : m # Away(k)
  BY MainShape
<1>2. CASE e.t \in {"enter", "left"}
  <2>1. Told(e) = {e.o, Away(e.o[2])} /\ e.o = Client(e.o[2]) /\ e.o \in Mains
    BY <1>2, NotificationShape DEF Told
  <2>2. \A k : e.o # Away(k)
    BY <2>1, MainShape
  <2>3. m[1] = "client" => m = Client(m[2])
    BY MainShape, Zenon
  <2>4. m[1] = "client" => (Away(m[2]) = Away(e.o[2]) <=> e.o = m)
    <3>1. Away(m[2]) = Away(e.o[2]) => m[2] = e.o[2]
      BY DEF Away
    <3> QED
      BY <2>1, <2>3, <3>1
  <2> QED
    BY <1>1, <1>2, <2>1, <2>2, <2>4
<1>3. CASE e.t \notin {"enter", "left"}
  <2>1. Told(e) = {e.o}
    BY <1>3 DEF Told
  <2>2. e.t # "update" => e.o \in Mains
    BY <1>3, NotificationShape DEF Types
  <2>3. e.t # "update" => \A k : e.o # Away(k)
    BY <2>2, MainShape
  <2> QED
    BY <1>3, <2>1, <2>3
<1> QED
  BY <1>2, <1>3

\* A client whose entry is 0 is not away.
LEMMA GoneIsNotAway ==
    ASSUME NEW ch, NEW w, NEW aw, NEW m \in Mains, m[1] = "client", Value(ch, w, aw, m) = 0
    PROVE  Value(ch, w, aw, Away(m[2])) = 0
<1>1. Value(ch, w, aw, m) = w[m[2]]
  BY DEF Value
<1>2. Away(m[2])[1] = "away" /\ Away(m[2])[2] = m[2]
  BY DEF Away
<1> QED
  BY <1>1, <1>2 DEF Value

\* A client that foresaw what the tables were foresees what they are.
LEMMA Appended ==
    ASSUME SeesInv, NEW b \in Addrs, NEW m \in Mains, m \notin excused'[b],
           NEW ch, NEW w \in Places, NEW aw, NEW es \in Seq(Notifications), NEW late, NEW base,
           Commit(ch, w, aw, es, late, base), Truthful(ch, w, aw, es), NEW id, Shown(es, id, m),
           Value(ch, w, aw, m) # Value(channels, where, away, m) => m \notin late,
           NEW p \in Belief, NEW e0, Later(e0),
           Unread(e0, id, m) \/ (task # Idle /\ task.addr # b /\ e0.o = task.o),
           Foresees(p, queue, e0, id, m, Value(channels, where, away, m))
    PROVE  Foresees(p, queue \o es, e0, id, m, Value(ch, w, aw, m))
<1>1. PICK x0, x1, q : x0 = Value(channels, where, away, m) /\ x1 = Value(ch, w, aw, m) /\ q = queue
  OBVIOUS
<1>2. m \in Objects
  BY MainShape
<1>3. x0 \in Values /\ x1 \in Values /\ q \in Seq(Notifications)
  BY <1>1, <1>2, ValueType DEF SeesInv, ViewInv, ViewTables
<1>4. /\ x1 # x0 => /\ m \in late \/ \E e \in ToSet(es) : m \in Told(e)
                    /\ ~ (task # Idle /\ task.addr # b /\ m = task.o)
      /\ x1 # 0 => \A e \in ToSet(es) : e.t \in {"left", "deleted"} => m \notin Told(e)
  BY <1>1, <1>2, CommitExcuses
<1>5. \A e \in ToSet(es) : e \in Notifications /\ (m \in Told(e) <=> e.o = m)
  <2> SUFFICES ASSUME NEW e \in ToSet(es) PROVE e \in Notifications /\ (m \in Told(e) <=> e.o = m)
    OBVIOUS
  <2>1. e \in Notifications
    BY Elements
  <2> QED
    BY <2>1, ToldMain
<1>6. \A e \in ToSet(es) : Tells(e, id, m) => Says(e, x0, x1)
  <2> SUFFICES ASSUME NEW e \in ToSet(es), e.o = m PROVE Says(e, x0, x1)
    BY DEF Tells
  <2>1. CASE e.t \in {"left", "deleted"} /\ e.v = 0
    <3>1. x1 = 0
      BY <1>4, <1>5, <2>1
    <3> QED
      BY <2>1, <3>1 DEF Says
  <2>2. CASE e.t \in {"enter", "created"} /\ e.v = Value(ch, w, aw, e.o)
    BY <1>1, <2>2 DEF Says
  <2>3. CASE /\ e.t \in {"moved", "edited"} /\ e.v = Value(ch, w, aw, e.o)
             /\ Value(channels, where, away, e.o) # 0
    BY <1>1, <2>3 DEF Says
  <2> QED
    BY <2>1, <2>2, <2>3 DEF Truthful
<1>7. x1 = x0 \/ \E e \in ToSet(es) : Tells(e, id, m)
  BY <1>1, <1>4, <1>5 DEF Tells, Shown
<1>8. e0.t # "idle" /\ Tells(e0, id, m) => x1 = x0
  BY <1>4 DEF Unread, Tells
<1>9. Foresees(p, q, e0, id, m, x0)
  BY <1>1
<1>10. Foresees(p, q \o es, e0, id, m, x1)
  BY <1>3, <1>6, <1>7, <1>8, <1>9, Heard
<1> QED
  BY <1>1, <1>10

LEMMA AppendedAway ==
    ASSUME SeesInv, NEW b \in Addrs, NEW m \in Mains, m[1] = "client",
           Away(m[2]) \notin excused'[b],
           NEW ch, NEW w \in Places, NEW aw, NEW es \in Seq(Notifications), NEW late, NEW base,
           Commit(ch, w, aw, es, late, base), Truthful(ch, w, aw, es), NEW id, Shown(es, id, m),
           Away(m[2]) \notin late,
           NEW p \in Belief, NEW e0, Later(e0),
           ForeseesAway(p, queue, e0, id, m, Value(channels, where, away, Away(m[2])))
    PROVE  ForeseesAway(p, queue \o es, e0, id, m, Value(ch, w, aw, Away(m[2])))
<1>1. PICK o, y0, y1, q : /\ o = Away(m[2]) /\ q = queue
                          /\ y0 = Value(channels, where, away, o) /\ y1 = Value(ch, w, aw, o)
  OBVIOUS
<1>2. o \in Objects
  BY <1>1, MainShape
<1>3. y0 \in Values /\ y1 \in Values /\ q \in Seq(Notifications)
  BY <1>1, <1>2, ValueType DEF SeesInv, ViewInv, ViewTables
<1>4. /\ y1 # y0 => o \in late \/ \E e \in ToSet(es) : o \in Told(e)
      /\ y1 # 0 => \A e \in ToSet(es) : e.t \in {"left", "deleted"} => o \notin Told(e)
  BY <1>1, <1>2, CommitExcuses
<1>5. ASSUME NEW e \in ToSet(es)
      PROVE  /\ e.t # "update"
             /\ o \in Told(e) <=> e.o = m /\ e.t \in {"enter", "left"}
  <2>1. e \in Notifications
    BY Elements
  <2>2. e.t # "update"
    BY DEF Truthful
  <2> QED
    BY <1>1, <2>1, <2>2, ToldMain
<1>6. \A e \in ToSet(es) : ~ (e.t = "update" /\ e.o = Away(m[2]))
  BY <1>5
<1>7. \A e \in ToSet(es) : Tells(e, id, m) /\ e.t = "left" => y1 = 0
  BY <1>4, <1>5 DEF Tells
<1>8. y1 = y0 \/ \E e \in ToSet(es) : Tells(e, id, m) /\ e.t \in {"left", "enter"}
  BY <1>1, <1>4, <1>5 DEF Tells, Shown
<1>9. ForeseesAway(p, q, e0, id, m, y0)
  BY <1>1
<1>10. ForeseesAway(p, q \o es, e0, id, m, y1)
  BY <1>3, <1>6, <1>7, <1>8, <1>9, HeardAway
<1> QED
  BY <1>1, <1>10

\* So it is with a client that is not answered.
LEMMA OthersForesee ==
    ASSUME SeesInv, NEW b \in Addrs, NEW m \in Mains, Foreseen(b, m),
           NEW ch, NEW w \in Places, NEW aw, NEW es \in Seq(Notifications), NEW late, NEW base,
           Commit(ch, w, aw, es, late, base), Truthful(ch, w, aw, es), Shown(es, sess[b].id, m),
           Value(ch, w, aw, m) # Value(channels, where, away, m) => m \notin late,
           \A k : Away(k) \notin late,
           excused[b] \subseteq excused'[b], sess'[b].id = sess[b].id,
           NEW p, Knows(b, m) = p, Knows(b, m)' = p,
           NEW e1, Pending' = e1, e1 = Pending \/ (e1.t = "idle" /\ e1.v \in Values /\ Pending.t = "idle")
    PROVE  Foreseen(b, m)'
<1>1. PICK e0, id, q : e0 = Pending /\ id = sess[b].id /\ q = queue /\ id \in Nat
  BY Numbers DEF SeesInv, ViewInv, SessionsOK, Session
<1>2. /\ Later(e0) /\ p \in Belief /\ q \in Seq(Notifications)
      /\ e0.t # "idle" => task # Idle /\ e0.o = task.o /\ e0.by = sess[task.addr].id
                          /\ e0.t \in {"created", "edited", "deleted", "moved"}
  BY <1>1, PendingFacts, KnowsType DEF SeesInv, ViewInv, ViewTables
<1>3. Later(e1)
  BY <1>1, <1>2 DEF Later
<1>4. Unread(e0, id, m) \/ (task # Idle /\ task.addr # b /\ e0.o = task.o)
  <2>1. CASE e0.t # "idle" /\ task.addr = b
    BY <1>1, <1>2, <2>1 DEF Unread, Tells, IsSelfAlreadySent
  <2> QED
    BY <1>2, <2>1 DEF Unread
<1>5. channels' = ch /\ where' = w /\ away' = aw /\ queue' = q \o es
  BY <1>1 DEF Commit
<1>6. q \o es \in Seq(Notifications)
  BY <1>2, Joined
<1>7. ASSUME m \notin excused'[b]
      PROVE  Foresees(p, q \o es, e1, id, m, Value(ch, w, aw, m))
  <2>1. Foresees(p, queue, e0, id, m, Value(channels, where, away, m))
    BY <1>1, <1>7 DEF Foreseen
  <2>2. Shown(es, id, m)
    BY <1>1
  <2>3. Foresees(p, queue \o es, e0, id, m, Value(ch, w, aw, m))
    BY <1>2, <1>4, <1>7, <2>1, <2>2, Appended
  <2>4. CASE e1 = e0
    BY <1>1, <2>3, <2>4
  <2>5. CASE e1.t = "idle" /\ e0.t = "idle"
    <3>1. Unread(e0, id, m) /\ Unread(e1, id, m)
      BY <2>5 DEF Unread
    <3>2. PICK x, u : x = Value(ch, w, aw, m) /\ u = q \o es
      OBVIOUS
    <3>3. Foresees(p, u, e0, id, m, x) /\ u \in Seq(Notifications)
      BY <1>1, <1>6, <2>3, <3>2
    <3>4. Foresees(p, u, e1, id, m, x)
      BY <3>1, <3>3, UnreadForeseen
    <3> QED
      BY <3>2, <3>4
  <2> QED
    BY <1>1, <2>4, <2>5
<1>8. ASSUME m \notin excused'[b], m[1] = "client", Away(m[2]) \notin excused'[b]
      PROVE  ForeseesAway(p, q \o es, e1, id, m, Value(ch, w, aw, Away(m[2])))
  <2>1. ForeseesAway(p, queue, e0, id, m, Value(channels, where, away, Away(m[2])))
    BY <1>1, <1>8 DEF Foreseen
  <2>2. Shown(es, id, m)
    BY <1>1
  <2>3. ForeseesAway(p, queue \o es, e0, id, m, Value(ch, w, aw, Away(m[2])))
    BY <1>2, <1>8, <2>1, <2>2, AppendedAway
  <2>4. PICK y, u : y = Value(ch, w, aw, Away(m[2])) /\ u = q \o es
    OBVIOUS
  <2>5. ForeseesAway(p, u, e0, id, m, y) /\ u \in Seq(Notifications)
    BY <1>1, <1>6, <2>3, <2>4
  <2>6. ForeseesAway(p, u, e1, id, m, y)
    BY <1>2, <1>3, <2>5, LaterAway
  <2> QED
    BY <2>4, <2>6
<1>9. sess'[b].id = id
  BY <1>1
<1> QED
  BY <1>5, <1>7, <1>8, <1>9 DEF Foreseen

\* What the client knows, and what it waits for, does not depend on the step.
LEMMA SamePending ==
    ASSUME SeesInv, task' = task, task # Idle => sess'[task.addr].id = sess[task.addr].id
    PROVE  \/ Pending' = Pending
           \/ Pending'.t = "idle" /\ Pending'.v \in Values /\ Pending.t = "idle"
<1>1. CASE task # Idle
  <2>1. sess'[task.addr].id = sess[task.addr].id
    BY <1>1
  <2> QED
    BY <2>1 DEF Pending
<1>2. CASE task = Idle
  <2>1. task.stage = "idle" /\ task.v = 0 /\ 0 \in Values
    BY <1>2, Numbers DEF Idle, Values
  <2> QED
    BY <2>1, EventFields DEF Pending
<1> QED
  BY <1>1, <1>2

LEMMA SameKnowledge ==
    ASSUME SeesInv, NEW b \in Addrs, NEW m \in Mains, view'[b] = view[b],
           task' = task, task # Idle => sess'[task.addr].id = sess[task.addr].id
    PROVE  Knows(b, m)' = Knows(b, m)
<1>1. PICK p, e0, e1 : p = SeenIn(view[b], m) /\ e0 = Pending /\ e1 = Pending' /\ p \in Belief
  BY KnowsType
<1>2. e1 = e0 \/ (e1.t = "idle" /\ e0.t = "idle")
  BY <1>1, SamePending
<1>3. Learns(p, e1, m) = Learns(p, e0, m)
  BY <1>1, <1>2, LearnsValue
<1>4. SeenIn(view[b], m)' = p
  BY <1>1 DEF SeenIn
<1>5. /\ Knows(b, m) = IF task.addr = b THEN Learns(p, e0, m) ELSE p
      /\ Knows(b, m)' = IF task.addr = b THEN Learns(p, e1, m) ELSE p
  BY <1>1, <1>4 DEF Knows
<1> QED
  BY <1>3, <1>5

\* A step of somebody else.
LEMMA StepOfOthers ==
    ASSUME SeesInv, NEW b \in Addrs, NEW m \in Mains, Foreseen(b, m),
           NEW ch, NEW w \in Places, NEW aw, NEW es \in Seq(Notifications), NEW late, NEW base,
           Commit(ch, w, aw, es, late, base), Truthful(ch, w, aw, es), Shown(es, sess[b].id, m),
           Value(ch, w, aw, m) # Value(channels, where, away, m) => m \notin late,
           \A k : Away(k) \notin late,
           excused[b] \subseteq excused'[b], sess'[b].id = sess[b].id, view'[b] = view[b],
           task' = task, task # Idle => sess'[task.addr].id = sess[task.addr].id
    PROVE  Foreseen(b, m)'
<1>1. PICK p, e1 : p = Knows(b, m) /\ e1 = Pending'
  OBVIOUS
<1>2. Knows(b, m)' = p
  BY <1>1, SameKnowledge
<1>3. e1 = Pending \/ (e1.t = "idle" /\ e1.v \in Values /\ Pending.t = "idle")
  BY <1>1, SamePending
<1> QED
  BY <1>1, <1>2, <1>3, OthersForesee

\* Nothing changes for client b.
LEMMA NothingNew ==
    ASSUME SeesInv, NEW b \in Addrs, NEW m \in Mains, Foreseen(b, m),
           UNCHANGED <<channels, where, away, queue, task>>,
           task # Idle => sess'[task.addr].id = sess[task.addr].id,
           excused[b] \subseteq excused'[b], sess'[b].id = sess[b].id, view'[b] = view[b]
    PROVE  Foreseen(b, m)'
<1>1. PICK p, e0, e1, id, q : /\ p = Knows(b, m) /\ e0 = Pending /\ e1 = Pending' /\ id = sess[b].id
                              /\ q = queue
  OBVIOUS
<1>2. e1 = e0 \/ (e1.t = "idle" /\ e1.v \in Values /\ e0.t = "idle")
  BY <1>1, SamePending
<1>3. Knows(b, m)' = p
  BY <1>1, SameKnowledge
<1>4. Later(e0) /\ Later(e1) /\ q \in Seq(Notifications)
  BY <1>1, <1>2, PendingFacts DEF Later, SeesInv, ViewInv, ViewTables
<1>5. ASSUME NEW x, Foresees(p, q, e0, id, m, x) PROVE Foresees(p, q, e1, id, m, x)
  <2>1. CASE e1 = e0
    BY <1>5, <2>1
  <2>2. CASE e1.t = "idle" /\ e0.t = "idle"
    <3>1. Unread(e0, id, m) /\ Unread(e1, id, m)
      BY <2>2 DEF Unread
    <3> QED
      BY <1>4, <1>5, <3>1, UnreadForeseen
  <2> QED
    BY <1>2, <2>1, <2>2
<1>6. ASSUME NEW y, ForeseesAway(p, q, e0, id, m, y) PROVE ForeseesAway(p, q, e1, id, m, y)
  BY <1>4, <1>6, LaterAway
<1>7. PICK x, y : x = Value(channels, where, away, m) /\ y = Value(channels, where, away, Away(m[2]))
  OBVIOUS
<1>8. ASSUME m \notin excused[b]
      PROVE  /\ Foresees(p, q, e1, id, m, x)
             /\ m[1] = "client" /\ Away(m[2]) \notin excused[b] => ForeseesAway(p, q, e1, id, m, y)
  BY <1>1, <1>5, <1>6, <1>7, <1>8 DEF Foreseen
<1>9. /\ Value(channels, where, away, m)' = x /\ Value(channels, where, away, Away(m[2]))' = y
      /\ queue' = q /\ sess'[b].id = id
  BY <1>1, <1>7 DEF Value
<1> QED
  BY <1>1, <1>3, <1>8, <1>9 DEF Foreseen

-----------------------------------------------------------------------------
(* What others do.                                                         *)

\* e announces that a channel or a music bot is gone, on behalf of by.
Cleaned(e, by) ==
    e.t \in {"left", "deleted"} /\ e.v = 0 /\ e.by = by /\ (e.t = "left" => e.o = Client(Bot))

LEMMA CleanupSays ==
    ASSUME NEW objs \in SUBSET Removable, NEW by \in 0..Invoker
    PROVE  /\ CleanupEvents(objs, by) \in Seq(Notifications)
           /\ \A e \in ToSet(CleanupEvents(objs, by)) : Cleaned(e, by)
<1>1. ASSUME NEW e \in ToSet(CleanupEvents(objs, by)) PROVE Cleaned(e, by)
  <2>1. PICK o \in objs : e = Event(IF o[1] = "channel" THEN "deleted" ELSE "left", o, 0, by)
    BY CleanupList
  <2>2. /\ e.t = (IF o[1] = "channel" THEN "deleted" ELSE "left")
        /\ e.o = o /\ e.v = 0 /\ e.by = by
    BY <2>1, EventFields
  <2>3. o[1] = "channel" \/ o = Client(Bot)
    BY DEF Removable
  <2>4. Client(Bot)[1] = "client"
    BY DEF Client
  <2> QED
    BY <2>2, <2>3, <2>4 DEF Cleaned
<1> QED
  BY <1>1, CleanupList

LEMMA CommandSays ==
    ASSUME ViewTables, NEW by \in 0..Invoker, NEW ch, IsTable(ch), NEW w \in Places,
           NEW es \in Seq(Notifications), NEW left, NEW all, all = CommandEvents(by, ch, w, es, left)
    PROVE  /\ all \in Seq(Notifications) /\ ToSet(es) \subseteq ToSet(all)
           /\ \A e \in ToSet(all) : e \in ToSet(es) \/ Cleaned(e, by)
<1>1. PICK o, g : o = owed /\ g = CleanedUp(ch, w, left)
  OBVIOUS
<1>2. o \in SUBSET Removable /\ bots \subseteq {Bot}
  BY <1>1 DEF ViewTables
<1>3. g \in SUBSET Removable
  <2>1. CleanedUp(ch, w, left) \subseteq Removable
    BY <1>2, CleanupGone
  <2> QED
    BY <1>1, <2>1
<1>4. PICK u, v, x : u = CleanupEvents(o, by) /\ v = CleanupEvents(g, by) /\ x = es \o u
  OBVIOUS
<1>5. /\ u \in Seq(Notifications) /\ \A e \in ToSet(u) : Cleaned(e, by)
      /\ v \in Seq(Notifications) /\ \A e \in ToSet(v) : Cleaned(e, by)
  BY <1>2, <1>3, <1>4, CleanupSays
<1>6. x \in Seq(Notifications) /\ ToSet(x) = ToSet(es) \union ToSet(u)
  BY <1>4, <1>5, Joined
<1>7. all = x \o v
  BY <1>1, <1>4 DEF CommandEvents
<1>8. all \in Seq(Notifications) /\ ToSet(all) = ToSet(x) \union ToSet(v)
  BY <1>5, <1>6, <1>7, Joined
<1> QED
  BY <1>5, <1>6, <1>8

\* The ids of clients are no one else's.
LEMMA ListeningId ==
    ASSUME SeesInv, NEW b \in Addrs, Listening(b)
    PROVE  /\ sess[b].id \in 1..MaxClid /\ sess[b].id # 0 /\ sess[b].id # Bot /\ sess[b].id # Invoker
           /\ \A a \in Addrs : a # b => sess[a].id # sess[b].id
<1>1. sess[b].id \in 0..MaxClid /\ sess[b].id # 0
  BY DEF SeesInv, ViewInv, SessionsOK, Session, Listening
<1>2. \A a \in Addrs : a # b => sess[a].id # sess[b].id
  BY <1>1 DEF SeesInv, ViewInv, SessionsOK
<1> QED
  BY <1>1, <1>2, Numbers

LEMMA Foreign ==
    ASSUME NEW e, NEW id, e.by # id, e.t = "left" /\ e.by = 0 => e.o[2] # id
    PROVE  ~ IsSelfAlreadySent(e, id)
BY DEF IsSelfAlreadySent

LEMMA CleanedIsForeign ==
    ASSUME NEW e, NEW by, Cleaned(e, by), NEW id, id # by, id # Bot
    PROVE  ~ IsSelfAlreadySent(e, id)
<1>1. Client(Bot)[2] = Bot
  BY DEF Client
<1> QED
  BY <1>1, Foreign DEF Cleaned

\* A command of a query, or what the housekeeping does, as b sees it.
LEMMA OutsiderSeen ==
    ASSUME SeesInv, UNCHANGED <<sess, task, view>>,
           NEW ch, NEW w \in Places, NEW aw, NEW es \in Seq(Notifications), NEW base,
           Commit(ch, w, aw, es, {}, base), Truthful(ch, w, aw, es),
           \A b \in Addrs : excused[b] \subseteq base[b],
           \A b \in Addrs, m \in Mains : Listening(b) =>
               Shown(es, sess[b].id, m) \/ m \in excused'[b]
    PROVE  ViewsSeen'
<1>1. \A b \in Addrs : excused[b] \subseteq excused'[b]
  <2> SUFFICES ASSUME NEW b \in Addrs PROVE base[b] \subseteq excused'[b]
    OBVIOUS
  <2>1. excused' = [a \in Addrs |-> base[a] \union Torn(a, {o \in Objects :
            Value(ch, w, aw, o) # Value(channels, where, away, o)})
            \union Silent({o \in Objects : Value(ch, w, aw, o) # Value(channels, where, away, o)}, es, {})
            \union Denied(LAMBDA o : Value(ch, w, aw, o), es)]
    BY DEF Commit
  <2> QED
    BY <2>1
<1>2. ASSUME NEW b \in Addrs, Listening(b)', NEW m \in Mains PROVE Foreseen(b, m)'
  <2>1. Listening(b) /\ Foreseen(b, m)
    BY <1>2 DEF Listening, SeesInv, ViewsSeen, Sees
  <2>2. CASE m \in excused'[b]
    BY <2>2 DEF Foreseen
  <2>3. CASE m \notin excused'[b]
    <3>1. PICK late : late = {}
      OBVIOUS
    <3>2. Commit(ch, w, aw, es, late, base) /\ Shown(es, sess[b].id, m)
      BY <2>1, <2>3, <3>1
    <3> QED
      BY <1>1, <2>1, <3>1, <3>2, StepOfOthers
  <2> QED
    BY <2>2, <2>3
<1>3. \A b \in Addrs : Sees(b)'
  BY <1>2 DEF Sees
<1> QED
  BY <1>3 DEF ViewsSeen, SeesInv

LEMMA QuerySeen ==
    ASSUME SeesInv, UNCHANGED <<sess, task, view>>,
           NEW ch, IsTable(ch), NEW w \in Places, NEW aw, NEW es \in Seq(Notifications), NEW left,
           FinishRequest(Invoker, ch, w, aw, es, left, excused),
           NEW done, done = ChannelsAfterCleanup(ch, w, bots, left),
           NEW put, put = WhereAfterCleanup(ch, w, bots, left), Truthful(done, put, aw, es),
           \A e \in ToSet(es) : e.by = Invoker \/ Cleaned(e, 0)
    PROVE  ViewsSeen'
<1>1. PICK all, base, by : all = CommandEvents(by, ch, w, es, left) /\ base = excused /\ by = Invoker
  OBVIOUS
<1>2. ViewTables /\ by \in 0..Invoker /\ bots \subseteq {Bot} /\ by # 0
  BY <1>1, Numbers DEF SeesInv, ViewInv, ViewTables
<1>3. /\ all \in Seq(Notifications) /\ ToSet(es) \subseteq ToSet(all)
      /\ \A e \in ToSet(all) : e \in ToSet(es) \/ Cleaned(e, by)
  BY <1>1, <1>2, CommandSays
<1>4. put \in Places
  BY <1>2, CleanupClients
<1>5. Commit(done, put, aw, all, {}, base)
  BY <1>1 DEF FinishRequest
<1>6. Truthful(done, put, aw, all)
  BY <1>3 DEF Truthful, Cleaned
<1>7. ASSUME NEW b \in Addrs, NEW m \in Mains, Listening(b) PROVE Shown(all, sess[b].id, m)
  <2>1. PICK id : id = sess[b].id /\ id # 0 /\ id # Bot /\ id # by
    BY <1>1, <1>7, ListeningId
  <2>2. ASSUME NEW e \in ToSet(all) PROVE ~ IsSelfAlreadySent(e, id)
    <3>1. CASE e.by = by
      BY <1>2, <2>1, <3>1, Foreign
    <3>2. CASE Cleaned(e, 0)
      BY <2>1, <3>2, CleanedIsForeign
    <3>3. CASE Cleaned(e, by)
      BY <2>1, <3>3, CleanedIsForeign
    <3> QED
      BY <1>1, <1>3, <3>1, <3>2, <3>3
  <2> QED
    BY <2>1, <2>2 DEF Shown
<1>8. \A b \in Addrs : excused[b] \subseteq base[b]
  BY <1>1
<1> QED
  BY <1>3, <1>4, <1>5, <1>6, <1>7, <1>8, OutsiderSeen

LEMMA QueryCreateSeen ==
    ASSUME SeesInv, NEW p \in ParentsUsed, NEW kind \in CreateKinds, QueryCreate(p, kind)
    PROVE  ViewsSeen'
<1>1. PICK c \in ChannelIds :
         /\ IsNextChannelId(channels, c)
         /\ FinishRequest(Invoker, AddChannel(channels, c, p, None, kind, FALSE), where, away,
                <<Event("created", Channel(c),
                    Value(AddChannel(channels, c, p, None, kind, FALSE), where, away, Channel(c)),
                    Invoker)>>, 0, excused)
  BY DEF QueryCreate
<1>2. PICK ch, w, aw, v, e, es :
         /\ ch = AddChannel(channels, c, p, None, kind, FALSE) /\ w = where /\ aw = away
         /\ v = Value(ch, w, aw, Channel(c))
         /\ e = Event("created", Channel(c), v, Invoker) /\ es = <<e>>
  OBVIOUS
<1>3. IsTable(ch)
  <2>1. PICK old : old = channels
    OBVIOUS
  <2>2. /\ IsTable(old) /\ p \in 0..MaxChannelId /\ kind \in {"temporary", "permanent"}
        /\ c \notin DOMAIN old
    BY <1>1, <2>1, ViewBoundsAssumption
    DEF SeesInv, ViewInv, ViewTables, IsNextChannelId, IsTable, ChannelIds
  <2> QED
    BY <1>2, <2>1, <2>2, AddRow
<1>4. w \in Places /\ bots \subseteq {Bot}
  BY <1>2 DEF SeesInv, ViewInv, ViewTables
<1>5. /\ e \in Notifications /\ e.t = "created" /\ e.o = Channel(c) /\ e.v = v /\ e.by = Invoker
      /\ es \in Seq(Notifications) /\ ToSet(es) = {e}
  <2>1. Channel(c) \in Objects /\ Channel(c)[1] = About("created") /\ "created" \in Types
        /\ Invoker \in 0..Invoker
    BY ObjectShape, Numbers DEF About, Types
  <2>2. v \in Values
    BY <1>2, <1>4, <2>1, ValueType
  <2>3. e \in Notifications
    BY <1>2, <2>1, <2>2, EventIsNotification
  <2>4. e.t = "created" /\ e.o = Channel(c) /\ e.v = v /\ e.by = Invoker
    <3>1. e = Event("created", Channel(c), v, Invoker)
      BY <1>2, Zenon
    <3> QED
      BY <3>1, EventFields
  <2>5. es \in Seq(Notifications) /\ ToSet(es) = {e}
    BY <1>2, <2>3, Single
  <2> QED
    BY <2>3, <2>4, <2>5
<1>6. PICK done, put : /\ done = ChannelsAfterCleanup(ch, w, bots, 0)
                       /\ put = WhereAfterCleanup(ch, w, bots, 0)
  OBVIOUS
<1>7. done = ch /\ put = w
  BY <1>3, <1>4, <1>6, CleanupNowhere
<1>8. Truthful(done, put, aw, es)
  BY <1>2, <1>5, <1>7 DEF Truthful
<1>9. FinishRequest(Invoker, ch, w, aw, es, 0, excused) /\ UNCHANGED <<sess, task, view>>
  BY <1>1, <1>2 DEF QueryCreate
<1>10. \A d \in ToSet(es) : d.by = Invoker \/ Cleaned(d, 0)
  BY <1>5
<1> QED
  BY <1>3, <1>4, <1>5, <1>6, <1>8, <1>9, <1>10, QuerySeen

LEMMA QueryDeleteSeen ==
    ASSUME SeesInv, NEW c \in ChannelIds, QueryDelete(c)
    PROVE  ViewsSeen'
<1> DEFINE D0 == Subtree(channels, c)
<1>1. /\ FinishRequest(Invoker, RemoveChannels(channels, D0, channels[c].parent),
             WhereAfterDelete(where, bots, D0, channels[c].kind, DefaultChannelId(channels)),
             away, <<Event("deleted", Channel(c), 0, Invoker)>>, 0, excused)
      /\ UNCHANGED <<sess, task, view>>
  BY DEF QueryDelete
<1>2. PICK D, p, kind, home, ch, w, aw, e, old, es :
         /\ D = D0 /\ p = channels[c].parent /\ kind = channels[c].kind
         /\ home = DefaultChannelId(channels)
         /\ ch = RemoveChannels(channels, D, p)
         /\ w = WhereAfterDelete(where, bots, D, kind, home) /\ aw = away
         /\ e = Event("deleted", Channel(c), 0, Invoker) /\ es = <<e>>
         /\ old = where
  OBVIOUS
<1> HIDE DEF D0
<1>3. IsTable(ch)
  <2>1. PICK t : t = channels /\ IsTable(t)
    BY DEF SeesInv, ViewInv, ViewTables
  <2> QED
    BY <1>2, <2>1, RemoveRows
<1>4. home \in ChannelIds /\ old \in Places /\ bots \subseteq {Bot}
  <2>1. PICK t : t = channels /\ IsTable(t)
    BY DEF SeesInv, ViewInv, ViewTables
  <2> QED
    BY <1>2, <2>1, HomeIsId DEF SeesInv, ViewInv, ViewTables, IsTable
<1>5. w \in Places
  <2>1. w = WhereAfterDelete(old, bots, D, kind, home)
    BY <1>2
  <2> QED
    BY <1>4, <2>1, DeleteFacts
<1>6. /\ e \in Notifications /\ e.t = "deleted" /\ e.v = 0 /\ e.by = Invoker
      /\ es \in Seq(Notifications) /\ ToSet(es) = {e}
  <2>1. Channel(c) \in Objects /\ Channel(c)[1] = About("deleted") /\ "deleted" \in Types
        /\ Invoker \in 0..Invoker /\ 0 \in Values
    BY ObjectShape, Numbers DEF About, Types, Values
  <2>2. e \in Notifications
    BY <1>2, <2>1, EventIsNotification
  <2> QED
    BY <1>2, <2>2, EventFields, Single
<1>7. PICK done, put : /\ done = ChannelsAfterCleanup(ch, w, bots, 0)
                       /\ put = WhereAfterCleanup(ch, w, bots, 0)
  OBVIOUS
<1>8. Truthful(done, put, aw, es)
  BY <1>6 DEF Truthful
<1>9. FinishRequest(Invoker, ch, w, aw, es, 0, excused)
  BY <1>1, <1>2
<1>10. \A d \in ToSet(es) : d.by = Invoker \/ Cleaned(d, 0)
  BY <1>6
<1> QED
  BY <1>1, <1>3, <1>5, <1>6, <1>7, <1>8, <1>9, <1>10, QuerySeen

LEMMA QueryEditSeen ==
    ASSUME SeesInv, NEW c \in ChannelIds, NEW kind \in EditKinds, QueryEdit(c, kind)
    PROVE  ViewsSeen'
<1>1. PICK ch, w, aw, v, e, es :
         /\ ch = [channels EXCEPT ![c].kind = kind] /\ w = where /\ aw = away
         /\ v = Value(ch, w, aw, Channel(c))
         /\ e = Event("edited", Channel(c), v, Invoker) /\ es = <<e>>
  OBVIOUS
<1>2. /\ FinishRequest(Invoker, ch, w, aw, es, 0, excused)
      /\ UNCHANGED <<sess, task, view>> /\ c \in DOMAIN channels
  BY <1>1 DEF QueryEdit
<1>3. IsTable(ch)
  <2>1. IsTable(channels) /\ kind \in {"temporary", "permanent"}
    BY ViewBoundsAssumption DEF SeesInv, ViewInv, ViewTables
  <2> QED
    BY <1>1, <1>2, <2>1 DEF IsTable, Row
<1>4. w \in Places /\ bots \subseteq {Bot}
  BY <1>1 DEF SeesInv, ViewInv, ViewTables
<1>5. /\ e \in Notifications /\ e.t = "edited" /\ e.o = Channel(c) /\ e.v = v /\ e.by = Invoker
      /\ es \in Seq(Notifications) /\ ToSet(es) = {e}
  <2>1. Channel(c) \in Objects /\ Channel(c)[1] = About("edited") /\ "edited" \in Types
        /\ Invoker \in 0..Invoker
    BY ObjectShape, Numbers DEF About, Types
  <2>2. v \in Values
    BY <1>1, <1>4, <2>1, ValueType
  <2>3. e \in Notifications
    BY <1>1, <2>1, <2>2, EventIsNotification
  <2>4. e.t = "edited" /\ e.o = Channel(c) /\ e.v = v /\ e.by = Invoker
    BY <1>1, EventFields
  <2>5. es \in Seq(Notifications) /\ ToSet(es) = {e}
    BY <1>1, <2>3, Single
  <2> QED
    BY <2>3, <2>4, <2>5
<1>6. PICK done, put : /\ done = ChannelsAfterCleanup(ch, w, bots, 0)
                       /\ put = WhereAfterCleanup(ch, w, bots, 0)
  OBVIOUS
<1>7. done = ch /\ put = w
  BY <1>3, <1>4, <1>6, CleanupNowhere
<1>8. Value(channels, where, away, Channel(c)) # 0
  BY <1>2, ObjectShape DEF Value
<1>9. Truthful(done, put, aw, es)
  BY <1>1, <1>5, <1>7, <1>8 DEF Truthful
<1>10. \A d \in ToSet(es) : d.by = Invoker \/ Cleaned(d, 0)
  BY <1>5
<1> QED
  BY <1>2, <1>3, <1>4, <1>5, <1>6, <1>9, <1>10, QuerySeen

LEMMA QueryMoveSeen ==
    ASSUME SeesInv, NEW k \in Clients, NEW c \in ChannelIds, QueryMove(k, c)
    PROVE  ViewsSeen'
<1>1. PICK ch, w, aw, e, left, es :
         /\ ch = channels /\ w = [where EXCEPT ![k] = c] /\ aw = away
         /\ e = Event("moved", Client(k), c, Invoker) /\ left = where[k] /\ es = <<e>>
  OBVIOUS
<1>2. /\ FinishRequest(Invoker, ch, w, aw, es, left, excused)
      /\ UNCHANGED <<sess, task, view>> /\ where[k] # 0 /\ c # where[k]
  BY <1>1 DEF QueryMove
<1>3. IsTable(ch) /\ where \in Places /\ bots \subseteq {Bot}
  BY <1>1 DEF SeesInv, ViewInv, ViewTables
<1>4. w \in Places /\ w[k] = c /\ DOMAIN w = Clients
  BY <1>1, <1>3, Numbers DEF Places
<1>5. /\ e \in Notifications /\ e.t = "moved" /\ e.o = Client(k) /\ e.v = c /\ e.by = Invoker
      /\ es \in Seq(Notifications) /\ ToSet(es) = {e}
  <2>1. c \in Values /\ Invoker \in 0..Invoker /\ "moved" \in Types
        /\ Client(k) \in Objects /\ Client(k)[1] = About("moved")
    BY ObjectShape, Numbers DEF Types, About, Values
  <2>2. e \in Notifications
    BY <1>1, <2>1, EventIsNotification
  <2> QED
    BY <1>1, <2>2, EventFields, Single
<1>6. PICK done, put : /\ done = ChannelsAfterCleanup(ch, w, bots, left)
                       /\ put = WhereAfterCleanup(ch, w, bots, left)
  OBVIOUS
<1>7. put[k] = c
  BY <1>1, <1>2, <1>4, <1>6 DEF WhereAfterCleanup
<1>8. Value(done, put, aw, Client(k)) = c /\ Value(channels, where, away, Client(k)) = where[k]
  BY <1>7, ObjectShape DEF Value
<1>9. Truthful(done, put, aw, es)
  BY <1>2, <1>5, <1>8 DEF Truthful
<1>10. \A d \in ToSet(es) : d.by = Invoker \/ Cleaned(d, 0)
  BY <1>5
<1> QED
  BY <1>2, <1>3, <1>4, <1>5, <1>6, <1>9, <1>10, QuerySeen

\* What is announced of a kick: the cleanup, and who was thrown out.
LEMMA KickSays ==
    ASSUME ViewTables, NEW k \in Clients, NEW by \in 0..Invoker
    PROVE  /\ CleanupEvents(KickCleanup(k), 0) \in Seq(Notifications)
           /\ \A e \in ToSet(CleanupEvents(KickCleanup(k), 0)) : Cleaned(e, 0)
           /\ KickEvents(by, k) \in Seq(Notifications)
           /\ \A e \in ToSet(KickEvents(by, k)) :
                 e.t \in {"left", "deleted"} /\ e.v = 0 /\ e.by = by
<1>1. PICK w, left, ch, objs : /\ w = [where EXCEPT ![k] = 0] /\ left = where[k] /\ ch = channels
                               /\ objs = KickCleanup(k)
  OBVIOUS
<1>2. w \in Places /\ IsTable(ch) /\ bots \subseteq {Bot} /\ 0 \in 0..Invoker
  BY <1>1, Numbers DEF ViewTables, Places
<1>3. objs \in SUBSET Removable
  <2>1. CleanedUp(ch, w, left) \subseteq Removable
    BY <1>2, CleanupGone
  <2> QED
    BY <1>1, <2>1 DEF KickCleanup
<1>4. /\ CleanupEvents(objs, 0) \in Seq(Notifications)
      /\ \A e \in ToSet(CleanupEvents(objs, 0)) : Cleaned(e, 0)
  BY <1>2, <1>3, CleanupSays
<1>5. PICK t : t = CleanupEvents(objs, by) /\ t \in Seq(Notifications) /\ \A e \in ToSet(t) : Cleaned(e, by)
  BY <1>3, CleanupSays
<1>6. PICK d : /\ d = Event("left", Client(k), 0, by) /\ d \in Notifications
               /\ d.t = "left" /\ d.v = 0 /\ d.by = by
  <2>1. /\ "left" \in Types /\ 0 \in Values /\ Client(k) \in Objects
        /\ Client(k)[1] = About("left")
    BY Numbers, ObjectShape DEF Types, Values, About
  <2> QED
    BY <2>1, EventIsNotification, EventFields
<1>7. <<d>> \in Seq(Notifications) /\ ToSet(<<d>>) = {d}
  BY <1>6, Single
<1>8. PICK u, v : u = <<d>> /\ v = u \o t
  OBVIOUS
<1>9. v \in Seq(Notifications) /\ ToSet(v) = ToSet(u) \union ToSet(t)
  BY <1>5, <1>7, <1>8, Joined
<1>10. v = KickEvents(by, k)
  BY <1>1, <1>5, <1>6, <1>8 DEF KickEvents
<1>11. \A e \in ToSet(v) : e.t \in {"left", "deleted"} /\ e.v = 0 /\ e.by = by
  BY <1>5, <1>6, <1>7, <1>8, <1>9 DEF Cleaned
<1> QED
  BY <1>1, <1>4, <1>9, <1>10, <1>11

LEMMA QueryKickSeen ==
    ASSUME SeesInv, NEW k \in Clients, QueryKick(k)
    PROVE  ViewsSeen'
<1>1. PICK ch, w, aw, s, t, es :
         /\ ch = KickChannels(k) /\ w = KickWhere(k) /\ aw = away \ {k}
         /\ s = CleanupEvents(KickCleanup(k), 0) /\ t = KickEvents(Invoker, k)
         /\ es = s \o t
  OBVIOUS
<1>2. FinishRequest(Invoker, ch, w, aw, es, 0, excused) /\ UNCHANGED <<sess, task, view>>
  BY <1>1 DEF QueryKick
<1>3. ViewTables /\ Invoker \in 0..Invoker
  BY Numbers DEF SeesInv, ViewInv
<1>4. IsTable(ch) /\ w \in Places
  BY <1>1, <1>3, KickFacts
<1>5. /\ s \in Seq(Notifications) /\ \A e \in ToSet(s) : Cleaned(e, 0)
      /\ t \in Seq(Notifications)
      /\ \A e \in ToSet(t) : e.t \in {"left", "deleted"} /\ e.v = 0 /\ e.by = Invoker
  BY <1>1, <1>3, KickSays
<1>6. es \in Seq(Notifications) /\ ToSet(es) = ToSet(s) \union ToSet(t)
  BY <1>1, <1>5, Joined
<1>7. PICK done, put : /\ done = ChannelsAfterCleanup(ch, w, bots, 0)
                       /\ put = WhereAfterCleanup(ch, w, bots, 0)
  OBVIOUS
<1>8. Truthful(done, put, aw, es)
  BY <1>5, <1>6 DEF Truthful, Cleaned
<1>9. \A d \in ToSet(es) : d.by = Invoker \/ Cleaned(d, 0)
  BY <1>5, <1>6
<1> QED
  BY <1>2, <1>4, <1>6, <1>7, <1>8, <1>9, QuerySeen

\* What remove_session_client announces of client k, and what it leaves.
Removed(ch, w, aw, es, k) ==
    /\ w \in Places /\ es \in Seq(Notifications) /\ Truthful(ch, w, aw, es)
    /\ \A e \in ToSet(es) : (e.t = "left" /\ e.o = Client(k) /\ e.by = 0) \/ Cleaned(e, 0)

LEMMA RemovalCommits ==
    ASSUME ViewTables, NEW k \in Clients, NEW base, RemoveUdpClient(k, base)
    PROVE  \E ch, w, aw, es : Commit(ch, w, aw, es, {}, base) /\ Removed(ch, w, aw, es, k)
<1>1. PICK w, left, ch, aw : /\ w = [where EXCEPT ![k] = 0] /\ left = where[k]
                             /\ ch = channels /\ aw = away \ {k}
  OBVIOUS
<1>2. w \in Places /\ IsTable(ch) /\ bots \subseteq {Bot} /\ 0 \in 0..Invoker
  BY <1>1, Numbers DEF ViewTables, Places
<1>3. PICK done, put, gone, first, last :
         /\ done = ChannelsAfterCleanup(ch, w, bots, left)
         /\ put = WhereAfterCleanup(ch, w, bots, left)
         /\ gone = CleanedUp(ch, w, left)
         /\ first = (IF left = 0 THEN <<>> ELSE <<Event("left", Client(k), 0, 0)>>)
         /\ last = CleanupEvents(gone, 0)
  OBVIOUS
<1>4. Commit(done, put, aw, first \o last, {}, base)
  BY <1>1, <1>3 DEF RemoveUdpClient
<1>5. put \in Places
  BY <1>2, <1>3, CleanupClients
<1>6. gone \in SUBSET Removable
  <2>1. CleanedUp(ch, w, left) \subseteq Removable
    BY <1>2, CleanupGone
  <2> QED
    BY <1>3, <2>1
<1>7. last \in Seq(Notifications) /\ \A e \in ToSet(last) : Cleaned(e, 0)
  BY <1>2, <1>3, <1>6, CleanupSays
<1>8. /\ first \in Seq(Notifications)
      /\ \A e \in ToSet(first) : e.t = "left" /\ e.o = Client(k) /\ e.v = 0 /\ e.by = 0
  <2>1. CASE left = 0
    BY <1>3, <2>1, Empty
  <2>2. CASE left # 0
    <3>1. PICK e : /\ e = Event("left", Client(k), 0, 0) /\ e \in Notifications
                   /\ e.t = "left" /\ e.o = Client(k) /\ e.v = 0 /\ e.by = 0
      <4>1. /\ "left" \in Types /\ 0 \in Values /\ Client(k) \in Objects
            /\ Client(k)[1] = About("left")
        BY Numbers, ObjectShape DEF Types, Values, About
      <4> QED
        BY <1>2, <4>1, EventIsNotification, EventFields
    <3>2. <<e>> \in Seq(Notifications) /\ ToSet(<<e>>) = {e}
      BY <3>1, Single
    <3> QED
      BY <1>3, <2>2, <3>1, <3>2
  <2> QED
    BY <2>1, <2>2
<1>9. PICK es : es = first \o last
  OBVIOUS
<1>10. es \in Seq(Notifications) /\ ToSet(es) = ToSet(first) \union ToSet(last)
  BY <1>7, <1>8, <1>9, Joined
<1>11. Truthful(done, put, aw, es)
  BY <1>7, <1>8, <1>10 DEF Truthful, Cleaned
<1>12. \A e \in ToSet(es) : (e.t = "left" /\ e.o = Client(k) /\ e.by = 0) \/ Cleaned(e, 0)
  BY <1>7, <1>8, <1>10
<1>13. Removed(done, put, aw, es, k) /\ Commit(done, put, aw, es, {}, base)
  BY <1>4, <1>5, <1>9, <1>10, <1>11, <1>12 DEF Removed
<1> QED
  BY <1>13

\* It is shown to everybody else.
LEMMA RemovalShown ==
    ASSUME NEW ch, NEW w, NEW aw, NEW es, NEW k, Removed(ch, w, aw, es, k),
           NEW id, id # 0, id # Bot, NEW m, id # k \/ m # Client(k)
    PROVE  Shown(es, id, m)
<1> SUFFICES ASSUME NEW e \in ToSet(es), e.o = m PROVE ~ IsSelfAlreadySent(e, id)
  BY DEF Shown
<1>1. CASE Cleaned(e, 0)
  BY <1>1, CleanedIsForeign
<1>2. CASE e.t = "left" /\ e.o = Client(k) /\ e.by = 0
  <2>1. e.o[2] # id
    BY <1>2 DEF Client
  <2> QED
    BY <1>2, <2>1, Foreign
<1> QED
  BY <1>1, <1>2 DEF Removed

LEMMA ZombieSeen ==
    ASSUME SeesInv, NEW k \in Clients, Zombie(k)
    PROVE  ViewsSeen'
<1>1. PICK base : base = [a \in Addrs |->
           IF sess[a].id = k THEN excused[a] \union {Client(k), Away(k)} ELSE excused[a]]
  OBVIOUS
<1>2. RemoveUdpClient(k, base) /\ UNCHANGED <<sess, task, view>>
  BY <1>1 DEF Zombie
<1>3. ViewTables
  BY DEF SeesInv, ViewInv
<1>4. PICK ch, w, aw, es : Commit(ch, w, aw, es, {}, base) /\ Removed(ch, w, aw, es, k)
  BY <1>2, <1>3, RemovalCommits
<1>5. w \in Places /\ es \in Seq(Notifications) /\ Truthful(ch, w, aw, es)
  BY <1>4 DEF Removed
<1>6. \A b \in Addrs : excused[b] \subseteq base[b]
  BY <1>1
<1>7. ASSUME NEW b \in Addrs, NEW m \in Mains, Listening(b)
      PROVE  Shown(es, sess[b].id, m) \/ m \in excused'[b]
  <2>1. PICK id : id = sess[b].id /\ id # 0 /\ id # Bot
    BY <1>7, ListeningId
  <2>2. CASE id # k \/ m # Client(k)
    BY <1>4, <2>1, <2>2, RemovalShown
  <2>3. CASE id = k /\ m = Client(k)
    <3>1. m \in base[b] /\ m \in Objects
      BY <1>1, <2>1, <2>3, MainShape
    <3>2. PICK late : late = {}
      OBVIOUS
    <3>3. Commit(ch, w, aw, es, late, base)
      BY <1>4, <3>2
    <3> QED
      BY <3>1, <3>3, CommitExcuses
  <2> QED
    BY <2>1, <2>2, <2>3
<1> QED
  BY <1>2, <1>4, <1>5, <1>6, <1>7, OutsiderSeen

-----------------------------------------------------------------------------
(* The handshake.                                                          *)

LEMMA HandshakeSeen ==
    ASSUME SeesInv, UNCHANGED <<channels, where, away, queue, task>>, task = Idle, NEW a \in Addrs,
           \A b \in Addrs \ {a} :
               sess'[b] = sess[b] /\ view'[b] = view[b] /\ excused[b] \subseteq excused'[b],
           view' \in [Addrs -> Views],
           Listening(a)' => /\ Listening(a) /\ sess'[a].id = sess[a].id /\ view'[a] = view[a]
                            /\ excused[a] \subseteq excused'[a]
    PROVE  ViewsSeen'
<1>1. ASSUME NEW b \in Addrs, Listening(b)', NEW m \in Mains PROVE Foreseen(b, m)'
  <2>1. /\ Listening(b) /\ sess'[b].id = sess[b].id /\ view'[b] = view[b]
        /\ excused[b] \subseteq excused'[b]
    BY <1>1 DEF Listening
  <2>2. Foreseen(b, m)
    BY <2>1 DEF SeesInv, ViewsSeen, Sees
  <2> QED
    BY <2>1, <2>2, NothingNew
<1>2. \A b \in Addrs : Sees(b)'
  BY <1>1 DEF Sees
<1> QED
  BY <1>2 DEF ViewsSeen, SeesInv

LEMMA NothingIsView == Nothing \in Views
BY Numbers DEF Nothing, Views, Values

LEMMA SessionsSeen ==
    ASSUME SeesInv, NEW a \in Addrs, NEW kind,
           GetCookie(a) \/ NewSession(a, kind) \/ DeadPacket(a) \/ Recognize(a, kind)
    PROVE  ViewsSeen'
<1>1. /\ view \in [Addrs -> Views] /\ sess \in [Addrs -> Session]
      /\ excused \in [Addrs -> SUBSET Objects]
  BY DEF SeesInv, ViewsSeen, ViewInv, SessionsOK, ViewTables
<1>2. UNCHANGED <<channels, where, away, queue, task>> /\ task = Idle
  <2>1. CASE GetCookie(a)
    BY <2>1 DEF GetCookie
  <2>2. CASE NewSession(a, kind)
    BY <2>2 DEF NewSession
  <2>3. CASE DeadPacket(a)
    BY <2>3 DEF DeadPacket
  <2>4. CASE Recognize(a, kind)
    BY <2>4 DEF Recognize
  <2> QED
    BY <2>1, <2>2, <2>3, <2>4
<1>3. /\ \A b \in Addrs \ {a} :
            sess'[b] = sess[b] /\ view'[b] = view[b] /\ excused[b] \subseteq excused'[b]
      /\ view' \in [Addrs -> Views]
      /\ Listening(a)' => /\ Listening(a) /\ sess'[a].id = sess[a].id /\ view'[a] = view[a]
                          /\ excused[a] \subseteq excused'[a]
  <2>1. CASE GetCookie(a)
    <3>1. /\ sess' = [sess EXCEPT ![a].on = FALSE] /\ view' = view /\ excused' = excused
      BY <2>1 DEF GetCookie
    <3> QED
      BY <1>1, <3>1 DEF Listening, Session
  <2>2. CASE NewSession(a, kind)
    <3>1. /\ sess' = [sess EXCEPT ![a] = [id |-> AssignedClid(a), on |-> TRUE, named |-> FALSE,
                          kind |-> kind, again |-> sess[a].id # 0]]
          /\ view' = [view EXCEPT ![a] = Nothing] /\ excused' = [excused EXCEPT ![a] = {}]
      BY <2>2 DEF NewSession
    <3>2. sess'[a].named = FALSE
      BY <1>1, <3>1
    <3>3. ~ Listening(a)'
      BY <3>2 DEF Listening
    <3> QED
      BY <1>1, <3>1, <3>3, NothingIsView
  <2>3. CASE DeadPacket(a)
    <3>1. /\ sess' = [sess EXCEPT ![a] = NoSession]
          /\ view' = [view EXCEPT ![a] = Nothing] /\ excused' = [excused EXCEPT ![a] = {}]
      BY <2>3 DEF DeadPacket
    <3>2. ~ Listening(a)'
      BY <1>1, <3>1, NoSessionFacts DEF Listening
    <3> QED
      BY <1>1, <3>1, <3>2, NothingIsView
  <2>4. CASE Recognize(a, kind)
    <3>1. sess' = [sess EXCEPT ![a].kind = kind] /\ view' = view /\ excused' = excused
      BY <2>4 DEF Recognize
    <3> QED
      BY <1>1, <3>1 DEF Listening, Session
  <2> QED
    BY <2>1, <2>2, <2>3, <2>4
<1> QED
  BY <1>2, <1>3, HandshakeSeen

\* A command of client a, as the others see it.
LEMMA CommandSeen ==
    ASSUME SeesInv, task' = task, task = Idle, NEW a \in Addrs,
           NEW ch, NEW w \in Places, NEW aw, NEW es \in Seq(Notifications), NEW base,
           Commit(ch, w, aw, es, {}, base), Truthful(ch, w, aw, es),
           \A b \in Addrs \ {a} :
               sess'[b] = sess[b] /\ view'[b] = view[b] /\ excused[b] \subseteq base[b],
           \A b \in Addrs \ {a}, m \in Mains : Listening(b) => Shown(es, sess[b].id, m),
           view' \in [Addrs -> Views],
           \A m \in Mains : Listening(a)' => Foreseen(a, m)'
    PROVE  ViewsSeen'
<1>1. PICK late : late = {}
  OBVIOUS
<1>2. Commit(ch, w, aw, es, late, base)
  BY <1>1
<1>3. ASSUME NEW b \in Addrs, b # a, Listening(b)', NEW m \in Mains PROVE Foreseen(b, m)'
  <2>1. Listening(b) /\ sess'[b].id = sess[b].id /\ view'[b] = view[b]
    BY <1>3 DEF Listening
  <2>2. Foreseen(b, m) /\ Shown(es, sess[b].id, m)
    BY <1>3, <2>1 DEF SeesInv, ViewsSeen, Sees
  <2>3. excused[b] \subseteq excused'[b]
    <3>1. base[b] \subseteq excused'[b]
      BY DEF Commit
    <3> QED
      BY <1>3, <3>1
  <2> QED
    BY <1>1, <1>2, <2>1, <2>2, <2>3, StepOfOthers
<1>4. \A b \in Addrs : Sees(b)'
  BY <1>3 DEF Sees
<1> QED
  BY <1>4 DEF ViewsSeen, SeesInv

\* One that is as good as the view learns what the view does.
Follows(b, v, m) == /\ b \in Belief /\ v \in Views /\ b.x = v[m]
                    /\ m[1] = "client" => b.y \in {-1, v[Away(m[2])]}

LEMMA FollowsStep ==
    ASSUME ViewTables, NEW b, NEW v, NEW m \in Mains, Follows(b, v, m), NEW e \in Notifications
    PROVE  Follows(Learns(b, e, m), Apply(v, e), m)
<1>1. b \in Belief /\ v \in Views /\ b.x = v[m] /\ (m[1] = "client" => b.y \in {-1, v[Away(m[2])]})
  BY DEF Follows
<1>2. PICK p : p = SeenIn(v, m) /\ p \in Belief
  BY <1>1, SeenType
<1>3. p.x = v[m] /\ (m[1] = "client" => p.y = v[Away(m[2])])
  BY <1>2 DEF SeenIn
<1>4. Learns(b, e, m) \in Belief /\ Apply(v, e) \in Views
  <2>1. e.v \in Values
    BY NotificationShape
  <2> QED
    BY <1>1, <2>1, LearnsType, ApplyType
<1>5. /\ Apply(v, e)[m] = Learns(p, e, m).x
      /\ m[1] = "client" =>
            Apply(v, e)[Away(m[2])] = Learns(p, e, m).y \/ (e.o = m /\ e.t = "enter")
  BY <1>1, <1>2, ApplyLearns
<1>6. Learns(b, e, m).x = Learns(p, e, m).x
  BY <1>1, <1>3 DEF Learns
<1>7. ASSUME m[1] = "client" PROVE Learns(b, e, m).y \in {-1, Apply(v, e)[Away(m[2])]}
  <2>1. CASE e.o = m /\ e.t = "enter"
    BY <1>1, <2>1, LearnsFlag
  <2>2. CASE ~ (e.o = m /\ e.t = "enter")
    <3>1. Learns(b, e, m).y \in {-1, Learns(p, e, m).y}
      <4>1. CASE e.o = m /\ e.t = "left"
        BY <1>1, <1>2, <4>1, LearnsFlag
      <4>2. CASE e.o = Away(m[2]) /\ e.t = "update"
        <5>1. /\ Learns(b, e, m).y = IF b.x = 0 THEN 0 ELSE e.v
              /\ Learns(p, e, m).y = IF p.x = 0 THEN 0 ELSE e.v
          BY <1>1, <1>2, <1>7, <4>2, LearnsFlag
        <5> QED
          BY <1>1, <1>3, <5>1
      <4>3. CASE ~ (e.o = m /\ e.t = "left") /\ ~ (e.o = Away(m[2]) /\ e.t = "update")
        <5>1. Learns(b, e, m).y = b.y /\ Learns(p, e, m).y = p.y
          BY <1>1, <1>2, <2>2, <4>3, LearnsFlag
        <5> QED
          BY <1>1, <1>3, <1>7, <5>1
      <4> QED
        BY <4>1, <4>2, <4>3
    <3> QED
      BY <1>5, <1>7, <2>2, <3>1
  <2> QED
    BY <2>1, <2>2
<1> QED
  BY <1>4, <1>5, <1>6, <1>7 DEF Follows

\* Reading q is applying the part of it that is shown.
LEMMA ReadAsApplied ==
    ASSUME ViewTables, NEW v \in Views, NEW q \in Seq(Notifications), NEW id, NEW m \in Mains,
           NEW h, Reading(h, SeenIn(v, m), q, id, m),
           NEW sent, sent = {e \in ToSet(q) : ~ IsSelfAlreadySent(e, id)}
    PROVE  Follows(h[Len(q)], ApplyAll(v, q, sent), m)
<1>0. PICK f : Applies(f, v, q, sent) /\ ApplyAll(v, q, sent) = f[Len(q)]
  BY AppliedInTurn
<1>1. /\ f[0] = v /\ ApplyAll(v, q, sent) = f[Len(q)]
      /\ \A i \in 1..Len(q) : f[i] = IF q[i] \in sent THEN Apply(f[i-1], q[i]) ELSE f[i-1]
  BY <1>0 DEF Applies
<1>2. /\ Len(q) \in Nat /\ Len(q) \in 0..Len(q) /\ h[0] = SeenIn(v, m) /\ h[0] \in Belief
      /\ \A i \in 1..Len(q) : h[i] = Reads(h[i-1], q[i], id, m)
  BY ReadingShape DEF Reading
<1> DEFINE bad == {i \in Nat : i \in 0..Len(q) /\ ~ Follows(h[i], f[i], m)}
<1>3. ASSUME bad # {} PROVE FALSE
  <2>1. PICK x \in bad : \A y \in bad : x <= y
    <3>1. bad \in SUBSET Nat
      OBVIOUS
    <3> HIDE DEF bad
    <3> QED
      BY <1>3, <3>1, LeastOf
  <2>2. x \in Nat /\ x \in 0..Len(q) /\ ~ Follows(h[x], f[x], m)
    BY <2>1
  <2>3. x # 0
    <3>1. Follows(h[0], f[0], m)
      BY <1>1, <1>2 DEF Follows, SeenIn
    <3> QED
      BY <2>2, <3>1
  <2>4. x \in 1..Len(q) /\ x - 1 \in 0..Len(q) /\ x - 1 \in Nat /\ x - 1 \notin bad
    BY <1>2, <2>1, <2>2, <2>3
  <2>5. Follows(h[x-1], f[x-1], m)
    BY <2>4
  <2>6. PICK e : e = q[x] /\ e \in Notifications /\ e \in ToSet(q)
    BY <2>4, Elements
  <2>7. h[x] = Reads(h[x-1], e, id, m) /\ f[x] = IF e \in sent THEN Apply(f[x-1], e) ELSE f[x-1]
    BY <1>1, <1>2, <2>4, <2>6
  <2>8. CASE IsSelfAlreadySent(e, id)
    <3>1. h[x] = h[x-1] /\ f[x] = f[x-1]
      BY <2>7, <2>8 DEF Reads
    <3> QED
      BY <2>2, <2>5, <3>1
  <2>9. CASE ~ IsSelfAlreadySent(e, id)
    <3>1. h[x] = Learns(h[x-1], e, m) /\ f[x] = Apply(f[x-1], e)
      BY <2>6, <2>7, <2>9 DEF Reads
    <3>2. Follows(Learns(h[x-1], e, m), Apply(f[x-1], e), m)
      BY <2>5, <2>6, FollowsStep
    <3> QED
      BY <2>2, <3>1, <3>2
  <2> QED
    BY <2>8, <2>9
<1>4. Follows(h[Len(q)], f[Len(q)], m)
  BY <1>2, <1>3
<1> QED
  BY <1>1, <1>4

LEMMA IdlePending ==
    ASSUME task' = Idle
    PROVE  Pending'.t = "idle" /\ Pending'.v = 0 /\ Later(Pending')
<1>1. task'.stage = "idle" /\ task'.v = 0 /\ 0 \in Values
  BY Numbers DEF Idle, Values
<1> QED
  BY <1>1, EventFields DEF Pending, Later

\* Between two commands, what the client was sent is all that it knows.
LEMMA IdleForeseen ==
    ASSUME task' = Idle, NEW a \in Addrs, NEW m \in Mains,
           NEW v \in Views, view'[a] = v, NEW q, queue' = q, NEW id, sess'[a].id = id,
           NEW p, p = SeenIn(v, m), NEW e0, e0 = Pending',
           NEW x, x = Value(channels, where, away, m)',
           NEW y, y = Value(channels, where, away, Away(m[2]))',
           m \notin excused'[a] =>
               /\ Foresees(p, q, e0, id, m, x)
               /\ m[1] = "client" /\ Away(m[2]) \notin excused'[a] =>
                     ForeseesAway(p, q, e0, id, m, y)
    PROVE  Foreseen(a, m)'
<1>1. p \in Belief /\ e0.t = "idle"
  BY SeenType, IdlePending
<1>2. Learns(p, e0, m) = p
  BY <1>1, LearnsValue
<1>3. SeenIn(view[a], m)' = p
  BY DEF SeenIn
<1>4. Knows(a, m)' = p
  BY <1>2, <1>3 DEF Knows
<1> QED
  BY <1>4 DEF Foreseen

LEMMA ClientDisconnectSeen ==
    ASSUME SeesInv, NEW a \in Addrs, NEW kind, ClientDisconnect(a, kind)
    PROVE  ViewsSeen'
<1>1. PICK k, base : k = sess[a].id /\ base = [excused EXCEPT ![a] = {}]
  OBVIOUS
<1>2. /\ RemoveUdpClient(k, base) /\ task' = task /\ task = Idle /\ Listening(a)
      /\ sess' = [sess EXCEPT ![a] = NoSession] /\ view' = [view EXCEPT ![a] = Nothing]
  BY <1>1 DEF ClientDisconnect, Command, Listening
<1>3. /\ ViewTables /\ sess \in [Addrs -> Session] /\ excused \in [Addrs -> SUBSET Objects]
      /\ view \in [Addrs -> Views]
  BY DEF SeesInv, ViewInv, SessionsOK, ViewTables, ViewsSeen
<1>4. k \in Clients
  BY <1>1, <1>2, ListeningId, Numbers
<1>5. PICK ch, w, aw, es : Commit(ch, w, aw, es, {}, base) /\ Removed(ch, w, aw, es, k)
  BY <1>2, <1>3, <1>4, RemovalCommits
<1>6. w \in Places /\ es \in Seq(Notifications) /\ Truthful(ch, w, aw, es)
  BY <1>5 DEF Removed
<1>7. \A b \in Addrs \ {a} : sess'[b] = sess[b] /\ view'[b] = view[b] /\ excused[b] \subseteq base[b]
  BY <1>1, <1>2, <1>3
<1>8. ASSUME NEW b \in Addrs \ {a}, NEW m \in Mains, Listening(b) PROVE Shown(es, sess[b].id, m)
  <2>1. PICK id : id = sess[b].id /\ id # 0 /\ id # Bot /\ id # k
    BY <1>1, <1>8, ListeningId
  <2>2. Shown(es, id, m)
    BY <1>5, <2>1, RemovalShown
  <2> QED
    BY <2>1, <2>2
<1>9. view' \in [Addrs -> Views] /\ ~ Listening(a)'
  BY <1>2, <1>3, NoSessionFacts, NothingIsView DEF Listening
<1> QED
  BY <1>2, <1>5, <1>6, <1>7, <1>8, <1>9, CommandSeen

\* The client is sent the tables, and reads afterwards what had been queued before.
LEMMA SnapshotForeseen ==
    ASSUME ViewTables, NEW v \in Views, NEW q \in Seq(Notifications), NEW id, NEW m \in Mains,
           NEW p, p = SeenIn(v, m), NEW e0, e0.t = "idle"
    PROVE  /\ m \notin Outdated(id, v, q) => Foresees(p, q, e0, id, m, v[m])
           /\ m[1] = "client" /\ Away(m[2]) \notin Outdated(id, v, q) =>
                 ForeseesAway(p, q, e0, id, m, v[Away(m[2])])
<1>1. PICK sent, u : sent = {e \in ToSet(q) : ~ IsSelfAlreadySent(e, id)} /\ u = ApplyAll(v, q, sent)
  OBVIOUS
<1>2. \A o \in Objects : o \notin Outdated(id, v, q) => u[o] = v[o]
  BY <1>1 DEF Outdated
<1>3. m \in Objects /\ (m[1] = "client" => Away(m[2]) \in Objects)
  BY MainShape
<1>4. ASSUME NEW h, Reading(h, p, q, id, m)
      PROVE  /\ Reads(h[Len(q)], e0, id, m) = h[Len(q)]
             /\ h[Len(q)].x = u[m] /\ (m[1] = "client" => h[Len(q)].y \in {-1, u[Away(m[2])]})
  <2>1. Follows(h[Len(q)], u, m)
    <3>1. Follows(h[Len(q)], ApplyAll(v, q, sent), m)
      BY <1>1, <1>4, ReadAsApplied
    <3> QED
      BY <1>1, <3>1
  <2>2. h[Len(q)] \in Belief
    BY <2>1 DEF Follows
  <2> QED
    BY <2>1, <2>2, LearnsValue DEF Follows, Reads
<1> QED
  BY <1>2, <1>3, <1>4 DEF Foresees, ForeseesAway

LEMMA ClientInitSeen ==
    ASSUME SeesInv, NEW a \in Addrs, NEW kind, ClientInit(a, kind)
    PROVE  ViewsSeen'
<1>1. PICK id, ch, home, w, aw, e, es, q, v, base :
         /\ id = sess[a].id /\ ch = channels /\ home = DefaultChannelId(channels)
         /\ w = [where EXCEPT ![id] = home] /\ aw = away \ {id}
         /\ e = Event("enter", Client(id), home, id) /\ es = <<e>> /\ q = queue \o es
         /\ v = Snapshot(w, aw) /\ base = [excused EXCEPT ![a] = Outdated(id, v, q)]
  OBVIOUS
<1>2. /\ task' = task /\ task = Idle /\ sess[a].on
      /\ sess' = [sess EXCEPT ![a].named = TRUE, ![a].again = @ \/ sess[a].named]
      /\ view' = [view EXCEPT ![a] = v]
  BY <1>1 DEF ClientInit
<1>3. Commit(ch, w, aw, es, {}, base)
  BY <1>1 DEF ClientInit
<1>4. /\ ViewTables /\ sess \in [Addrs -> Session] /\ excused \in [Addrs -> SUBSET Objects]
      /\ view \in [Addrs -> Views]
  BY DEF SeesInv, ViewInv, SessionsOK, ViewTables, ViewsSeen
<1>5. id \in 1..MaxClid /\ id \in Clients /\ id \in 0..Invoker
  BY <1>1, <1>2, Numbers DEF SeesInv, ViewInv, SessionsOK, Session
<1>6. home \in ChannelIds /\ home \in 0..MaxChannelId /\ home \in Values
  <2>1. IsTable(ch)
    BY <1>1, <1>4 DEF ViewTables
  <2>2. home \in ChannelIds
    BY <1>1, <2>1, HomeIsId DEF IsTable
  <2> QED
    BY <2>2, Numbers DEF Values
<1>7. w \in Places /\ w[id] = home
  BY <1>1, <1>4, <1>5, <1>6 DEF ViewTables, Places
<1>8. /\ e \in Notifications /\ e.t = "enter" /\ e.o = Client(id) /\ e.v = home /\ e.by = id
      /\ es \in Seq(Notifications) /\ ToSet(es) = {e}
  <2>1. "enter" \in Types /\ Client(id) \in Objects /\ Client(id)[1] = About("enter")
    BY <1>5, ObjectShape DEF Types, About
  <2>2. e \in Notifications
    BY <1>1, <1>5, <1>6, <2>1, EventIsNotification
  <2> QED
    BY <1>1, <2>2, EventFields, Single
<1>9. Truthful(ch, w, aw, es)
  <2>1. Value(ch, w, aw, Client(id)) = home
    BY <1>7, ObjectShape DEF Value
  <2> QED
    BY <1>8, <2>1 DEF Truthful
<1>10. q \in Seq(Notifications) /\ queue' = q
  <2>1. queue \in Seq(Notifications)
    BY <1>4 DEF ViewTables
  <2>2. queue' = queue \o es
    BY <1>3 DEF Commit
  <2> QED
    BY <1>1, <1>8, <2>1, <2>2, Joined
<1>11. v \in Views /\ \A o \in Objects : v[o] = Value(ch, w, aw, o)
  BY <1>1, <1>7, ValueType DEF Snapshot, Views
<1>12. \A b \in Addrs \ {a} : sess'[b] = sess[b] /\ view'[b] = view[b] /\ excused[b] \subseteq base[b]
  BY <1>1, <1>2, <1>4
<1>13. ASSUME NEW b \in Addrs \ {a}, NEW m \in Mains, Listening(b) PROVE Shown(es, sess[b].id, m)
  <2>1. PICK r : r = sess[b].id /\ r # id
    BY <1>1, <1>13, ListeningId
  <2>2. ~ IsSelfAlreadySent(e, r)
    BY <1>8, <2>1, Foreign
  <2> QED
    BY <1>8, <2>1, <2>2 DEF Shown
<1>14. view' \in [Addrs -> Views] /\ view'[a] = v /\ sess'[a].id = id
  BY <1>1, <1>2, <1>4, <1>11 DEF Session
<1>15. Outdated(id, v, q) \subseteq excused'[a]
  <2>1. base[a] = Outdated(id, v, q)
    BY <1>1, <1>4
  <2>2. base[a] \subseteq excused'[a]
    BY <1>3 DEF Commit
  <2> QED
    BY <2>1, <2>2
<1>16. ASSUME NEW m \in Mains PROVE Foreseen(a, m)'
  <2>1. PICK p, e0, x, y : /\ p = SeenIn(v, m) /\ e0 = Pending'
                           /\ x = Value(channels, where, away, m)'
                           /\ y = Value(channels, where, away, Away(m[2]))'
    OBVIOUS
  <2>2. task' = Idle /\ e0.t = "idle"
    BY <1>2, <2>1, IdlePending
  <2>3. channels' = ch /\ where' = w /\ away' = aw
    BY <1>3 DEF Commit
  <2>4. x = v[m] /\ (m[1] = "client" => y = v[Away(m[2])])
    BY <1>11, <2>1, <2>3, MainShape DEF Value
  <2>5. m \notin excused'[a] =>
            /\ Foresees(p, q, e0, id, m, x)
            /\ m[1] = "client" /\ Away(m[2]) \notin excused'[a] => ForeseesAway(p, q, e0, id, m, y)
    BY <1>4, <1>10, <1>11, <1>15, <2>1, <2>2, <2>4, SnapshotForeseen
  <2> QED
    BY <1>10, <1>11, <1>14, <2>1, <2>2, <2>5, IdleForeseen
<1> QED
  BY <1>2, <1>3, <1>7, <1>8, <1>9, <1>12, <1>13, <1>14, <1>16, CommandSeen

-----------------------------------------------------------------------------
(* The first half of a command: the notification is not queued yet.        *)

LEMMA ForeseenThen ==
    ASSUME NEW a \in Addrs, NEW m \in Mains, NEW p, Knows(a, m)' = p, NEW q, queue' = q,
           NEW e0, Pending' = e0, NEW id, sess'[a].id = id,
           NEW x, Value(channels, where, away, m)' = x,
           NEW y, Value(channels, where, away, Away(m[2]))' = y,
           m \notin excused'[a] =>
               /\ Foresees(p, q, e0, id, m, x)
               /\ m[1] = "client" /\ Away(m[2]) \notin excused'[a] =>
                     ForeseesAway(p, q, e0, id, m, y)
    PROVE  Foreseen(a, m)'
BY DEF Foreseen

\* What a client foresees between two commands.
LEMMA ForeseenNow ==
    ASSUME SeesInv, task = Idle, NEW a \in Addrs, Listening(a), NEW m \in Mains, m \notin excused[a],
           NEW p, p = SeenIn(view[a], m), NEW q, q = queue, NEW e0, e0 = Pending,
           NEW id, id = sess[a].id, NEW x, x = Value(channels, where, away, m),
           NEW y, y = Value(channels, where, away, Away(m[2]))
    PROVE  /\ p \in Belief /\ q \in Seq(Notifications) /\ e0.t = "idle" /\ Later(e0)
           /\ Foresees(p, q, e0, id, m, x)
           /\ m[1] = "client" /\ Away(m[2]) \notin excused[a] => ForeseesAway(p, q, e0, id, m, y)
<1>1. Foreseen(a, m)
  BY DEF SeesInv, ViewsSeen, Sees
<1>2. Knows(a, m) = p /\ p \in Belief
  BY IdleKnows, KnowsType
<1>3. e0.t = "idle" /\ Later(e0) /\ q \in Seq(Notifications)
  BY PendingFacts DEF SeesInv, ViewInv, ViewTables
<1> QED
  BY <1>1, <1>2, <1>3 DEF Foreseen

\* The client is not excused if it was answered ahead of what it has yet to read.
LEMMA NotOvertaken ==
    ASSUME NEW a \in Addrs, NEW objs, NEW q \in Seq(Notifications), NEW m \in objs, m \in Mains,
           NEW id, id = sess[a].id, m \notin Overtaken(a, q, objs)
    PROVE  Quiet(q, id, m)
<1> SUFFICES ASSUME NEW e \in ToSet(q), Tells(e, id, m) PROVE FALSE
  BY DEF Quiet
<1>1. e \in Notifications
  BY Elements
<1>2. m \in Told(e)
  BY <1>1, ToldMain DEF Tells
<1> QED
  BY <1>2 DEF Overtaken, Tells

\* One that reads e next is told so of m.
LEMMA NextTells ==
    ASSUME NEW p \in Belief, NEW q \in Seq(Notifications), NEW id, NEW m \in Mains,
           NEW e0, e0.t = "idle", NEW x0, Foresees(p, q, e0, id, m, x0),
           NEW e1, ~ IsSelfAlreadySent(e1, id), NEW x1,
           \A b \in Belief : b.x = x0 => Learns(b, e1, m).x = x1
    PROVE  Foresees(p, q, e1, id, m, x1)
<1> SUFFICES ASSUME NEW h, Reading(h, p, q, id, m) PROVE Reads(h[Len(q)], e1, id, m).x = x1
  BY DEF Foresees
<1>1. PICK b : b = h[Len(q)] /\ b \in Belief
  BY ReadingShape
<1>2. Reads(b, e0, id, m) = b
  BY <1>1, LearnsValue DEF Reads
<1>3. b.x = x0
  BY <1>1, <1>2 DEF Foresees
<1> QED
  BY <1>1, <1>3 DEF Reads

\* The task has begun a command about o, and will say t and v of it.
Begins(a, o, t, v) ==
    \E stage, home, temp : /\ stage # "idle" /\ t = (IF stage = "vacate" THEN "deleted" ELSE stage)
                           /\ stage = "vacate" => v = 0
                           /\ Continue(stage, a, o, v, home, temp)

\* e says what becomes of o.
TrueOf(ch, w, o, e) ==
    \A b \in Belief : b.x = Value(channels, where, away, o) => Learns(b, e, o).x = Value(ch, w, away, o)

\* Nothing but o changes, and if it is a client, it neither comes nor goes.
ChangesOnly(ch, w, o) ==
    /\ o[1] = "client" => (Value(channels, where, away, o) = 0 <=> Value(ch, w, away, o) = 0)
    /\ \A m \in Mains \ {o} : Value(ch, w, away, m) = Value(channels, where, away, m)
    /\ \A m \in Mains : m[1] = "client" =>
           Value(ch, w, away, Away(m[2])) = Value(channels, where, away, Away(m[2]))

LEMMA FirstHalfSeen ==
    ASSUME SeesInv, NEW a \in Addrs, NEW kind, Command(a, kind), UNCHANGED <<sess, view>>,
           NEW ch, NEW w \in Places, NEW o \in Mains,
           Commit(ch, w, away, <<>>, {o}, ExcusedFor(a, Overtaken(a, queue, {o}))),
           NEW t \in {"created", "edited", "deleted", "moved"}, NEW v \in Values, Begins(a, o, t, v),
           NEW e1, e1 = Event(t, o, v, sess[a].id), TrueOf(ch, w, o, e1), ChangesOnly(ch, w, o)
    PROVE  ViewsSeen'
<1>a. PICK stage, home, temp : /\ stage # "idle" /\ t = (IF stage = "vacate" THEN "deleted" ELSE stage)
                               /\ stage = "vacate" => v = 0
                               /\ Continue(stage, a, o, v, home, temp)
  BY DEF Begins
<1>b. PICK x0, x1 : x0 = Value(channels, where, away, o) /\ x1 = Value(ch, w, away, o)
  OBVIOUS
<1>c. /\ Listening(a) /\ task = Idle
      /\ \A b \in Belief : b.x = x0 => Learns(b, e1, o).x = x1
      /\ o[1] = "client" => (x0 = 0 <=> x1 = 0)
      /\ \A m \in Mains \ {o} : Value(ch, w, away, m) = Value(channels, where, away, m)
      /\ \A m \in Mains : m[1] = "client" =>
             Value(ch, w, away, Away(m[2])) = Value(channels, where, away, Away(m[2]))
  BY <1>b DEF Command, Listening, TrueOf, ChangesOnly
<1>1. PICK base, objs, es : /\ objs = {o} /\ es = <<>>
                            /\ base = ExcusedFor(a, Overtaken(a, queue, objs))
  OBVIOUS
<1>2. PICK q : q = queue /\ q \in Seq(Notifications) /\ queue' = q
  <2>1. queue' = queue \o es /\ queue \in Seq(Notifications)
    BY <1>1 DEF Commit, SeesInv, ViewInv, ViewTables
  <2>2. queue \o es = queue
    BY <1>1, <2>1
  <2> QED
    BY <2>1, <2>2
<1>3. /\ \A b \in Addrs : excused[b] \subseteq excused'[b]
      /\ \A u \in Overtaken(a, q, objs) : u \in excused'[a]
  <2>1. \A b \in Addrs : base[b] \subseteq excused'[b]
    BY <1>1 DEF Commit
  <2>2. excused \in [Addrs -> SUBSET Objects]
    BY DEF SeesInv, ViewInv, ViewTables
  <2> QED
    BY <1>1, <1>2, <2>1, <2>2 DEF ExcusedFor
<1>4. channels' = ch /\ where' = w /\ away' = away
  BY DEF Commit
<1>5. /\ task'.addr = a /\ Pending' = e1 /\ task'.stage = stage /\ task'.v = v
  <2>1. task'.addr = a /\ task'.stage = stage /\ task'.o = o /\ task'.v = v
    BY <1>a DEF Continue
  <2>2. Pending' = Event(t, o, v, sess'[a].id)
    BY <1>a, <2>1 DEF Pending
  <2> QED
    BY <2>1, <2>2
<1>6. /\ e1.t = t /\ e1.o = o /\ e1.v = v /\ e1.by = sess[a].id /\ e1.t \notin {"left", "update", "idle"}
      /\ Later(e1)
  BY EventFields DEF Later
<1>7. ASSUME NEW b \in Addrs, Listening(b)', NEW m \in Mains PROVE Foreseen(b, m)'
  <2>1. Listening(b)
    BY <1>7 DEF Listening
  <2>2. PICK p, e0, id, u0, u1, y0, y1 :
           /\ p = SeenIn(view[b], m) /\ e0 = Pending /\ id = sess[b].id
           /\ u0 = Value(channels, where, away, m) /\ u1 = Value(ch, w, away, m)
           /\ y0 = Value(channels, where, away, Away(m[2])) /\ y1 = Value(ch, w, away, Away(m[2]))
    OBVIOUS
  <2>3. /\ Value(channels, where, away, m)' = u1 /\ Value(channels, where, away, Away(m[2]))' = y1
        /\ m[1] = "client" => y1 = y0
    BY <1>c, <1>4, <2>2 DEF Value
  <2>4. SeenIn(view[b], m)' = p /\ sess'[b].id = id
    BY <2>2 DEF SeenIn
  <2>5. p \in Belief /\ e0.t = "idle" /\ Later(e0)
    BY <1>c, <2>2, KnowsType, PendingFacts
  <2>6. ASSUME m \notin excused[b]
        PROVE  /\ Foresees(p, q, e0, id, m, u0)
               /\ m[1] = "client" /\ Away(m[2]) \notin excused[b] => ForeseesAway(p, q, e0, id, m, y0)
    BY <1>2, <1>c, <2>1, <2>2, <2>6, ForeseenNow
  <2>7. CASE b # a
    <3>1. Knows(b, m)' = p
      BY <1>5, <2>4, <2>7 DEF Knows
    <3>2. ~ IsSelfAlreadySent(e1, id)
      <4>1. sess[a].id # id
        BY <2>1, <2>2, <2>7, ListeningId
      <4> QED
        BY <1>6, <4>1, Foreign
    <3>3. ASSUME m \notin excused'[b]
          PROVE  Foresees(p, q, e1, id, m, u1)
      <4>1. Foresees(p, q, e0, id, m, u0)
        BY <1>3, <2>6, <3>3
      <4>2. \A d \in Belief : d.x = u0 => Learns(d, e1, m).x = u1
        BY <1>6, <1>b, <1>c, <2>2, LearnsValue
      <4> QED
        BY <1>2, <2>5, <3>2, <4>1, <4>2, NextTells
    <3>4. ASSUME m \notin excused'[b], m[1] = "client", Away(m[2]) \notin excused'[b]
          PROVE  ForeseesAway(p, q, e1, id, m, y1)
      <4>1. ForeseesAway(p, q, e0, id, m, y0)
        BY <1>3, <2>6, <3>4
      <4> QED
        BY <1>2, <1>6, <2>3, <2>5, <3>4, <4>1, LaterAway
    <3> QED
      BY <1>2, <1>5, <2>3, <2>4, <3>1, <3>3, <3>4, ForeseenThen
  <2>8. CASE b = a /\ m # o
    <3>1. Learns(p, e1, m) = p
      BY <1>6, <2>8 DEF Learns
    <3>2. Knows(b, m)' = p
      BY <1>5, <2>4, <2>8, <3>1 DEF Knows
    <3>3. Unread(e1, id, m) /\ Unread(e0, id, m) /\ u1 = u0
      BY <1>6, <1>c, <2>2, <2>5, <2>8 DEF Unread, Tells
    <3>4. ASSUME m \notin excused'[b]
          PROVE  Foresees(p, q, e1, id, m, u1)
      <4>1. Foresees(p, q, e0, id, m, u0)
        BY <1>3, <2>6, <3>4
      <4> QED
        BY <1>2, <3>3, <4>1, UnreadForeseen
    <3>5. ASSUME m \notin excused'[b], m[1] = "client", Away(m[2]) \notin excused'[b]
          PROVE  ForeseesAway(p, q, e1, id, m, y1)
      <4>1. ForeseesAway(p, q, e0, id, m, y0)
        BY <1>3, <2>6, <3>5
      <4> QED
        BY <1>2, <1>6, <2>3, <2>5, <3>5, <4>1, LaterAway
    <3> QED
      BY <1>2, <1>5, <2>3, <2>4, <3>2, <3>4, <3>5, ForeseenThen
  <2>9. CASE b = a /\ m = o
    <3>1. PICK r : r = Learns(p, e1, m) /\ r \in Belief
      <4>1. Learns(p, e1, m) \in Belief
        BY <1>6, <2>5, LearnsType
      <4> QED
        BY <4>1
    <3>2. Knows(b, m)' = r
      BY <1>5, <2>4, <2>9, <3>1 DEF Knows
    <3>3. ~ Tells(e1, id, m)
      BY <1>6, <2>2, <2>9 DEF Tells, IsSelfAlreadySent
    <3>4. ASSUME m \notin excused'[b]
          PROVE  /\ Quiet(q, id, m) /\ p.x = u0 /\ r.x = u1
    <4>1. Quiet(q, id, m)
      <5>1. m \in objs /\ m \notin Overtaken(a, q, objs)
        BY <1>1, <1>3, <2>9, <3>4
      <5> QED
        BY <1>2, <2>2, <2>9, <5>1, NotOvertaken
    <4>2. Foresees(p, q, e0, id, m, u0)
      BY <1>3, <2>6, <3>4
    <4>3. p.x = u0
      BY <1>2, <2>5, <4>1, <4>2, QuietNow
    <4> QED
      BY <1>b, <1>c, <2>2, <2>5, <2>9, <3>1, <4>1, <4>3
    <3>5. ASSUME m \notin excused'[b]
          PROVE  Foresees(r, q, e1, id, m, u1)
      <4>1. Foresees(r, q, e1, id, m, r.x)
        BY <1>2, <3>3, <3>4, <3>5, QuietThen
      <4> QED
        BY <3>4, <3>5, <4>1
    <3>6. ASSUME m \notin excused'[b], m[1] = "client", Away(m[2]) \notin excused'[b]
          PROVE  ForeseesAway(r, q, e1, id, m, y1)
      <4>1. ForeseesAway(p, q, e0, id, m, y0)
        BY <1>3, <2>6, <3>6
      <4>2. r.y = p.y
        <5>1. Learns(p, e1, m).y = p.y
          BY <1>6, <2>5, LearnsFlag
        <5> QED
          BY <3>1, <5>1
      <4>3. r.x = 0 <=> p.x = 0
        BY <1>b, <1>c, <2>2, <2>9, <3>4, <3>6
      <4> QED
        BY <1>2, <1>6, <2>3, <2>5, <3>1, <3>4, <3>6, <4>1, <4>2, <4>3, MoveAnswered
    <3> QED
      BY <1>2, <1>5, <2>3, <2>4, <3>2, <3>5, <3>6, ForeseenThen
  <2> QED
    BY <2>7, <2>8, <2>9
<1>8. \A b \in Addrs : Sees(b)'
  BY <1>7 DEF Sees
<1>9. view' \in [Addrs -> Views] /\ (task'.stage = "vacate" => task'.v = 0)
  BY <1>a, <1>5 DEF SeesInv, ViewsSeen
<1> QED
  BY <1>8, <1>9 DEF ViewsSeen

LEMMA UdpClientMoveSeen ==
    ASSUME SeesInv, NEW a \in Addrs, NEW kind, NEW k \in Clients, NEW c \in ChannelIds,
           UdpClientMove(a, kind, k, c)
    PROVE  ViewsSeen'
<1>1. PICK ch, w, o, t, v, home, temp, x0, x1, e1 :
         /\ ch = channels /\ w = (IF where[k] # 0 THEN [where EXCEPT ![k] = c] ELSE where)
         /\ o = Client(k) /\ t = "moved" /\ v = c /\ home = 0 /\ temp = FALSE
         /\ x0 = Value(channels, where, away, o) /\ x1 = Value(ch, w, away, o)
         /\ e1 = Event(t, o, v, sess[a].id)
  OBVIOUS
<1>2. /\ Commit(ch, w, away, <<>>, {o}, ExcusedFor(a, Overtaken(a, queue, {o})))
      /\ Continue(t, a, o, v, home, temp)
      /\ UNCHANGED <<sess, view>> /\ Command(a, kind)
  BY <1>1 DEF UdpClientMove
<1>3. /\ v \in Values /\ v # 0 /\ o \in Mains /\ o[1] = "client" /\ o[2] = k
      /\ t \in {"created", "edited", "deleted", "moved"} /\ t # "idle" /\ t # "vacate"
  BY <1>1, Numbers, ObjectShape DEF Values, Mains
<1>4. /\ w \in Places /\ w[k] = (IF where[k] = 0 THEN 0 ELSE c)
      /\ \A j \in Clients : (j # k => w[j] = where[j]) /\ (w[j] = 0 <=> where[j] = 0)
  BY <1>1, Numbers DEF SeesInv, ViewInv, ViewTables, Places
<1>5. x0 = where[k] /\ x1 = w[k] /\ (x0 = 0 <=> x1 = 0)
  BY <1>1, <1>3, <1>4 DEF Value
<1>6. \A b \in Belief : b.x = x0 => Learns(b, e1, o).x = x1
  <2> SUFFICES ASSUME NEW b \in Belief, b.x = x0 PROVE Learns(b, e1, o).x = x1
    OBVIOUS
  <2>1. e1.t = "moved" /\ e1.o = o /\ e1.v = c
    BY <1>1, EventFields
  <2>2. Learns(b, e1, o).x = IF b.x = 0 THEN 0 ELSE c
    BY <1>3, <2>1, LearnsValue
  <2> QED
    BY <1>4, <1>5, <2>2
<1>7. \A m \in Mains \ {o} : Value(ch, w, away, m) = Value(channels, where, away, m)
  <2> SUFFICES ASSUME NEW m \in Mains \ {o}
               PROVE  Value(ch, w, away, m) = Value(channels, where, away, m)
    OBVIOUS
  <2>1. CASE m[1] = "channel"
    BY <1>1, <2>1 DEF Value
  <2>2. CASE m[1] = "client"
    <3>1. m = Client(m[2]) /\ m[2] \in Clients
      BY <2>2, MainShape
    <3>2. m[2] # k
      BY <1>1, <3>1
    <3> QED
      BY <1>4, <2>2, <3>1, <3>2 DEF Value
  <2> QED
    BY <2>1, <2>2, MainShape
<1>8. \A m \in Mains : m[1] = "client" =>
         Value(ch, w, away, Away(m[2])) = Value(channels, where, away, Away(m[2]))
  <2> SUFFICES ASSUME NEW m \in Mains, m[1] = "client"
               PROVE  Value(ch, w, away, Away(m[2])) = Value(channels, where, away, Away(m[2]))
    OBVIOUS
  <2>1. m[2] \in Clients /\ Away(m[2])[1] = "away" /\ Away(m[2])[2] = m[2]
    BY MainShape DEF Away
  <2> QED
    BY <1>4, <2>1 DEF Value
<1>9. Begins(a, o, t, v)
  <2>1. t # "idle" /\ t = (IF t = "vacate" THEN "deleted" ELSE t) /\ (t = "vacate" => v = 0)
    BY <1>3
  <2> QED
    BY <1>2, <2>1 DEF Begins
<1>10. TrueOf(ch, w, o, e1) /\ ChangesOnly(ch, w, o)
  BY <1>1, <1>5, <1>6, <1>7, <1>8 DEF TrueOf, ChangesOnly
<1> QED
  BY <1>1, <1>2, <1>3, <1>4, <1>9, <1>10, FirstHalfSeen

\* The commands about channel c.
SameButFor(ch, c) ==
    /\ \A d \in DOMAIN ch \ {c} : d \in DOMAIN channels /\ ch[d].kind = channels[d].kind
    /\ DOMAIN channels \ {c} \subseteq DOMAIN ch

LEMMA ChannelHalfSeen ==
    ASSUME SeesInv, NEW a \in Addrs, NEW kind, Command(a, kind), UNCHANGED <<sess, view>>,
           NEW ch, NEW c \in ChannelIds,
           Commit(ch, where, away, <<>>, {Channel(c)},
                  ExcusedFor(a, Overtaken(a, queue, {Channel(c)}))),
           SameButFor(ch, c),
           NEW t \in {"created", "edited", "deleted"}, NEW v, v = Value(ch, where, away, Channel(c)),
           t = "edited" => Value(channels, where, away, Channel(c)) # 0,
           Begins(a, Channel(c), t, v)
    PROVE  ViewsSeen'
<1>1. PICK w, o, x0, e1 :
         /\ w = where /\ o = Channel(c) /\ x0 = Value(channels, where, away, o)
         /\ e1 = Event(t, o, v, sess[a].id)
  OBVIOUS
<1>2. o \in Mains /\ o[1] = "channel" /\ o[2] = c /\ o \in Objects
  BY <1>1, ObjectShape DEF Mains
<1>3. w \in Places
  BY <1>1 DEF SeesInv, ViewInv, ViewTables
<1>4. v \in Values /\ v = Value(ch, w, away, o)
  <2>1. Value(ch, w, away, o) \in Values
    BY <1>2, <1>3, ValueType
  <2> QED
    BY <1>1, <2>1
<1>5. /\ Commit(ch, w, away, <<>>, {o}, ExcusedFor(a, Overtaken(a, queue, {o})))
      /\ Begins(a, o, t, v) /\ t \in {"created", "edited", "deleted", "moved"}
  BY <1>1
<1>6. \A b \in Belief : b.x = x0 => Learns(b, e1, o).x = v
  <2> SUFFICES ASSUME NEW b \in Belief, b.x = x0 PROVE Learns(b, e1, o).x = v
    OBVIOUS
  <2>1. e1.t = t /\ e1.o = o /\ e1.v = v
    BY <1>1, EventFields
  <2>2. CASE t = "edited"
    <3>1. x0 # 0
      BY <1>1, <2>2
    <3> QED
      BY <1>2, <2>1, <2>2, <3>1, LearnsValue
  <2>3. CASE t # "edited"
    BY <1>2, <2>1, <2>3, LearnsValue
  <2> QED
    BY <2>2, <2>3
<1>7. \A m \in Mains \ {o} : Value(ch, w, away, m) = Value(channels, where, away, m)
  <2> SUFFICES ASSUME NEW m \in Mains \ {o}
               PROVE  Value(ch, w, away, m) = Value(channels, where, away, m)
    OBVIOUS
  <2>1. CASE m[1] = "client"
    BY <1>1, <2>1 DEF Value
  <2>2. CASE m[1] = "channel"
    <3>1. m = Channel(m[2])
      BY <2>2, MainShape
    <3>2. PICK d : d = m[2] /\ d # c
      BY <1>1, <3>1
    <3>3. (d \in DOMAIN ch <=> d \in DOMAIN channels) /\ (d \in DOMAIN ch => ch[d].kind = channels[d].kind)
      BY <3>2 DEF SameButFor
    <3> QED
      BY <2>2, <3>2, <3>3 DEF Value
  <2> QED
    BY <2>1, <2>2, MainShape
<1>8. \A m \in Mains : m[1] = "client" =>
         Value(ch, w, away, Away(m[2])) = Value(channels, where, away, Away(m[2]))
  <2>1. \A m : Away(m[2])[1] = "away"
    BY DEF Away
  <2> QED
    BY <1>1, <2>1 DEF Value
<1> QED
  <2>1. TrueOf(ch, w, o, e1) /\ ChangesOnly(ch, w, o)
    BY <1>1, <1>2, <1>4, <1>6, <1>7, <1>8 DEF TrueOf, ChangesOnly
  <2> QED
    BY <1>1, <1>2, <1>3, <1>4, <1>5, <2>1, FirstHalfSeen

LEMMA UdpChannelCreateSeen ==
    ASSUME SeesInv, NEW a \in Addrs, NEW kind, NEW p, NEW ck,
           NEW flag, UdpChannelCreate(a, kind, p, ck, flag)
    PROVE  ViewsSeen'
<1> DEFINE Grown(c) == [d \in DOMAIN channels \union {c} |->
                           IF d = c THEN [parent |-> p, order |-> 0, kind |-> ck, dflt |-> flag]
                           ELSE [channels[d] EXCEPT !.dflt = @ /\ ~ flag]]
<1>1. PICK c \in ChannelIds :
         /\ Commit(Grown(c), where, away, <<>>, {Channel(c)},
                ExcusedFor(a, Overtaken(a, queue, {Channel(c)})))
         /\ Continue("created", a, Channel(c), Value(Grown(c), where, away, Channel(c)), 0, FALSE)
  BY DEF UdpChannelCreate
<1>2. Command(a, kind) /\ UNCHANGED <<sess, view>>
  BY DEF UdpChannelCreate
<1>3. PICK ch, t, v, home, temp :
         /\ ch = Grown(c) /\ t = "created" /\ v = Value(ch, where, away, Channel(c))
         /\ home = 0 /\ temp = FALSE
  OBVIOUS
<1>4. DOMAIN ch = DOMAIN channels \union {c} /\ \A d \in DOMAIN channels \ {c} : ch[d].kind = channels[d].kind
  <2>1. \A d \in DOMAIN channels : IsTable(channels) => channels[d] \in Row
    BY DEF IsTable
  <2>2. IsTable(channels)
    BY DEF SeesInv, ViewInv, ViewTables
  <2>3. \A d \in DOMAIN channels \ {c} : Grown(c)[d] = [channels[d] EXCEPT !.dflt = @ /\ ~ flag]
    OBVIOUS
  <2>4. \A r \in Row : \A b : [r EXCEPT !.dflt = b].kind = r.kind
    BY DEF Row
  <2>5. DOMAIN Grown(c) = DOMAIN channels \union {c}
    OBVIOUS
  <2>6. \A d \in DOMAIN channels \ {c} : Grown(c)[d].kind = channels[d].kind
    <3> SUFFICES ASSUME NEW d \in DOMAIN channels \ {c}
                 PROVE  Grown(c)[d].kind = channels[d].kind
      OBVIOUS
    <3>1. PICK b : b = (channels[d].dflt /\ ~ flag)
      OBVIOUS
    <3>2. Grown(c)[d] = [channels[d] EXCEPT !.dflt = b]
      BY <2>3, <3>1
    <3>3. channels[d] \in Row
      BY <2>1, <2>2
    <3> HIDE DEF Grown
    <3> QED
      BY <2>4, <3>2, <3>3
  <2> HIDE DEF Grown
  <2> QED
    BY <1>3, <2>5, <2>6
<1> HIDE DEF Grown
<1>5. SameButFor(ch, c)
  BY <1>4 DEF SameButFor
<1>6. Begins(a, Channel(c), t, v)
  <2>1. Continue(t, a, Channel(c), v, home, temp)
    BY <1>1, <1>3
  <2>2. t # "idle" /\ t = (IF t = "vacate" THEN "deleted" ELSE t) /\ (t = "vacate" => v = 0)
    BY <1>3
  <2> QED
    BY <2>1, <2>2 DEF Begins
<1>7. /\ Commit(ch, where, away, <<>>, {Channel(c)}, ExcusedFor(a, Overtaken(a, queue, {Channel(c)})))
      /\ t \in {"created", "edited", "deleted"} /\ t # "edited"
  BY <1>1, <1>3
<1> QED
  BY <1>2, <1>3, <1>5, <1>6, <1>7, ChannelHalfSeen

LEMMA UdpChannelDeleteSeen ==
    ASSUME SeesInv, NEW a \in Addrs, NEW kind, NEW c \in ChannelIds, UdpChannelDelete(a, kind, c)
    PROVE  ViewsSeen'
<1>1. PICK ch, home, v, stage, temp, t :
         /\ ch = [d \in DOMAIN channels \ {c} |-> channels[d]]
         /\ home = DefaultChannelId(channels) /\ v = 0 /\ stage = "vacate" /\ t = "deleted"
         /\ temp = (channels[c].kind = "temporary")
  OBVIOUS
<1>2. /\ Commit(ch, where, away, <<>>, {Channel(c)},
                ExcusedFor(a, Overtaken(a, queue, {Channel(c)})))
      /\ Continue(stage, a, Channel(c), v, home, temp)
      /\ Command(a, kind) /\ UNCHANGED <<sess, view>>
  BY <1>1 DEF UdpChannelDelete
<1>3. SameButFor(ch, c)
  BY <1>1 DEF SameButFor
<1>4. v = Value(ch, where, away, Channel(c))
  BY <1>1, ObjectShape DEF Value
<1>5. Begins(a, Channel(c), t, v)
  <2>1. stage # "idle" /\ t = (IF stage = "vacate" THEN "deleted" ELSE stage) /\ (stage = "vacate" => v = 0)
    BY <1>1
  <2> QED
    BY <1>2, <2>1 DEF Begins
<1>6. t \in {"created", "edited", "deleted"} /\ t # "edited"
  BY <1>1
<1> QED
  BY <1>2, <1>3, <1>4, <1>5, <1>6, ChannelHalfSeen

LEMMA UdpChannelEditSeen ==
    ASSUME SeesInv, NEW a \in Addrs, NEW kind, NEW c \in ChannelIds, NEW ck,
           NEW flag, UdpChannelEdit(a, kind, c, ck, flag)
    PROVE  ViewsSeen'
<1> DEFINE F == [d \in DOMAIN channels |->
                   IF flag THEN [channels[d] EXCEPT !.dflt = d = c] ELSE channels[d]]
           T == IF c \in DOMAIN channels THEN [F EXCEPT ![c].kind = ck] ELSE F
<1>1. PICK flagged, ch, v :
         /\ flagged = F
         /\ ch = (IF c \in DOMAIN channels THEN [flagged EXCEPT ![c].kind = ck] ELSE flagged)
         /\ v = Value(ch, where, away, Channel(c))
         /\ ch = T
  OBVIOUS
<1>2. /\ Commit(ch, where, away, <<>>, {Channel(c)},
                ExcusedFor(a, Overtaken(a, queue, {Channel(c)})))
      /\ IF c \in DOMAIN channels
         THEN Continue("edited", a, Channel(c), v, 0, FALSE)
         ELSE UNCHANGED task
      /\ UNCHANGED <<sess, view>> /\ Command(a, kind)
  <2>1. /\ Commit(T, where, away, <<>>, {Channel(c)},
                  ExcusedFor(a, Overtaken(a, queue, {Channel(c)})))
        /\ IF c \in DOMAIN channels
           THEN Continue("edited", a, Channel(c), Value(T, where, away, Channel(c)), 0, FALSE)
           ELSE UNCHANGED task
        /\ UNCHANGED <<sess, view>> /\ Command(a, kind)
    BY DEF UdpChannelEdit
  <2> HIDE DEF F, T
  <2>2. Commit(ch, where, away, <<>>, {Channel(c)},
               ExcusedFor(a, Overtaken(a, queue, {Channel(c)})))
    BY <1>1, <2>1
  <2>3. IF c \in DOMAIN channels
        THEN Continue("edited", a, Channel(c), v, 0, FALSE)
        ELSE UNCHANGED task
    BY <1>1, <2>1
  <2> QED
    BY <2>1, <2>2, <2>3, Zenon
<1>3. DOMAIN ch = DOMAIN channels /\ \A d \in DOMAIN channels \ {c} : ch[d].kind = channels[d].kind
  <2>1. \A d \in DOMAIN channels : channels[d] \in Row
    BY DEF SeesInv, ViewInv, ViewTables, IsTable
  <2>2. \A r \in Row : \A b : [r EXCEPT !.dflt = b].kind = r.kind
    BY DEF Row
  <2>3. DOMAIN flagged = DOMAIN channels
    BY <1>1
  <2>4. ASSUME NEW d \in DOMAIN channels PROVE flagged[d].kind = channels[d].kind
    <3>1. flagged[d] = IF flag THEN [channels[d] EXCEPT !.dflt = d = c] ELSE channels[d]
      BY <1>1
    <3> QED
      BY <2>1, <2>2, <3>1
  <2>5. DOMAIN ch = DOMAIN flagged /\ \A d \in DOMAIN flagged \ {c} : ch[d] = flagged[d]
    <3> HIDE DEF F, T
    <3>1. CASE c \in DOMAIN channels
      BY <1>1, <3>1
    <3>2. CASE c \notin DOMAIN channels
      BY <1>1, <3>2
    <3> QED
      BY <3>1, <3>2
  <2> QED
    BY <2>3, <2>4, <2>5
<1> HIDE DEF F, T
<1>4. SameButFor(ch, c)
  BY <1>3 DEF SameButFor
<1>5. CASE c \in DOMAIN channels
  <2>1. PICK t, home, temp : t = "edited" /\ home = 0 /\ temp = FALSE
    OBVIOUS
  <2>2. Value(channels, where, away, Channel(c)) # 0
    BY <1>5, ObjectShape DEF Value
  <2>3. Begins(a, Channel(c), t, v)
    <3>1. Continue(t, a, Channel(c), v, home, temp)
      BY <1>2, <1>5, <2>1
    <3>2. t # "idle" /\ t = (IF t = "vacate" THEN "deleted" ELSE t) /\ (t = "vacate" => v = 0)
      BY <2>1
    <3> QED
      BY <3>1, <3>2 DEF Begins
  <2>4. t \in {"created", "edited", "deleted"}
    BY <2>1
  <2> QED
    BY <1>1, <1>2, <1>4, <2>2, <2>3, <2>4, ChannelHalfSeen
<1>6. CASE c \notin DOMAIN channels
  <2>1. PICK w, aw, es, late, base :
           /\ w = where /\ aw = away /\ es = <<>> /\ late = {Channel(c)}
           /\ base = ExcusedFor(a, Overtaken(a, queue, late))
    OBVIOUS
  <2>2. /\ w \in Places /\ es \in Seq(Notifications) /\ excused \in [Addrs -> SUBSET Objects]
        /\ ToSet(es) = {} /\ Commit(ch, w, aw, es, late, base)
    BY <1>2, <2>1, Empty DEF SeesInv, ViewInv, ViewTables
  <2>3. Truthful(ch, w, aw, es) /\ \A id, m : Shown(es, id, m)
    BY <2>2 DEF Truthful, Shown
  <2>4. \A b \in Addrs : excused[b] \subseteq excused'[b]
    <3>1. \A b \in Addrs : base[b] \subseteq excused'[b]
      BY <2>2 DEF Commit
    <3>2. \A b \in Addrs : excused[b] \subseteq base[b]
      BY <2>1, <2>2 DEF ExcusedFor
    <3> QED
      BY <3>1, <3>2
  <2>5. \A m \in Mains : Value(ch, w, aw, m) = Value(channels, where, away, m)
    <3> SUFFICES ASSUME NEW m \in Mains PROVE Value(ch, w, aw, m) = Value(channels, where, away, m)
      OBVIOUS
    <3>1. PICK d : d = m[2]
      OBVIOUS
    <3>2. (d \in DOMAIN ch <=> d \in DOMAIN channels) /\ (d \in DOMAIN ch => ch[d].kind = channels[d].kind)
      BY <1>3, <1>6
    <3>3. m[1] = "channel" \/ m[1] = "client"
      BY MainShape
    <3> QED
      BY <2>1, <3>1, <3>2, <3>3 DEF Value
  <2>6. \A k : Away(k) \notin late
    BY <2>1 DEF Away, Channel
  <2>7. task' = task /\ task = Idle /\ sess' = sess /\ view' = view
    BY <1>2, <1>6 DEF Command
  <2>8. ASSUME NEW b \in Addrs, Listening(b)', NEW m \in Mains PROVE Foreseen(b, m)'
    <3>1. Foreseen(b, m)
      BY <2>7, <2>8 DEF Listening, SeesInv, ViewsSeen, Sees
    <3> QED
      BY <2>2, <2>3, <2>4, <2>5, <2>6, <2>7, <3>1, StepOfOthers
  <2>9. \A b \in Addrs : Sees(b)'
    BY <2>8 DEF Sees
  <2> QED
    BY <2>7, <2>9 DEF ViewsSeen, SeesInv
<1> QED
  BY <1>5, <1>6

-----------------------------------------------------------------------------
(* The second half of a command.                                           *)

\* What the client believes after the answer is what it is said to learn.
LEMMA SeenApplied ==
    ASSUME NEW v \in Views, NEW e \in Notifications, NEW m \in Mains, e.t # "enter",
           ViewTables
    PROVE  SeenIn(Apply(v, e), m) = Learns(SeenIn(v, m), e, m)
<1>1. PICK p, r, s : p = SeenIn(v, m) /\ r = Learns(p, e, m) /\ s = SeenIn(Apply(v, e), m)
  OBVIOUS
<1>2. p \in Belief /\ s \in Belief /\ e.v \in Values
  BY <1>1, SeenType, ApplyType, NotificationShape
<1>3. r \in Belief
  BY <1>1, <1>2, LearnsType
<1>4. s.x = r.x /\ (m[1] = "client" => s.y = r.y)
  <2>1. s.x = Apply(v, e)[m] /\ (m[1] = "client" => s.y = Apply(v, e)[Away(m[2])])
    BY <1>1 DEF SeenIn
  <2>2. /\ Apply(v, e)[m] = Learns(SeenIn(v, m), e, m).x
        /\ m[1] = "client" => Apply(v, e)[Away(m[2])] = Learns(SeenIn(v, m), e, m).y
    BY ApplyLearns
  <2> QED
    BY <1>1, <2>1, <2>2
<1>5. m[1] # "client" => s.y = r.y
  <2> SUFFICES ASSUME m[1] # "client" PROVE s.y = r.y
    OBVIOUS
  <2>1. p.y = 0 /\ s.y = 0
    BY <1>1 DEF SeenIn
  <2>2. e.o = m => e.t # "left"
    BY MainEvents, NotificationShape, ObjectShape DEF About, Notifications
  <2>3. r.y = p.y
    BY <1>1, <1>2, <2>2, LearnsFlag
  <2> QED
    BY <2>1, <2>3
<1>6. \A b, c \in Belief : b.x = c.x /\ b.y = c.y => b = c
  BY DEF Belief
<1> QED
  BY <1>1, <1>2, <1>3, <1>4, <1>5, <1>6

LEMMA PublishSeen ==
    ASSUME SeesInv, NEW kind, NEW stage \in {"created", "edited", "deleted", "moved"},
           Publish(kind, stage)
    PROVE  ViewsSeen'
<1>1. PICK a, e, q : a = task.addr /\ e = Event(stage, task.o, task.v, sess[a].id) /\ q = queue
  OBVIOUS
<1>2. /\ task.stage = stage /\ view' = [view EXCEPT ![a] = Apply(@, e)] /\ queue' = Append(q, e)
      /\ task' = Idle /\ UNCHANGED <<channels, where, away, sess, excused>>
  BY <1>1 DEF Publish
<1>3. task # Idle /\ stage # "vacate" /\ stage # "idle"
  BY <1>2 DEF Idle
<1>4. e = Pending
  BY <1>1, <1>2, <1>3 DEF Pending
<1>5. /\ e \in Notifications /\ e.o = task.o /\ e.v = task.v /\ e.by = sess[a].id /\ a \in Addrs
      /\ e.t = stage /\ Later(e)
  BY <1>1, <1>2, <1>3, <1>4, PendingFacts
<1>6. ViewTables /\ view \in [Addrs -> Views] /\ q \in Seq(Notifications)
  BY <1>1 DEF SeesInv, ViewInv, ViewsSeen, ViewTables
<1>7. PICK q1 : q1 = q \o <<e>> /\ queue' = q1
  BY <1>2, <1>5, <1>6, AppendIsConcat
<1>8. view' \in [Addrs -> Views] /\ view'[a] = Apply(view[a], e)
      /\ \A b \in Addrs : b # a => view'[b] = view[b]
  <2>1. Apply(view[a], e) \in Views
    BY <1>5, <1>6, ApplyType
  <2> QED
    BY <1>2, <1>5, <1>6, <2>1
<1>9. ASSUME NEW b \in Addrs, Listening(b)', NEW m \in Mains PROVE Foreseen(b, m)'
  <2>1. Foreseen(b, m)
    BY <1>2, <1>9 DEF Listening, SeesInv, ViewsSeen, Sees
  <2>2. PICK p, v, id, e0, x, y :
           /\ p = Knows(b, m) /\ v = view'[b] /\ id = sess[b].id /\ e0 = Pending'
           /\ x = Value(channels, where, away, m) /\ y = Value(channels, where, away, Away(m[2]))
    OBVIOUS
  <2>3. p \in Belief /\ v \in Views /\ e0.t = "idle"
    BY <1>2, <1>8, <2>2, KnowsType, IdlePending
  <2>4. p = SeenIn(v, m)
    <3>1. CASE b # a
      BY <1>1, <1>8, <2>2, <3>1, OthersKnow
    <3>2. CASE b = a
      <4>1. p = Learns(SeenIn(view[a], m), e, m)
        BY <1>1, <1>4, <2>2, <3>2 DEF Knows
      <4>2. SeenIn(Apply(view[a], e), m) = Learns(SeenIn(view[a], m), e, m)
        BY <1>5, <1>6, SeenApplied
      <4> QED
        BY <1>8, <2>2, <3>2, <4>1, <4>2
    <3> QED
      BY <3>1, <3>2
  <2>5. /\ Value(channels, where, away, m)' = x /\ Value(channels, where, away, Away(m[2]))' = y
        /\ excused'[b] = excused[b] /\ sess'[b].id = id
    BY <1>2, <2>2 DEF Value
  <2>6. m \notin excused[b] =>
          /\ Foresees(p, q, e, id, m, x)
          /\ m[1] = "client" /\ Away(m[2]) \notin excused[b] => ForeseesAway(p, q, e, id, m, y)
    BY <1>1, <1>4, <2>1, <2>2 DEF Foreseen
  <2>7. /\ Foresees(p, q, e, id, m, x) => Foresees(p, q1, e0, id, m, x)
        /\ ForeseesAway(p, q, e, id, m, y) => ForeseesAway(p, q1, e0, id, m, y)
    BY <1>5, <1>6, <1>7, <2>3, Queued
  <2>8. m \notin excused'[b] =>
          /\ Foresees(p, q1, e0, id, m, x)
          /\ m[1] = "client" /\ Away(m[2]) \notin excused'[b] => ForeseesAway(p, q1, e0, id, m, y)
    BY <2>5, <2>6, <2>7
  <2> QED
    BY <1>2, <1>7, <2>2, <2>3, <2>4, <2>5, <2>8, IdleForeseen
<1>10. task'.stage = "idle"
  BY <1>2 DEF Idle
<1> QED
  BY <1>8, <1>9, <1>10 DEF ViewsSeen, Sees

-----------------------------------------------------------------------------
(* Several notifications are answered at once.                             *)

\* What is kept by every notification that is sent is kept to the end.
LEMMA AppliedWithin ==
    ASSUME ViewTables, NEW v \in Views, NEW es \in Seq(Notifications), NEW sent, NEW m \in Mains,
           \A e \in ToSet(es) : e.t \notin {"enter", "update"},
           NEW f, Applies(f, v, es, sent), NEW j \in 0..Len(es), NEW B, SeenIn(f[j], m) \in B,
           \A e \in ToSet(es), b \in Belief : e \in sent /\ b \in B => Learns(b, e, m) \in B
    PROVE  \A i \in j..Len(es) : SeenIn(f[i], m) \in B
<1>1. /\ f \in [0..Len(es) -> Views] /\ Len(es) \in Nat
      /\ \A i \in 1..Len(es) : f[i] = IF es[i] \in sent THEN Apply(f[i-1], es[i]) ELSE f[i-1]
  BY LenProperties DEF Applies
<1> DEFINE bad == {i \in Nat : i \in j..Len(es) /\ SeenIn(f[i], m) \notin B}
<1>2. ASSUME bad # {} PROVE FALSE
  <2>1. PICK x \in bad : \A y \in bad : x <= y
    <3>1. bad \in SUBSET Nat
      OBVIOUS
    <3> HIDE DEF bad
    <3> QED
      BY <1>2, <3>1, LeastOf
  <2>2. x \in Nat /\ x \in j..Len(es) /\ SeenIn(f[x], m) \notin B /\ x # j
    BY <2>1
  <2>3. x \in 1..Len(es) /\ x - 1 \in 0..Len(es) /\ x - 1 \in j..Len(es) /\ x - 1 \in Nat /\ x - 1 \notin bad
    BY <1>1, <2>1, <2>2
  <2>4. SeenIn(f[x-1], m) \in B
    BY <2>3
  <2>5. PICK e, u : e = es[x] /\ e \in Notifications /\ e \in ToSet(es) /\ u = f[x-1] /\ u \in Views
    BY <1>1, <2>3, Elements
  <2>6. f[x] = IF e \in sent THEN Apply(u, e) ELSE u
    BY <1>1, <2>3, <2>5
  <2>7. e \in sent
    BY <2>2, <2>4, <2>5, <2>6
  <2>8. SeenIn(Apply(u, e), m) = Learns(SeenIn(u, m), e, m) /\ SeenIn(u, m) \in Belief
    BY <2>5, SeenApplied, SeenType
  <2>9. Learns(SeenIn(u, m), e, m) \in B
    BY <2>4, <2>5, <2>7, <2>8
  <2> QED
    BY <2>2, <2>6, <2>7, <2>8, <2>9
<1>3. \A i \in j..Len(es) : i \in Nat
  BY <1>1
<1> QED
  BY <1>2, <1>3

LEMMA AppliedKeeps ==
    ASSUME ViewTables, NEW v \in Views, NEW es \in Seq(Notifications), NEW sent, NEW m \in Mains,
           \A e \in ToSet(es) : e.t \notin {"enter", "update"},
           NEW B, SeenIn(v, m) \in B,
           \A e \in ToSet(es), b \in Belief : e \in sent /\ b \in B => Learns(b, e, m) \in B
    PROVE  ApplyAll(v, es, sent) \in Views /\ SeenIn(ApplyAll(v, es, sent), m) \in B
<1>1. PICK f : Applies(f, v, es, sent) /\ ApplyAll(v, es, sent) = f[Len(es)]
  BY AppliedInTurn
<1>2. 0 \in 0..Len(es) /\ Len(es) \in 0..Len(es) /\ f[0] = v /\ f[Len(es)] \in Views
  BY <1>1, LenProperties DEF Applies
<1>3. \A i \in 0..Len(es) : SeenIn(f[i], m) \in B
  BY <1>1, <1>2, AppliedWithin
<1> QED
  BY <1>1, <1>2, <1>3

\* What a notification brings about and the others keep.
LEMMA AppliedTo ==
    ASSUME ViewTables, NEW v \in Views, NEW es \in Seq(Notifications), NEW sent, NEW m \in Mains,
           \A e \in ToSet(es) : e.t \notin {"enter", "update"},
           NEW B, SeenIn(v, m) \in B,
           \A e \in ToSet(es), b \in Belief : e \in sent /\ b \in B => Learns(b, e, m) \in B,
           NEW C,
           \A e \in ToSet(es), b \in Belief : e \in sent /\ b \in C => Learns(b, e, m) \in C,
           NEW d \in ToSet(es), d \in sent, \A b \in Belief : b \in B => Learns(b, d, m) \in C
    PROVE  SeenIn(ApplyAll(v, es, sent), m) \in C
<1>1. PICK f : Applies(f, v, es, sent) /\ ApplyAll(v, es, sent) = f[Len(es)]
  BY AppliedInTurn
<1>2. 0 \in 0..Len(es) /\ Len(es) \in Nat /\ f[0] = v /\ f \in [0..Len(es) -> Views]
  BY <1>1, LenProperties DEF Applies
<1>3. \A i \in 0..Len(es) : SeenIn(f[i], m) \in B
  BY <1>1, <1>2, AppliedWithin
<1>4. PICK j \in 1..Len(es) : d = es[j]
  BY DEF ToSet
<1>5. j \in 0..Len(es) /\ j - 1 \in 0..Len(es) /\ Len(es) \in j..Len(es)
  BY <1>2, <1>4
<1>6. f[j] = Apply(f[j-1], d) /\ f[j-1] \in Views
  BY <1>1, <1>2, <1>4, <1>5 DEF Applies
<1>7. SeenIn(f[j], m) \in C
  <2>1. d \in Notifications
    BY Elements
  <2>2. PICK u : u = f[j-1] /\ u \in Views /\ f[j] = Apply(u, d) /\ SeenIn(u, m) \in B
    BY <1>3, <1>5, <1>6
  <2>3. SeenIn(Apply(u, d), m) = Learns(SeenIn(u, m), d, m) /\ SeenIn(u, m) \in Belief
    BY <2>1, <2>2, SeenApplied, SeenType
  <2> QED
    BY <2>2, <2>3
<1>8. \A i \in j..Len(es) : SeenIn(f[i], m) \in C
  BY <1>1, <1>5, <1>7, AppliedWithin
<1> QED
  BY <1>1, <1>5, <1>8

\* Whatever the client believes, something comes of it.
LEMMA SomethingForeseen ==
    ASSUME NEW q \in Seq(Notifications), NEW p \in Belief, NEW id, NEW m \in Mains, NEW e0, Later(e0)
    PROVE  /\ \E x \in Values : Foresees(p, q, e0, id, m, x)
           /\ \E y \in Values : ForeseesAway(p, q, e0, id, m, y)
<1>1. PICK h : Reading(h, p, q, id, m)
  BY ReadingExists
<1>2. PICK b, r : b = h[Len(q)] /\ b \in Belief /\ r = Reads(b, e0, id, m) /\ r \in Belief
  <2>1. h[Len(q)] \in Belief /\ e0.v \in Values
    BY <1>1, ReadingShape DEF Later
  <2>2. Reads(h[Len(q)], e0, id, m) \in Belief
    BY <2>1, LearnsType
  <2> QED
    BY <2>1, <2>2
<1>3. \A k : Reading(k, p, q, id, m) => k[Len(q)] = b
  BY <1>1, <1>2, SameReading
<1>4. Foresees(p, q, e0, id, m, r.x) /\ r.x \in Values
  BY <1>2, <1>3 DEF Foresees, Belief
<1>5. PICK y : y = (IF r.y = -1 THEN 0 ELSE r.y) /\ y \in Values
  <2>1. 0 \in Values
    BY Numbers DEF Values
  <2> QED
    BY <1>2, <2>1 DEF Belief
<1>6. ForeseesAway(p, q, e0, id, m, y)
  BY <1>2, <1>3, <1>5 DEF ForeseesAway
<1> QED
  BY <1>4, <1>5, <1>6

\* The client is told that m is gone, now or later, and nothing else of m.
LEMMA GoneForeseen ==
    ASSUME NEW q \in Seq(Notifications), NEW es \in Seq(Notifications), NEW p \in Belief, NEW id,
           NEW m \in Mains, NEW e0, Later(e0), e0.t # "idle" => ~ Tells(e0, id, m),
           \A e \in ToSet(es) : e.o = m => e.t = "left",
           \A e \in ToSet(es) : e.t # "update",
           \E e \in ToSet(es) : Tells(e, id, m)
    PROVE  Foresees(p, q \o es, e0, id, m, 0) /\ ForeseesAway(p, q \o es, e0, id, m, 0)
<1>1. PICK x \in Values, y \in Values : Foresees(p, q, e0, id, m, x) /\ ForeseesAway(p, q, e0, id, m, y)
  BY SomethingForeseen
<1>2. PICK z : z = 0 /\ z \in Values
  BY Numbers DEF Values
<1>3. \A e \in ToSet(es) : Tells(e, id, m) => Says(e, x, z)
  BY <1>2 DEF Tells, Says
<1>4. Foresees(p, q \o es, e0, id, m, z)
  BY <1>1, <1>2, <1>3, Heard
<1>5. /\ \A e \in ToSet(es) : ~ (e.t = "update" /\ e.o = Away(m[2]))
      /\ \A e \in ToSet(es) : Tells(e, id, m) /\ e.t = "left" => z = 0
      /\ \E e \in ToSet(es) : Tells(e, id, m) /\ e.t \in {"left", "enter"}
  BY <1>2 DEF Tells
<1>6. ForeseesAway(p, q \o es, e0, id, m, z)
  BY <1>1, <1>2, <1>5, HeardAway
<1> QED
  BY <1>2, <1>4, <1>6

-----------------------------------------------------------------------------
(* The second part of channeldelete.                                       *)

\* e is one of the answers to it.
Vacates(e, moved, removed, home, id) ==
    \/ \E k \in removed : e.o = Client(k) /\ e.t = "left" /\ e.v = 0 /\ e.by = 0
    \/ \E k \in moved : e.o = Client(k) /\ e.t = "moved" /\ e.v = home /\ e.by = id

VacateList(moved, removed, home, id) ==
    SetToSeq({Event("left", Client(k), 0, 0) : k \in removed})
    \o SetToSeq({Event("moved", Client(k), home, id) : k \in moved})

IsVacateList(es, moved, removed, home, id) ==
    /\ es \in Seq(Notifications)
    /\ \A e \in ToSet(es) : Vacates(e, moved, removed, home, id)
    /\ \A k \in removed : \E e \in ToSet(es) : e.o = Client(k) /\ e.t = "left" /\ e.by = 0
    /\ \A k \in moved : \E e \in ToSet(es) : e.o = Client(k)

LEMMA VacateSays ==
    ASSUME NEW moved \in SUBSET Clients, NEW removed \in SUBSET Clients, NEW home \in Values,
           NEW id \in 0..Invoker, NEW es, es = VacateList(moved, removed, home, id)
    PROVE  IsVacateList(es, moved, removed, home, id)
<1>1. PICK R, M, l, v, z : /\ R = {Client(k) : k \in removed} /\ M = {Client(k) : k \in moved}
                           /\ l = "left" /\ v = "moved" /\ z = 0
  OBVIOUS
<1>2. PICK s, t : s = Each(l, R, z, z) /\ t = Each(v, M, home, id)
  OBVIOUS
<1>3. z \in Values /\ z \in 0..Invoker /\ l \in Types /\ v \in Types
      /\ R \in SUBSET Objects /\ M \in SUBSET Objects
      /\ (\A o \in R : o[1] = About(l)) /\ (\A o \in M : o[1] = About(v))
  BY <1>1, Numbers, ObjectShape DEF Types, About, Values
<1>4. /\ s \in Seq(Notifications) /\ \A e : e \in ToSet(s) <=> \E o \in R : e = Event(l, o, z, z)
      /\ t \in Seq(Notifications) /\ \A e : e \in ToSet(t) <=> \E o \in M : e = Event(v, o, home, id)
  <2>1. /\ Each(l, R, z, z) \in Seq(Notifications)
        /\ \A e : e \in ToSet(Each(l, R, z, z)) <=> \E o \in R : e = Event(l, o, z, z)
    BY <1>3, EventList, Zenon
  <2>2. /\ Each(v, M, home, id) \in Seq(Notifications)
        /\ \A e : e \in ToSet(Each(v, M, home, id)) <=> \E o \in M : e = Event(v, o, home, id)
    BY <1>3, EventList, Zenon
  <2> QED
    BY <1>2, <2>1, <2>2
<1>5. es = s \o t
  <2>1. {Event(l, o, z, z) : o \in R} = {Event(l, Client(k), z, z) : k \in removed}
    BY <1>1
  <2>2. {Event(v, o, home, id) : o \in M} = {Event(v, Client(k), home, id) : k \in moved}
    BY <1>1
  <2> QED
    BY <1>1, <1>2, <2>1, <2>2 DEF Each, VacateList
<1>6. es \in Seq(Notifications) /\ ToSet(es) = ToSet(s) \union ToSet(t)
  <2>1. s \o t \in Seq(Notifications) /\ ToSet(s \o t) = ToSet(s) \union ToSet(t)
    BY <1>4, Joined, Zenon
  <2> QED
    BY <1>5, <2>1, Zenon
<1>7. \A e \in ToSet(es) : Vacates(e, moved, removed, home, id)
  <2> SUFFICES ASSUME NEW e \in ToSet(es) PROVE Vacates(e, moved, removed, home, id)
    OBVIOUS
  <2>1. CASE \E o \in R : e = Event(l, o, z, z)
    <3>1. PICK k \in removed : e = Event(l, Client(k), z, z)
      BY <1>1, <2>1
    <3>2. e.o = Client(k) /\ e.t = l /\ e.v = z /\ e.by = z
      BY <3>1, EventFields
    <3> QED
      BY <1>1, <3>2 DEF Vacates
  <2>2. CASE \E o \in M : e = Event(v, o, home, id)
    <3>1. PICK k \in moved : e = Event(v, Client(k), home, id)
      BY <1>1, <2>2
    <3>2. e.o = Client(k) /\ e.t = v /\ e.v = home /\ e.by = id
      BY <3>1, EventFields
    <3> QED
      BY <1>1, <3>2 DEF Vacates
  <2> QED
    BY <1>4, <1>6, <2>1, <2>2
<1>8. ASSUME NEW k \in removed PROVE \E e \in ToSet(es) : e.o = Client(k) /\ e.t = "left" /\ e.by = 0
  <2>1. PICK e : e = Event(l, Client(k), z, z)
    OBVIOUS
  <2>2. e \in ToSet(es)
    BY <1>1, <1>4, <1>6, <2>1
  <2>3. e.o = Client(k) /\ e.t = l /\ e.by = z
    BY <2>1, EventFields
  <2> QED
    BY <1>1, <2>2, <2>3
<1>9. ASSUME NEW k \in moved PROVE \E e \in ToSet(es) : e.o = Client(k)
  <2>1. PICK e : e = Event(v, Client(k), home, id)
    OBVIOUS
  <2>2. e \in ToSet(es)
    BY <1>1, <1>4, <1>6, <2>1
  <2>3. e.o = Client(k)
    BY <2>1, EventFields
  <2> QED
    BY <2>2, <2>3
<1> QED
  BY <1>6, <1>7, <1>8, <1>9 DEF IsVacateList

\* The client knows, without the notification to come, what it was sent of a client.
LEMMA KnowsOfClient ==
    ASSUME SeesInv, task # Idle, task.stage # "moved", NEW a \in Addrs, NEW m \in Mains,
           m[1] = "client"
    PROVE  Knows(a, m) = SeenIn(view[a], m)
<1>1. PICK e, p : e = Pending /\ p = SeenIn(view[a], m)
  OBVIOUS
<1>2. e.t \in {"created", "edited", "deleted"} /\ e.o[1] = "channel"
  <2>1. e \in Notifications /\ e.t \in {"created", "edited", "deleted", "moved"}
        /\ e.t = IF task.stage = "vacate" THEN "deleted" ELSE task.stage
    BY <1>1, PendingFacts
  <2> QED
    BY <2>1, NotificationShape
<1>3. Learns(p, e, m) = p
  BY <1>2 DEF Learns
<1> QED
  BY <1>1, <1>3 DEF Knows

LEMMA VacateSeen ==
    ASSUME SeesInv, NEW moved \in SUBSET InDeleted, NEW removed \in SUBSET {Bot},
           moved \intersect removed = {}, Vacate(moved, removed)
    PROVE  ViewsSeen'
<1>1. ViewTables /\ SessionsOK /\ TaskOK /\ view \in [Addrs -> Views]
  BY DEF SeesInv, ViewInv, ViewsSeen
<1>2. task # Idle /\ task.stage = "vacate" /\ task.v = 0
  BY DEF Vacate, Idle, SeesInv, ViewsSeen
<1>3. PICK a, id, home, ch, w, aw, objs, es, base, q, e0, v :
         /\ a = task.addr /\ id = sess[a].id /\ home = task.home /\ ch = channels /\ aw = away
         /\ w = [k \in Clients |-> IF k \in removed THEN 0 ELSE IF k \in moved THEN home ELSE where[k]]
         /\ objs = {Client(k) : k \in moved}
         /\ es = SetToSeq({Event("left", Client(k), 0, 0) : k \in removed})
                 \o SetToSeq({Event("moved", Client(k), home, id) : k \in moved})
         /\ base = ExcusedFor(a, Overtaken(a, queue, objs)) /\ q = queue /\ e0 = Pending
         /\ v = ApplyAll(view[a], es, ToSet(es))
  OBVIOUS
<1>4. PICK late : late = {} /\ Commit(ch, w, aw, es, late, base)
  BY <1>3 DEF Vacate
<1>5. /\ Continue("deleted", a, task.o, 0, 0, FALSE) /\ UNCHANGED <<sess>>
      /\ view' = [view EXCEPT ![a] = v]
  BY <1>3 DEF Vacate
<1>6. a \in Addrs /\ Listening(a) /\ home \in 0..MaxChannelId /\ home # 0
  BY <1>1, <1>2, <1>3 DEF TaskOK, Job
<1>7. /\ id \in 0..Invoker /\ id # 0 /\ id # Bot /\ home \in Values
      /\ moved \in SUBSET Clients /\ removed \in SUBSET Clients
      /\ \A k \in moved : where[k] # 0
  BY <1>3, <1>6, ListeningId, Numbers DEF Values, InDeleted
<1>8. /\ es \in Seq(Notifications)
      /\ \A e \in ToSet(es) : Vacates(e, moved, removed, home, id)
      /\ \A k \in removed : \E e \in ToSet(es) : e.o = Client(k) /\ e.t = "left" /\ e.by = 0
      /\ \A k \in moved : \E e \in ToSet(es) : e.o = Client(k)
  <2>1. es = VacateList(moved, removed, home, id)
    BY <1>3 DEF VacateList
  <2>2. IsVacateList(es, moved, removed, home, id)
    BY <1>7, <2>1, VacateSays
  <2> QED
    BY <2>2 DEF IsVacateList
<1>9. w \in Places /\ \A k \in Clients : w[k] = IF k \in removed THEN 0 ELSE IF k \in moved THEN home ELSE where[k]
  BY <1>1, <1>3, <1>6, <1>7, Numbers DEF ViewTables, Places
<1>10. \A e \in ToSet(es) : e.t \notin {"enter", "update"} /\ e.o[1] = "client"
  BY <1>8 DEF Vacates, Client
<1>11. Truthful(ch, w, aw, es)
  <2> SUFFICES ASSUME NEW e \in ToSet(es)
               PROVE  \/ e.t \in {"left", "deleted"} /\ e.v = 0
                      \/ /\ e.t \in {"moved", "edited"} /\ e.v = Value(ch, w, aw, e.o)
                         /\ Value(channels, where, away, e.o) # 0
    BY DEF Truthful
  <2>1. CASE \E k \in removed : e.o = Client(k) /\ e.t = "left" /\ e.v = 0 /\ e.by = 0
    BY <2>1
  <2>2. ASSUME NEW k \in moved, e.o = Client(k), e.t = "moved", e.v = home
        PROVE  e.v = Value(ch, w, aw, e.o) /\ Value(channels, where, away, e.o) # 0
    <3>1. Client(k)[1] = "client" /\ Client(k)[2] = k
      BY DEF Client
    <3>2. w[k] = home /\ where[k] # 0
      BY <1>7, <1>9, <2>2
    <3> QED
      BY <2>2, <3>1, <3>2 DEF Value
  <2> QED
    BY <1>8, <2>1, <2>2 DEF Vacates
<1>12. /\ Pending' = e0 /\ Later(e0) /\ e0.t # "idle" /\ e0.by = id /\ e0.t = "deleted"
       /\ task'.addr = a /\ task'.stage = "deleted"
  <2>1. task'.addr = a /\ task'.stage = "deleted" /\ task'.o = task.o /\ task'.v = task.v
    BY <1>2, <1>5 DEF Continue
  <2>2. Pending' = Event("deleted", task.o, task.v, sess[a].id)
    BY <1>5, <2>1 DEF Pending
  <2>3. Pending = Event("deleted", task.o, task.v, sess[a].id)
    BY <1>2, <1>3 DEF Pending
  <2> QED
    BY <1>2, <1>3, <2>1, <2>2, <2>3, PendingFacts
<1>13. \A b \in Addrs : excused[b] \subseteq excused'[b]
  <2>1. base \in [Addrs -> SUBSET Objects] /\ \A b \in Addrs : excused[b] \subseteq base[b]
    <3>1. objs \subseteq Objects
      BY <1>3, <1>7, ObjectShape
    <3> QED
      BY <1>1, <1>3, <1>6, <3>1, ExcusedForType
  <2>2. \A b \in Addrs : base[b] \subseteq excused'[b]
    BY <1>4 DEF Commit
  <2> QED
    BY <2>1, <2>2
<1>14. \A u \in Overtaken(a, q, objs) : u \in excused'[a]
  <2>1. base[a] \subseteq excused'[a]
    BY <1>4, <1>6 DEF Commit
  <2>2. base[a] = excused[a] \union Overtaken(a, q, objs)
    BY <1>1, <1>3, <1>6 DEF ExcusedFor, ViewTables
  <2> QED
    BY <2>1, <2>2
<1>15. v \in Views /\ view' \in [Addrs -> Views] /\ view'[a] = v
       /\ \A b \in Addrs : b # a => view'[b] = view[b]
  <2>1. v \in Views
    <3>1. PICK f : Applies(f, view[a], es, ToSet(es)) /\ ApplyAll(view[a], es, ToSet(es)) = f[Len(es)]
      BY <1>1, <1>6, <1>8, AppliedInTurn
    <3>2. Len(es) \in 0..Len(es)
      BY <1>8, LenProperties
    <3> QED
      BY <1>3, <3>1, <3>2 DEF Applies
  <2> QED
    BY <1>1, <1>5, <1>6, <2>1
<1>16. channels' = ch /\ where' = w /\ away' = aw /\ queue' = q \o es
       /\ q \in Seq(Notifications) /\ q \o es \in Seq(Notifications)
  BY <1>1, <1>3, <1>4, <1>8, Joined DEF Commit, ViewTables
<1>17. ASSUME NEW b \in Addrs, Listening(b), NEW m \in Mains, Knows(b, m)' = Knows(b, m),
              Shown(es, sess[b].id, m)
       PROVE  Foreseen(b, m)'
  <2>1. Foreseen(b, m)
    BY <1>17 DEF SeesInv, ViewsSeen, Sees
  <2>2. PICK p : p = Knows(b, m) /\ Knows(b, m)' = p
    BY <1>17
  <2>3. excused[b] \subseteq excused'[b] /\ sess'[b].id = sess[b].id /\ Pending' = e0 /\ e0 = Pending
    BY <1>3, <1>5, <1>12, <1>13
  <2>4. (Value(ch, w, aw, m) # Value(channels, where, away, m) => m \notin late)
        /\ \A k : Away(k) \notin late
    BY <1>4
  <2> QED
    BY <1>4, <1>8, <1>9, <1>11, <1>17, <2>1, <2>2, <2>3, <2>4, OthersForesee
<1>18. ASSUME NEW b \in Addrs, b # a, Listening(b), NEW m \in Mains PROVE Foreseen(b, m)'
  <2>1. Knows(b, m) = SeenIn(view[b], m)
    BY <1>3, <1>18 DEF Knows
  <2>2. Knows(b, m)' = SeenIn(view[b], m)
    <3>1. SeenIn(view[b], m)' = SeenIn(view[b], m)
      BY <1>15, <1>18 DEF SeenIn
    <3> QED
      BY <1>12, <1>18, <3>1 DEF Knows
  <2>3. Shown(es, sess[b].id, m)
    <3>1. PICK r : r = sess[b].id /\ r # id /\ r # Bot /\ r # 0
      BY <1>3, <1>6, <1>18, ListeningId
    <3>2. ASSUME NEW e \in ToSet(es) PROVE ~ IsSelfAlreadySent(e, r)
      <4>1. CASE \E k \in removed : e.o = Client(k) /\ e.t = "left" /\ e.v = 0 /\ e.by = 0
        <5>1. e.o[2] = Bot /\ e.t = "left"
          BY <4>1 DEF Client
        <5> QED
          BY <3>1, <4>1, <5>1 DEF IsSelfAlreadySent
      <4>2. CASE \E k \in moved : e.o = Client(k) /\ e.t = "moved" /\ e.v = home /\ e.by = id
        BY <3>1, <4>2 DEF IsSelfAlreadySent
      <4> QED
        BY <1>8, <4>1, <4>2 DEF Vacates
    <3> QED
      BY <3>1, <3>2 DEF Shown
  <2> QED
    BY <1>17, <1>18, <2>1, <2>2, <2>3
<1>19. ASSUME NEW m \in Mains, \A e \in ToSet(es) : e.o # m PROVE Foreseen(a, m)'
  <2>1. PICK s, B : s = SeenIn(view[a], m) /\ B = {s}
    OBVIOUS
  <2>2. s \in Belief
    BY <1>6, <2>1, KnowsType
  <2>3. \A e \in ToSet(es), b \in Belief : e \in ToSet(es) /\ b \in B => Learns(b, e, m) \in B
    BY <1>10, <1>19, <2>1 DEF Learns
  <2>4. SeenIn(v, m) \in B
    <3>1. SeenIn(view[a], m) \in B /\ \A e \in ToSet(es) : e.t \notin {"enter", "update"}
      BY <1>10, <2>1
    <3>2. PICK v0, sent : v0 = view[a] /\ sent = ToSet(es) /\ v0 \in Views
      BY <1>1, <1>6
    <3>3. SeenIn(ApplyAll(v0, es, sent), m) \in B
      BY <1>1, <1>8, <2>3, <3>1, <3>2, AppliedKeeps
    <3> QED
      BY <1>3, <3>2, <3>3
  <2>5. SeenIn(view[a], m)' = s
    <3>1. SeenIn(view[a], m)' = SeenIn(v, m)
      BY <1>15 DEF SeenIn
    <3> QED
      BY <2>1, <2>4, <3>1
  <2>6. Knows(a, m) = Learns(s, e0, m) /\ Knows(a, m)' = Learns(s, e0, m)
    BY <1>3, <1>12, <2>1, <2>5 DEF Knows
  <2>7. Shown(es, sess[a].id, m)
    BY <1>19 DEF Shown
  <2> QED
    BY <1>6, <1>17, <2>6, <2>7
<1>20. ASSUME NEW m \in Mains, NEW k \in moved, m = Client(k) PROVE Foreseen(a, m)'
  <2>1. m[1] = "client" /\ m[2] = k /\ k \in Clients /\ k \notin removed
    BY <1>7, <1>20 DEF Client
  <2>2. \A e \in ToSet(es) : e.o = m => e.t = "moved" /\ e.v = home /\ e.by = id
    <3> SUFFICES ASSUME NEW e \in ToSet(es), e.o = m PROVE e.t = "moved" /\ e.v = home /\ e.by = id
      OBVIOUS
    <3>1. \A j \in removed : e.o # Client(j)
      BY <1>20, <2>1 DEF Client
    <3> QED
      BY <1>8, <3>1 DEF Vacates
  <2>3. PICK p, x, y, q1 : /\ p = SeenIn(view[a], m) /\ q1 = q \o es
                           /\ x = Value(channels, where, away, m)
                           /\ y = Value(channels, where, away, Away(m[2]))
    OBVIOUS
  <2>4. Knows(a, m) = p /\ p \in Belief
    BY <1>2, <1>6, <2>1, <2>3, KnowsOfClient, KnowsType
  <2>5. x # 0 /\ x = where[k] /\ y = (IF k \in away THEN 1 ELSE 0)
    BY <1>7, <2>1, <2>3 DEF Value, Away
  <2>6. PICK r : r = SeenIn(v, m) /\ r \in Belief
    BY <1>15, SeenType
  <2>7. Knows(a, m)' = r
    <3>1. SeenIn(view[a], m)' = r
      BY <1>15, <2>6 DEF SeenIn
    <3>2. Learns(r, e0, m) = r
      <4>1. e0.o[1] = "channel"
        BY <1>3, <1>2, <1>12, PendingFacts, NotificationShape
      <4> QED
        BY <1>12, <2>1, <4>1 DEF Learns
    <3> QED
      BY <3>1, <3>2, <1>12 DEF Knows
  <2>8. Value(ch, w, aw, m) = home /\ Value(ch, w, aw, Away(m[2])) = y
    BY <1>3, <1>6, <1>9, <1>20, <2>1, <2>5 DEF Value, Away
  <2>9. /\ Foreseen(a, m)
        /\ ~ Tells(e0, id, m) /\ Unread(e0, id, m)
    BY <1>3, <1>6, <1>12 DEF SeesInv, ViewsSeen, Sees, Tells, Unread, IsSelfAlreadySent
  <2>10. ASSUME m \notin excused'[a]
         PROVE  /\ Foresees(r, q1, e0, id, m, home)
                /\ Away(m[2]) \notin excused'[a] => ForeseesAway(r, q1, e0, id, m, y)
    <3>1. m \notin excused[a] /\ m \notin Overtaken(a, q, objs) /\ m \in objs
      BY <1>3, <1>6, <1>13, <1>14, <1>20, <2>10
    <3>2. Quiet(q, id, m)
      BY <1>3, <1>6, <1>16, <3>1, NotOvertaken
    <3>3. p.x = x
      <4>1. PICK e1 : e1 = [t |-> "idle"]
        OBVIOUS
      <4>2. e1.t = "idle" /\ Unread(e1, id, m)
        BY <4>1 DEF Unread
      <4>3. Foresees(p, q, e0, id, m, x)
        BY <1>3, <2>3, <2>4, <2>9, <3>1 DEF Foreseen
      <4>4. Foresees(p, q, e1, id, m, x)
        BY <1>16, <2>9, <4>2, <4>3, UnreadForeseen
      <4> QED
        BY <1>16, <2>4, <3>2, <4>2, <4>4, QuietNow
    <3>4. r.x = home /\ r.y = p.y
      <4>a. PICK B, C, v0, sent :
               /\ B = {b \in Belief : b.x # 0 /\ b.y = p.y} /\ C = {b \in Belief : b.x = home /\ b.y = p.y}
               /\ v0 = view[a] /\ sent = ToSet(es)
        OBVIOUS
      <4>b. PICK d \in ToSet(es) : d.o = m
        BY <1>8, <1>20
      <4>1. /\ B = {b \in Belief : b.x # 0 /\ b.y = p.y} /\ C = {b \in Belief : b.x = home /\ b.y = p.y}
            /\ v0 = view[a] /\ sent = ToSet(es) /\ v0 \in Views
            /\ d \in ToSet(es) /\ d \in sent /\ d.o = m
        BY <1>1, <1>6, <4>a, <4>b
      <4>2. SeenIn(v0, m) \in B
        BY <2>3, <2>4, <2>5, <3>3, <4>1
      <4>3. ASSUME NEW e \in ToSet(es), NEW b \in Belief, b.x # 0, b.y = p.y
            PROVE  /\ Learns(b, e, m).x = (IF e.o = m THEN home ELSE b.x)
                   /\ Learns(b, e, m).y = p.y /\ Learns(b, e, m) \in Belief
        <5>1. Learns(b, e, m) \in Belief
          <6>1. e.v \in Values
            BY <1>8, Elements DEF Notifications
          <6> QED
            BY <6>1, LearnsType
        <5>2. CASE e.o = m
          BY <1>7, <2>2, <4>3, <5>1, <5>2, LearnsValue, LearnsFlag
        <5>3. CASE e.o # m
          BY <1>10, <4>3, <5>1, <5>3, LearnsValue, LearnsFlag
        <5> QED
          BY <5>2, <5>3
      <4>4. \A e \in ToSet(es), b \in Belief : e \in sent /\ b \in B => Learns(b, e, m) \in B
        BY <1>6, <4>1, <4>3
      <4>5. \A e \in ToSet(es), b \in Belief : e \in sent /\ b \in C => Learns(b, e, m) \in C
        BY <1>6, <4>1, <4>3
      <4>6. \A b \in Belief : b \in B => Learns(b, d, m) \in C
        BY <4>1, <4>3
      <4>7. \A e \in ToSet(es) : e.t \notin {"enter", "update"}
        BY <1>10
      <4>8. SeenIn(ApplyAll(v0, es, sent), m) \in C
        BY <1>1, <1>8, <4>1, <4>2, <4>4, <4>5, <4>6, <4>7, AppliedTo
      <4> QED
        BY <1>3, <2>6, <4>1, <4>8
    <3>5. Quiet(q1, id, m)
      <4> SUFFICES ASSUME NEW e \in ToSet(q1), Tells(e, id, m) PROVE FALSE
        BY DEF Quiet
      <4>1. ToSet(q1) = ToSet(q) \union ToSet(es)
        BY <1>8, <1>16, <2>3, Joined
      <4>2. e \in ToSet(es) => e.t = "moved" /\ e.by = id
        BY <2>2 DEF Tells
      <4>3. e \notin ToSet(es)
        BY <4>2 DEF Tells, IsSelfAlreadySent
      <4> QED
        BY <3>2, <4>1, <4>3 DEF Quiet
    <3>6. Foresees(r, q1, e0, id, m, home)
      <4>1. Foresees(r, q1, e0, id, m, r.x)
        BY <1>16, <2>3, <2>9, <3>5, QuietThen
      <4> QED
        BY <3>4, <4>1
    <3>7. ASSUME Away(m[2]) \notin excused'[a]
          PROVE  ForeseesAway(r, q1, e0, id, m, y)
      <4>1. ForeseesAway(p, q, e0, id, m, y)
        BY <1>3, <1>6, <1>13, <2>1, <2>3, <2>4, <2>9, <3>1, <3>7 DEF Foreseen
      <4>2. r.x = 0 <=> p.x = 0
        BY <1>6, <2>5, <3>3, <3>4
      <4>3. ForeseesAway(r, q, e0, id, m, y)
        BY <1>12, <1>16, <2>4, <2>6, <3>2, <3>4, <4>1, <4>2, MoveAnswered
      <4>4. y \in Values
        BY <2>5, Numbers DEF Values
      <4>5. \A e \in ToSet(es) : ~ (e.t = "update" /\ e.o = Away(m[2]))
        BY <1>10
      <4>6. \A e \in ToSet(es) : Tells(e, id, m) /\ e.t = "left" => y = 0
        BY <2>2 DEF Tells
      <4> QED
        BY <1>8, <1>12, <1>16, <2>3, <2>6, <4>3, <4>4, <4>5, <4>6, HeardAway
    <3> QED
      BY <3>6, <3>7
  <2>11. /\ Value(channels, where, away, m)' = home /\ Value(channels, where, away, Away(m[2]))' = y
         /\ queue' = q1 /\ sess'[a].id = id
    BY <1>3, <1>5, <1>16, <2>3, <2>8 DEF Value
  <2> QED
    BY <1>6, <1>12, <2>7, <2>10, <2>11, ForeseenThen
<1>21. ASSUME NEW m \in Mains, NEW k \in removed, m = Client(k) PROVE Foreseen(a, m)'
  <2>1. m[1] = "client" /\ m[2] = k /\ k \in Clients /\ k \notin moved /\ k = Bot
    BY <1>7, <1>21 DEF Client
  <2>2. \A e \in ToSet(es) : e.o = m => e.t = "left" /\ e.by = 0
    <3> SUFFICES ASSUME NEW e \in ToSet(es), e.o = m PROVE e.t = "left" /\ e.by = 0
      OBVIOUS
    <3>1. \A j \in moved : e.o # Client(j)
      BY <1>21, <2>1 DEF Client
    <3> QED
      BY <1>8, <3>1 DEF Vacates
  <2>3. PICK q1, x, y, r : /\ q1 = q \o es /\ x = Value(ch, w, aw, m) /\ y = Value(ch, w, aw, Away(m[2]))
                           /\ r = Knows(a, m)' /\ r \in Belief
    <3>1. SeenIn(v, m) \in Belief /\ SeenIn(view[a], m)' = SeenIn(v, m)
      BY <1>15, SeenType DEF SeenIn
    <3>2. Learns(SeenIn(v, m), e0, m) \in Belief
      BY <1>12, <3>1, LearnsType DEF Later
    <3> QED
      BY <1>12, <3>1, <3>2 DEF Knows
  <2>4. x = 0 /\ y = 0
    BY <1>9, <2>1, <2>3 DEF Value, Away
  <2>5. ~ Tells(e0, id, m)
    BY <1>12 DEF Tells, IsSelfAlreadySent
  <2>6. \E e \in ToSet(es) : Tells(e, id, m)
    <3>1. PICK e \in ToSet(es) : e.o = m /\ e.t = "left" /\ e.by = 0
      BY <1>8, <1>21
    <3>2. ~ IsSelfAlreadySent(e, id)
      BY <1>7, <2>1, <3>1 DEF IsSelfAlreadySent
    <3> QED
      BY <3>1, <3>2 DEF Tells
  <2>7. /\ \A e \in ToSet(es) : e.o = m => e.t = "left"
        /\ \A e \in ToSet(es) : e.t # "update"
    BY <1>10, <2>2
  <2>8. Foresees(r, q \o es, e0, id, m, 0) /\ ForeseesAway(r, q \o es, e0, id, m, 0)
    BY <1>8, <1>12, <1>16, <2>3, <2>5, <2>6, <2>7, GoneForeseen
  <2>9. /\ Value(channels, where, away, m)' = x /\ Value(channels, where, away, Away(m[2]))' = y
        /\ queue' = q1 /\ sess'[a].id = id
    BY <1>3, <1>5, <1>16, <2>3 DEF Value
  <2> QED
    BY <1>6, <1>12, <2>3, <2>4, <2>8, <2>9, ForeseenThen
<1>22. ASSUME NEW b \in Addrs, Listening(b)', NEW m \in Mains PROVE Foreseen(b, m)'
  <2>1. Listening(b)
    BY <1>5, <1>22 DEF Listening
  <2>2. CASE b = a /\ \E k \in moved : m = Client(k)
    BY <1>20, <2>2
  <2>3. CASE b = a /\ \E k \in removed : m = Client(k)
    BY <1>21, <2>3
  <2>4. CASE b = a /\ (\A k \in moved : m # Client(k)) /\ (\A k \in removed : m # Client(k))
    <3>1. \A e \in ToSet(es) : e.o # m
      BY <1>8, <2>4 DEF Vacates
    <3> QED
      BY <1>19, <2>4, <3>1
  <2> QED
    BY <1>18, <2>1, <2>2, <2>3, <2>4
<1>23. task'.stage # "vacate"
  BY <1>12
<1> QED
  BY <1>15, <1>22, <1>23 DEF ViewsSeen, Sees

LEMMA VacatesSeen ==
    ASSUME SeesInv, Ts3Vacate \/ Ts6Vacate \/ TeaVacate
    PROVE  ViewsSeen'
<1>1. InDeleted \subseteq Clients /\ bots \subseteq {Bot}
  BY DEF InDeleted, SeesInv, ViewInv, ViewTables
<1>2. task.stage = "vacate" => sess[task.addr].id # Bot
  <2> SUFFICES ASSUME task.stage = "vacate" PROVE sess[task.addr].id # Bot
    OBVIOUS
  <2>1. task # Idle
    BY DEF Idle
  <2>2. task.addr \in Addrs /\ Listening(task.addr)
    BY <2>1 DEF SeesInv, ViewInv, TaskOK, Job
  <2> QED
    BY <2>2, ListeningId
<1>3. \E moved \in SUBSET InDeleted, removed \in SUBSET {Bot} :
         moved \intersect removed = {} /\ Vacate(moved, removed)
  <2>1. CASE Ts3Vacate
    BY <2>1 DEF Ts3Vacate
  <2>2. CASE Ts6Vacate
    BY <2>2 DEF Ts6Vacate
  <2>3. CASE TeaVacate
    <3>1. CASE task.temp
      <4>1. PICK moved, removed : /\ moved = InDeleted \intersect {sess[task.addr].id}
                                  /\ removed = InDeleted \intersect bots /\ Vacate(moved, removed)
        BY <2>3, <3>1 DEF TeaVacate
      <4>2. task.stage = "vacate"
        BY <4>1 DEF Vacate
      <4> QED
        BY <1>1, <1>2, <4>1, <4>2
    <3>2. CASE ~ task.temp
      <4>1. PICK moved, removed : /\ moved = InDeleted \intersect ({sess[task.addr].id} \union bots)
                                  /\ removed = {} /\ Vacate(moved, removed)
        BY <2>3, <3>2 DEF TeaVacate
      <4> QED
        BY <4>1
    <3> QED
      BY <3>1, <3>2
  <2> QED
    BY <2>1, <2>2, <2>3
<1> QED
  BY <1>3, VacateSeen
-----------------------------------------------------------------------------
(* The away flag.                                                          *)

\* Once it has read of m's flag, the client knows it, as it knows m.
LEMMA FlagTold ==
    ASSUME NEW q \in Seq(Notifications), NEW p \in Belief, NEW id, NEW m \in Mains, m[1] = "client",
           NEW e0, e0.t = "idle", NEW x, x # 0, Foresees(p, q, e0, id, m, x),
           NEW e \in Notifications, e.t = "update", e.o = Away(m[2])
    PROVE  ForeseesAway(p, q \o <<e>>, e0, id, m, e.v)
<1>1. ASSUME NEW h, Reading(h, p, q, id, m)
      PROVE  Reads(h[Len(q)], e, id, m).y = e.v
  <2>1. PICK b : b = h[Len(q)] /\ b \in Belief
    BY <1>1, ReadingShape
  <2>2. Reads(b, e0, id, m) = b
    BY <2>1, LearnsValue DEF Reads
  <2>3. b.x = x
    BY <1>1, <2>1, <2>2 DEF Foresees
  <2>4. Reads(b, e, id, m) = Learns(b, e, m)
    BY DEF Reads, IsSelfAlreadySent
  <2>5. Learns(b, e, m).y = IF b.x = 0 THEN 0 ELSE e.v
    BY <2>1, LearnsFlag
  <2> QED
    BY <2>1, <2>3, <2>4, <2>5
<1>2. ForeseesAway(p, q, e, id, m, e.v)
  BY <1>1 DEF ForeseesAway
<1> QED
  BY <1>2, Queued

LEMMA ClientUpdateSeen ==
    ASSUME SeesInv, NEW a \in Addrs, NEW kind, NEW flag \in BOOLEAN, ClientUpdate(a, kind, flag)
    PROVE  ViewsSeen'
<1>1. PICK k, ch, w, aw, v, e, es, q, base :
         /\ k = sess[a].id /\ ch = channels /\ w = where
         /\ aw = (IF flag THEN away \union {k} ELSE away \ {k})
         /\ v = (IF flag THEN 1 ELSE 0)
         /\ e = Event("update", Away(k), v, k) /\ es = <<e>> /\ q = queue /\ base = excused
  OBVIOUS
<1>2. /\ Commit(ch, w, aw, es, {}, base) /\ UNCHANGED <<sess, task, view>>
      /\ task = Idle /\ Listening(a) /\ where[k] # 0
  BY <1>1 DEF ClientUpdate, Command, Listening
<1>3. k \in Clients /\ k \in 0..Invoker /\ v \in Values
  BY <1>1, <1>2, ListeningId, Numbers DEF Values
<1>4. e \in Notifications /\ es \in Seq(Notifications) /\ ToSet(es) = {e}
  <2>1. "update" \in Types /\ Away(k) \in Objects /\ Away(k)[1] = About("update")
    BY <1>3, ObjectShape DEF Types, About
  <2>2. e \in Notifications
    BY <1>1, <1>3, <2>1, EventIsNotification
  <2> QED
    BY <1>1, <2>2, Single
<1>5. e.t = "update" /\ e.o = Away(k) /\ e.v = v
  BY <1>1, EventFields
<1>6. q \in Seq(Notifications) /\ q \o es \in Seq(Notifications)
  BY <1>1, <1>4, Joined DEF SeesInv, ViewInv, ViewTables
<1>7. /\ channels' = ch /\ where' = w /\ away' = aw /\ queue' = q \o es
      /\ \A b \in Addrs : excused[b] \subseteq excused'[b]
  BY <1>1, <1>2 DEF Commit
<1>8. ASSUME NEW b \in Addrs, Listening(b)', NEW m \in Mains PROVE Foreseen(b, m)'
  <2>1. Listening(b)
    BY <1>2, <1>8 DEF Listening
  <2>2. PICK p, e0, id, x, y0, y1, u, q1 :
           /\ p = SeenIn(view[b], m) /\ e0 = Pending /\ id = sess[b].id /\ u = view[b]
           /\ x = Value(channels, where, away, m) /\ q1 = q \o es
           /\ y0 = Value(channels, where, away, Away(m[2])) /\ y1 = Value(ch, w, aw, Away(m[2]))
    OBVIOUS
  <2>3. /\ p \in Belief /\ Later(e0) /\ e0.t = "idle" /\ u \in Views
        /\ Pending' = e0 /\ task' = Idle /\ view'[b] = u /\ sess'[b].id = id
    BY <1>2, <2>2, KnowsType, PendingFacts DEF SeesInv, ViewsSeen, Pending
  <2>4. Value(channels, where, away, m)' = x /\ Value(channels, where, away, Away(m[2]))' = y1
    <3>1. m[1] # "away"
      BY DEF Mains
    <3> QED
      BY <1>1, <1>7, <2>2, <3>1 DEF Value
  <2>5. ASSUME m \notin excused[b]
        PROVE  /\ Foresees(p, q, e0, id, m, x)
               /\ m[1] = "client" /\ Away(m[2]) \notin excused[b] => ForeseesAway(p, q, e0, id, m, y0)
    BY <1>1, <1>2, <2>1, <2>2, <2>5, ForeseenNow
  <2>6. x \in Values /\ (m[1] = "client" => y0 \in Values /\ y1 \in Values)
    <3>1. m \in Objects /\ (m[1] = "client" => Away(m[2]) \in Objects)
      BY MainShape
    <3>2. w \in Places /\ where \in Places
      BY <1>1 DEF SeesInv, ViewInv, ViewTables
    <3> QED
      BY <2>2, <3>1, <3>2, ValueType
  <2>7. e.o # m
    BY <1>5, MainShape
  <2>8. ASSUME m \notin excused[b] PROVE Foresees(p, q1, e0, id, m, x)
    <3>1. \A d \in ToSet(es) : ~ Tells(d, id, m)
      BY <1>4, <2>7 DEF Tells
    <3> QED
      BY <1>4, <1>6, <2>2, <2>3, <2>5, <2>6, <2>8, <3>1, Heard
  <2>9. ASSUME m \notin excused[b], m[1] = "client", Away(m[2]) \notin excused[b]
        PROVE  ForeseesAway(p, q1, e0, id, m, y1)
    <3>1. m = Client(m[2]) /\ m[2] \in Clients /\ Away(m[2])[1] = "away" /\ Away(m[2])[2] = m[2]
      BY <2>9, MainShape DEF Away
    <3>2. CASE m[2] = k
      <4>1. x # 0 /\ y1 = v
        BY <1>1, <1>2, <1>3, <2>2, <2>9, <3>1, <3>2 DEF Value
      <4>2. ForeseesAway(p, q \o <<e>>, e0, id, m, e.v)
        BY <1>4, <1>5, <1>6, <2>3, <2>5, <2>9, <3>2, <4>1, FlagTold
      <4> QED
        BY <1>1, <1>5, <2>2, <4>1, <4>2
    <3>3. CASE m[2] # k
      <4>1. y1 = y0
        BY <1>1, <2>2, <3>1, <3>3 DEF Value
      <4>2. \A d \in ToSet(es) : ~ (d.t = "update" /\ d.o = Away(m[2])) /\ ~ Tells(d, id, m)
        BY <1>4, <1>5, <2>7, <3>3 DEF Tells, Away
      <4> QED
        BY <1>4, <1>6, <2>2, <2>3, <2>5, <2>6, <2>9, <4>1, <4>2, HeardAway
    <3> QED
      BY <3>2, <3>3
  <2>10. excused[b] \subseteq excused'[b] /\ queue' = q1
    BY <1>7, <2>2
  <2> QED
    BY <2>2, <2>3, <2>4, <2>8, <2>9, <2>10, IdleForeseen
<1>9. task'.stage # "vacate" /\ view' \in [Addrs -> Views]
  BY <1>2 DEF Idle, SeesInv, ViewsSeen
<1> QED
  BY <1>8, <1>9 DEF ViewsSeen, Sees

LEMMA GetVariablesSeen ==
    ASSUME SeesInv, NEW a \in Addrs, NEW kind, NEW k \in Clients, GetVariables(a, kind, k)
    PROVE  ViewsSeen'
<1>1. PICK e, v, u : /\ e = Event("update", Away(k), Value(channels, where, away, Away(k)), 0)
                     /\ u = view[a] /\ v = Apply(u, e)
  OBVIOUS
<1>2. /\ UNCHANGED <<channels, where, away, queue, sess, task, excused>> /\ task = Idle
      /\ Listening(a) /\ view' = [view EXCEPT ![a] = v]
  BY <1>1 DEF GetVariables, Command, Listening
<1>3. ViewTables /\ view \in [Addrs -> Views] /\ u \in Views
  BY <1>1 DEF SeesInv, ViewInv, ViewsSeen
<1>4. e \in Notifications
  <2>1. "update" \in Types /\ Away(k) \in Objects /\ Away(k)[1] = About("update")
    BY ObjectShape DEF Types, About
  <2>2. Value(channels, where, away, Away(k)) \in Values /\ 0 \in 0..Invoker
    BY <1>3, <2>1, ValueType, Numbers DEF ViewTables
  <2> QED
    BY <1>1, <2>1, <2>2, EventIsNotification
<1>5. e.t = "update" /\ e.o = Away(k) /\ e.v = Value(channels, where, away, Away(k))
  BY <1>1, EventFields
<1>6. v \in Views /\ view' \in [Addrs -> Views] /\ view'[a] = v
      /\ \A b \in Addrs : b # a => view'[b] = view[b]
  <2>1. v \in Views
    BY <1>1, <1>3, <1>4, ApplyType
  <2> QED
    BY <1>2, <1>3, <2>1
<1>7. ASSUME NEW m \in Mains PROVE Foreseen(a, m)'
  <2>1. PICK p, r, q, e0, id, x, y :
           /\ p = SeenIn(u, m) /\ r = SeenIn(v, m) /\ q = queue /\ e0 = Pending /\ id = sess[a].id
           /\ x = Value(channels, where, away, m) /\ y = Value(channels, where, away, Away(m[2]))
    OBVIOUS
  <2>2. r = Learns(p, e, m) /\ p \in Belief /\ r \in Belief
    <3>1. SeenIn(Apply(u, e), m) = Learns(SeenIn(u, m), e, m)
      BY <1>3, <1>4, <1>5, SeenApplied
    <3> QED
      BY <1>1, <1>3, <1>6, <2>1, <3>1, SeenType
  <2>3. q \in Seq(Notifications) /\ e0.t = "idle" /\ Later(e0) /\ Pending' = e0 /\ task' = Idle
        /\ queue' = q /\ sess'[a].id = id /\ excused' = excused
        /\ Value(channels, where, away, m)' = x /\ Value(channels, where, away, Away(m[2]))' = y
    BY <1>2, <1>3, <2>1, PendingFacts DEF Value, Pending, ViewTables
  <2>4. ASSUME m \notin excused[a]
        PROVE  /\ Foresees(p, q, e0, id, m, x)
               /\ m[1] = "client" /\ Away(m[2]) \notin excused[a] => ForeseesAway(p, q, e0, id, m, y)
    BY <1>1, <1>2, <2>1, <2>4, ForeseenNow
  <2>5. r.x = p.x
    BY <1>5, <2>2, LearnsValue, MainShape
  <2>6. ASSUME m \notin excused[a] PROVE Foresees(r, q, e0, id, m, x)
    BY <2>2, <2>3, <2>4, <2>5, <2>6, SameValueForeseen
  <2>7. ASSUME m \notin excused[a], m[1] = "client", Away(m[2]) \notin excused[a]
        PROVE  ForeseesAway(r, q, e0, id, m, y)
    <3>1. m = Client(m[2]) /\ m[2] \in Clients /\ m \in Objects /\ Away(m[2]) \in Objects
      BY <2>7, MainShape
    <3>2. CASE m[2] = k
      <4>1. r.y = IF p.x = 0 THEN 0 ELSE y
        BY <1>5, <2>1, <2>2, <2>7, <3>2, LearnsFlag
      <4>2. x \in Values /\ y \in Values
        BY <1>3, <2>1, <3>1, ValueType DEF ViewTables
      <4>3. x = 0 => y = 0
        BY <2>1, <2>7, GoneIsNotAway
      <4>4. e0.v \in Values
        BY <2>3 DEF Later
      <4> QED
        BY <2>2, <2>3, <2>4, <2>5, <2>7, <4>1, <4>2, <4>3, <4>4, FlagAnswered
    <3>3. CASE m[2] # k
      <4>1. r = p
        BY <1>5, <2>2, <3>3, MainShape DEF Learns, Away
      <4> QED
        BY <2>4, <2>7, <4>1
    <3> QED
      BY <3>2, <3>3
  <2> QED
    BY <1>6, <2>1, <2>3, <2>6, <2>7, IdleForeseen
<1>8. ASSUME NEW b \in Addrs, Listening(b)', NEW m \in Mains PROVE Foreseen(b, m)'
  <2>1. CASE b = a
    BY <1>7, <2>1
  <2>2. CASE b # a
    <3>1. Foreseen(b, m)
      BY <1>2, <1>8 DEF Listening, SeesInv, ViewsSeen, Sees
    <3> QED
      BY <1>2, <1>6, <2>2, <3>1, NothingNew
  <2> QED
    BY <2>1, <2>2
<1>9. task'.stage # "vacate"
  BY <1>2 DEF Idle
<1> QED
  BY <1>6, <1>8, <1>9 DEF ViewsSeen, Sees

-----------------------------------------------------------------------------
(* A notification is delivered.                                            *)

\* What the client foresees does not depend on whether it has read e yet.
LEMMA ReadForeseen ==
    ASSUME NEW q \in Seq(Notifications), q # <<>>, NEW id, NEW m \in Mains, NEW p \in Belief,
           NEW e, e = Head(q), NEW b, b = Reads(p, e, id, m), NEW e0
    PROVE  /\ \A x : Foresees(p, q, e0, id, m, x) => Foresees(b, Tail(q), e0, id, m, x)
           /\ \A y : ForeseesAway(p, q, e0, id, m, y) => ForeseesAway(b, Tail(q), e0, id, m, y)
<1>1. ASSUME NEW h, Reading(h, b, Tail(q), id, m)
      PROVE  \E g : Reading(g, p, q, id, m) /\ g[Len(q)] = h[Len(Tail(q))]
  <2>1. PICK t : t = Tail(q) /\ Reading(h, b, t, id, m)
    BY <1>1
  <2>2. Continues(h, t, p, q, id, m)
    BY <2>1, ReadFirst
  <2> QED
    BY <2>1, <2>2 DEF Continues
<1>2. ASSUME NEW x, Foresees(p, q, e0, id, m, x) PROVE Foresees(b, Tail(q), e0, id, m, x)
  BY <1>1, <1>2 DEF Foresees
<1>3. ASSUME NEW y, ForeseesAway(p, q, e0, id, m, y) PROVE ForeseesAway(b, Tail(q), e0, id, m, y)
  BY <1>1, <1>3 DEF ForeseesAway
<1> QED
  BY <1>2, <1>3

\* The flag that came with an entry is as good as the one the tables have.
LEMMA EnteredForeseen ==
    ASSUME NEW q \in Seq(Notifications), NEW id, NEW m \in Mains, m[1] = "client",
           NEW b \in Belief, b.y = -1, NEW y \in Values, NEW r \in Belief, r.x = b.x, r.y = y,
           NEW e0, e0.t = "idle", ForeseesAway(b, q, e0, id, m, y)
    PROVE  ForeseesAway(r, q, e0, id, m, y)
<1> DEFINE R == {s \in Belief \X Belief : /\ s[1].x = s[2].x
                                          /\ s[1].y = s[2].y \/ (s[1].y = y /\ s[2].y = -1)}
<1>1. <<r, b>> \in R
  OBVIOUS
<1>2. ASSUME NEW e \in ToSet(q), NEW c \in Belief, NEW d \in Belief, <<c, d>> \in R
      PROVE  <<Reads(c, e, id, m), Reads(d, e, id, m)>> \in R
  <2>1. e.v \in Values /\ c.x = d.x /\ (c.y = d.y \/ (c.y = y /\ d.y = -1))
    BY <1>2, Elements DEF Notifications
  <2>2. Learns(c, e, m) \in Belief /\ Learns(d, e, m) \in Belief
    BY <2>1, LearnsType
  <2>3. CASE IsSelfAlreadySent(e, id)
    BY <1>2, <2>3 DEF Reads
  <2>4. CASE ~ IsSelfAlreadySent(e, id)
    <3>1. Learns(c, e, m).x = Learns(d, e, m).x
      BY <2>1 DEF Learns
    <3>2. \/ Learns(c, e, m).y = Learns(d, e, m).y
          \/ Learns(c, e, m).y = y /\ Learns(d, e, m).y = -1
      <4>1. CASE e.o = m /\ e.t \in {"enter", "left"}
        BY <4>1, LearnsFlag
      <4>2. CASE e.o = Away(m[2]) /\ e.t = "update"
        BY <2>1, <4>2, LearnsFlag
      <4>3. CASE ~ (e.o = m /\ e.t \in {"enter", "left"}) /\ ~ (e.o = Away(m[2]) /\ e.t = "update")
        <5>1. Learns(c, e, m).y = c.y /\ Learns(d, e, m).y = d.y
          BY <4>3, LearnsFlag
        <5> QED
          BY <2>1, <5>1
      <4> QED
        BY <4>1, <4>2, <4>3
    <3> QED
      BY <2>2, <2>4, <3>1, <3>2 DEF Reads
  <2> QED
    BY <2>3, <2>4
<1> HIDE DEF R
<1>3. ASSUME NEW h, Reading(h, r, q, id, m) PROVE Reads(h[Len(q)], e0, id, m).y \in {-1, y}
  <2>1. PICK g : Reading(g, b, q, id, m)
    BY ReadingExists
  <2>2. PICK c, d : c = h[Len(q)] /\ d = g[Len(q)] /\ c \in Belief /\ d \in Belief /\ <<c, d>> \in R
    <3>1. h[Len(q)] \in Belief /\ g[Len(q)] \in Belief
      BY <1>3, <2>1, ReadingShape
    <3>2. <<h[Len(q)], g[Len(q)]>> \in R
      BY <1>1, <1>2, <1>3, <2>1, KeptBoth
    <3> QED
      BY <3>1, <3>2
  <2>3. Reads(c, e0, id, m) = c /\ Reads(d, e0, id, m) = d
    BY <2>2, LearnsValue DEF Reads
  <2>4. d.y \in {-1, y}
    BY <2>1, <2>2, <2>3 DEF ForeseesAway
  <2> QED
    BY <2>2, <2>3, <2>4 DEF R
<1> QED
  BY <1>3 DEF ForeseesAway

LEMMA NotifySeen ==
    ASSUME SeesInv, Notify
    PROVE  ViewsSeen'
<1>1. PICK e, q : e = Head(queue) /\ q = queue
  OBVIOUS
<1>2. /\ task = Idle /\ q # <<>> /\ queue' = Tail(q) /\ UNCHANGED <<channels, where, away, task>>
      /\ sess' = [a \in Addrs |-> IF sess[a].on /\ ~ Ends(a, e) THEN sess[a] ELSE NoSession]
      /\ view' = [a \in Addrs |->
             IF ~ (sess[a].on /\ ~ Ends(a, e)) THEN Nothing
             ELSE IF Listening(a) /\ ~ IsSelfAlreadySent(e, sess[a].id)
                  THEN Apply(view[a], e) ELSE view[a]]
      /\ excused' = [a \in Addrs |-> IF sess[a].on /\ ~ Ends(a, e) THEN excused[a] ELSE {}]
  BY <1>1 DEF Notify
<1>3. ViewTables /\ view \in [Addrs -> Views] /\ q \in Seq(Notifications) /\ Tail(q) \in Seq(Notifications)
  BY <1>1, <1>2, HeadTailProperties DEF SeesInv, ViewInv, ViewsSeen, ViewTables
<1>4. e \in Notifications
  BY <1>1, <1>2, <1>3, HeadTailProperties
<1>5. view' \in [Addrs -> Views]
  <2>1. \A v \in Views : Apply(v, e) \in Views
    BY <1>3, <1>4, ApplyType
  <2> QED
    BY <1>2, <1>3, <2>1, NothingIsView
<1>6. ASSUME NEW b \in Addrs, Listening(b)', NEW m \in Mains PROVE Foreseen(b, m)'
  <2>1. sess[b].on /\ ~ Ends(b, e) /\ sess'[b] = sess[b] /\ Listening(b) /\ excused'[b] = excused[b]
    <3>1. sess'[b].on /\ sess'[b].named
      BY <1>6 DEF Listening
    <3>2. sess[b].on /\ ~ Ends(b, e)
      BY <1>2, <3>1, NoSessionFacts
    <3>3. sess'[b] = sess[b] /\ excused'[b] = excused[b]
      BY <1>2, <3>2
    <3> QED
      BY <3>1, <3>2, <3>3 DEF Listening
  <2>2. PICK p, v, u, id, r, c, e0, e1, x, y :
           /\ p = SeenIn(view[b], m) /\ u = view[b] /\ v = view'[b] /\ id = sess[b].id
           /\ r = SeenIn(v, m) /\ c = Reads(p, e, id, m) /\ e0 = Pending /\ e1 = Pending'
           /\ x = Value(channels, where, away, m) /\ y = Value(channels, where, away, Away(m[2]))
    OBVIOUS
  <2>3. u \in Views /\ v \in Views /\ p \in Belief /\ r \in Belief /\ c \in Belief
    <3>1. u \in Views /\ v \in Views
      BY <1>3, <1>5, <2>2
    <3>2. p \in Belief /\ r \in Belief
      BY <2>2, <3>1, SeenType
    <3>3. e.v \in Values
      BY <1>4, NotificationShape
    <3>4. Reads(p, e, id, m) \in Belief
      BY <3>2, <3>3, LearnsType
    <3> QED
      BY <2>2, <3>1, <3>2, <3>4
  <2>4. /\ task' = Idle /\ e0.t = "idle" /\ Later(e0) /\ e1.t = "idle" /\ Later(e1) /\ sess'[b].id = id
        /\ Value(channels, where, away, m)' = x /\ Value(channels, where, away, Away(m[2]))' = y
    <3>1. e0.t = "idle" /\ Later(e0) /\ e1.t = "idle" /\ Later(e1)
      BY <1>2, <2>2, PendingFacts, IdlePending
    <3>2. /\ Value(channels, where, away, m)' = x /\ Value(channels, where, away, Away(m[2]))' = y
      BY <1>2, <2>2 DEF Value
    <3> QED
      BY <1>2, <2>1, <2>2, <3>1, <3>2
  <2>5. ASSUME m \notin excused[b]
        PROVE  /\ Foresees(p, q, e0, id, m, x)
               /\ m[1] = "client" /\ Away(m[2]) \notin excused[b] => ForeseesAway(p, q, e0, id, m, y)
    BY <1>1, <1>2, <2>1, <2>2, <2>5, ForeseenNow
  <2>6. ASSUME m \notin excused[b]
        PROVE  /\ Foresees(c, Tail(q), e0, id, m, x)
               /\ m[1] = "client" /\ Away(m[2]) \notin excused[b] =>
                     ForeseesAway(c, Tail(q), e0, id, m, y)
    BY <1>1, <1>2, <1>3, <2>2, <2>3, <2>5, <2>6, ReadForeseen
  <2>7. r = c \/ (r.x = c.x /\ m[1] = "client" /\ c.y = -1 /\ r.y = y)
    <3>1. CASE IsSelfAlreadySent(e, id)
      BY <1>2, <2>1, <2>2, <3>1 DEF Reads
    <3>2. CASE ~ IsSelfAlreadySent(e, id)
      <4>1. v = Apply(u, e) /\ c = Learns(p, e, m)
        BY <1>2, <2>1, <2>2, <3>2 DEF Reads
      <4>2. CASE e.t # "enter"
        <5>1. SeenIn(Apply(u, e), m) = Learns(SeenIn(u, m), e, m)
          BY <1>3, <1>4, <2>3, <4>2, SeenApplied
        <5> QED
          BY <2>2, <4>1, <5>1
      <4>3. CASE e.t = "enter" /\ e.o = m
        <5>1. m[1] = "client"
          BY <1>4, <4>3, MainEvents, MainShape
        <5>2. /\ Apply(u, e)[m] = Learns(SeenIn(u, m), e, m).x
              /\ \/ Apply(u, e)[Away(m[2])] = Learns(SeenIn(u, m), e, m).y
                 \/ Apply(u, e)[Away(m[2])] = Value(channels, where, away, Away(m[2]))
          BY <1>4, <2>3, <5>1, ApplyLearns
        <5>3. r.x = c.x /\ c.y = -1 /\ (r.y = c.y \/ r.y = y)
          <6>1. r.x = v[m] /\ r.y = v[Away(m[2])]
            BY <2>2, <5>1 DEF SeenIn
          <6>2. Learns(p, e, m).y = -1
            BY <2>3, <4>3, LearnsFlag
          <6> QED
            BY <2>2, <4>1, <5>2, <6>1, <6>2
        <5>4. \A s, t \in Belief : s.x = t.x /\ s.y = t.y => s = t
          BY DEF Belief
        <5> QED
          BY <2>3, <5>1, <5>3, <5>4
      <4>4. CASE e.t = "enter" /\ e.o # m
        <5>1. /\ Apply(u, e)[m] = Learns(SeenIn(u, m), e, m).x
              /\ m[1] = "client" => Apply(u, e)[Away(m[2])] = Learns(SeenIn(u, m), e, m).y
          BY <1>4, <2>3, <4>4, ApplyLearns
        <5>2. Learns(p, e, m) = p
          BY <4>4 DEF Learns
        <5> QED
          BY <2>2, <4>1, <5>1, <5>2 DEF SeenIn
      <4> QED
        BY <4>2, <4>3, <4>4
    <3> QED
      BY <3>1, <3>2
  <2>8. ASSUME m \notin excused[b] PROVE Foresees(r, Tail(q), e1, id, m, x)
    <3>1. Foresees(r, Tail(q), e0, id, m, x)
      BY <1>3, <2>3, <2>4, <2>6, <2>7, <2>8, SameValueForeseen
    <3>2. Unread(e0, id, m) /\ Unread(e1, id, m)
      BY <2>4 DEF Unread
    <3> QED
      BY <1>3, <3>1, <3>2, UnreadForeseen
  <2>9. ASSUME m \notin excused[b], m[1] = "client", Away(m[2]) \notin excused[b]
        PROVE  ForeseesAway(r, Tail(q), e1, id, m, y)
    <3>1. ForeseesAway(c, Tail(q), e0, id, m, y)
      BY <2>6, <2>9
    <3>2. y \in Values
      BY <1>3, <2>2, <2>9, MainShape, ValueType DEF ViewTables
    <3>3. ForeseesAway(r, Tail(q), e0, id, m, y)
      BY <1>3, <2>3, <2>4, <2>7, <2>9, <3>1, <3>2, EnteredForeseen
    <3> QED
      BY <1>3, <2>4, <3>3, LaterAway
  <2>10. PICK t : t = Tail(q) /\ queue' = t
    BY <1>2
  <2>11. m \notin excused'[b] =>
            /\ Foresees(r, t, e1, id, m, x)
            /\ m[1] = "client" /\ Away(m[2]) \notin excused'[b] => ForeseesAway(r, t, e1, id, m, y)
    BY <2>1, <2>8, <2>9, <2>10
  <2> QED
    BY <2>2, <2>3, <2>4, <2>10, <2>11, IdleForeseen
<1>7. task'.stage # "vacate"
  BY <1>2 DEF Idle
<1> QED
  BY <1>5, <1>6, <1>7 DEF ViewsSeen, Sees

-----------------------------------------------------------------------------
(* A command through the runtime.                                          *)

\* es only says that something is gone, on behalf of by.
OnlyGone(es, by) == \A e \in ToSet(es) : e.t \in {"left", "deleted"} /\ e.v = 0 /\ e.by = by

\* The command's own notifications all are among those that are broadcast; the
\* others of these are about its cleanup.
RuntimeSays(all, sent, by) ==
    /\ all \in Seq(Notifications) /\ sent \in Seq(Notifications) /\ OnlyGone(all, by)
    /\ ToSet(all) \subseteq ToSet(sent)
    /\ \A e \in ToSet(sent) : e \in ToSet(all) \/ Cleaned(e, 0)

\* Nothing is cleaned up where nobody left.
LEMMA NobodyLeft ==
    ASSUME NEW ch, IsTable(ch), NEW w
    PROVE  /\ ChannelsAfterCleanup(ch, w, bots, 0) = ch /\ WhereAfterCleanup(ch, w, bots, 0) = w
           /\ CleanedUp(ch, w, 0) = {}
<1>1. 0 \notin DOMAIN ch
  BY Numbers DEF IsTable, ChannelIds
<1>2. ChannelsAfterCleanup(ch, w, bots, 0) = ch /\ WhereAfterCleanup(ch, w, bots, 0) = w
  BY <1>1 DEF ChannelsAfterCleanup, WhereAfterCleanup
<1>3. CleanedUp(ch, w, 0) = {}
  BY <1>2 DEF CleanedUp
<1> QED
  BY <1>2, <1>3

Joins(u, s, t) == u = s \o t

LEMMA JoinedAs ==
    ASSUME NEW s \in Seq(Notifications), NEW t \in Seq(Notifications), NEW u, Joins(u, s, t)
    PROVE  u \in Seq(Notifications) /\ ToSet(u) = ToSet(s) \union ToSet(t)
BY Joined DEF Joins

LEMMA RuntimeAnnounces ==
    ASSUME ViewTables, NEW by \in 0..Invoker, NEW ch, IsTable(ch), NEW w, NEW put,
           NEW first \in Seq(Notifications), NEW es \in Seq(Notifications),
           \A e \in ToSet(first) : Cleaned(e, 0), OnlyGone(es, by),
           NEW own, Joins(own, first, es),
           NEW all, all = CommandEvents(by, ch, w, es, 0),
           NEW sent, sent = CommandEvents(by, ch, put, own, 0)
    PROVE  RuntimeSays(all, sent, by)
<1>0. PICK o, g : o = owed /\ g = {}
  OBVIOUS
<1>1. o \in SUBSET Removable /\ g \in SUBSET Removable
  BY <1>0 DEF ViewTables
<1>2. PICK u, v : u = CleanupEvents(o, by) /\ v = CleanupEvents(g, by)
  OBVIOUS
<1>3. /\ u \in Seq(Notifications) /\ \A e \in ToSet(u) : Cleaned(e, by)
      /\ v \in Seq(Notifications) /\ \A e \in ToSet(v) : Cleaned(e, by)
  BY <1>1, <1>2, CleanupSays
<1>4. PICK x, y : Joins(x, es, u) /\ Joins(y, own, u)
  BY DEF Joins
<1>5. CleanedUp(ch, w, 0) = g /\ CleanedUp(ch, put, 0) = g
  BY <1>0, NobodyLeft
<1>6. Joins(all, x, v) /\ Joins(sent, y, v)
  BY <1>0, <1>2, <1>4, <1>5 DEF CommandEvents, Joins
<1>7. own \in Seq(Notifications) /\ ToSet(own) = ToSet(first) \union ToSet(es)
  BY JoinedAs
<1>8. /\ x \in Seq(Notifications) /\ ToSet(x) = ToSet(es) \union ToSet(u)
      /\ y \in Seq(Notifications) /\ ToSet(y) = ToSet(own) \union ToSet(u)
  <2>1. x \in Seq(Notifications) /\ ToSet(x) = ToSet(es) \union ToSet(u)
    BY <1>3, <1>4, JoinedAs
  <2>2. y \in Seq(Notifications) /\ ToSet(y) = ToSet(own) \union ToSet(u)
    BY <1>3, <1>4, <1>7, JoinedAs
  <2> QED
    BY <2>1, <2>2
<1>9. /\ all \in Seq(Notifications) /\ ToSet(all) = ToSet(x) \union ToSet(v)
      /\ sent \in Seq(Notifications) /\ ToSet(sent) = ToSet(y) \union ToSet(v)
  <2>1. all \in Seq(Notifications) /\ ToSet(all) = ToSet(x) \union ToSet(v)
    BY <1>3, <1>6, <1>8, JoinedAs
  <2>2. sent \in Seq(Notifications) /\ ToSet(sent) = ToSet(y) \union ToSet(v)
    BY <1>3, <1>6, <1>8, JoinedAs
  <2> QED
    BY <2>1, <2>2
<1>10. OnlyGone(all, by)
  BY <1>3, <1>8, <1>9 DEF OnlyGone, Cleaned
<1>11. ToSet(all) \subseteq ToSet(sent) /\ \A e \in ToSet(sent) : e \in ToSet(all) \/ Cleaned(e, 0)
  BY <1>7, <1>8, <1>9
<1> QED
  BY <1>9, <1>10, <1>11 DEF RuntimeSays

LEMMA SyncedPlaces ==
    ASSUME ViewTables, NEW a \in Addrs, NEW w \in Places
    PROVE  Synced(a, w) \in Places
<1>1. PICK k, h : k = sess[a].id /\ h = (IF where[k] # 0 THEN where[k] ELSE 1)
  OBVIOUS
<1>2. Synced(a, w) = [w EXCEPT ![k] = h]
  BY <1>1 DEF Synced
<1>3. CASE k \in Clients
  <2>1. h \in 0..MaxChannelId
    BY <1>1, <1>3, Numbers DEF ViewTables, Places
  <2> QED
    BY <1>2, <2>1 DEF Places
<1>4. CASE k \notin Clients
  BY <1>2, <1>4 DEF Places
<1> QED
  BY <1>3, <1>4

\* What the client believes to be gone it goes on believing to be gone.
Gone(m) == {b \in Belief : b.x = 0 /\ (m[1] = "client" => b.y = 0)}

LEMMA GoneStays ==
    ASSUME NEW e \in Notifications, NEW m \in Mains, NEW b \in Gone(m),
           e.o = m => e.t \in {"left", "deleted"} /\ e.v = 0
    PROVE  Learns(b, e, m) \in Gone(m)
<1>1. Learns(b, e, m) \in Belief
  BY NotificationShape, LearnsType DEF Gone
<1>2. Learns(b, e, m).x = 0
  BY LearnsValue DEF Gone
<1>3. m[1] = "client" => Learns(b, e, m).y = 0
  BY LearnsFlag DEF Gone
<1> QED
  BY <1>1, <1>2, <1>3 DEF Gone

LEMMA GoneForGood ==
    ASSUME NEW q \in Seq(Notifications), NEW id, NEW m \in Mains, NEW r \in Gone(m),
           NEW e0, e0.t = "idle",
           \A e \in ToSet(q) : Tells(e, id, m) => e.t \in {"left", "deleted"} /\ e.v = 0
    PROVE  /\ Foresees(r, q, e0, id, m, 0)
           /\ m[1] = "client" => ForeseesAway(r, q, e0, id, m, 0)
<1>1. ASSUME NEW e \in ToSet(q), NEW b \in Belief, b \in Gone(m) PROVE Reads(b, e, id, m) \in Gone(m)
  <2>1. e \in Notifications
    BY Elements
  <2>2. CASE IsSelfAlreadySent(e, id)
    BY <1>1, <2>2 DEF Reads
  <2>3. CASE ~ IsSelfAlreadySent(e, id)
    BY <1>1, <2>1, <2>3, GoneStays DEF Reads, Tells
  <2> QED
    BY <2>2, <2>3
<1>2. ASSUME NEW h, Reading(h, r, q, id, m)
      PROVE  /\ Reads(h[Len(q)], e0, id, m).x = 0
             /\ m[1] = "client" => Reads(h[Len(q)], e0, id, m).y = 0
  <2>1. 0 \in 0..Len(q) /\ Len(q) \in 0..Len(q) /\ h[0] \in Gone(m)
    BY <1>2, ReadingShape
  <2>2. \A i \in 0..Len(q) : h[i] \in Gone(m)
    BY <1>1, <1>2, <2>1, KeptFrom
  <2>3. PICK b : b = h[Len(q)] /\ b \in Gone(m)
    BY <2>1, <2>2
  <2>4. Reads(b, e0, id, m) = b
    BY <2>3, LearnsValue DEF Reads, Gone
  <2> QED
    BY <2>3, <2>4 DEF Gone
<1> QED
  BY <1>2 DEF Foresees, ForeseesAway

LEMMA AppliedIsView ==
    ASSUME ViewTables, NEW v \in Views, NEW es \in Seq(Notifications), NEW sent
    PROVE  ApplyAll(v, es, sent) \in Views
<1>1. PICK f : Applies(f, v, es, sent) /\ ApplyAll(v, es, sent) = f[Len(es)]
  BY AppliedInTurn
<1>2. Len(es) \in 0..Len(es)
  BY LenProperties
<1> QED
  BY <1>1, <1>2 DEF Applies

\* The client is answered that m is gone.
LEMMA AnsweredGone ==
    ASSUME ViewTables, NEW m \in Mains, NEW v \in Views, NEW q \in Seq(Notifications), NEW id,
           Quiet(q, id, m), NEW all, NEW sent, RuntimeSays(all, sent, id),
           NEW answer \in SUBSET ToSet(all), NEW d \in answer, d.o = m,
           NEW e0, e0.t = "idle", NEW r, r = SeenIn(ApplyAll(v, all, answer), m)
    PROVE  /\ Foresees(r, q \o sent, e0, id, m, 0)
           /\ m[1] = "client" => ForeseesAway(r, q \o sent, e0, id, m, 0)
<1>1. /\ all \in Seq(Notifications) /\ sent \in Seq(Notifications)
      /\ \A e \in ToSet(all) : e.t \in {"left", "deleted"} /\ e.v = 0
      /\ \A e \in ToSet(sent) : e \in ToSet(all) \/ Cleaned(e, 0)
      /\ \A e \in ToSet(all) : e \in Notifications
  BY Elements DEF RuntimeSays, OnlyGone
<1>2. r \in Gone(m)
  <2>1. PICK B, C, p : B = Belief /\ C = Gone(m) /\ p = SeenIn(v, m) /\ p \in B
    BY SeenType
  <2>2. \A e \in ToSet(all), b \in Belief : e \in answer /\ b \in B => Learns(b, e, m) \in B
    BY <1>1, <2>1, NotificationShape, LearnsType
  <2>3. \A e \in ToSet(all), b \in Belief : e \in answer /\ b \in C => Learns(b, e, m) \in C
    BY <1>1, <2>1, GoneStays
  <2>4. \A b \in Belief : b \in B => Learns(b, d, m) \in C
    <3> SUFFICES ASSUME NEW b \in Belief PROVE Learns(b, d, m) \in Gone(m)
      BY <2>1
    <3>1. d \in Notifications /\ d.v \in Values /\ d.t \in {"left", "deleted"} /\ d.v = 0
      BY <1>1, NotificationShape
    <3>2. Learns(b, d, m) \in Belief
      BY <3>1, LearnsType
    <3>3. Learns(b, d, m).x = 0
      BY <3>1, LearnsValue
    <3>4. m[1] = "client" => d.t = "left"
      BY <3>1, MainEvents
    <3>5. m[1] = "client" => Learns(b, d, m).y = 0
      BY <3>4, LearnsFlag
    <3> QED
      BY <3>2, <3>3, <3>5 DEF Gone
  <2>5. \A e \in ToSet(all) : e.t \notin {"enter", "update"}
    BY <1>1
  <2>6. d \in ToSet(all) /\ d \in answer /\ SeenIn(v, m) \in B
    BY <2>1
  <2>7. SeenIn(ApplyAll(v, all, answer), m) \in C
    BY <1>1, <2>2, <2>3, <2>4, <2>5, <2>6, AppliedTo
  <2> QED
    BY <2>1, <2>7
<1>6. PICK u : Joins(u, q, sent)
  BY DEF Joins
<1>3. u \in Seq(Notifications) /\ ToSet(u) = ToSet(q) \union ToSet(sent)
  BY <1>1, <1>6, JoinedAs
<1>4. \A e \in ToSet(u) : Tells(e, id, m) => e.t \in {"left", "deleted"} /\ e.v = 0
  BY <1>1, <1>3 DEF Quiet, Cleaned
<1>5. Foresees(r, u, e0, id, m, 0) /\ (m[1] = "client" => ForeseesAway(r, u, e0, id, m, 0))
  BY <1>2, <1>3, <1>4, GoneForGood
<1> QED
  BY <1>5, <1>6 DEF Joins

\* The client is not answered anything about m.
LEMMA NotAnswered ==
    ASSUME ViewTables, NEW m \in Mains, NEW v \in Views, NEW all, NEW sent, NEW id,
           RuntimeSays(all, sent, id), NEW answer, \A d \in answer : d.o # m,
           NEW p, p = SeenIn(v, m)
    PROVE  SeenIn(ApplyAll(v, all, answer), m) = p
<1>1. /\ all \in Seq(Notifications)
      /\ \A e \in ToSet(all) : e.t \in {"left", "deleted"}
  BY DEF RuntimeSays, OnlyGone
<1>2. PICK B : B = {p}
  OBVIOUS
<1>3. \A e \in ToSet(all), b \in Belief : e \in answer /\ b \in B => Learns(b, e, m) \in B
  <2> SUFFICES ASSUME NEW e \in ToSet(all), NEW b \in Belief, e \in answer PROVE Learns(b, e, m) = b
    BY <1>2
  <2> QED
    BY <1>1 DEF Learns
<1>4. \A e \in ToSet(all) : e.t \notin {"enter", "update"}
  BY <1>1
<1>5. SeenIn(v, m) \in B
  BY <1>2
<1>6. SeenIn(ApplyAll(v, all, answer), m) \in B
  BY <1>1, <1>3, <1>4, <1>5, AppliedKeeps
<1> QED
  BY <1>2, <1>6

\* What it is not answered it is told, or else it is excused.
LEMMA NotAnsweredShown ==
    ASSUME NEW m \in Mains, NEW id, id # 0, id # Bot, NEW all, NEW sent, RuntimeSays(all, sent, id),
           NEW answer, \A d \in answer : d.o # m,
           NEW lost, lost = UNION {Told(e) : e \in Withheld(id, all, answer)}, m \notin lost
    PROVE  Shown(sent, id, m)
<1> SUFFICES ASSUME NEW e \in ToSet(sent), e.o = m, IsSelfAlreadySent(e, id) PROVE FALSE
  BY DEF Shown
<1>1. ~ Cleaned(e, 0)
  BY CleanedIsForeign
<1>2. e \in ToSet(all) /\ e \notin answer
  BY <1>1 DEF RuntimeSays
<1>3. e \in Withheld(id, all, answer)
  BY <1>2 DEF Withheld
<1>4. m \in Told(e)
  BY DEF Told
<1> QED
  BY <1>3, <1>4

LEMMA RuntimeSeen ==
    ASSUME SeesInv, NEW a \in Addrs, NEW kind, NEW ch, IsTable(ch), NEW w \in Places, NEW aw,
           NEW first \in Seq(Notifications), NEW es \in Seq(Notifications),
           Runtime(a, kind, ch, w, aw, first, es),
           \A e \in ToSet(first) : Cleaned(e, 0), OnlyGone(es, sess[a].id)
    PROVE  ViewsSeen'
<1>1. PICK id, all, answer, lost, objs, put, aw2, own, sent, base, queued, late :
         /\ id = sess[a].id
         /\ all = CommandEvents(id, ch, w, es, 0)
         /\ answer = Answered(kind, all)
         /\ objs = UNION {Told(e) : e \in answer}
         /\ lost = UNION {Told(e) : e \in Withheld(id, all, answer)}
         /\ put = Synced(a, w) /\ aw2 = aw \ {id} /\ Joins(own, first, es)
         /\ sent = CommandEvents(id, ch, put, own, 0)
         /\ base = ExcusedFor(a, lost \union Overtaken(a, queue, objs))
         /\ queued = queue /\ late = {}
  BY DEF Joins
<1>2. PICK v, u : u = view[a] /\ v = ApplyAll(u, all, answer)
  OBVIOUS
<1>3. ViewTables /\ view \in [Addrs -> Views] /\ queued \in Seq(Notifications)
  BY <1>1 DEF SeesInv, ViewInv, ViewsSeen, ViewTables
<1>4. /\ FinishRequest(id, ch, put, aw2, own, 0, base)
      /\ view' = [view EXCEPT ![a] = v]
      /\ sess' = [sess EXCEPT ![a].again = @ \/ where[id] = 0]
      /\ task' = task /\ task = Idle /\ Listening(a)
  BY <1>1, <1>2 DEF Runtime, Command, Listening, Joins
<1>5. /\ id \in 0..Invoker /\ id # 0 /\ id # Bot
      /\ \A b \in Addrs : b # a /\ Listening(b) => sess[b].id # id
  BY <1>1, <1>4, ListeningId, Numbers
<1>6. put \in Places
  BY <1>1, <1>3, SyncedPlaces
<1>7. RuntimeSays(all, sent, id)
  <2>1. OnlyGone(es, id)
    BY <1>1
  <2> QED
    BY <1>1, <1>3, <1>5, <2>1, RuntimeAnnounces
<1>8. Commit(ch, put, aw2, sent, late, base)
  BY <1>1, <1>4, NobodyLeft DEF FinishRequest
<1>9. /\ all \in Seq(Notifications) /\ sent \in Seq(Notifications) /\ answer \subseteq ToSet(all)
      /\ \A e \in ToSet(sent) : e \in ToSet(all) \/ Cleaned(e, 0)
      /\ \A e \in ToSet(all) : e.t \in {"left", "deleted"} /\ e.v = 0 /\ e.by = id /\ e \in ToSet(sent)
      /\ \A e \in ToSet(all) : e \in Notifications
  BY <1>1, <1>7, Elements DEF RuntimeSays, OnlyGone, Answered
<1>10. Truthful(ch, put, aw2, sent)
  BY <1>9 DEF Truthful, Cleaned
<1>11. u \in Views /\ v \in Views
  BY <1>2, <1>3, <1>9, AppliedIsView
<1>12. /\ \A b \in Addrs \ {a} : sess'[b] = sess[b] /\ view'[b] = view[b] /\ excused[b] \subseteq base[b]
       /\ excused[a] \subseteq base[a] /\ lost \subseteq base[a]
       /\ Overtaken(a, queued, objs) \subseteq base[a]
       /\ view'[a] = v /\ view' \in [Addrs -> Views]
       /\ sess'[a].id = id
  <2>1. view'[a] = v /\ view' \in [Addrs -> Views] /\ \A b \in Addrs \ {a} : view'[b] = view[b]
    BY <1>3, <1>4, <1>11
  <2>2. PICK z : z = lost \union Overtaken(a, queued, objs)
    OBVIOUS
  <2>3. base = [excused EXCEPT ![a] = @ \union z] /\ excused \in [Addrs -> SUBSET Objects]
    BY <1>1, <1>3, <2>2 DEF ExcusedFor, ViewTables
  <2>4. sess \in [Addrs -> Session]
    BY DEF SeesInv, ViewInv, SessionsOK
  <2>5. sess'[a].id = id /\ \A b \in Addrs \ {a} : sess'[b] = sess[b]
    BY <1>1, <1>4, <2>4 DEF Session
  <2> QED
    BY <2>1, <2>2, <2>3, <2>5
<1>13. ASSUME NEW b \in Addrs \ {a}, NEW m \in Mains, Listening(b) PROVE Shown(sent, sess[b].id, m)
  <2>1. PICK k : k = sess[b].id /\ k # 0 /\ k # Bot /\ k # id
    BY <1>5, <1>13, ListeningId
  <2>2. ASSUME NEW e \in ToSet(sent) PROVE ~ IsSelfAlreadySent(e, k)
    <3>1. CASE Cleaned(e, 0)
      BY <2>1, <3>1, CleanedIsForeign
    <3>2. CASE e.by = id
      BY <1>5, <2>1, <3>2, Foreign
    <3> QED
      BY <1>9, <3>1, <3>2
  <2> QED
    BY <2>1, <2>2 DEF Shown
<1>14. ASSUME NEW m \in Mains PROVE Foreseen(a, m)'
  <2>1. CASE m \in excused'[a]
    BY <2>1 DEF Foreseen
  <2>2. CASE m \notin excused'[a] /\ \E d \in answer : d.o = m
    <3>1. PICK d \in answer : d.o = m
      BY <2>2
    <3>2. d \in Notifications /\ d \in ToSet(sent) /\ d.t \in {"left", "deleted"} /\ m \in Told(d)
      BY <1>9, <3>1 DEF Told
    <3>3. PICK x, y, e0, r, q1 : /\ x = Value(channels, where, away, m)'
                                 /\ y = Value(channels, where, away, Away(m[2]))'
                                 /\ e0 = Pending' /\ r = SeenIn(v, m) /\ q1 = queued \o sent
      OBVIOUS
    <3>4. m \in Objects
      BY MainShape
    <3>5. m \notin base[a] /\ Value(ch, put, aw2, m) = 0
      BY <1>8, <2>2, <3>2, <3>4, CommitExcuses
    <3>6. channels' = ch /\ where' = put /\ away' = aw2 /\ queue' = q1
      BY <1>1, <1>8, <3>3 DEF Commit
    <3>7. x = 0 /\ (m[1] = "client" => y = 0)
      BY <3>3, <3>5, <3>6, GoneIsNotAway
    <3>8. m \in objs /\ m \notin Overtaken(a, queued, objs)
      <4>1. m \in UNION {Told(e) : e \in answer}
        BY <3>1, <3>2
      <4>2. m \in objs
        BY <1>1, <4>1
      <4>3. m \notin Overtaken(a, queued, objs)
        BY <1>12, <3>5
      <4> QED
        BY <4>2, <4>3
    <3>9. Quiet(queued, id, m)
      BY <1>1, <1>3, <3>8, NotOvertaken
    <3>10. task' = Idle /\ e0.t = "idle"
      BY <1>4, <3>3, IdlePending
    <3>11. /\ Foresees(r, queued \o sent, e0, id, m, 0)
           /\ m[1] = "client" => ForeseesAway(r, queued \o sent, e0, id, m, 0)
      BY <1>2, <1>3, <1>7, <1>9, <1>11, <3>1, <3>3, <3>9, <3>10, AnsweredGone
    <3>12. /\ Foresees(r, q1, e0, id, m, x)
           /\ m[1] = "client" => ForeseesAway(r, q1, e0, id, m, y)
      BY <3>3, <3>7, <3>11
    <3> QED
      BY <1>11, <1>12, <3>3, <3>6, <3>10, <3>12, IdleForeseen
  <2>3. CASE m \notin excused'[a] /\ \A d \in answer : d.o # m
    <3>1. PICK p, e1, q1 : p = SeenIn(u, m) /\ e1 = Pending' /\ q1 = queued \o sent
      OBVIOUS
    <3>2. SeenIn(v, m) = p
      BY <1>2, <1>3, <1>7, <1>11, <2>3, <3>1, NotAnswered
    <3>3. Knows(a, m) = p
      BY <1>2, <1>4, <3>1, IdleKnows
    <3>4. e1.t = "idle" /\ e1.v = 0 /\ Pending.t = "idle" /\ e1.v \in Values /\ task' = Idle
      BY <1>4, <3>1, IdlePending, PendingFacts, Numbers DEF Values
    <3>5. Knows(a, m)' = p
      <4>1. \A b \in Belief : Learns(b, e1, m) = b
        BY <3>4, LearnsValue
      <4>2. p \in Belief
        BY <1>11, <3>1, SeenType
      <4> QED
        BY <1>12, <3>1, <3>2, <4>1, <4>2 DEF Knows
    <3>6. Shown(sent, id, m)
      <4>1. m \notin base[a]
        <5>1. m \in Objects
          BY MainShape
        <5> QED
          BY <1>8, <2>3, <5>1, CommitExcuses
      <4> QED
        BY <1>1, <1>5, <1>7, <1>12, <2>3, <4>1, NotAnsweredShown
    <3>7. Shown(sent, sess[a].id, m) /\ Foreseen(a, m)
      BY <1>1, <1>4, <3>6 DEF SeesInv, ViewsSeen, Sees
    <3>8. excused[a] \subseteq excused'[a] /\ sess'[a].id = sess[a].id
      <4>1. base[a] \subseteq excused'[a]
        BY <1>8 DEF Commit
      <4> QED
        BY <1>1, <1>12, <4>1
    <3> QED
      BY <1>1, <1>6, <1>8, <1>9, <1>10, <3>1, <3>3, <3>4, <3>5, <3>7, <3>8, OthersForesee
  <2> QED
    BY <2>1, <2>2, <2>3
<1>15. Commit(ch, put, aw2, sent, {}, base)
  BY <1>1, <1>8
<1>16. /\ \A b \in Addrs \ {a} :
              sess'[b] = sess[b] /\ view'[b] = view[b] /\ excused[b] \subseteq base[b]
       /\ \A b \in Addrs \ {a}, m \in Mains : Listening(b) => Shown(sent, sess[b].id, m)
       /\ \A m \in Mains : Listening(a)' => Foreseen(a, m)'
  BY <1>12, <1>13, <1>14
<1> QED
  BY <1>4, <1>6, <1>9, <1>10, <1>12, <1>15, <1>16, CommandSeen

LEMMA RuntimeCommandSeen ==
    ASSUME SeesInv, NEW a \in Addrs, NEW kind, RuntimeCommand(a, kind)
    PROVE  ViewsSeen'
<1>1. ViewTables /\ SessionsOK
  BY DEF SeesInv, ViewInv
<1>2. CASE Runtime(a, kind, channels, where, away, <<>>, <<>>)
  <2>1. PICK ch, w, aw, first, es : /\ ch = channels /\ w = where /\ aw = away
                                    /\ first = <<>> /\ es = <<>>
    OBVIOUS
  <2>2. IsTable(ch) /\ w \in Places /\ Runtime(a, kind, ch, w, aw, first, es)
    BY <1>1, <1>2, <2>1 DEF ViewTables
  <2>3. /\ first \in Seq(Notifications) /\ es \in Seq(Notifications)
        /\ ToSet(first) = {} /\ ToSet(es) = {}
    BY <2>1, Empty
  <2>4. (\A e \in ToSet(first) : Cleaned(e, 0)) /\ OnlyGone(es, sess[a].id)
    BY <2>3 DEF OnlyGone
  <2> QED
    BY <2>2, <2>3, <2>4, RuntimeSeen
<1>3. ASSUME NEW k \in Clients, where[k] # 0,
             Runtime(a, kind, KickChannels(k), KickWhere(k), away \ {k},
                     CleanupEvents(KickCleanup(k), 0), KickEvents(sess[a].id, k))
      PROVE  ViewsSeen'
  <2>1. PICK ch, w, aw, first, es, by :
           /\ ch = KickChannels(k) /\ w = KickWhere(k) /\ aw = away \ {k}
           /\ first = CleanupEvents(KickCleanup(k), 0) /\ by = sess[a].id
           /\ es = KickEvents(by, k)
    OBVIOUS
  <2>2. by \in 0..Invoker
    BY <1>1, <2>1, Numbers DEF SessionsOK, Session
  <2>3. IsTable(ch) /\ w \in Places
    BY <1>1, <2>1, <2>2, KickFacts
  <2>4. /\ first \in Seq(Notifications) /\ \A e \in ToSet(first) : Cleaned(e, 0)
        /\ es \in Seq(Notifications)
        /\ \A e \in ToSet(es) : e.t \in {"left", "deleted"} /\ e.v = 0 /\ e.by = by
    BY <1>1, <2>1, <2>2, KickSays
  <2>5. Runtime(a, kind, ch, w, aw, first, es) /\ OnlyGone(es, sess[a].id)
    BY <1>3, <2>1, <2>4 DEF OnlyGone
  <2> QED
    BY <2>3, <2>4, <2>5, RuntimeSeen
<1> QED
  BY <1>2, <1>3 DEF RuntimeCommand

-----------------------------------------------------------------------------
(* Every client foresees what the tables say.                              *)

LEMMA ClientStepSeen ==
    ASSUME SeesInv, NEW a \in Addrs,
           \/ GetCookie(a) \/ SolvePuzzleTeaSpeak(a) \/ SolvePuzzleOt1(a)
           \/ DeadPacket(a) \/ \E kind \in KindsAt[a] : Recognize(a, kind)
           \/ Ts3ClientInit(a) \/ Ts6ClientInit(a) \/ TeaClientInit(a)
           \/ Ts3ClientDisconnect(a) \/ Ts6ClientDisconnect(a) \/ TeaClientDisconnect(a)
           \/ Ts3RuntimeCommand(a) \/ Ts6RuntimeCommand(a) \/ TeaRuntimeCommand(a)
           \/ \E k \in Clients :
                 Ts3GetVariables(a, k) \/ Ts6GetVariables(a, k) \/ TeaGetVariables(a, k)
    PROVE  ViewsSeen'
<1>1. CASE GetCookie(a) \/ DeadPacket(a)
  BY <1>1, SessionsSeen
<1>2. CASE SolvePuzzleTeaSpeak(a) \/ SolvePuzzleOt1(a)
  BY <1>2, SessionsSeen DEF SolvePuzzleTeaSpeak, SolvePuzzleOt1
<1>3. CASE \E kind \in KindsAt[a] : Recognize(a, kind)
  BY <1>3, SessionsSeen
<1>4. CASE Ts3ClientInit(a) \/ Ts6ClientInit(a) \/ TeaClientInit(a)
  BY <1>4, ClientInitSeen DEF Ts3ClientInit, Ts6ClientInit, TeaClientInit
<1>5. CASE Ts3ClientDisconnect(a) \/ Ts6ClientDisconnect(a) \/ TeaClientDisconnect(a)
  BY <1>5, ClientDisconnectSeen DEF Ts3ClientDisconnect, Ts6ClientDisconnect, TeaClientDisconnect
<1>6. CASE Ts3RuntimeCommand(a) \/ Ts6RuntimeCommand(a) \/ TeaRuntimeCommand(a)
  BY <1>6, RuntimeCommandSeen DEF Ts3RuntimeCommand, Ts6RuntimeCommand, TeaRuntimeCommand
<1>7. ASSUME NEW k \in Clients,
             Ts3GetVariables(a, k) \/ Ts6GetVariables(a, k) \/ TeaGetVariables(a, k)
      PROVE  ViewsSeen'
  BY <1>7, GetVariablesSeen DEF Ts3GetVariables, Ts6GetVariables, TeaGetVariables
<1> QED
  BY <1>1, <1>2, <1>3, <1>4, <1>5, <1>6, <1>7

LEMMA TableStepSeen ==
    ASSUME SeesInv, NEW a \in Addrs,
           \/ \E k \in Clients, c \in ChannelIds :
                 Ts3ClientMove(a, k, c) \/ Ts6ClientMove(a, k, c) \/ TeaClientMove(a, k, c)
           \/ \E p \in ParentsUsed, ck \in CreateKinds, flag \in BOOLEAN :
                 \/ Ts3ChannelCreate(a, p, ck, flag) \/ Ts6ChannelCreate(a, p, ck, flag)
                 \/ TeaChannelCreate(a, p, ck, flag)
           \/ \E c \in ChannelIds, ck \in EditKinds, flag \in BOOLEAN :
                 \/ Ts3ChannelEdit(a, c, ck, flag) \/ Ts6ChannelEdit(a, c, ck, flag)
                 \/ TeaChannelEdit(a, c, ck, flag)
           \/ \E c \in ChannelIds :
                 Ts3ChannelDelete(a, c) \/ Ts6ChannelDelete(a, c) \/ TeaChannelDelete(a, c)
           \/ \E flag \in BOOLEAN :
                 Ts3ClientUpdate(a, flag) \/ Ts6ClientUpdate(a, flag) \/ TeaClientUpdate(a, flag)
    PROVE  ViewsSeen'
<1>1. ASSUME NEW k \in Clients, NEW c \in ChannelIds,
             Ts3ClientMove(a, k, c) \/ Ts6ClientMove(a, k, c) \/ TeaClientMove(a, k, c)
      PROVE  ViewsSeen'
  BY <1>1, UdpClientMoveSeen DEF Ts3ClientMove, Ts6ClientMove, TeaClientMove
<1>2. ASSUME NEW p \in ParentsUsed, NEW ck \in CreateKinds, NEW flag \in BOOLEAN,
             \/ Ts3ChannelCreate(a, p, ck, flag) \/ Ts6ChannelCreate(a, p, ck, flag)
             \/ TeaChannelCreate(a, p, ck, flag)
      PROVE  ViewsSeen'
  BY <1>2, UdpChannelCreateSeen DEF Ts3ChannelCreate, Ts6ChannelCreate, TeaChannelCreate
<1>3. ASSUME NEW c \in ChannelIds, NEW ck \in EditKinds, NEW flag \in BOOLEAN,
             \/ Ts3ChannelEdit(a, c, ck, flag) \/ Ts6ChannelEdit(a, c, ck, flag)
             \/ TeaChannelEdit(a, c, ck, flag)
      PROVE  ViewsSeen'
  BY <1>3, UdpChannelEditSeen DEF Ts3ChannelEdit, Ts6ChannelEdit, TeaChannelEdit
<1>4. ASSUME NEW c \in ChannelIds,
             Ts3ChannelDelete(a, c) \/ Ts6ChannelDelete(a, c) \/ TeaChannelDelete(a, c)
      PROVE  ViewsSeen'
  BY <1>4, UdpChannelDeleteSeen DEF Ts3ChannelDelete, Ts6ChannelDelete, TeaChannelDelete
<1>5. ASSUME NEW flag \in BOOLEAN,
             Ts3ClientUpdate(a, flag) \/ Ts6ClientUpdate(a, flag) \/ TeaClientUpdate(a, flag)
      PROVE  ViewsSeen'
  BY <1>5, ClientUpdateSeen DEF Ts3ClientUpdate, Ts6ClientUpdate, TeaClientUpdate
<1> QED
  BY <1>1, <1>2, <1>3, <1>4, <1>5

LEMMA PublishStepSeen ==
    ASSUME SeesInv,
           \/ Ts3Created \/ Ts6Created \/ TeaCreated \/ Ts3Edited \/ Ts6Edited \/ TeaEdited
           \/ Ts3Deleted \/ Ts6Deleted \/ TeaDeleted \/ Ts3Moved \/ Ts6Moved \/ TeaMoved
    PROVE  ViewsSeen'
<1>1. PICK stage \in {"created", "edited", "deleted", "moved"}, kind \in {"ts3", "ts6", "teaspeak"} :
         Publish(kind, stage)
  BY DEF Ts3Created, Ts6Created, TeaCreated, Ts3Edited, Ts6Edited, TeaEdited,
         Ts3Deleted, Ts6Deleted, TeaDeleted, Ts3Moved, Ts6Moved, TeaMoved
<1> QED
  BY <1>1, PublishSeen

LEMMA QueryStepSeen ==
    ASSUME SeesInv,
           \/ \E p \in ParentsUsed, kind \in CreateKinds : QueryCreate(p, kind)
           \/ \E c \in ChannelIds : QueryDelete(c) \/ \E kind \in EditKinds : QueryEdit(c, kind)
           \/ \E k \in Clients :
                 Zombie(k) \/ QueryKick(k) \/ \E c \in ChannelIds : QueryMove(k, c)
    PROVE  ViewsSeen'
BY QueryCreateSeen, QueryDeleteSeen, QueryEditSeen, ZombieSeen, QueryKickSeen, QueryMoveSeen

LEMMA SeesInductive ==
    ASSUME SeesInv, [ViewNext]_viewVars
    PROVE  SeesInv'
<1>1. ViewInv'
  BY ViewInductive DEF SeesInv
<1>2. CASE UNCHANGED viewVars
  <2>1. /\ UNCHANGED <<channels, where, away, queue, task>> /\ sess' = sess /\ view' = view
        /\ excused' = excused
    BY <1>2 DEF viewVars
  <2>2. ASSUME NEW b \in Addrs, Listening(b)', NEW m \in Mains PROVE Foreseen(b, m)'
    <3>1. Foreseen(b, m)
      BY <2>1, <2>2 DEF Listening, SeesInv, ViewsSeen, Sees
    <3> QED
      BY <2>1, <3>1, NothingNew
  <2>3. \A b \in Addrs : Sees(b)'
    BY <2>2 DEF Sees
  <2> QED
    BY <1>1, <2>1, <2>3 DEF ViewsSeen, SeesInv
<1>3. CASE ViewNext
  <2>1. ViewsSeen'
    BY <1>3, ClientStepSeen, TableStepSeen, PublishStepSeen, VacatesSeen, NotifySeen, QueryStepSeen
       DEF ViewNext
  <2> QED
    BY <1>1, <2>1 DEF SeesInv
<1> QED
  BY <1>2, <1>3

LEMMA SeesInit == ViewInit => SeesInv
<1> SUFFICES ASSUME ViewInit PROVE SeesInv
  OBVIOUS
<1>1. \A a \in Addrs : ~ Listening(a)
  BY NoSessionFacts DEF ViewInit, Listening
<1>2. view \in [Addrs -> Views] /\ task.stage # "vacate"
  BY NothingIsView DEF ViewInit, Idle
<1> QED
  BY <1>1, <1>2, ViewInitSound DEF SeesInv, ViewsSeen, Sees

\* With nothing left to read, a client sees what it foresees.
LEMMA SeesNow ==
    ASSUME SeesInv, task = Idle, queue = <<>>, NEW a \in Addrs, Listening(a), NEW m \in Mains,
           m \notin excused[a]
    PROVE  /\ view[a][m] = Value(channels, where, away, m)
           /\ m[1] = "client" /\ Away(m[2]) \notin excused[a] =>
                 view[a][Away(m[2])] = Value(channels, where, away, Away(m[2]))
<1>1. PICK p, q, e0, id, x, y : /\ p = SeenIn(view[a], m) /\ q = queue /\ e0 = Pending
                                /\ id = sess[a].id /\ x = Value(channels, where, away, m)
                                /\ y = Value(channels, where, away, Away(m[2]))
  OBVIOUS
<1>2. /\ p \in Belief /\ e0.t = "idle" /\ Foresees(p, q, e0, id, m, x)
      /\ m[1] = "client" /\ Away(m[2]) \notin excused[a] => ForeseesAway(p, q, e0, id, m, y)
  BY <1>1, ForeseenNow
<1>3. PICK h : Reading(h, p, q, id, m) /\ h[Len(q)] = p
  BY <1>1, <1>2, ReadNothing
<1>4. Reads(p, e0, id, m) = p
  BY <1>2, LearnsValue DEF Reads
<1>5. p.x = x /\ (m[1] = "client" /\ Away(m[2]) \notin excused[a] => p.y \in {-1, y})
  BY <1>2, <1>3, <1>4 DEF Foresees, ForeseesAway
<1>6. p.x = view[a][m] /\ (m[1] = "client" => p.y = view[a][Away(m[2])])
  BY <1>1 DEF SeenIn
<1>7. m[1] = "client" => view[a][Away(m[2])] \in Values
  BY MainShape DEF SeesInv, ViewsSeen, Views
<1>8. -1 \notin Values
  BY Numbers DEF Values
<1> QED
  BY <1>1, <1>5, <1>6, <1>7, <1>8

-----------------------------------------------------------------------------
(* The results.                                                            *)

\* A session that goes on has its client online, unless the client is about to
\* read that it was thrown out, or was dropped for its silence.
THEOREM OnlineWhileListening == ViewSpec => []SessionsOnline
<1>1. ViewInv => SessionsOnline
  BY DEF ViewInv, Presences, Online, SessionsOnline, Thrown
<1> QED
  BY <1>1, ViewInvariant, PTL

\* Once the notifications are delivered, every client that is connected sees the
\* channels, who is in them and who is away as they are, but for what it is
\* excused from.
THEOREM ViewsShowTables == ViewSpec => []ViewsAgree
<1>1. SeesInv /\ [ViewNext]_viewVars => SeesInv'
  BY SeesInductive
<1>2. SeesInv => ViewsAgree
  <2> SUFFICES ASSUME SeesInv, task = Idle, queue = <<>>, NEW a \in Addrs, Listening(a),
                      NEW o \in Objects, o \notin excused[a],
                      ~ (o[1] = "away" /\ Client(o[2]) \in excused[a])
               PROVE  view[a][o] = Value(channels, where, away, o)
    BY DEF ViewsAgree
  <2>1. CASE o[1] # "away"
    BY <2>1, SeesNow DEF Mains
  <2>2. CASE o[1] = "away"
    <3>1. PICK m : m = Client(o[2]) /\ m \in Mains /\ m[1] = "client" /\ Away(m[2]) = o
      BY <2>2, ObjectShape DEF Mains
    <3>2. m \notin excused[a] /\ Away(m[2]) \notin excused[a]
      BY <2>2, <3>1
    <3> QED
      BY <3>1, <3>2, SeesNow
  <2> QED
    BY <2>1, <2>2
<1> QED
  BY <1>1, <1>2, SeesInit, PTL DEF ViewSpec

\* Only a delivered notification ends a session and takes one from the queue.
LEMMA WhoEnds ==
    ASSUME ViewInv, [ViewNext]_viewVars, ~ Notify, NEW a \in Addrs, Listening(a), sess'[a] = NoSession
    PROVE  queue' = queue \/ \E b \in Addrs : \E kind : ClientDisconnect(b, kind)
<1> SUFFICES ASSUME queue' # queue, ~ \E b \in Addrs : \E kind : ClientDisconnect(b, kind)
             PROVE  FALSE
  OBVIOUS
<1>1. sess'[a] # sess[a] /\ ~ sess'[a].on /\ sess[a].on /\ sess \in [Addrs -> Session]
  BY NoSessionFacts DEF Listening, ViewInv, SessionsOK
<1>2. ~ UNCHANGED sess /\ ~ UNCHANGED queue
  BY <1>1
<1>3. \A b \in Addrs : \A kind : ~ ClientInit(b, kind) /\ ~ RuntimeCommand(b, kind)
  <2>1. ASSUME NEW b \in Addrs, NEW kind, ClientInit(b, kind) PROVE FALSE
    <3>1. sess' = [sess EXCEPT ![b].named = TRUE, ![b].again = @ \/ sess[b].named]
      BY <2>1 DEF ClientInit
    <3>2. sess'[a].on = sess[a].on
      BY <1>1, <3>1 DEF Session
    <3> QED
      BY <1>1, <3>2
  <2>2. ASSUME NEW b \in Addrs, NEW kind, RuntimeCommand(b, kind) PROVE FALSE
    <3>1. PICK x : sess' = [sess EXCEPT ![b].again = x]
      BY <2>2 DEF RuntimeCommand, Runtime
    <3>2. sess'[a].on = sess[a].on
      BY <1>1, <3>1 DEF Session
    <3> QED
      BY <1>1, <3>2
  <2> QED
    BY <2>1, <2>2
<1>4. \A b \in Addrs : \A kind : ~ NewSession(b, kind) /\ ~ Recognize(b, kind)
  BY <1>2 DEF NewSession, Recognize
<1>5. \A b \in Addrs : ~ GetCookie(b) /\ ~ DeadPacket(b)
  BY <1>2 DEF GetCookie, DeadPacket
<1>6. \A b \in Addrs : \A kind, k, c :
         /\ ~ GetVariables(b, kind, k)
         /\ ~ UdpClientMove(b, kind, k, c)
         /\ ~ UdpChannelDelete(b, kind, c)
         /\ ~ ClientUpdate(b, kind, c)
  <2>1. ASSUME NEW b \in Addrs, NEW kind, NEW k, GetVariables(b, kind, k) PROVE FALSE
    BY <1>2, <2>1 DEF GetVariables
  <2>2. ASSUME NEW b \in Addrs, NEW kind, NEW k, NEW c, UdpClientMove(b, kind, k, c) PROVE FALSE
    BY <1>2, <2>2 DEF UdpClientMove
  <2>3. ASSUME NEW b \in Addrs, NEW kind, NEW c, UdpChannelDelete(b, kind, c) PROVE FALSE
    BY <1>2, <2>3 DEF UdpChannelDelete
  <2>4. ASSUME NEW b \in Addrs, NEW kind, NEW c, ClientUpdate(b, kind, c) PROVE FALSE
    BY <1>2, <2>4 DEF ClientUpdate
  <2> QED
    BY <2>1, <2>2, <2>3, <2>4
<1>7. \A b \in Addrs : \A kind, p, ck, flag :
         /\ ~ UdpChannelCreate(b, kind, p, ck, flag)
         /\ ~ UdpChannelEdit(b, kind, p, ck, flag)
  <2>1. ASSUME NEW b \in Addrs, NEW kind, NEW p, NEW ck, NEW flag, UdpChannelCreate(b, kind, p, ck, flag) PROVE FALSE
    BY <1>2, <2>1 DEF UdpChannelCreate
  <2>2. ASSUME NEW b \in Addrs, NEW kind, NEW p, NEW ck, NEW flag, UdpChannelEdit(b, kind, p, ck, flag) PROVE FALSE
    BY <1>2, <2>2 DEF UdpChannelEdit
  <2> QED
    BY <2>1, <2>2
<1>8. \A x, y : ~ Publish(x, y) /\ ~ Vacate(x, y)
  BY <1>2 DEF Publish, Vacate
<1>9. \A p, kind, c, k :
         /\ ~ QueryCreate(p, kind)
         /\ ~ QueryDelete(c)
         /\ ~ QueryEdit(c, kind)
         /\ ~ QueryMove(k, c)
         /\ ~ QueryKick(k)
         /\ ~ Zombie(k)
  <2>1. ASSUME NEW p, NEW kind, QueryCreate(p, kind) PROVE FALSE
    BY <1>2, <2>1 DEF QueryCreate
  <2>2. ASSUME NEW c, QueryDelete(c) PROVE FALSE
    BY <1>2, <2>2 DEF QueryDelete
  <2>3. ASSUME NEW c, NEW kind, QueryEdit(c, kind) PROVE FALSE
    BY <1>2, <2>3 DEF QueryEdit
  <2>4. ASSUME NEW k, NEW c, QueryMove(k, c) PROVE FALSE
    BY <1>2, <2>4 DEF QueryMove
  <2>5. ASSUME NEW k, QueryKick(k) PROVE FALSE
    BY <1>2, <2>5 DEF QueryKick
  <2>6. ASSUME NEW k, Zombie(k) PROVE FALSE
    BY <1>2, <2>6 DEF Zombie
  <2> QED
    BY <2>1, <2>2, <2>3, <2>4, <2>5, <2>6
<1>10. ViewNext
  BY <1>2 DEF viewVars
<1>11. \A b \in Addrs :
         /\ ~ SolvePuzzleTeaSpeak(b) /\ ~ SolvePuzzleOt1(b)
         /\ ~ Ts3ClientInit(b) /\ ~ Ts6ClientInit(b) /\ ~ TeaClientInit(b)
         /\ ~ Ts3ClientDisconnect(b) /\ ~ Ts6ClientDisconnect(b) /\ ~ TeaClientDisconnect(b)
         /\ ~ Ts3RuntimeCommand(b) /\ ~ Ts6RuntimeCommand(b) /\ ~ TeaRuntimeCommand(b)
  BY <1>3, <1>4 DEF SolvePuzzleTeaSpeak, SolvePuzzleOt1, Ts3ClientInit, Ts6ClientInit, TeaClientInit,
     Ts3ClientDisconnect, Ts6ClientDisconnect, TeaClientDisconnect,
     Ts3RuntimeCommand, Ts6RuntimeCommand, TeaRuntimeCommand
<1>12. \A b \in Addrs : \A k, c :
         /\ ~ Ts3GetVariables(b, k) /\ ~ Ts6GetVariables(b, k) /\ ~ TeaGetVariables(b, k)
         /\ ~ Ts3ClientMove(b, k, c) /\ ~ Ts6ClientMove(b, k, c) /\ ~ TeaClientMove(b, k, c)
         /\ ~ Ts3ChannelDelete(b, c) /\ ~ Ts6ChannelDelete(b, c) /\ ~ TeaChannelDelete(b, c)
         /\ ~ Ts3ClientUpdate(b, c) /\ ~ Ts6ClientUpdate(b, c) /\ ~ TeaClientUpdate(b, c)
  BY <1>6 DEF Ts3GetVariables, Ts6GetVariables, TeaGetVariables,
     Ts3ClientMove, Ts6ClientMove, TeaClientMove, Ts3ChannelDelete, Ts6ChannelDelete, TeaChannelDelete,
     Ts3ClientUpdate, Ts6ClientUpdate, TeaClientUpdate
<1>13. \A b \in Addrs : \A p, ck, flag :
         /\ ~ Ts3ChannelCreate(b, p, ck, flag) /\ ~ Ts6ChannelCreate(b, p, ck, flag)
         /\ ~ TeaChannelCreate(b, p, ck, flag)
         /\ ~ Ts3ChannelEdit(b, p, ck, flag) /\ ~ Ts6ChannelEdit(b, p, ck, flag)
         /\ ~ TeaChannelEdit(b, p, ck, flag)
  BY <1>7 DEF Ts3ChannelCreate, Ts6ChannelCreate, TeaChannelCreate,
     Ts3ChannelEdit, Ts6ChannelEdit, TeaChannelEdit
<1>14. /\ ~ Ts3Vacate /\ ~ Ts6Vacate /\ ~ TeaVacate
       /\ ~ Ts3Created /\ ~ Ts6Created /\ ~ TeaCreated /\ ~ Ts3Edited /\ ~ Ts6Edited /\ ~ TeaEdited
       /\ ~ Ts3Deleted /\ ~ Ts6Deleted /\ ~ TeaDeleted /\ ~ Ts3Moved /\ ~ Ts6Moved /\ ~ TeaMoved
  BY <1>8 DEF Ts3Created, Ts6Created, TeaCreated, Ts3Edited, Ts6Edited, TeaEdited,
     Ts3Deleted, Ts6Deleted, TeaDeleted, Ts3Moved, Ts6Moved, TeaMoved,
     Ts3Vacate, Ts6Vacate, TeaVacate
<1> QED
  BY <1>4, <1>5, <1>9, <1>10, <1>11, <1>12, <1>13, <1>14, Zenon DEF ViewNext

\* A delivered notification ends the session of a client that is online only
\* when the client threw itself out or the notification is about an earlier stay.
THEOREM SessionsEndByOwnLeaving == ViewSpec => OnlyOwnLeavingEnds
<1> DEFINE A == \A a \in Addrs :
                    /\ queue # <<>> /\ queue' = Tail(queue)
                    /\ Listening(a) /\ sess'[a] = NoSession
                    /\ where[sess[a].id] # 0
                    => sess[a].again \/ Head(queue).by = sess[a].id
<1>1. ASSUME ViewInv, [ViewNext]_viewVars, NEW a \in Addrs,
             queue # <<>>, queue' = Tail(queue), Listening(a), sess'[a] = NoSession,
             where[sess[a].id] # 0
      PROVE  sess[a].again \/ Head(queue).by = sess[a].id
  <2>1. ViewTables /\ SessionsOK /\ Presences
    BY <1>1 DEF ViewInv
  <2>2. PICK q, e : q = queue /\ e = Head(q)
    OBVIOUS
  <2>3. q \in Seq(Notifications) /\ q # <<>>
    BY <1>1, <2>1, <2>2 DEF ViewTables
  <2>4. e \in ToSet(q)
    BY <2>2, <2>3, HeadAndTail
  <2>5. CASE Notify
    <3>1. Ends(a, e)
      BY <1>1, <2>2, <2>5, NoSessionFacts DEF Notify, Listening
    <3>2. e.t = "left" /\ e.o[2] = sess[a].id /\ e.by # 0
      BY <3>1 DEF Ends, IsSelfAlreadySent
    <3>3. e.o = Client(sess[a].id)
      <4>1. e.o \in Objects /\ e.o[1] = "client"
        BY <2>3, <2>4, <3>2, Elements DEF Notifications, About
      <4> QED
        BY <3>2, <4>1, ObjectShape
    <3>4. Thrown(e, sess[a].id) /\ sess[a].id # 0
      BY <1>1, <2>1, <3>2, <3>3 DEF Thrown, Listening, SessionsOK
    <3> QED
      BY <1>1, <2>1, <2>2, <2>4, <3>4 DEF Presences, Novice
  <2>6. CASE ~ Notify
    <3>1. Len(Tail(q)) < Len(q) /\ Len(q) \in Nat
      BY <2>3, HeadTailProperties, EmptySeq, LenProperties
    <3>2. CASE queue' = queue
      BY <1>1, <2>2, <3>1, <3>2
    <3>3. ASSUME NEW b \in Addrs, NEW kind, ClientDisconnect(b, kind) PROVE FALSE
      <4>1. PICK k, base : k = sess[b].id /\ base = [excused EXCEPT ![b] = {}]
        OBVIOUS
      <4>2. RemoveUdpClient(k, base) /\ sess[b].on
        BY <3>3, <4>1 DEF ClientDisconnect, Command
      <4>3. k \in Clients /\ base \in [Addrs -> SUBSET Objects]
        BY <2>1, <4>1, <4>2, Numbers DEF ViewTables, SessionsOK, Session
      <4>4. PICK es : Plain(es) /\ queue' = queue \o es
        BY <2>1, <4>2, <4>3, RemovalFacts
      <4>5. Len(q \o es) >= Len(q)
        <5>1. es \in Seq(Notifications) /\ Len(es) \in Nat /\ Len(q \o es) = Len(q) + Len(es)
          BY <2>3, <4>4, ConcatProperties, LenProperties DEF Plain
        <5> QED
          BY <3>1, <5>1
      <4>6. Len(Tail(q)) \in Nat
        BY <2>3, HeadTailProperties, LenProperties
      <4> QED
        BY <1>1, <2>2, <3>1, <4>4, <4>5, <4>6
    <3>4. queue' = queue \/ \E b \in Addrs : \E kind : ClientDisconnect(b, kind)
      BY <1>1, <2>6, WhoEnds
    <3> QED
      BY <3>2, <3>3, <3>4
  <2> QED
    BY <2>5, <2>6
<1>2. ViewInv /\ [ViewNext]_viewVars => A
  BY <1>1
<1>3. ViewSpec => [][A]_viewVars
  BY <1>2, ViewInvariant, PTL DEF ViewSpec
<1> QED
  BY <1>3 DEF OnlyOwnLeavingEnds
=============================================================================
