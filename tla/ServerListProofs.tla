--------------------------- MODULE ServerListProofs ---------------------------
(***************************************************************************)
(* What ServerList guarantees for any number of hosts, rows and packets,   *)
(* torn rows included.                                                     *)
(***************************************************************************)
EXTENDS ServerList, TLAPS

USE DEF NoneOr

\* The rows a search can leave behind are rows, torn or whole.
LEMMA MixesType ==
  ASSUME NEW old \in MMRow, NEW l \in Listings, NEW r \in Mixes(old, l)
  PROVE  r \in MMRow
<1>1. l \in MMRow
  BY ListingsAssumption DEF MMRow
<1> QED
  BY <1>1 DEF Mixes, MMRow

\* Overwriting an element of a sequence keeps its length and its type.
LEMMA UpdateType ==
  ASSUME NEW S, NEW s \in Seq(S), NEW i \in DOMAIN s, NEW e \in S
  PROVE  /\ [s EXCEPT ![i] = e] \in Seq(S)
         /\ Len([s EXCEPT ![i] = e]) = Len(s)
         /\ DOMAIN [s EXCEPT ![i] = e] = DOMAIN s
  OBVIOUS

\* What a new list arranged by SortedOrders looks like.
LEMMA ArrangedType ==
  ASSUME entries \in Seq(Entry), NEW n \in 0..Len(entries), NEW p \in SortedOrders(n)
  PROVE  /\ [k \in 1..n |-> entries[p[k]]] \in Seq(Entry)
         /\ Len([k \in 1..n |-> entries[p[k]]]) = n
         /\ \A k \in 1..n : p[k] \in Indices /\ entries[p[k]].num # 0
         /\ \A j, k \in 1..n : p[j] = p[k] => j = k
         /\ \A i \in Survivors : \E k \in 1..n : p[k] = i
<1>1. /\ p \in [1..n -> Survivors]
      /\ \A j, k \in 1..n : p[j] = p[k] => j = k
      /\ \A i \in Survivors : \E k \in 1..n : p[k] = i
  BY DEF SortedOrders, Bijection, Injection, Surjection, IsInjective
<1>2. \A k \in 1..n : p[k] \in Indices /\ entries[p[k]].num # 0
  BY <1>1 DEF Survivors
<1>3. \A k \in 1..n : entries[p[k]] \in Entry
  BY <1>2 DEF Indices
<1>4. n \in Nat
  OBVIOUS
<1>5. [k \in 1..n |-> entries[p[k]]] \in [1..n -> Entry]
  BY <1>3
<1>6. [k \in 1..n |-> entries[p[k]]] \in Seq(Entry)
  BY <1>4, <1>5
<1>7. Len([k \in 1..n |-> entries[p[k]]]) = n
  BY <1>4, <1>6
<1> QED
  BY <1>1, <1>2, <1>6, <1>7

\* What a merge and a lobby state make of an entry is an entry.
LEMMA EntryType ==
  ASSUME entries \in Seq(Entry), NEW i \in Indices
  PROVE  entries[i] \in Entry /\ entries[i].xuid \in Hosts
<1>1. entries[i] \in Entry
  BY DEF Indices
<1> QED
  BY <1>1 DEF Entry

LEMMA CountsType ==
  ASSUME NEW e \in Entry, NEW n \in Nat, NEW m \in Nat
  PROVE  [e EXCEPT !.num = n, !.max = m] \in Entry
  BY DEF Entry

LEMMA StateType ==
  ASSUME NEW e \in Entry, NEW x \in Hosts, NEW l \in Hosts \cup {NoHost}
  PROVE  [e EXCEPT !.roster = x, !.probed = TRUE,
                   !.lobby = IF l # NoHost THEN l ELSE @] \in Entry
<1>1. e.lobby \in Hosts \cup {NoHost}
  BY DEF Entry
<1>2. \A k \in Hosts \cup {NoHost} :
        [e EXCEPT !.roster = x, !.probed = TRUE, !.lobby = k] \in Entry
  BY DEF Entry
<1>3. (IF l # NoHost THEN l ELSE e.lobby) \in Hosts \cup {NoHost}
  BY <1>1
<1> QED
  BY <1>2, <1>3

\* What is sent of an entry is a packet.
LEMMA SendingType ==
  ASSUME NEW e \in Entry
  PROVE  ProbeTo(e) \in Sending /\ SteamJoin(e) \in Sending
  BY DEF Entry, Sending, ProbeTo, SteamJoin

\* alloc_results leaves rows behind.
LEMMA AllocType ==
  ASSUME results \in [1..MMCount -> MMRow], AllocResults
  PROVE  results' \in [1..MMCount -> MMRow] /\ alloced' \in BOOLEAN
<1>1. EmptyRow \in MMRow
  BY DEF EmptyRow, MMRow
<1> QED
  BY <1>1 DEF AllocResults

THEOREM TypeInit == Init => TypeOK
<1> SUFFICES ASSUME Init PROVE TypeOK
  OBVIOUS
<1>1. EmptyRow \in MMRow
  BY DEF EmptyRow, MMRow
<1>2. results \in [1..MMCount -> MMRow]
  BY <1>1 DEF Init
<1>3. entries \in Seq(Entry)
  BY DEF Init
<1>4. sent \in Sending
  BY DEF Init, NoSend, Sending
<1>5. /\ alloced \in BOOLEAN /\ active \in BOOLEAN /\ autoProbe \in BOOLEAN 
  BY DEF Init
<1>5a.  due \in BOOLEAN /\ willJoin \in BOOLEAN
  BY DEF Init
<1>6. service \in {"offline", "online", "session"}
  BY DEF Init
<1>7. rpc \in {"frame", "merge", "prune", "probe", "dispatch", "join"}
  BY DEF Init
<1>8. cur \in Nat \ {0} /\ (rpc = "merge" => cur <= MMCount) /\ total \in Nat
  BY DEF Init
<1>9. pkt \in Packets \cup {NoPacket} /\ probedNow \subseteq Hosts
  BY DEF Init
<1> QED
  BY <1>2, <1>3, <1>4, <1>5, <1>6, <1>7, <1>8, <1>9, <1>5a DEF TypeOK

THEOREM TypeStep == TypeOK /\ [Next]_vars => TypeOK'
<1> SUFFICES ASSUME TypeOK, [Next]_vars PROVE TypeOK'
  OBVIOUS
<1> USE DEF TypeOK
<1>1. ASSUME NEW s \in 1..MMCount, NEW l \in Listings, SearchWrites(s, l)
      PROVE  TypeOK'
  <2>1. PICK r \in (IF AtomicRows THEN {l} ELSE Mixes(results[s], l)) :
           results' = [results EXCEPT ![s] = r]
    BY <1>1 DEF SearchWrites
  <2>2. results[s] \in MMRow /\ l \in MMRow
    BY ListingsAssumption DEF MMRow
  <2>3. r \in MMRow
    BY <2>1, <2>2, MixesType
  <2> QED
    BY <1>1, <2>1, <2>3 DEF SearchWrites, settingVars, renderVars, Silent, NoSend, Sending
<1>2. ASSUME NEW state \in {"offline", "online", "session"}, ServiceChanges(state)
      PROVE  TypeOK'
  BY <1>2 DEF ServiceChanges, settingVars, renderVars, Silent, NoSend, Sending
<1>3. CASE FetchFallsDue
  BY <1>3 DEF FetchFallsDue, settingVars, renderVars, Silent, NoSend, Sending
<1>4. CASE SetActive
  BY <1>4 DEF SetActive, settingVars, renderVars, Silent, NoSend, Sending
<1>5. CASE ToggleAutoProbe
  BY <1>5 DEF ToggleAutoProbe, settingVars, renderVars, Silent, NoSend, Sending
<1>6. ASSUME NEW i \in Indices, ManualProbe(i)
      PROVE  TypeOK'
  BY <1>6, SendingType DEF ManualProbe, settingVars, renderVars, Indices
<1>7. ASSUME NEW i \in Indices, ManualJoin(i)
      PROVE  TypeOK'
  BY <1>7, SendingType DEF ManualJoin, settingVars, renderVars, Indices
<1>8. CASE TickOffline
  BY <1>8 DEF TickOffline, settingVars, renderVars, Silent, NoSend, Sending
<1>9. CASE TickNoSession
  <2>1. results' \in [1..MMCount -> MMRow] /\ alloced' \in BOOLEAN
    BY <1>9, AllocType DEF TickNoSession
  <2>2. /\ rpc' \in {"probe", "frame"} /\ cur' = 1 /\ total' \in Nat
    BY <1>9 DEF TickNoSession, BeginProbeAll
  <2>3. /\ due' \in BOOLEAN /\ active' \in BOOLEAN /\ autoProbe' \in BOOLEAN
        /\ willJoin' \in BOOLEAN
    BY <1>9 DEF TickNoSession, settingVars
  <2> QED
    BY <1>9, <2>1, <2>2, <2>3 DEF TickNoSession, settingVars, Silent, NoSend, Sending
<1>10. CASE TickFetch
  <2>1. results' \in [1..MMCount -> MMRow] /\ alloced' \in BOOLEAN
    BY <1>10, AllocType DEF TickFetch
  <2>2. /\ rpc' = "merge" /\ cur' = 1 /\ cur' <= MMCount
    BY <1>10, MMCountAssumption DEF TickFetch
  <2>3. /\ due' \in BOOLEAN /\ active' \in BOOLEAN /\ autoProbe' \in BOOLEAN
        /\ willJoin' \in BOOLEAN
    BY <1>10 DEF TickFetch, settingVars
  <2> QED
    BY <1>10, <2>1, <2>2, <2>3 DEF TickFetch, settingVars, Silent, NoSend, Sending
<1>11. CASE MergeSkips
  BY <1>11, MMCountAssumption DEF MergeSkips, NextRow, settingVars, Silent, NoSend, Sending
<1>12. CASE MergeUpdates
  <2>1. PICK i \in Indices :
           entries' = [entries EXCEPT ![i].num = results[cur].num,
                                      ![i].max = results[cur].max]
    BY <1>12 DEF MergeUpdates
  <2>2. results[cur] \in MMRow
    BY <1>12 DEF MergeUpdates
  <2>3. [entries[i] EXCEPT !.num = results[cur].num, !.max = results[cur].max] \in Entry
    <3>1. entries[i] \in Entry
      BY EntryType
    <3>2. results[cur].num \in Nat /\ results[cur].max \in Nat
      BY <2>2 DEF MMRow
    <3> QED
      BY <3>1, <3>2, CountsType
  <2>4. entries' \in Seq(Entry)
    BY <2>1, <2>3, UpdateType DEF Indices
  <2> QED
    BY <1>12, <2>4, MMCountAssumption
       DEF MergeUpdates, NextRow, settingVars, Silent, NoSend, Sending
<1>13. CASE MergeAdds
  BY <1>13, MMCountAssumption DEF MergeAdds, NewEntry, NextRow, Indices, Entry, MMRow, settingVars, Silent, NoSend, Sending
<1>14. CASE Prune
  BY <1>14, ArrangedType DEF Prune, settingVars, Silent, NoSend, Sending
<1>15. CASE ProbeTakes
  BY <1>15 DEF ProbeTakes, settingVars, Silent, NoSend, Sending
<1>16. CASE ProbePasses
  BY <1>16 DEF ProbePasses, settingVars, Silent, NoSend, Sending
<1>17. CASE Dispatch
  <2>1. sent' \in Sending
    BY <1>17, SendingType DEF Dispatch, Indices, Silent, NoSend, Sending
  <2>2. probedNow' \subseteq Hosts
    <3>1. cur \in Indices => entries[cur].xuid \in Hosts
      BY EntryType
    <3> QED
      BY <1>17, <3>1 DEF Dispatch
  <2>3. rpc' \in {"join", "probe"} /\ cur' \in Nat \ {0}
    BY <1>17 DEF Dispatch
  <2> QED
    BY <1>17, <2>1, <2>2, <2>3 DEF Dispatch, settingVars
<1>18. CASE JoinLobby
  <2>1. sent' \in Sending
    BY <1>18, SendingType DEF JoinLobby, Indices, Silent, NoSend, Sending
  <2> QED
    BY <1>18, <2>1 DEF JoinLobby, settingVars
<1>19. CASE ProbeAllEnds
  BY <1>19 DEF ProbeAllEnds, settingVars, Silent, NoSend, Sending
<1>20. ASSUME NEW p \in Packets, Wants(p)
       PROVE  TypeOK'
  BY <1>20 DEF Wants, settingVars, renderVars, Silent, NoSend, Sending
<1>21. CASE SendMemberInfo
  BY <1>21, PacketsAssumption DEF SendMemberInfo, NoPacket, Packet, settingVars, renderVars, Sending
<1>22. CASE PacketDropped
  BY <1>22 DEF PacketDropped, settingVars, renderVars, Silent, NoSend, Sending
<1>23. CASE SetPlayers
  <2>1. PICK i \in Indices :
           entries' = [entries EXCEPT ![i].roster = pkt.from, ![i].probed = TRUE,
                         ![i].lobby = IF pkt.lobby # NoHost THEN pkt.lobby ELSE @]
    BY <1>23 DEF SetPlayers
  <2>2. pkt \in Packet
    BY <1>23, PacketsAssumption DEF SetPlayers, NoPacket
  <2>3. [entries[i] EXCEPT !.roster = pkt.from, !.probed = TRUE,
           !.lobby = IF pkt.lobby # NoHost THEN pkt.lobby ELSE @] \in Entry
    <3>1. entries[i] \in Entry
      BY EntryType
    <3>2. pkt.from \in Hosts /\ pkt.lobby \in Hosts \cup {NoHost}
      BY <2>2 DEF Packet
    <3> QED
      BY <3>1, <3>2, StateType
  <2>4. entries' \in Seq(Entry)
    <3> DEFINE e == [entries[i] EXCEPT !.roster = pkt.from, !.probed = TRUE,
                       !.lobby = IF pkt.lobby # NoHost THEN pkt.lobby ELSE @]
    <3>1. entries' = [entries EXCEPT ![i] = e]
      BY <2>1
    <3>2. e \in Entry
      BY <2>3
    <3> HIDE DEF e
    <3> QED
      BY <3>1, <3>2, UpdateType DEF Indices
  <2> QED
    BY <1>23, <2>4 DEF SetPlayers, settingVars, renderVars, Silent, NoSend, Sending
<1>24. CASE UNCHANGED vars
  BY <1>24 DEF vars
<1> QED
  BY <1>1, <1>2, <1>3, <1>4, <1>5, <1>6, <1>7, <1>8, <1>9, <1>10, <1>11, <1>12, <1>13,
     <1>14, <1>15, <1>16, <1>17, <1>18, <1>19, <1>20, <1>21, <1>22, <1>23, <1>24
     DEF Next, Environment, User, Tick, Net

\* ServerList is type correct.
THEOREM TypeCorrect == Spec => []TypeOK
  BY TypeInit, TypeStep, PTL DEF Spec

-----------------------------------------------------------------------------
(* The list: only four actions change it *)

LEMMA ListSteps ==
  [Next]_vars => \/ entries' = entries
                 \/ MergeUpdates \/ MergeAdds \/ Prune \/ SetPlayers
<1> SUFFICES ASSUME [Next]_vars, entries' # entries
             PROVE  MergeUpdates \/ MergeAdds \/ Prune \/ SetPlayers
  OBVIOUS
<1>1. ~Environment
  BY DEF Environment, SearchWrites, ServiceChanges, FetchFallsDue
<1>2. ~User
  BY DEF User, SetActive, ToggleAutoProbe, ManualProbe, ManualJoin
<1>3. Tick => MergeUpdates \/ MergeAdds \/ Prune
  BY DEF Tick, TickOffline, TickNoSession, TickFetch, MergeSkips, ProbeTakes, ProbePasses,
         Dispatch, JoinLobby, ProbeAllEnds
<1>4. Net => SetPlayers
  BY DEF Net, Wants, SendMemberInfo, PacketDropped
<1> QED
  BY <1>1, <1>2, <1>3, <1>4 DEF Next, vars

\* A merge that finds its host and a lobby state rewrite one entry in place.
LEMMA UpdatesInPlace ==
  ASSUME TypeOK, MergeUpdates \/ SetPlayers
  PROVE  /\ Indices' = Indices
         /\ \A j \in Indices : /\ entries'[j].xuid = entries[j].xuid
                               /\ entries'[j].addr = entries[j].addr
                               /\ entries'[j].ded = entries[j].ded
<1>1. \A i \in Indices : entries[i] \in Entry
  BY EntryType DEF TypeOK
<1>2. ASSUME NEW i \in Indices, NEW e, entries' = [entries EXCEPT ![i] = e],
             e.xuid = entries[i].xuid, e.addr = entries[i].addr, e.ded = entries[i].ded
      PROVE  /\ Indices' = Indices
             /\ \A j \in Indices : /\ entries'[j].xuid = entries[j].xuid
                                   /\ entries'[j].addr = entries[j].addr
                                   /\ entries'[j].ded = entries[j].ded
  <2>1. \A j \in Indices : entries'[j] = IF j = i THEN e ELSE entries[j]
    BY <1>2 DEF Indices
  <2> QED
    BY <1>2, <2>1 DEF Indices
<1>3. CASE MergeUpdates
  <2>1. PICK i \in Indices :
           entries' = [entries EXCEPT ![i].num = results[cur].num,
                                      ![i].max = results[cur].max]
    BY <1>3 DEF MergeUpdates
  <2> DEFINE e == [entries[i] EXCEPT !.num = results[cur].num, !.max = results[cur].max]
  <2>2. e.xuid = entries[i].xuid /\ e.addr = entries[i].addr /\ e.ded = entries[i].ded
    BY <1>1 DEF Entry
  <2>3. entries' = [entries EXCEPT ![i] = e]
    BY <2>1
  <2> HIDE DEF e
  <2> QED
    BY <1>2, <2>2, <2>3
<1>4. CASE SetPlayers
  <2>1. PICK i \in Indices :
           entries' = [entries EXCEPT ![i].roster = pkt.from, ![i].probed = TRUE,
                         ![i].lobby = IF pkt.lobby # NoHost THEN pkt.lobby ELSE @]
    BY <1>4 DEF SetPlayers
  <2> DEFINE e == [entries[i] EXCEPT !.roster = pkt.from, !.probed = TRUE,
                     !.lobby = IF pkt.lobby # NoHost THEN pkt.lobby ELSE @]
  <2>2. e.xuid = entries[i].xuid /\ e.addr = entries[i].addr /\ e.ded = entries[i].ded
    BY <1>1 DEF Entry
  <2>3. entries' = [entries EXCEPT ![i] = e]
    BY <2>1
  <2> HIDE DEF e
  <2> QED
    BY <1>2, <2>2, <2>3
<1> QED
  BY <1>3, <1>4

\* A merge that adds an entry leaves the others where they are.
LEMMA AddsAtTheEnd ==
  ASSUME TypeOK, MergeAdds
  PROVE  /\ Indices' = Indices \cup {Len(entries) + 1}
         /\ Len(entries) + 1 \notin Indices
         /\ \A j \in Indices : entries'[j] = entries[j]
         /\ entries'[Len(entries) + 1] = NewEntry(results[cur])
<1>1. entries \in Seq(Entry)
  BY DEF TypeOK
<1>2. entries' = Append(entries, NewEntry(results[cur]))
  BY DEF MergeAdds
<1> QED
  BY <1>1, <1>2 DEF Indices

\* The erase and the sort permute the entries that have players.
LEMMA PrunePermutes ==
  ASSUME TypeOK, Prune
  PROVE  \E n \in 0..Len(entries) : \E p \in SortedOrders(n) :
           /\ Indices' = 1..n
           /\ \A k \in 1..n : /\ p[k] \in Indices
                              /\ entries'[k] = entries[p[k]]
                              /\ entries'[k].num # 0
           /\ \A j, k \in 1..n : p[j] = p[k] => j = k
           /\ \A i \in Survivors : \E k \in 1..n : p[k] = i
<1>1. PICK n \in 0..Len(entries) : \E p \in SortedOrders(n) :
         entries' = [k \in 1..n |-> entries[p[k]]]
  BY DEF Prune
<1>2. PICK p \in SortedOrders(n) : entries' = [k \in 1..n |-> entries[p[k]]]
  BY <1>1
<1>3. entries \in Seq(Entry)
  BY DEF TypeOK
<1>4. /\ entries' \in Seq(Entry) /\ Len(entries') = n
      /\ \A k \in 1..n : p[k] \in Indices /\ entries[p[k]].num # 0
      /\ \A j, k \in 1..n : p[j] = p[k] => j = k
      /\ \A i \in Survivors : \E k \in 1..n : p[k] = i
  BY <1>2, <1>3, ArrangedType
<1>5. Indices' = 1..n
  BY <1>4 DEF Indices
<1>6. \A k \in 1..n : entries'[k] = entries[p[k]]
  BY <1>2
<1> WITNESS n \in 0..Len(entries)
<1> WITNESS p \in SortedOrders(n)
<1> QED
  BY <1>4, <1>5, <1>6

\* No host is listed twice.
THEOREM UniqueStep == TypeOK /\ UniqueXuids /\ [Next]_vars => UniqueXuids'
<1> SUFFICES ASSUME TypeOK, UniqueXuids, [Next]_vars PROVE UniqueXuids'
  OBVIOUS
<1>1. CASE entries' = entries
  BY <1>1 DEF UniqueXuids, Indices
<1>2. CASE MergeUpdates \/ SetPlayers
  BY <1>2, UpdatesInPlace DEF UniqueXuids
<1>3. CASE MergeAdds
  <2>1. \A j \in Indices : entries[j].xuid # results[cur].xuid
    BY <1>3 DEF MergeAdds, Listed
  <2>2. NewEntry(results[cur]).xuid = results[cur].xuid
    BY DEF NewEntry
  <2> QED
    BY <1>3, <2>1, <2>2, AddsAtTheEnd DEF UniqueXuids
<1>4. CASE Prune
  BY <1>4, PrunePermutes DEF UniqueXuids
<1> QED
  BY <1>1, <1>2, <1>3, <1>4, ListSteps

THEOREM NoHostListedTwice == Spec => []UniqueXuids
<1>1. Init => UniqueXuids
  BY DEF Init, UniqueXuids, Indices
<1> QED
  BY <1>1, UniqueStep, TypeCorrect, PTL DEF Spec

\* A row only ever shows its own server's roster and Steam lobby.
THEOREM RosterStep == TypeOK /\ RosterAttribution /\ [Next]_vars => RosterAttribution'
<1> SUFFICES ASSUME TypeOK, RosterAttribution, [Next]_vars PROVE RosterAttribution'
  OBVIOUS
<1>1. CASE entries' = entries
  BY <1>1 DEF RosterAttribution, Indices
<1>2. CASE MergeUpdates
  <2>1. \A i \in Indices : entries[i] \in Entry
    BY EntryType DEF TypeOK
  <2> QED
    BY <1>2, <2>1 DEF MergeUpdates, RosterAttribution, Indices, Entry
<1>3. CASE SetPlayers
  <2>1. \A i \in Indices : entries[i] \in Entry
    BY EntryType DEF TypeOK
  <2>2. pkt \in Packet /\ pkt.lobby \in {pkt.from, NoHost} /\ pkt.from # NoHost
    BY <1>3, PacketsAssumption, NoneAssumption DEF SetPlayers, NoPacket, TypeOK, Packet
  <2>3. PICK i \in Indices :
          /\ entries[i].xuid = pkt.from
          /\ entries' = [entries EXCEPT ![i].roster = pkt.from, ![i].probed = TRUE,
                           ![i].lobby = IF pkt.lobby # NoHost THEN pkt.lobby ELSE @]
    BY <1>3 DEF SetPlayers, FindsAt
  <2> DEFINE e == [entries[i] EXCEPT !.roster = pkt.from, !.probed = TRUE,
                     !.lobby = IF pkt.lobby # NoHost THEN pkt.lobby ELSE @]
  <2>4. /\ e.xuid = pkt.from /\ e.roster = pkt.from /\ e.probed
        /\ e.lobby \in {pkt.from, entries[i].lobby}
    BY <2>1, <2>2, <2>3 DEF Entry
  <2>5. entries' = [entries EXCEPT ![i] = e]
    BY <2>3
  <2> HIDE DEF e
  <2>6. \A j \in Indices : entries'[j] = IF j = i THEN e ELSE entries[j]
    BY <2>5 DEF Indices
  <2>7. Indices' = Indices
    BY <2>5 DEF Indices
  <2> QED
    <3> SUFFICES ASSUME NEW j \in Indices
                 PROVE  /\ entries'[j].roster \in {NoHost, entries'[j].xuid}
                        /\ entries'[j].lobby \in {NoHost, entries'[j].xuid}
                        /\ entries'[j].probed = (entries'[j].roster # NoHost)
      BY <2>7 DEF RosterAttribution
    <3>1. CASE j = i
      <4>1. entries'[j] = e
        BY <2>6, <3>1
      <4>2. entries[i].lobby \in {NoHost, pkt.from}
        BY <2>3 DEF RosterAttribution
      <4>3. /\ entries'[j].roster \in {NoHost, entries'[j].xuid}
            /\ entries'[j].lobby \in {NoHost, entries'[j].xuid}
        BY <2>4, <4>1, <4>2
      <4>4. entries'[j].probed /\ entries'[j].roster # NoHost
        BY <2>2, <2>4, <4>1
      <4> QED
        BY <4>3, <4>4
    <3>2. CASE j # i
      <4>1. entries'[j] = entries[j]
        BY <2>6, <3>2
      <4> QED
        BY <4>1 DEF RosterAttribution
    <3> QED
      BY <3>1, <3>2
<1>4. CASE MergeAdds
  <2>1. LET e == NewEntry(results[cur])
        IN e.roster = NoHost /\ e.lobby = NoHost /\ e.probed = FALSE
    BY DEF NewEntry
  <2> QED
    BY <1>4, <2>1, AddsAtTheEnd DEF RosterAttribution
<1>5. CASE Prune
  BY <1>5, PrunePermutes DEF RosterAttribution
<1> QED
  BY <1>1, <1>2, <1>3, <1>4, <1>5, ListSteps

THEOREM RostersAreTheirOwn == Spec => []RosterAttribution
<1>1. Init => RosterAttribution
  BY DEF Init, RosterAttribution, Indices
<1> QED
  BY <1>1, RosterStep, TypeCorrect, PTL DEF Spec

-----------------------------------------------------------------------------
(* A round of probe_all *)

\* What a lobby state changes: of one row, the sender's, the roster and the Steam
\* lobby, the latter never back to none.
LEMMA SetPlayersEffect ==
  ASSUME TypeOK, SetPlayers
  PROVE  /\ Len(entries') = Len(entries) /\ Indices' = Indices
         /\ \E i \in Indices :
              /\ FindsAt(pkt.from, i)
              /\ \A j \in Indices \ {i} : entries'[j] = entries[j]
              /\ entries'[i].xuid = entries[i].xuid /\ entries'[i].addr = entries[i].addr
              /\ entries'[i].num = entries[i].num /\ entries'[i].max = entries[i].max
              /\ entries'[i].ded = entries[i].ded
              /\ entries'[i].roster = pkt.from /\ entries'[i].probed = TRUE
              /\ entries'[i].lobby = IF pkt.lobby # NoHost THEN pkt.lobby ELSE entries[i].lobby
<1>1. PICK i \in Indices :
        /\ FindsAt(pkt.from, i)
        /\ entries' = [entries EXCEPT ![i].roster = pkt.from, ![i].probed = TRUE,
                         ![i].lobby = IF pkt.lobby # NoHost THEN pkt.lobby ELSE @]
  BY DEF SetPlayers
<1> DEFINE e == [entries[i] EXCEPT !.roster = pkt.from, !.probed = TRUE,
                   !.lobby = IF pkt.lobby # NoHost THEN pkt.lobby ELSE @]
<1>2. entries[i] \in Entry
  BY EntryType DEF TypeOK
<1>3. /\ e.xuid = entries[i].xuid /\ e.addr = entries[i].addr
      /\ e.num = entries[i].num /\ e.max = entries[i].max /\ e.ded = entries[i].ded
      /\ e.roster = pkt.from /\ e.probed = TRUE
      /\ e.lobby = IF pkt.lobby # NoHost THEN pkt.lobby ELSE entries[i].lobby
  BY <1>2 DEF Entry
<1>4. entries' = [entries EXCEPT ![i] = e]
  BY <1>1
<1>5. entries \in Seq(Entry)
  BY DEF TypeOK
<1> HIDE DEF e
<1>6. Len(entries') = Len(entries) /\ Indices' = Indices
  BY <1>4, <1>5 DEF Indices
<1>7. entries'[i] = e /\ \A j \in Indices \ {i} : entries'[j] = entries[j]
  BY <1>4, <1>5 DEF Indices
<1> QED
  BY <1>1, <1>3, <1>6, <1>7

\* Whom probe_all probes does not depend on what a lobby state changes.
LEMMA SetPlayersKeepsJoinable ==
  ASSUME TypeOK, SetPlayers
  PROVE  /\ Len(entries') = Len(entries) /\ Indices' = Indices
         /\ \A j \in Indices : /\ entries'[j].xuid = entries[j].xuid
                               /\ entries'[j].num = entries[j].num
                               /\ Joinable(entries[j])' = Joinable(entries[j])
                               /\ entries[j].lobby # NoHost => entries'[j].lobby # NoHost
  BY SetPlayersEffect DEF Joinable, Full

\* Whenever the lock is free the list is sorted and holds no empty server: only the
\* erase and the sort release it, and a lobby state touches no count.
THEOREM PresentedStep == TypeOK /\ Presented /\ [Next]_vars => Presented'
<1> SUFFICES ASSUME TypeOK, Presented, [Next]_vars PROVE Presented'
  OBVIOUS
<1>1. CASE MergeUpdates \/ MergeAdds
  BY <1>1 DEF MergeUpdates, MergeAdds, NextRow, Presented, Locked
<1>2. CASE Prune
  <2>1. PICK n \in 0..Len(entries) : \E p \in SortedOrders(n) :
           /\ Indices' = 1..n
           /\ \A k \in 1..n : /\ p[k] \in Indices
                              /\ entries'[k] = entries[p[k]]
                              /\ entries'[k].num # 0
    BY <1>2, PrunePermutes
  <2>2. PICK p \in SortedOrders(n) :
           /\ Indices' = 1..n
           /\ \A k \in 1..n : /\ p[k] \in Indices
                              /\ entries'[k] = entries[p[k]]
                              /\ entries'[k].num # 0
    BY <2>1
  <2>3. \A j, k \in 1..n : j < k => entries[p[j]].num >= entries[p[k]].num
    BY DEF SortedOrders
  <2> QED
    BY <2>2, <2>3 DEF Presented
<1>3. CASE SetPlayers
  BY <1>3, SetPlayersKeepsJoinable DEF SetPlayers, Presented, Locked
<1>4. CASE entries' = entries /\ ~Prune
  <2>1. Locked' \/ ~Locked
    <3>1. Environment \/ User \/ Net \/ UNCHANGED vars => UNCHANGED rpc
      BY DEF Environment, User, Net, SearchWrites, ServiceChanges, FetchFallsDue, SetActive,
             ToggleAutoProbe, ManualProbe, ManualJoin, Wants, SendMemberInfo, PacketDropped,
             SetPlayers, renderVars, vars
    <3>2. CASE Tick
      <4>1. ~Prune
        BY <1>4
      <4>2. CASE MergeSkips \/ MergeUpdates \/ MergeAdds
        BY <4>2 DEF MergeSkips, MergeUpdates, MergeAdds, NextRow, Locked
      <4>3. CASE TickOffline \/ TickNoSession \/ TickFetch \/ ProbeTakes \/ ProbePasses
                   \/ Dispatch \/ JoinLobby \/ ProbeAllEnds
        BY <4>3 DEF TickOffline, TickNoSession, TickFetch, TickDue, ProbeTakes, ProbePasses,
                    Dispatch, JoinLobby, ProbeAllEnds, Locked
      <4> QED
        BY <3>2, <4>1, <4>2, <4>3 DEF Tick
    <3> QED
      BY <3>1, <3>2 DEF Next, Locked
  <2> QED
    BY <1>4, <2>1 DEF Presented, Indices
<1> QED
  BY <1>1, <1>2, <1>3, <1>4, ListSteps

THEOREM AlwaysPresented == Spec => []Presented
<1>1. Init => Presented
  BY DEF Init, Presented, Indices
<1> QED
  BY <1>1, PresentedStep, TypeCorrect, PTL DEF Spec

\* All but eleven actions leave the round and the list alone.
LEMMA RoundSteps ==
  [Next]_vars => \/ UNCHANGED <<renderVars, entries>>
                 \/ UNCHANGED renderVars /\ SetPlayers
                 \/ TickNoSession \/ TickFetch \/ MergeSkips \/ MergeUpdates \/ MergeAdds
                 \/ Prune \/ ProbeTakes \/ ProbePasses \/ Dispatch \/ JoinLobby \/ ProbeAllEnds
<1>1. Environment \/ User \/ UNCHANGED vars => UNCHANGED <<renderVars, entries>>
  BY DEF Environment, User, SearchWrites, ServiceChanges, FetchFallsDue, SetActive,
         ToggleAutoProbe, ManualProbe, ManualJoin, renderVars, vars
<1>2. Net => UNCHANGED <<renderVars, entries>> \/ (UNCHANGED renderVars /\ SetPlayers)
  BY DEF Net, Wants, SendMemberInfo, PacketDropped, SetPlayers, renderVars
<1>3. TickOffline => UNCHANGED <<renderVars, entries>>
  BY DEF TickOffline, renderVars
<1> QED
  BY <1>1, <1>2, <1>3 DEF Next, Tick

\* What probe_all decided of the entry it is at stays true while it acts on it.
THEOREM DecisionsStep == TypeOK /\ DecisionsHold /\ [Next]_vars => DecisionsHold'
<1> SUFFICES ASSUME TypeOK, DecisionsHold, [Next]_vars PROVE DecisionsHold'
  OBVIOUS
<1>1. CASE UNCHANGED <<renderVars, entries>>
  BY <1>1 DEF DecisionsHold, Indices, renderVars
<1>2. CASE UNCHANGED renderVars /\ SetPlayers
  <2>1. /\ Len(entries') = Len(entries) /\ Indices' = Indices
        /\ \A j \in Indices : /\ Joinable(entries[j])' = Joinable(entries[j])
                              /\ entries[j].lobby # NoHost => entries'[j].lobby # NoHost
    BY <1>2, SetPlayersKeepsJoinable
  <2>2. rpc' = rpc /\ cur' = cur /\ total' = total /\ willJoin' = willJoin
    BY <1>2 DEF renderVars
  <2>3. rpc \in {"dispatch", "join"} => cur \in Indices
    BY DEF DecisionsHold
  <2>4. rpc \in {"dispatch", "join"} => Joinable(entries[cur])'
    BY <2>1, <2>2, <2>3 DEF DecisionsHold, Joinable, Full
  <2> QED
    BY <2>1, <2>2, <2>3, <2>4 DEF DecisionsHold
<1>3. CASE TickNoSession
  BY <1>3 DEF TickNoSession, BeginProbeAll, DecisionsHold
<1>4. CASE TickFetch \/ MergeSkips \/ MergeUpdates \/ MergeAdds
  BY <1>4 DEF TickFetch, MergeSkips, MergeUpdates, MergeAdds, NextRow, DecisionsHold
<1>5. CASE Prune
  <2>1. PICK n \in 0..Len(entries) :
          /\ \E p \in SortedOrders(n) : entries' = [k \in 1..n |-> entries[p[k]]]
          /\ rpc' = IF autoProbe THEN "probe" ELSE "frame"
          /\ total' = IF autoProbe THEN n ELSE 0
    BY <1>5 DEF Prune
  <2>2. Len(entries') = n
    BY <2>1, ArrangedType DEF TypeOK
  <2> QED
    BY <2>1, <2>2 DEF DecisionsHold
<1>6. CASE ProbeTakes
  BY <1>6 DEF ProbeTakes, DecisionsHold, Indices, Joinable, Full
<1>7. CASE ProbePasses
  BY <1>7 DEF ProbePasses, DecisionsHold
<1>8. CASE Dispatch
  BY <1>8 DEF Dispatch, DecisionsHold, Indices, Joinable, Full
<1>9. CASE JoinLobby \/ ProbeAllEnds
  BY <1>9 DEF JoinLobby, ProbeAllEnds, DecisionsHold
<1> QED
  BY <1>1, <1>2, <1>3, <1>4, <1>5, <1>6, <1>7, <1>8, <1>9, RoundSteps

THEOREM DecisionsAlwaysHold == Spec => []DecisionsHold
<1>1. Init => DecisionsHold
  BY DEF Init, DecisionsHold
<1> QED
  BY <1>1, DecisionsStep, TypeCorrect, PTL DEF Spec

\* The servers probed up to an entry, from those probed before it.
LEMMA ProbedOneMore ==
  ASSUME NEW k \in Nat \ {0}, entries \in Seq(Entry)
  PROVE  /\ k \in Indices /\ Joinable(entries[k]) =>
              ProbedUpTo(k) = ProbedUpTo(k - 1) \cup {entries[k].xuid}
         /\ ~(k \in Indices /\ Joinable(entries[k])) => ProbedUpTo(k) = ProbedUpTo(k - 1)
<1>1. \A j \in Indices : j <= k <=> j <= k - 1 \/ j = k
  BY DEF Indices
<1> QED
  BY <1>1 DEF ProbedUpTo

LEMMA NoneProbedYet ==
  ASSUME entries \in Seq(Entry)
  PROVE  ProbedUpTo(0) = {}
<1>1. \A j \in Indices : ~(j <= 0)
  BY DEF Indices
<1> QED
  BY <1>1 DEF ProbedUpTo

\* A round probes exactly the joinable servers it passes.
THEOREM CoverageStep ==
  TypeOK /\ DecisionsHold /\ RoundCoverage /\ [Next]_vars => RoundCoverage'
<1> SUFFICES ASSUME TypeOK, DecisionsHold, RoundCoverage, [Next]_vars PROVE RoundCoverage'
  OBVIOUS
<1>0. entries \in Seq(Entry) /\ entries' \in Seq(Entry) /\ cur \in Nat \ {0} 
  BY TypeStep DEF TypeOK
<1>1. CASE UNCHANGED <<renderVars, entries>>
  BY <1>1 DEF RoundCoverage, ProbedUpTo, Indices, Joinable, Full, renderVars
<1>2. CASE UNCHANGED renderVars /\ SetPlayers
  <2>1. rpc' = rpc /\ cur' = cur /\ probedNow' = probedNow
    BY <1>2 DEF renderVars
  <2>2. \A k : ProbedUpTo(k)' = ProbedUpTo(k)
    <3>1. /\ Indices' = Indices
          /\ \A j \in Indices : /\ entries'[j].xuid = entries[j].xuid
                                /\ Joinable(entries[j])' = Joinable(entries[j])
      BY <1>2, SetPlayersKeepsJoinable
    <3> QED
      BY <3>1 DEF ProbedUpTo, Joinable, Full
  <2> QED
    BY <2>1, <2>2 DEF RoundCoverage
<1>3. CASE TickNoSession
  <2>1. entries' = entries /\ probedNow' = {} /\ cur' = 1 /\ rpc' \in {"probe", "frame"}
    BY <1>3 DEF TickNoSession, TickDue, BeginProbeAll, RoundCoverage
  <2>2. ProbedUpTo(0)' = {}
    BY <1>0, NoneProbedYet, <2>1 DEF ProbedUpTo, Indices, Joinable, Full
  <2> QED
    BY <2>1, <2>2 DEF RoundCoverage
<1>4. CASE TickFetch \/ MergeSkips \/ MergeUpdates \/ MergeAdds
  BY <1>4 DEF TickFetch, TickDue, MergeSkips, MergeUpdates, MergeAdds, NextRow, RoundCoverage
<1>5. CASE Prune
  <2>1. probedNow' = {} /\ cur' = 1 /\ rpc' \in {"probe", "frame"}
    BY <1>5 DEF Prune, RoundCoverage
  <2>2. ProbedUpTo(0)' = {}
    <3>1. \A j \in Indices' : ~(j <= 0)
      BY <1>0 DEF Indices
    <3> QED
      BY <3>1 DEF ProbedUpTo
  <2> QED
    BY <2>1, <2>2 DEF RoundCoverage
<1>6. CASE ProbeTakes
  <2>1. /\ entries' = entries /\ cur' = cur /\ probedNow' = probedNow
        /\ rpc = "probe" /\ rpc' = "dispatch"
    BY <1>6 DEF ProbeTakes
  <2> QED
    BY <2>1 DEF RoundCoverage, ProbedUpTo, Indices, Joinable, Full
<1>7. CASE ProbePasses
  <2>1. /\ entries' = entries /\ cur' = cur + 1 /\ probedNow' = probedNow
        /\ rpc = "probe" /\ rpc' = "probe" /\ ~(cur \in Indices /\ Joinable(entries[cur]))
    BY <1>7 DEF ProbePasses
  <2>2. probedNow = ProbedUpTo(cur)
    BY <1>0, <2>1, ProbedOneMore DEF RoundCoverage
  <2>3. cur' - 1 = cur
    BY <1>0, <2>1
  <2> QED
    BY <2>1, <2>2, <2>3 DEF RoundCoverage, ProbedUpTo, Indices, Joinable, Full
<1>8. CASE Dispatch
  <2>1. cur \in Indices /\ Joinable(entries[cur]) /\ probedNow = ProbedUpTo(cur - 1)
    BY <1>8 DEF Dispatch, DecisionsHold, RoundCoverage
  <2>2. entries' = entries /\ probedNow' = probedNow \cup {entries[cur].xuid}
    BY <1>8, <2>1 DEF Dispatch
  <2>3. probedNow' = ProbedUpTo(cur)
    BY <1>0, <2>1, <2>2, ProbedOneMore
  <2>4. (rpc' = "join" /\ cur' = cur) \/ (rpc' = "probe" /\ cur' = cur + 1)
    BY <1>8 DEF Dispatch
  <2>5. rpc' = "probe" => cur' - 1 = cur
    BY <1>0, <2>4
  <2> QED
    BY <2>2, <2>3, <2>4, <2>5 DEF RoundCoverage, ProbedUpTo, Indices, Joinable, Full
<1>9. CASE JoinLobby
  <2>1. /\ entries' = entries /\ cur' = cur + 1 /\ probedNow' = probedNow
        /\ rpc = "join" /\ rpc' = "probe"
    BY <1>9 DEF JoinLobby
  <2>2. cur' - 1 = cur
    BY <1>0, <2>1
  <2> QED
    BY <2>1, <2>2 DEF RoundCoverage, ProbedUpTo, Indices, Joinable, Full
<1>10. CASE ProbeAllEnds
  BY <1>10 DEF ProbeAllEnds, RoundCoverage
<1> QED
  BY <1>1, <1>2, <1>3, <1>4, <1>5, <1>6, <1>7, <1>8, <1>9, <1>10, RoundSteps

THEOREM RoundsCover == Spec => []RoundCoverage
<1>1. Init => RoundCoverage
  BY DEF Init, RoundCoverage
<1> QED
  BY <1>1, CoverageStep, DecisionsAlwaysHold, TypeCorrect, PTL DEF Spec

-----------------------------------------------------------------------------
(* What is kept of a server *)

\* What KeepsWhatIsKnown says of each step.
KeptOf(old, new) ==
  /\ new.addr = old.addr /\ new.ded = old.ded
  /\ old.probed => new.probed
  /\ old.roster # NoHost => new.roster = old.roster
  /\ old.lobby # NoHost => new.lobby = old.lobby

LEMMA KeptStep ==
  ASSUME TypeOK, UniqueXuids, RosterAttribution, [Next]_vars,
         NEW i \in Indices, NEW j \in 1..Len(entries'), entries[i].xuid = entries'[j].xuid
  PROVE  KeptOf(entries[i], entries'[j])
<1>0. entries' \in Seq(Entry) /\ j \in Indices'
  BY TypeStep DEF TypeOK, Indices
<1>1. CASE entries' = entries
  BY <1>0, <1>1 DEF UniqueXuids, KeptOf, Indices
<1>2. CASE MergeUpdates
  <2>1. PICK k \in Indices :
           entries' = [entries EXCEPT ![k].num = results[cur].num,
                                      ![k].max = results[cur].max]
    BY <1>2 DEF MergeUpdates
  <2>2. j \in Indices /\ entries'[j].xuid = entries[j].xuid
    BY <1>0, <1>2, UpdatesInPlace
  <2>3. i = j
    BY <2>2 DEF UniqueXuids
  <2>4. entries[j] \in Entry
    BY <2>2, EntryType DEF TypeOK
  <2> QED
    BY <2>1, <2>2, <2>3, <2>4 DEF KeptOf, Indices, Entry
<1>3. CASE MergeAdds
  <2>1. entries[i].xuid # results[cur].xuid
    BY <1>3 DEF MergeAdds, Listed
  <2>2. NewEntry(results[cur]).xuid = results[cur].xuid
    BY DEF NewEntry
  <2>3. j \in Indices /\ entries'[j] = entries[j]
    BY <1>0, <1>3, <2>1, <2>2, AddsAtTheEnd
  <2> QED
    BY <2>3 DEF UniqueXuids, KeptOf
<1>4. CASE Prune
  <2>1. \E k \in Indices : entries'[j] = entries[k]
    BY <1>0, <1>4, PrunePermutes
  <2> QED
    BY <2>1 DEF UniqueXuids, KeptOf
<1>5. CASE SetPlayers
  <2>1. pkt \in Packet /\ pkt.lobby \in {pkt.from, NoHost}
    BY <1>5, PacketsAssumption DEF SetPlayers, NoPacket, TypeOK
  <2>2. j \in Indices /\ entries'[j].xuid = entries[j].xuid
    BY <1>0, <1>5, UpdatesInPlace
  <2>3. i = j
    BY <2>2 DEF UniqueXuids
  <2>4. /\ entries[j].roster \in {NoHost, entries[j].xuid}
        /\ entries[j].lobby \in {NoHost, entries[j].xuid}
    BY <2>2 DEF RosterAttribution
  <2> QED
    BY <1>5, <2>1, <2>2, <2>3, <2>4, SetPlayersEffect DEF KeptOf, FindsAt
<1> QED
  BY <1>1, <1>2, <1>3, <1>4, <1>5, ListSteps

\* As long as a server stays listed nothing that is known of it is lost.
THEOREM NothingKnownIsLost == Spec => KeepsWhatIsKnown
<1>1. TypeOK /\ UniqueXuids /\ RosterAttribution /\ [Next]_vars =>
        [\A i \in Indices, j \in 1..Len(entries') :
           entries[i].xuid = entries'[j].xuid =>
             LET old == InfoOf(entries[i])
                 new == InfoOf(entries'[j])
             IN /\ new.addr = old.addr /\ new.ded = old.ded
                /\ old.probed => new.probed
                /\ old.roster # NoHost => new.roster = old.roster
                /\ old.lobby # NoHost => new.lobby = old.lobby]_vars
  BY KeptStep DEF KeptOf, InfoOf
<1> QED
  BY <1>1, TypeCorrect, NoHostListedTwice, RostersAreTheirOwn, PTL DEF Spec, KeepsWhatIsKnown

-----------------------------------------------------------------------------
(* The list implements the simple browser of ServerBrowser *)

\* What KnownHosts holds, without the CHOOSE.
MapsListed ==
  /\ \A i \in Indices : KnownHosts[entries[i].xuid] = KnownOf(entries[i])
  /\ \A x \in Hosts : ~Listed(x) => KnownHosts[x] = [listed |-> FALSE]

LEMMA KnownAt == TypeOK /\ UniqueXuids => MapsListed
<1> SUFFICES ASSUME TypeOK, UniqueXuids PROVE MapsListed
  OBVIOUS
<1>1. ASSUME NEW i \in Indices
      PROVE  KnownHosts[entries[i].xuid] = KnownOf(entries[i])
  <2> DEFINE x == entries[i].xuid
  <2>1. x \in Hosts
    BY EntryType DEF TypeOK
  <2>2. FindsAt(x, i) /\ \A k \in Indices : FindsAt(x, k) => k = i
    BY DEF FindsAt, UniqueXuids, TypeOK, Indices
  <2>3. (CHOOSE k \in Indices : FindsAt(x, k)) = i
    BY <2>2
  <2>4. Listed(x)
    BY DEF Listed
  <2> QED
    BY <2>1, <2>3, <2>4 DEF KnownHosts
<1>2. \A x \in Hosts : ~Listed(x) => KnownHosts[x] = [listed |-> FALSE]
  BY DEF KnownHosts
<1> QED
  BY <1>1, <1>2 DEF MapsListed

LEMMA KnownAtNext ==
  TypeOK' /\ UniqueXuids' =>
    /\ \A i \in Indices' : KnownHosts'[entries'[i].xuid] = KnownOf(entries[i])'
    /\ \A x \in Hosts : ~Listed(x)' => KnownHosts'[x] = [listed |-> FALSE]
<1>1. TypeOK' /\ UniqueXuids' => MapsListed'
  BY KnownAt, PTL
<1> QED
  BY <1>1 DEF MapsListed

\* A listed host is one of the browser's, and a host that is not is none.
LEMMA ListedKnown ==
  ASSUME TypeOK, UniqueXuids
  PROVE  \A x \in Hosts : x \in Browser!ListedHosts <=> Listed(x)
<1>1. \A i \in Indices : KnownOf(entries[i]) # Browser!Absent
  <2>1. \A e : KnownOf(e).listed = TRUE
    BY DEF KnownOf
  <2>2. Browser!Absent.listed = FALSE
    BY DEF Browser!Absent
  <2> QED
    BY <2>1, <2>2
<1> QED
  BY <1>1, KnownAt DEF Browser!ListedHosts, Browser!Absent, Listed, MapsListed

\* The mapping is a function of the hosts before and after a step.
LEMMA KnownDomain ==
  /\ KnownHosts = [x \in Hosts |-> KnownHosts[x]]
  /\ KnownHosts' = [x \in Hosts |-> KnownHosts'[x]]
  BY DEF KnownHosts

\* Two mappings are the same if they are of the hosts that are listed.
LEMMA SameKnown ==
  ASSUME TypeOK, UniqueXuids, TypeOK', UniqueXuids',
         \A i \in Indices : \E j \in Indices' :
           entries'[j].xuid = entries[i].xuid /\ KnownOf(entries'[j]) = KnownOf(entries[i]),
         \A j \in Indices' : \E i \in Indices : entries'[j].xuid = entries[i].xuid
  PROVE  KnownHosts' = KnownHosts
<1>1. ASSUME NEW x \in Hosts
      PROVE  KnownHosts'[x] = KnownHosts[x]
  <2>1. CASE Listed(x)
    BY <2>1, KnownAt, KnownAtNext DEF Listed, MapsListed
  <2>2. CASE ~Listed(x)
    BY <2>2, KnownAt, KnownAtNext DEF Listed, MapsListed
  <2> QED
    BY <2>1, <2>2
<1> QED
  BY <1>1, KnownDomain

LEMMA AppearsStep ==
  ASSUME TypeOK, UniqueXuids, TypeOK', UniqueXuids', MergeAdds
  PROVE  Browser!Next
<1> DEFINE r == results[cur]
           n == Len(entries) + 1
<1>1. r.xuid \in Hosts /\ r.addr \in Contacts \cup {NoContact} /\ r.ded \in BOOLEAN
  BY DEF MergeAdds, TypeOK, MMRow
<1>2. r.xuid \notin Browser!ListedHosts
  BY <1>1, ListedKnown DEF MergeAdds
<1>3. /\ Indices' = Indices \cup {n} /\ n \notin Indices
      /\ \A j \in Indices : entries'[j] = entries[j]
      /\ entries'[n] = NewEntry(r)
  BY AddsAtTheEnd
<1>4. /\ NewEntry(r).xuid = r.xuid
      /\ KnownOf(NewEntry(r)) = Browser!Listing(r.addr, r.ded)
  BY DEF NewEntry, KnownOf, Browser!Listing
<1>5. KnownHosts'[r.xuid] = Browser!Listing(r.addr, r.ded)
  BY <1>3, <1>4, KnownAtNext
<1>6. ASSUME NEW x \in Hosts \ {r.xuid}
      PROVE  KnownHosts'[x] = KnownHosts[x]
  <2>1. CASE Listed(x)
    BY <1>3, <2>1, KnownAt, KnownAtNext DEF Listed, MapsListed
  <2>2. CASE ~Listed(x)
    <3>1. ~Listed(x)'
      BY <1>3, <1>4, <1>6, <2>2 DEF Listed
    <3> QED
      BY <2>2, <3>1, KnownAt, KnownAtNext DEF MapsListed
  <2> QED
    BY <2>1, <2>2
<1>7. KnownHosts' = [KnownHosts EXCEPT ![r.xuid] = Browser!Listing(r.addr, r.ded)]
  BY <1>1, <1>5, <1>6, KnownDomain
<1>8. sent' = NoSend
  BY DEF MergeAdds, NextRow, Silent
<1>9. Browser!Appears(r.xuid, r.addr, r.ded)
  BY <1>2, <1>7, <1>8 DEF Browser!Appears
<1> QED
  BY <1>1, <1>9 DEF Browser!Next

LEMMA LeavesStep ==
  ASSUME TypeOK, UniqueXuids, TypeOK', UniqueXuids', Prune
  PROVE  Browser!Next
<1> DEFINE S == {x \in Browser!ListedHosts : ~Listed(x)'}
<1>1. \A k \in Indices' : \E i \in Indices : entries'[k] = entries[i]
  BY PrunePermutes
<1>2. ASSUME NEW x \in Hosts
      PROVE  KnownHosts'[x] = IF x \in S THEN Browser!Absent ELSE KnownHosts[x]
  <2>1. CASE Listed(x)'
    BY <1>1, <2>1, KnownAt, KnownAtNext DEF Listed, MapsListed
  <2>2. CASE ~Listed(x)' /\ Listed(x)
    BY <2>2, ListedKnown, KnownAtNext DEF Browser!Absent
  <2>3. CASE ~Listed(x)' /\ ~Listed(x)
    BY <2>3, ListedKnown, KnownAt, KnownAtNext DEF MapsListed
  <2> QED
    BY <2>1, <2>2, <2>3
<1>3. KnownHosts' = [x \in Hosts |-> IF x \in S THEN Browser!Absent ELSE KnownHosts[x]]
  BY <1>2, KnownDomain
<1>4. sent' = NoSend
  BY DEF Prune, Silent
<1>5. Browser!Leave(S)
  BY <1>3, <1>4 DEF Browser!Leave
<1> QED
  BY <1>5 DEF Browser!Next

LEMMA KnownType ==
  ASSUME NEW e \in Entry
  PROVE  KnownOf(e) \in Browser!Known
  BY DEF Entry, KnownOf, Browser!Known

\* Filling in a roster and a Steam lobby changes these two fields.
LEMMA FilledIn ==
  ASSUME NEW k \in Browser!Known, NEW n \in Browser!Known,
         n.listed = k.listed, n.addr = k.addr, n.ded = k.ded
  PROVE  n = [k EXCEPT !.roster = n.roster, !.lobby = n.lobby]
<1> DEFINE g == [k EXCEPT !.roster = n.roster, !.lobby = n.lobby]
<1>1. /\ g \in Browser!Known
      /\ g.listed = k.listed /\ g.addr = k.addr /\ g.ded = k.ded
      /\ g.roster = n.roster /\ g.lobby = n.lobby
  BY DEF Browser!Known
<1> HIDE DEF g
<1>2. n = g
  BY <1>1 DEF Browser!Known
<1> QED
  BY <1>2 DEF g

LEMMA AnswersStep ==
  ASSUME TypeOK, UniqueXuids, TypeOK', UniqueXuids', SetPlayers
  PROVE  Browser!Next
<1>1. pkt \in Packet /\ pkt.lobby \in {pkt.from, NoHost}
  BY PacketsAssumption DEF SetPlayers, NoPacket, TypeOK
<1> DEFINE x == pkt.from
           l == pkt.lobby
<1>2. x \in Hosts
  BY <1>1 DEF Packet
<1>3. PICK i \in Indices :
        /\ entries[i].xuid = x
        /\ \A j \in Indices \ {i} : entries'[j] = entries[j]
        /\ entries'[i].xuid = entries[i].xuid /\ entries'[i].addr = entries[i].addr
        /\ entries'[i].ded = entries[i].ded
        /\ entries'[i].roster = x
        /\ entries'[i].lobby = IF l # NoHost THEN l ELSE entries[i].lobby
  BY SetPlayersEffect DEF FindsAt
<1>4. Indices' = Indices
  BY SetPlayersEffect
<1>5. KnownHosts[x] = KnownOf(entries[i]) /\ KnownHosts'[x] = KnownOf(entries'[i])
  BY <1>3, <1>4, KnownAt, KnownAtNext DEF MapsListed
<1>6. KnownOf(entries'[i]) =
        [KnownOf(entries[i]) EXCEPT !.roster = x, !.lobby = IF l # NoHost THEN l ELSE @]
  <2> DEFINE k == KnownOf(entries[i])
             n == KnownOf(entries'[i])
  <2>1. k \in Browser!Known /\ n \in Browser!Known
    BY <1>4, EntryType, KnownType DEF TypeOK, Indices
  <2>2. /\ n.listed = k.listed /\ n.addr = k.addr /\ n.ded = k.ded
        /\ n.roster = x /\ n.lobby = IF l # NoHost THEN l ELSE k.lobby
    BY <1>3 DEF KnownOf
  <2> HIDE DEF k, n
  <2>3. n = [k EXCEPT !.roster = x, !.lobby = IF l # NoHost THEN l ELSE @]
    BY <2>1, <2>2, FilledIn
  <2> QED
    BY <2>3 DEF k, n
<1>7. ASSUME NEW y \in Hosts \ {x}
      PROVE  KnownHosts'[y] = KnownHosts[y]
  <2>1. CASE Listed(y)
    BY <1>3, <1>4, <1>7, <2>1, KnownAt, KnownAtNext DEF Listed, MapsListed
  <2>2. CASE ~Listed(y)
    <3>1. ~Listed(y)'
      BY <1>3, <1>4, <1>7, <2>2 DEF Listed
    <3> QED
      BY <2>2, <3>1, KnownAt, KnownAtNext DEF MapsListed
  <2> QED
    BY <2>1, <2>2
<1>8. KnownHosts' = [KnownHosts EXCEPT ![x] =
        [KnownHosts[x] EXCEPT !.roster = x, !.lobby = IF l # NoHost THEN l ELSE @]]
  BY <1>2, <1>5, <1>6, <1>7, KnownDomain
<1>9. x \in Browser!ListedHosts
  BY <1>2, <1>3, ListedKnown DEF Listed
<1>10. sent' = NoSend
  BY DEF SetPlayers, Silent
<1>11. Browser!Answers(x, l)
  BY <1>8, <1>9, <1>10 DEF Browser!Answers
<1> QED
  BY <1>1, <1>2, <1>11 DEF Browser!Next

\* A packet to the host of a row, at what the row says of it.
LEMMA SendsStep ==
  ASSUME TypeOK, UniqueXuids, KnownHosts' = KnownHosts, NEW i \in Indices,
         sent' = ProbeTo(entries[i]) \/ (sent' = SteamJoin(entries[i]) /\ entries[i].lobby # NoHost)
  PROVE  Browser!Next
<1> DEFINE x == entries[i].xuid
<1>1. x \in Hosts
  BY EntryType DEF TypeOK
<1>2. x \in Browser!ListedHosts
  BY <1>1, ListedKnown DEF Listed
<1>3. KnownHosts[x].addr = entries[i].addr /\ KnownHosts[x].lobby = entries[i].lobby
  <2>1. KnownHosts[x] = KnownOf(entries[i])
    BY KnownAt DEF MapsListed
  <2> QED
    BY <2>1 DEF KnownOf
<1>4. CASE sent' = ProbeTo(entries[i])
  <2>1. Browser!Probe(x)
    BY <1>2, <1>3, <1>4 DEF Browser!Probe, ProbeTo
  <2> QED
    BY <1>1, <2>1 DEF Browser!Next
<1>5. CASE sent' = SteamJoin(entries[i]) /\ entries[i].lobby # NoHost
  <2>1. Browser!JoinSteam(x)
    BY <1>2, <1>3, <1>5 DEF Browser!JoinSteam, SteamJoin
  <2> QED
    BY <1>1, <2>1 DEF Browser!Next
<1> QED
  BY <1>4, <1>5

LEMMA IntroducesStep ==
  ASSUME TypeOK, KnownHosts' = KnownHosts, SendMemberInfo
  PROVE  Browser!Next
<1>1. pkt \in Packet
  BY PacketsAssumption DEF SendMemberInfo, NoPacket, TypeOK
<1>2. pkt.from \in Hosts /\ pkt.addr \in Contacts
  BY <1>1 DEF Packet
<1>3. Browser!Introduce(pkt.from, pkt.addr)
  BY DEF SendMemberInfo, Browser!Introduce
<1> QED
  BY <1>2, <1>3 DEF Browser!Next

\* What any step sends.
LEMMA SentSteps ==
  [Next]_vars =>
    \/ Silent
    \/ UNCHANGED sent
    \/ SendMemberInfo
    \/ \E i \in Indices : \/ sent' = ProbeTo(entries[i])
                          \/ sent' = SteamJoin(entries[i]) /\ entries[i].lobby # NoHost
<1>1. (\E i \in Indices : ManualProbe(i) \/ ManualJoin(i)) =>
        \E i \in Indices : \/ sent' = ProbeTo(entries[i])
                           \/ sent' = SteamJoin(entries[i]) /\ entries[i].lobby # NoHost
  BY DEF ManualProbe, ManualJoin
<1>2. Dispatch \/ JoinLobby =>
        \/ Silent
        \/ \E i \in Indices : \/ sent' = ProbeTo(entries[i])
                              \/ sent' = SteamJoin(entries[i]) /\ entries[i].lobby # NoHost
  BY DEF Dispatch, JoinLobby
<1>3. [Next]_vars => \/ \E i \in Indices : ManualProbe(i) \/ ManualJoin(i)
                     \/ Dispatch \/ JoinLobby \/ SendMemberInfo \/ Silent \/ UNCHANGED sent
  BY DEF Next, Environment, User, Tick, Net, SearchWrites, ServiceChanges, FetchFallsDue,
         SetActive, ToggleAutoProbe, TickOffline, TickNoSession, TickFetch,
         MergeSkips, MergeUpdates, MergeAdds, NextRow, Prune, ProbeTakes, ProbePasses,
         ProbeAllEnds, Wants, PacketDropped, SetPlayers, vars
<1> QED
  BY <1>1, <1>2, <1>3

LEMMA BrowserInit == Init => Browser!Init
<1> SUFFICES ASSUME Init PROVE Browser!Init
  OBVIOUS
<1>1. \A x : ~Listed(x)
  BY DEF Init, Listed, Indices
<1>2. KnownHosts = [x \in Hosts |-> Browser!Absent]
  BY <1>1 DEF KnownHosts, Browser!Absent
<1> QED
  BY <1>2 DEF Init, Browser!Init

\* Every step is one of the simple browser or leaves all it has alone.
LEMMA BrowserStep ==
  TypeOK /\ UniqueXuids /\ TypeOK' /\ UniqueXuids' /\ [Next]_vars =>
    [Browser!Next]_<<KnownHosts, sent>>
<1> SUFFICES ASSUME TypeOK, UniqueXuids, TypeOK', UniqueXuids', [Next]_vars
             PROVE  [Browser!Next]_<<KnownHosts, sent>>
  OBVIOUS
<1>1. CASE MergeAdds
  BY <1>1, AppearsStep
<1>2. CASE Prune
  BY <1>2, LeavesStep
<1>3. CASE SetPlayers
  BY <1>3, AnswersStep
<1>4. CASE MergeUpdates
  <2>1. \A j \in Indices : KnownOf(entries'[j]) = KnownOf(entries[j])
    <3>1. PICK i \in Indices :
             entries' = [entries EXCEPT ![i].num = results[cur].num,
                                        ![i].max = results[cur].max]
      BY <1>4 DEF MergeUpdates
    <3>2. entries \in Seq(Entry) /\ entries[i] \in Entry
      BY EntryType DEF TypeOK
    <3> QED
      BY <3>1, <3>2 DEF KnownOf, Indices, Entry
  <2>2. Indices' = Indices /\ \A j \in Indices : entries'[j].xuid = entries[j].xuid
    BY <1>4, UpdatesInPlace
  <2>3. KnownHosts' = KnownHosts
    BY <2>1, <2>2, SameKnown
  <2>4. sent' = NoSend
    BY <1>4 DEF MergeUpdates, NextRow, Silent
  <2> QED
    BY <2>3, <2>4 DEF Browser!Next, Browser!Idle
<1>5. CASE entries' = entries
  <2>1. KnownHosts' = KnownHosts
    BY <1>5 DEF KnownHosts, Listed, FindsAt, Indices
  <2>2. CASE Silent
    BY <2>1, <2>2 DEF Silent, Browser!Next, Browser!Idle
  <2>3. CASE SendMemberInfo
    BY <2>1, <2>3, IntroducesStep
  <2>4. ASSUME NEW i \in Indices,
               \/ sent' = ProbeTo(entries[i])
               \/ sent' = SteamJoin(entries[i]) /\ entries[i].lobby # NoHost
        PROVE  Browser!Next
    BY <2>1, <2>4, SendsStep
  <2> QED
    BY <2>1, <2>2, <2>3, <2>4, SentSteps
<1> QED
  BY <1>1, <1>2, <1>3, <1>4, <1>5, ListSteps

\* ServerList implements ServerBrowser: whatever threads, searches and packets do, each
\* step is, host by host, one of appearing, leaving, answering and sending.
THEOREM ListImplementsBrowser == Spec => ImplementsBrowser
<1> QED
  BY BrowserInit, BrowserStep, TypeCorrect, NoHostListedTwice, PTL
     DEF Spec, ImplementsBrowser, Browser!Spec
=============================================================================
