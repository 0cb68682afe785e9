----------------------------- MODULE ServerList -----------------------------
(***************************************************************************)
(* The server browser (features/serverlist, with the branches of the lobby *)
(* message hook that feed it).                                             *)
(*                                                                         *)
(* Four parties share its state:                                           *)
(*   - the RENDER thread runs menu::tick once a frame: user input, then    *)
(*     serverlist::tick, which merges the search results into the list     *)
(*     and, with auto probe on, walks the list and probes it;              *)
(*   - the NET thread runs the lobby message hook: wants(), then, after    *)
(*     the lock was released and taken again, set_players();               *)
(*   - the SEARCH service writes g_results whenever it likes: the hook on  *)
(*     find_sessions hands it our static buffer for every search;          *)
(*   - time.                                                               *)
(* g_lock is held exactly while rpc is "merge" or "prune"; the critical    *)
(* sections of the net thread are single actions that need it free.        *)
(*                                                                         *)
(* Abstractions: a host's roster and its Steam lobby are named by the host *)
(* they belong to; a contact stands for xnaddr + sec_id + sec_key (from    *)
(* which ip and port are printed); last_state_ms, which only the menu's    *)
(* green dot reads, is left out: it is set exactly when probed is.         *)
(***************************************************************************)
EXTENDS Naturals, Sequences, Functions

CONSTANTS
  Hosts,        \* xuids of the lobby hosts
  NoHost,       \* xuid 0
  Contacts,     \* where a packet can be sent
  NoContact,    \* a zeroed contact
  MMCount,      \* rows of g_results (mm_count)
  Listings,     \* the rows the search service may report
  Packets,      \* the join responses and lobby states hosts may send
  AtomicRows    \* TRUE: a row never mixes two listings

NoneOr(S, none) == S \cup {none}

MMRow == [xuid: NoneOr(Hosts, NoHost), addr: NoneOr(Contacts, NoContact),
          num: Nat, max: Nat, ded: BOOLEAN]

\* What a zeroed or freshly constructed g_results row holds.
EmptyRow == [xuid |-> NoHost, addr |-> NoContact, num |-> 0, max |-> 0,
             ded |-> FALSE]

Packet == [from: Hosts, kind: {"join_response", "lobby_state"},
           addr: Contacts, lobby: NoneOr(Hosts, NoHost)]

ASSUME NoneAssumption == NoHost \notin Hosts /\ NoContact \notin Contacts
ASSUME MMCountAssumption == MMCount \in Nat \ {0}
ASSUME ListingsAssumption ==
  Listings \subseteq [xuid: Hosts, addr: Contacts, num: Nat, max: Nat,
                      ded: BOOLEAN]
\* A lobby state names the sender's own Steam lobby, or none.
ASSUME PacketsAssumption ==
  /\ Packets \subseteq Packet
  /\ \A p \in Packets : p.lobby \in {p.from, NoHost}
ASSUME AtomicAssumption == AtomicRows \in BOOLEAN

VARIABLES
  results,     \* g_results
  alloced,     \* g_alloced
  entries,     \* g_entries
  active,      \* g_active
  autoProbe,   \* auto_probe
  due,         \* now - last_fetch >= 1000
  service,     \* what the engine says of demonware and the lobby session
  rpc,         \* where the render thread is
  cur,         \* its loop index: a row while merging, a list index while probing
  total,       \* probe_all's total
  willJoin,    \* probe_all's lobby_id # 0
  pkt,         \* the packet the net thread is handling, after wants() said yes
  sent,        \* what the last step handed to the engine for sending
  probedNow    \* history: the hosts probed so far in this round of probe_all

vars == <<results, alloced, entries, active, autoProbe, due, service, rpc, cur,
          total, willJoin, pkt, sent, probedNow>>

renderVars  == <<rpc, cur, total, willJoin, probedNow>>
settingVars == <<active, autoProbe>>

Entry == [xuid: Hosts, addr: NoneOr(Contacts, NoContact), num: Nat, max: Nat,
          ded: BOOLEAN, probed: BOOLEAN, roster: NoneOr(Hosts, NoHost),
          lobby: NoneOr(Hosts, NoHost)]

Sending == [kind: {"none", "probe", "steam", "member_info"},
            to: NoneOr(Hosts, NoHost), addr: NoneOr(Contacts, NoContact),
            lobby: NoneOr(Hosts, NoHost)]

NoSend == [kind |-> "none", to |-> NoHost, addr |-> NoContact, lobby |-> NoHost]

Silent == sent' = NoSend

NoPacket == [from |-> NoHost, kind |-> "none", addr |-> NoContact,
             lobby |-> NoHost]

Init ==
  /\ results = [s \in 1..MMCount |-> EmptyRow]
  /\ alloced = FALSE
  /\ entries = << >>
  /\ active = FALSE /\ autoProbe = FALSE
  /\ due = TRUE
  /\ service = "offline"
  /\ rpc = "frame" /\ cur = 1 /\ total = 0 /\ willJoin = FALSE
  /\ pkt = NoPacket
  /\ sent = NoSend
  /\ probedNow = {}

-----------------------------------------------------------------------------
(* Reading the list *)

Locked == rpc \in {"merge", "prune"}

Indices == DOMAIN entries

\* find_by_xuid: i is the first entry of host x.
FindsAt(x, i) == /\ entries[i].xuid = x
                 /\ \A j \in Indices : j < i => entries[j].xuid # x

Listed(x) == \E i \in Indices : entries[i].xuid = x

Full(e) == e.max # 0 /\ e.num >= e.max

\* What probe_all sends a probe to.
Joinable(e) == e.ded /\ ~Full(e)

-----------------------------------------------------------------------------
(* The environment of the browser *)

\* The fields of a row are written one by one while fetch_batch may be reading
\* them: a reader can see any mix of the old and the new row.
Mixes(old, new) ==
  {[xuid |-> x.xuid, addr |-> a.addr, num |-> c.num, max |-> c.max, ded |-> d.ded] :
     x \in {old, new}, a \in {old, new}, c \in {old, new}, d \in {old, new}}

\* A search (the browser's or the game's own) writes a row of g_results.
SearchWrites(s, l) ==
  /\ results' \in {[results EXCEPT ![s] = r] :
                     r \in IF AtomicRows THEN {l} ELSE Mixes(results[s], l)}
  /\ Silent
  /\ UNCHANGED <<alloced, entries, settingVars, due, service, renderVars, pkt>>

\* Demonware signs in or drops out, a game lobby session comes and goes.
ServiceChanges(state) ==
  /\ service # state
  /\ service' = state
  /\ Silent
  /\ UNCHANGED <<results, alloced, entries, settingVars, due, renderVars, pkt>>

\* A second since the last fetch has passed.
FetchFallsDue ==
  /\ ~due
  /\ due' = TRUE
  /\ Silent
  /\ UNCHANGED <<results, alloced, entries, settingVars, service, renderVars, pkt>>

-----------------------------------------------------------------------------
(* The render thread: what the user does in a frame, before tick *)

\* menu::tick calls set_active every frame with whether the page is shown.
SetActive ==
  /\ rpc = "frame"
  /\ active' = ~active
  /\ Silent
  /\ UNCHANGED <<results, alloced, entries, autoProbe, due, service, renderVars, pkt>>

\* The "auto probe servers" toggle.
ToggleAutoProbe ==
  /\ rpc = "frame"
  /\ autoProbe' = ~autoProbe
  /\ Silent
  /\ UNCHANGED <<results, alloced, entries, active, due, service, renderVars, pkt>>

ProbeTo(e) == [kind |-> "probe", to |-> e.xuid, addr |-> e.addr, lobby |-> NoHost]

SteamJoin(e) == [kind |-> "steam", to |-> e.xuid, addr |-> NoContact,
                 lobby |-> e.lobby]

\* Enter or a click on a row: dispatch_probe, whatever kind of server it is.
ManualProbe(i) ==
  /\ rpc = "frame"
  /\ sent' = ProbeTo(entries[i])
  /\ UNCHANGED <<results, alloced, entries, settingVars, due, service, renderVars, pkt>>

\* Mutant: the join key joins even before the lobby is known.
ManualJoinUnchecked(i) ==
  /\ rpc = "frame"
  /\ sent' = SteamJoin(entries[i])
  /\ UNCHANGED <<results, alloced, entries, settingVars, due, service, renderVars, pkt>>

\* The join key on a row: join_steam_lobby, a no-op while no lobby is known.
ManualJoin(i) ==
  /\ rpc = "frame"
  /\ entries[i].lobby # NoHost
  /\ sent' = SteamJoin(entries[i])
  /\ UNCHANGED <<results, alloced, entries, settingVars, due, service, renderVars, pkt>>

-----------------------------------------------------------------------------
(* The render thread: serverlist::tick *)

TickDue == rpc = "frame" /\ (active \/ autoProbe) /\ due

\* g_ready is false: only last_fetch moves.
TickOffline ==
  /\ TickDue
  /\ service = "offline"
  /\ due' = FALSE
  /\ Silent
  /\ UNCHANGED <<results, alloced, entries, settingVars, service, renderVars, pkt>>

\* alloc_results constructs the rows the first time it is reached.
AllocResults ==
  /\ alloced' = TRUE
  /\ results' = IF alloced THEN results ELSE [s \in 1..MMCount |-> EmptyRow]

\* Mutant: no session, no probing.
EndTickEarly == rpc' = "frame" /\ cur' = 1 /\ total' = 0

BeginProbeAll ==
  /\ rpc' = IF autoProbe THEN "probe" ELSE "frame"
  /\ cur' = 1
  /\ total' = IF autoProbe THEN Len(entries) ELSE 0

\* fetch_batch returns early for want of a session; probe_all runs all the same.
TickNoSession ==
  /\ TickDue
  /\ service = "online"
  /\ due' = FALSE
  /\ AllocResults
  /\ BeginProbeAll
  /\ Silent
  /\ UNCHANGED <<entries, settingVars, service, willJoin, pkt, probedNow>>

\* fetch_batch starts a search, does not wait for it, and takes the lock.
TickFetch ==
  /\ TickDue
  /\ service = "session"
  /\ due' = FALSE
  /\ AllocResults
  /\ rpc' = "merge" /\ cur' = 1
  /\ Silent
  /\ UNCHANGED <<entries, settingVars, service, total, willJoin, pkt, probedNow>>

\* Mutant: one row too many.
NextRowOffByOne ==
  /\ rpc' = IF cur <= MMCount THEN "merge" ELSE "prune"
  /\ cur' = IF cur <= MMCount THEN cur + 1 ELSE 1
  /\ Silent
  /\ UNCHANGED <<results, alloced, settingVars, due, service, total, willJoin,
                 pkt, probedNow>>

NextRow ==
  /\ rpc' = IF cur < MMCount THEN "merge" ELSE "prune"
  /\ cur' = IF cur < MMCount THEN cur + 1 ELSE 1
  /\ Silent
  /\ UNCHANGED <<results, alloced, settingVars, due, service, total, willJoin,
                 pkt, probedNow>>

\* A row of no host, or of an unlisted host that has no players.
MergeSkips ==
  /\ rpc = "merge"
  /\ LET r == results[cur] IN r.xuid = NoHost \/ (~Listed(r.xuid) /\ r.num = 0)
  /\ entries' = entries
  /\ NextRow

\* Mutant: rows without players are skipped before the list is searched.
MergeUpdatesUnlessEmpty ==
  /\ rpc = "merge"
  /\ \E i \in Indices :
       /\ FindsAt(results[cur].xuid, i)
       /\ entries' = IF results[cur].num = 0 THEN entries
                     ELSE [entries EXCEPT ![i].num = results[cur].num,
                                          ![i].max = results[cur].max]
  /\ NextRow

\* A listed host: only its player counts are taken from the row.
MergeUpdates ==
  /\ rpc = "merge"
  /\ \E i \in Indices :
       /\ FindsAt(results[cur].xuid, i)
       /\ entries' = [entries EXCEPT ![i].num = results[cur].num,
                                     ![i].max = results[cur].max]
  /\ NextRow

\* Mutant: the new entry is not zeroed and has what its neighbour had.
NewEntryDirty(r) ==
  LET dirt == IF entries = << >> THEN NoHost ELSE entries[Len(entries)].roster
  IN [xuid |-> r.xuid, addr |-> r.addr, num |-> r.num, max |-> r.max,
      ded |-> r.ded, probed |-> dirt # NoHost, roster |-> dirt, lobby |-> NoHost]

NewEntry(r) ==
  [xuid |-> r.xuid, addr |-> r.addr, num |-> r.num, max |-> r.max, ded |-> r.ded,
   probed |-> FALSE, roster |-> NoHost, lobby |-> NoHost]

\* Mutant: push_back without find_by_xuid.
MergeAddsAlways ==
  /\ rpc = "merge"
  /\ results[cur].xuid # NoHost /\ results[cur].num # 0
  /\ entries' = Append(entries, NewEntry(results[cur]))
  /\ NextRow

MergeAdds ==
  /\ rpc = "merge"
  /\ results[cur].xuid # NoHost /\ results[cur].num # 0
  /\ ~Listed(results[cur].xuid)
  /\ entries' = Append(entries, NewEntry(results[cur]))
  /\ NextRow

Survivors == {i \in Indices : entries[i].num # 0}

\* Mutant: no sort after the erase.
AnyOrders(n) == Bijection(1..n, Survivors)

\* The order std::sort gives, ties in any order: position k gets entry p[k].
SortedOrders(n) ==
  {p \in Bijection(1..n, Survivors) :
     \A j, k \in 1..n : j < k => entries[p[j]].num >= entries[p[k]].num}

\* Mutant: probe_all's total is taken before the erase.
PruneStaleTotal ==
  /\ rpc = "prune"
  /\ \E n \in 0..Len(entries) : \E p \in SortedOrders(n) :
       entries' = [k \in 1..n |-> entries[p[k]]]
  /\ rpc' = IF autoProbe THEN "probe" ELSE "frame"
  /\ cur' = 1
  /\ total' = IF autoProbe THEN Len(entries) ELSE 0
  /\ Silent
  /\ UNCHANGED <<results, alloced, settingVars, due, service, willJoin, pkt,
                 probedNow>>

\* remove_if and std::sort; then the lock is released.
Prune ==
  /\ rpc = "prune"
  /\ \E n \in 0..Len(entries) : \E p \in SortedOrders(n) :
       /\ entries' = [k \in 1..n |-> entries[p[k]]]
       /\ rpc' = IF autoProbe THEN "probe" ELSE "frame"
       /\ cur' = 1
       /\ total' = IF autoProbe THEN n ELSE 0
  /\ Silent
  /\ UNCHANGED <<results, alloced, settingVars, due, service, willJoin, pkt,
                 probedNow>>

\* probe_all, the locked look at entry cur. It is joinable.
ProbeTakes ==
  /\ rpc = "probe" /\ cur <= total
  /\ cur \in Indices /\ Joinable(entries[cur])
  /\ rpc' = "dispatch"
  /\ willJoin' = (entries[cur].lobby # NoHost)
  /\ Silent
  /\ UNCHANGED <<results, alloced, entries, settingVars, due, service, cur, total,
                 pkt, probedNow>>

\* The same look at an entry that is not.
ProbePasses ==
  /\ rpc = "probe" /\ cur <= total
  /\ ~(cur \in Indices /\ Joinable(entries[cur]))
  /\ cur' = cur + 1
  /\ Silent
  /\ UNCHANGED <<results, alloced, entries, settingVars, due, service, rpc, total,
                 willJoin, pkt, probedNow>>

\* Mutant: the index moves on before join_steam_lobby uses it.
DispatchMovesOn ==
  /\ rpc = "dispatch"
  /\ sent' = ProbeTo(entries[cur])
  /\ probedNow' = probedNow \cup {entries[cur].xuid}
  /\ rpc' = IF willJoin THEN "join" ELSE "probe"
  /\ cur' = cur + 1
  /\ willJoin' = FALSE
  /\ UNCHANGED <<results, alloced, entries, settingVars, due, service, total, pkt>>

\* dispatch_probe(i): the entry at i as it is now, under the lock once more.
Dispatch ==
  /\ rpc = "dispatch"
  /\ IF cur \in Indices
       THEN /\ sent' = ProbeTo(entries[cur])
            /\ probedNow' = probedNow \cup {entries[cur].xuid}
       ELSE Silent /\ UNCHANGED probedNow
  /\ \/ willJoin /\ rpc' = "join" /\ cur' = cur
     \/ ~willJoin /\ rpc' = "probe" /\ cur' = cur + 1
  /\ willJoin' = FALSE
  /\ UNCHANGED <<results, alloced, entries, settingVars, due, service, total, pkt>>

\* join_steam_lobby(i), a no-op when the lobby is not known (any more).
JoinLobby ==
  /\ rpc = "join"
  /\ IF cur \in Indices /\ entries[cur].lobby # NoHost
       THEN sent' = SteamJoin(entries[cur])
       ELSE Silent
  /\ rpc' = "probe"
  /\ cur' = cur + 1
  /\ UNCHANGED <<results, alloced, entries, settingVars, due, service, total,
                 willJoin, pkt, probedNow>>

ProbeAllEnds ==
  /\ rpc = "probe" /\ cur > total
  /\ rpc' = "frame" /\ cur' = 1 /\ total' = 0
  /\ probedNow' = {}
  /\ Silent
  /\ UNCHANGED <<results, alloced, entries, settingVars, due, service, willJoin, pkt>>

-----------------------------------------------------------------------------
(* The net thread: hk_handle_packet_internal *)

\* wants() finds the sender; a packet it does not find goes to the game.
Wants(p) ==
  /\ pkt = NoPacket /\ ~Locked
  /\ Listed(p.from)
  /\ pkt' = p
  /\ Silent
  /\ UNCHANGED <<results, alloced, entries, settingVars, due, service, renderVars>>

\* A join response is answered to where it came from ...
SendMemberInfo ==
  /\ pkt.kind = "join_response"
  /\ sent' = [kind |-> "member_info", to |-> pkt.from, addr |-> pkt.addr,
              lobby |-> NoHost]
  /\ pkt' = NoPacket
  /\ UNCHANGED <<results, alloced, entries, settingVars, due, service, renderVars>>

\* ... unless we have no client of our own; a lobby state may not unpack; and
\* the host may have left the list since wants().
PacketDropped ==
  /\ pkt # NoPacket
  /\ pkt' = NoPacket
  /\ Silent
  /\ UNCHANGED <<results, alloced, entries, settingVars, due, service, renderVars>>

\* Mutant: a state without a lobby id overwrites the one that is known.
SetPlayersAlways ==
  /\ pkt.kind = "lobby_state" /\ ~Locked
  /\ \E i \in Indices :
       /\ FindsAt(pkt.from, i)
       /\ entries' = [entries EXCEPT
            ![i].roster = pkt.from, ![i].probed = TRUE, ![i].lobby = pkt.lobby]
  /\ pkt' = NoPacket
  /\ Silent
  /\ UNCHANGED <<results, alloced, settingVars, due, service, renderVars>>

\* set_players, with the host found again.
SetPlayers ==
  /\ pkt.kind = "lobby_state" /\ ~Locked
  /\ \E i \in Indices :
       /\ FindsAt(pkt.from, i)
       /\ entries' = [entries EXCEPT
            ![i].roster = pkt.from, ![i].probed = TRUE,
            ![i].lobby = IF pkt.lobby # NoHost THEN pkt.lobby ELSE @]
  /\ pkt' = NoPacket
  /\ Silent
  /\ UNCHANGED <<results, alloced, settingVars, due, service, renderVars>>

-----------------------------------------------------------------------------

Environment ==
  \/ \E s \in 1..MMCount, l \in Listings : SearchWrites(s, l)
  \/ \E state \in {"offline", "online", "session"} : ServiceChanges(state)
  \/ FetchFallsDue

User ==
  \/ SetActive
  \/ ToggleAutoProbe
  \/ \E i \in Indices : ManualProbe(i) \/ ManualJoin(i)

Tick ==
  \/ TickOffline \/ TickNoSession \/ TickFetch
  \/ MergeSkips \/ MergeUpdates \/ MergeAdds \/ Prune
  \/ ProbeTakes \/ ProbePasses \/ Dispatch \/ JoinLobby \/ ProbeAllEnds

Net ==
  \/ \E p \in Packets : Wants(p)
  \/ SendMemberInfo \/ PacketDropped \/ SetPlayers

Next == Environment \/ User \/ Tick \/ Net

Spec == Init /\ [][Next]_vars

\* Frames keep being drawn, so tick runs and time passes; nothing is assumed of
\* the user, the search service or the network.
LiveSpec == Spec /\ WF_vars(Tick) /\ WF_vars(FetchFallsDue)

-----------------------------------------------------------------------------
(* Properties *)

\* The type of the state.
TypeOK ==
  /\ results \in [1..MMCount -> MMRow]
  /\ alloced \in BOOLEAN
  /\ entries \in Seq(Entry)
  /\ active \in BOOLEAN /\ autoProbe \in BOOLEAN /\ due \in BOOLEAN
  /\ service \in {"offline", "online", "session"}
  /\ rpc \in {"frame", "merge", "prune", "probe", "dispatch", "join"}
  /\ cur \in Nat \ {0} /\ (rpc = "merge" => cur <= MMCount)
  /\ total \in Nat
  /\ willJoin \in BOOLEAN
  /\ pkt \in Packets \cup {NoPacket}
  /\ sent \in Sending
  /\ probedNow \subseteq Hosts

\* No host is listed twice, whatever duplicate rows a batch holds and however
\* rows change while they are merged (find_by_xuid before push_back).
UniqueXuids ==
  \A i, j \in Indices : entries[i].xuid = entries[j].xuid => i = j

\* Whenever the lock is free the list is what the page promises: fullest first
\* and no empty server, although counts change entry by entry under the lock.
Presented ==
  ~Locked => /\ \A i, j \in Indices : i < j => entries[i].num >= entries[j].num
             /\ \A i \in Indices : entries[i].num # 0

\* A row never shows another server's roster or Steam lobby, although rows are
\* sorted and erased between wants() and set_players(): set_players finds its
\* row again.
RosterAttribution ==
  \A i \in Indices : /\ entries[i].roster \in {NoHost, entries[i].xuid}
                      /\ entries[i].lobby \in {NoHost, entries[i].xuid}
                      /\ entries[i].probed = (entries[i].roster # NoHost)

\* The list does not move under probe_all, which holds indices across three
\* critical sections per server: what it decided of the entry at cur is still
\* true when dispatch_probe and join_steam_lobby look again.
DecisionsHold ==
  /\ rpc \in {"probe", "dispatch", "join"} => total = Len(entries)
  /\ rpc \in {"dispatch", "join"} => cur \in Indices /\ Joinable(entries[cur])
  /\ rpc = "dispatch" /\ willJoin => entries[cur].lobby # NoHost
  /\ rpc = "join" => entries[cur].lobby # NoHost

ProbedUpTo(k) == {entries[i].xuid : i \in {j \in Indices : j <= k /\ Joinable(entries[j])}}

\* At each point of a round probe_all has probed the dedicated servers with room
\* that it has passed, all of them and no other.
RoundCoverage ==
  /\ rpc \in {"probe", "dispatch"} => probedNow = ProbedUpTo(cur - 1)
  /\ rpc = "join" => probedNow = ProbedUpTo(cur)
  /\ rpc \in {"frame", "merge", "prune"} => probedNow = {}

InfoOf(e) == [addr |-> e.addr, ded |-> e.ded, probed |-> e.probed,
              roster |-> e.roster, lobby |-> e.lobby]

\* As long as a server stays listed, merging, erasing and sorting lose nothing
\* that is known of it: its contact and type stay, a roster once read stays,
\* and so does its Steam lobby id, which a later state without one leaves alone.
KeepsWhatIsKnown ==
  [][\A i \in Indices, j \in 1..Len(entries') :
       entries[i].xuid = entries'[j].xuid =>
         LET old == InfoOf(entries[i])
             new == InfoOf(entries'[j])
         IN /\ new.addr = old.addr /\ new.ded = old.ded
            /\ old.probed => new.probed
            /\ old.roster # NoHost => new.roster = old.roster
            /\ old.lobby # NoHost => new.lobby = old.lobby]_vars

JoinableHost(x) == \E i \in Indices : entries[i].xuid = x /\ Joinable(entries[i])

\* README "probes every listed dedi once a second, skipping full lobbies": with
\* auto probe left on and demonware up, a dedicated server that stays listed with
\* room is probed again and again, menu open or closed.
ProbedAgain ==
  \A x \in Hosts :
    <>[](autoProbe /\ service # "offline" /\ JoinableHost(x))
      => []<>(x \in probedNow)

\* Row s says that host x is empty, and no row says otherwise.
SaysEmpty(s, x) ==
  /\ results[s].xuid = x
  /\ \A t \in 1..MMCount : results[t].xuid = x => results[t].num = 0

\* A server that a row of the results reports as empty from now on leaves the
\* list for good. (A report that wanders between rows may be missed: the rows
\* are rewritten while they are merged.)
EmptyLeaves ==
  \A x \in Hosts, s \in 1..MMCount :
    <>[]((active \/ autoProbe) /\ service = "session" /\ SaysEmpty(s, x))
      => <>[]~Listed(x)

\* The contacts the search service ever reported for host x.
OwnContacts(x) == {l.addr : l \in {m \in Listings : m.xuid = x}}

\* README "probes every listed dedi" and "Selecting a server dispatches a probe": the
\* probe goes to a contact of the very host it names. (dispatch_probe reads both under
\* one lock, but fetch_batch read them from a row that is written without any.)
ProbeAddressed ==
  sent.kind = "probe" => sent.addr \in OwnContacts(sent.to)

-----------------------------------------------------------------------------
(* The browser's promise *)

KnownOf(e) == [listed |-> TRUE, addr |-> e.addr, ded |-> e.ded,
               roster |-> e.roster, lobby |-> e.lobby]

\* What the list says of each host, its order and counts forgotten.
KnownHosts ==
  [x \in Hosts |-> IF Listed(x)
                     THEN KnownOf(entries[CHOOSE i \in Indices : FindsAt(x, i)])
                     ELSE [listed |-> FALSE]]

Browser == INSTANCE ServerBrowser WITH known <- KnownHosts, out <- sent

\* The list, its lock and the three threads implement the simple browser: what a
\* merge does row by row and a sort entry by entry is, host by host, appearing,
\* leaving and answering, and every packet sent is one the simple browser sends.
ImplementsBrowser == Browser!Spec
=============================================================================
