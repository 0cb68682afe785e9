------------------------------- MODULE Recents -------------------------------
(***************************************************************************)
(* Recently seen players (features/recents): the list the main thread      *)
(* keeps up from the lobby, the file it is saved to, and the crashes that  *)
(* can come between any two of its steps.                                  *)
(*                                                                         *)
(* A scan walks the lobby's slots one by one while the game changes them;  *)
(* a save truncates the file and writes it line by line, any of which may  *)
(* fail without the code noticing. (Lines are buffered: one that is lost   *)
(* from the buffer counts as not written.)  last_seen is kept              *)
(* as an age in scan intervals that saturates at MaxAge; the wall clock is *)
(* taken not to be set back, and no second passes inside a scan. A name is *)
(* told apart only by whether it holds the separator '|' of the file; what *)
(* follows the '|' is taken not to be a number, and the first octet of an  *)
(* address to be at least max_addresses.                                   *)
(***************************************************************************)
EXTENDS Naturals, Sequences, FiniteSets, Functions

CONSTANTS
  Players,        \* xuids other than our own
  Nobody,         \* an empty lobby slot
  Addrs,          \* addresses players connect from
  NoAddr,         \* has_addr is false
  Mangled,        \* the address a line that was cut short is read as
  Piped,          \* the players whose name contains '|'
  Slots,          \* lobby slots: 18 of each of two sessions
  MaxEntries,     \* max_entries
  MaxAddresses,   \* max_addresses
  MaxAge          \* the age from which entries are not told apart any more

ASSUME NoneAssumption == Nobody \notin Players /\ NoAddr \notin Addrs \cup {Mangled}
                         /\ Mangled \notin Addrs
ASSUME PipedAssumption == Piped \subseteq Players
ASSUME SizeAssumption == /\ Slots \in Nat \ {0} /\ MaxAddresses \in Nat \ {0}
                         /\ MaxAge \in Nat \ {0, 1}
                         /\ MaxEntries \in Nat /\ MaxEntries >= Slots

VARIABLES
  lobby,     \* who is in each slot, and from where
  mem,       \* entries[0 .. entry_count - 1]
  dirty,     \* dirty
  file,      \* the lines on disk
  writable,  \* the disk takes what is written; if not, a file may open all the same
  cut,       \* a write of the last save failed: the stream's badbit, which nobody looks at
  pc,        \* where the main thread is
  pos,       \* the slot being scanned or the entry being written
  scanDue,   \* now - last_scan >= scan_interval
  saveDue,   \* now - last_save >= save_interval
  scanned,   \* history: the players this scan has seen so far
  used       \* history: the addresses each player was seen at while listed

vars == <<lobby, mem, dirty, file, writable, cut, pc, pos, scanDue, saveDue, scanned, used>>

AnyAddr == Addrs \cup {Mangled}

\* piped: the name as it stands in this entry has a '|' in it.
Entry == [xuid: Players, age: 0..MaxAge, cur: AnyAddr \cup {NoAddr},
          hist: Seq(AnyAddr), piped: BOOLEAN]

Members == [who: Players, addr: Addrs \cup {NoAddr}]

NoMember == [who |-> Nobody, addr |-> NoAddr]

EmptyLobby == [s \in 1..Slots |-> NoMember]

Init ==
  /\ lobby = EmptyLobby
  /\ mem = << >> /\ dirty = FALSE /\ file = << >>
  /\ writable = TRUE /\ cut = FALSE
  /\ pc = "idle" /\ pos = 1
  /\ scanDue = TRUE /\ saveDue = TRUE
  /\ scanned = {}
  /\ used = [p \in Players |-> {}]

-----------------------------------------------------------------------------
(* The list *)

Holds(list, p) == \E i \in DOMAIN list : list[i].xuid = p

\* Mutant: no limit to the history.
PushedUncapped(hist, a) == IF a \in Range(hist) THEN hist ELSE Append(hist, a)

\* push_address: a known address is left where it is, the oldest makes room.
Pushed(hist, a) ==
  IF a \in Range(hist) THEN hist
  ELSE IF Len(hist) < MaxAddresses THEN Append(hist, a)
  ELSE Append(Tail(hist), a)

\* Entry i comes before entry j after sort_entries: seen later, or as late and
\* standing before it (insertion sort is stable).
Before(list, i, j) ==
  \/ list[i].age < list[j].age
  \/ list[i].age = list[j].age /\ i < j

\* sort_entries
Sorted(list) ==
  LET Position(i) == 1 + Cardinality({j \in DOMAIN list : Before(list, j, i)})
  IN [k \in DOMAIN list |-> list[CHOOSE i \in DOMAIN list : Position(i) = k]]

\* Mutant: the new address goes into the history, not the one it replaces.
RefreshedPushesNew(e, a) ==
  [e EXCEPT !.age = 0,
            !.piped = (e.xuid \in Piped),
            !.cur = IF a # NoAddr THEN a ELSE @,
            !.hist = IF a # NoAddr /\ e.cur \notin {NoAddr, a}
                     THEN Pushed(@, a) ELSE @]

\* What upsert makes of an entry that is there ...
Refreshed(e, a) ==
  [e EXCEPT !.age = 0,
            !.piped = (e.xuid \in Piped),
            !.cur = IF a # NoAddr THEN a ELSE @,
            !.hist = IF a # NoAddr /\ e.cur \notin {NoAddr, a}
                     THEN Pushed(@, e.cur) ELSE @]

\* ... and the entry it makes of a player who is not.
NewEntry(p, a) ==
  [xuid |-> p, age |-> 0, cur |-> a, hist |-> << >>, piped |-> p \in Piped]

\* Mutant: the first of the entries is given up, not the one seen longest ago.
RoomedUnsorted(list) ==
  IF Len(list) >= MaxEntries THEN SubSeq(list, 1, MaxEntries - 1) ELSE list

\* A full list gives up the entry seen longest ago.
Roomed(list) ==
  IF Len(list) >= MaxEntries THEN SubSeq(Sorted(list), 1, MaxEntries - 1) ELSE list

\* Mutant: an entry is looked for in the last scan's part of the list only.
UpsertedAgain(list, p, a) ==
  IF \E i \in DOMAIN list : list[i].xuid = p /\ list[i].age = 0
  THEN [i \in DOMAIN list |-> IF list[i].xuid = p THEN Refreshed(list[i], a) ELSE list[i]]
  ELSE Append(Roomed(list), NewEntry(p, a))

\* upsert
Upserted(list, p, a) ==
  IF Holds(list, p)
  THEN [i \in DOMAIN list |-> IF list[i].xuid = p THEN Refreshed(list[i], a) ELSE list[i]]
  ELSE Append(Roomed(list), NewEntry(p, a))

-----------------------------------------------------------------------------
(* The file *)

\* Mutant: a date that cannot be read is taken for today's.
ReloadedToday(e) ==
  [e EXCEPT !.piped = FALSE,
            !.age = IF e.piped THEN 0 ELSE @,
            !.cur = IF e.piped THEN NoAddr ELSE @,
            !.hist = CASE ~e.piped -> @
                       [] e.piped /\ e.cur # NoAddr /\ @ # << >> -> Tail(@)
                       [] OTHER -> << >>]

\* What load makes of the line save wrote for e. A '|' in the name shifts the
\* fields: the date reads as 0, the flag as "no address", the address as the
\* length of the history, and the history from its second address on as itself.
Reloaded(e) ==
  [e EXCEPT !.piped = FALSE,
            !.age = IF e.piped THEN MaxAge ELSE @,
            !.cur = IF e.piped THEN NoAddr ELSE @,
            !.hist = CASE ~e.piped -> @
                       [] e.piped /\ e.cur # NoAddr /\ @ # << >> -> Tail(@)
                       [] OTHER -> << >>]

Loaded(lines) == Sorted([i \in DOMAIN lines |-> Reloaded(lines[i])])

\* What is left of the line of e when writing it was cut short and load takes it
\* all the same: half the current address, some of the history, or the history
\* with its last address cut in half. (Cut earlier, the line is skipped.)
CutLines(e) ==
  LET Kept(k) == SubSeq(e.hist, 1, k)
      Halved == IF e.cur = NoAddr THEN {}
                ELSE {[e EXCEPT !.cur = Mangled, !.hist = << >>]}
  IN Halved
     \cup {[e EXCEPT !.hist = Kept(k)] : k \in 0..Len(e.hist)}
     \cup {[e EXCEPT !.hist = Append(Kept(k), Mangled)] : k \in 0..(Len(e.hist) - 1)}

-----------------------------------------------------------------------------
(* The game and the disk *)

LobbyChanges(s, m) ==
  /\ lobby[s] # m
  /\ lobby' = [lobby EXCEPT ![s] = m]
  /\ UNCHANGED <<mem, dirty, file, writable, cut, pc, pos, scanDue, saveDue, scanned, used>>

DiskChanges ==
  /\ writable' = ~writable
  /\ UNCHANGED <<lobby, mem, dirty, file, cut, pc, pos, scanDue, saveDue, scanned, used>>

Older(list) ==
  [i \in DOMAIN list |->
     [list[i] EXCEPT !.age = IF @ < MaxAge THEN @ + 1 ELSE @]]

\* Two seconds pass: the next scan is due and everything was seen longer ago.
TimePasses ==
  /\ pc = "idle" /\ ~scanDue
  /\ scanDue' = TRUE
  /\ mem' = Older(mem) /\ file' = Older(file)
  /\ UNCHANGED <<lobby, dirty, writable, cut, pc, pos, saveDue, scanned, used>>

\* Half a minute has passed since the last save.
SaveFallsDue ==
  /\ ~saveDue
  /\ saveDue' = TRUE
  /\ UNCHANGED <<lobby, mem, dirty, file, writable, cut, pc, pos, scanDue, scanned, used>>

-----------------------------------------------------------------------------
(* The main thread: tick *)

ScanStarts ==
  /\ pc = "idle" /\ scanDue
  /\ scanDue' = FALSE
  /\ pc' = "scan" /\ pos' = 1
  /\ scanned' = {}
  /\ UNCHANGED <<lobby, mem, dirty, file, writable, cut, saveDue, used>>

ScanSkips ==
  /\ pc = "scan" /\ pos <= Slots
  /\ lobby[pos].who = Nobody
  /\ pos' = pos + 1
  /\ UNCHANGED <<lobby, mem, dirty, file, writable, cut, pc, scanDue, saveDue, scanned, used>>

\* Mutant: refreshing an entry does not mark the list as changed.
ScanSeesQuietly ==
  /\ pc = "scan" /\ pos <= Slots
  /\ lobby[pos].who # Nobody
  /\ LET m == lobby[pos] IN
       /\ mem' = Upserted(mem, m.who, m.addr)
       /\ dirty' = (dirty \/ ~Holds(mem, m.who))
       /\ scanned' = scanned \cup {m.who}
       /\ used' = [used EXCEPT ![m.who] =
                     (IF Holds(mem, m.who) THEN @ ELSE {}) \cup ({m.addr} \ {NoAddr})]
  /\ pos' = pos + 1
  /\ UNCHANGED <<lobby, file, writable, cut, pc, scanDue, saveDue>>

\* upsert of the member in the slot.
ScanSees ==
  /\ pc = "scan" /\ pos <= Slots
  /\ lobby[pos].who # Nobody
  /\ LET m == lobby[pos] IN
       /\ mem' = Upserted(mem, m.who, m.addr)
       /\ scanned' = scanned \cup {m.who}
       /\ used' = [used EXCEPT ![m.who] =
                     (IF Holds(mem, m.who) THEN @ ELSE {}) \cup ({m.addr} \ {NoAddr})]
  /\ dirty' = TRUE
  /\ pos' = pos + 1
  /\ UNCHANGED <<lobby, file, writable, cut, pc, scanDue, saveDue>>

\* The last slot is done: sort, and save if there is something to and it is time.
ScanEnds ==
  /\ pc = "scan" /\ pos > Slots
  /\ mem' = Sorted(mem)
  /\ pc' = IF dirty /\ saveDue THEN "open" ELSE "idle"
  /\ pos' = 1
  /\ scanned' = {}
  /\ UNCHANGED <<lobby, dirty, file, writable, cut, scanDue, saveDue, used>>

\* Mutant: a save that failed leaves the list clean.
SaveFailsClean ==
  /\ pc = "open" /\ ~writable
  /\ pc' = "idle"
  /\ dirty' = FALSE /\ saveDue' = FALSE
  /\ UNCHANGED <<lobby, mem, file, writable, cut, pos, scanDue, scanned, used>>

\* The file cannot be opened: the list stays dirty, last_save moves all the same.
SaveFails ==
  /\ pc = "open" /\ ~writable
  /\ pc' = "idle"
  /\ saveDue' = FALSE
  /\ UNCHANGED <<lobby, mem, dirty, file, writable, cut, pos, scanDue, scanned, used>>

\* Opening the file truncates it, which a full disk allows; the stream is a new one.
SaveOpens ==
  /\ pc = "open"
  /\ file' = << >> /\ cut' = FALSE
  /\ pc' = "write"
  /\ UNCHANGED <<lobby, mem, dirty, writable, pos, scanDue, saveDue, scanned, used>>

SaveWrites ==
  /\ pc = "write" /\ ~cut /\ pos <= Len(mem)
  /\ writable
  /\ file' = Append(file, mem[pos])
  /\ pos' = pos + 1
  /\ UNCHANGED <<lobby, mem, dirty, writable, cut, pc, scanDue, saveDue, scanned, used>>

\* What is on disk when writing entry pos was cut short.
LeftOver == {file} \cup {Append(file, l) : l \in CutLines(mem[pos])}

\* Mutant: the stream is cleared after a write that failed, and goes on.
WriteSkips ==
  /\ pc = "write" /\ ~cut /\ pos <= Len(mem)
  /\ ~writable
  /\ file' \in LeftOver
  /\ pos' = pos + 1
  /\ UNCHANGED <<lobby, mem, dirty, writable, cut, pc, scanDue, saveDue, scanned, used>>

\* A write fails, after some of the line: the stream goes bad, and the operators that
\* follow do nothing.
WriteFails ==
  /\ pc = "write" /\ ~cut /\ pos <= Len(mem)
  /\ ~writable
  /\ file' \in LeftOver
  /\ cut' = TRUE
  /\ UNCHANGED <<lobby, mem, dirty, writable, pc, pos, scanDue, saveDue, scanned, used>>

\* The list counts as saved, whether the stream is good or bad.
SaveCloses ==
  /\ pc = "write" /\ (cut \/ pos > Len(mem))
  /\ dirty' = FALSE /\ saveDue' = FALSE
  /\ pc' = "idle" /\ pos' = 1
  /\ UNCHANGED <<lobby, mem, file, writable, cut, scanDue, scanned, used>>

\* The game ends or crashes, at any point (nothing is saved on the way out), and
\* starts again, seconds later: initialize loads the file, whose last line may
\* have been cut.
Restarts ==
  /\ \E left \in {file} \cup IF pc = "write" /\ ~cut /\ pos <= Len(mem) THEN LeftOver ELSE {} :
       file' = Older(left)
  /\ mem' = Loaded(file')
  /\ used' = [p \in Players |->
                UNION {(Range(mem'[i].hist) \cup {mem'[i].cur}) \ {NoAddr} :
                         i \in {j \in DOMAIN mem' : mem'[j].xuid = p}}]
  /\ lobby' = EmptyLobby
  /\ dirty' = FALSE /\ cut' = FALSE
  /\ pc' = "idle" /\ pos' = 1
  /\ scanDue' = TRUE /\ saveDue' = TRUE
  /\ scanned' = {}
  /\ UNCHANGED writable

-----------------------------------------------------------------------------

Tick == \/ ScanStarts \/ ScanSkips \/ ScanSees \/ ScanEnds
        \/ SaveFails \/ SaveOpens \/ SaveWrites \/ WriteFails \/ SaveCloses

Next ==
  \/ \E s \in 1..Slots, m \in Members \cup {NoMember} : LobbyChanges(s, m)
  \/ DiskChanges
  \/ TimePasses
  \/ SaveFallsDue
  \/ Tick
  \/ Restarts

Spec == Init /\ [][Next]_vars

\* The main thread loops every 16 ms and time passes; nothing else is assumed.
LiveSpec == Spec /\ WF_vars(Tick) /\ WF_vars(TimePasses) /\ WF_vars(SaveFallsDue)

-----------------------------------------------------------------------------
(* Properties *)

\* The type of the state; the list fits its array and the histories theirs.
TypeOK ==
  /\ lobby \in [1..Slots -> Members \cup {NoMember}]
  /\ mem \in Seq(Entry) /\ Len(mem) <= MaxEntries
  /\ file \in Seq(Entry) /\ Len(file) <= MaxEntries
  /\ \A i \in DOMAIN mem : Len(mem[i].hist) <= MaxAddresses
  /\ {dirty, writable, cut, scanDue, saveDue} \subseteq BOOLEAN
  /\ pc \in {"idle", "scan", "open", "write"}
  /\ pos \in Nat \ {0}
  /\ scanned \subseteq Players
  /\ used \in [Players -> SUBSET AnyAddr]

\* No player is in the list or in the file twice, whichever slots of the two
\* sessions they sit in, however often they were evicted, reloaded and met again.
OnceEach ==
  \A list \in {mem, file} : \A i, j \in DOMAIN list :
    list[i].xuid = list[j].xuid => i = j

\* A scan that has to make room never gives up someone it has just seen: all of
\* the lobby is listed, however full the list (upsert sorts before it evicts).
ScannedStay == \A p \in scanned : Holds(mem, p)

\* Who is given up for a newcomer was seen no later than anyone who stays. (Runs look at
\* it as a step of the log below.)
OldestLeaves ==
  [][pc = "scan" /\ pos' = pos + 1 =>
       \A i \in DOMAIN mem :
         ~Holds(mem', mem[i].xuid) => \A j \in DOMAIN mem : mem[j].age <= mem[i].age]_vars

KnownOf(e) == (Range(e.hist) \cup {e.cur}) \ {NoAddr}

\* Until a player was seen at more than max_addresses addresses none of them is
\* forgotten, in whatever order they came and came back, over restarts; and none
\* is kept twice (push_address takes the address that is replaced, and only if it
\* is new). Said of players whose line no crash has cut inside an address.
AddressesKept ==
  \A i \in DOMAIN mem :
    LET e == mem[i] IN Mangled \notin used[e.xuid] =>
      /\ KnownOf(e) \subseteq used[e.xuid]
      /\ Cardinality(used[e.xuid]) <= MaxAddresses => KnownOf(e) = used[e.xuid]
      /\ \A j, k \in DOMAIN e.hist : e.hist[j] = e.hist[k] => j = k

\* README "Keeps a rolling record of players seen across sessions: xuid, name,
\* when they were last seen, and a short history of the IP and port they
\* connected from": whenever there is nothing left to save, a restart would find
\* every player again as they are in memory. (Not after a write that failed, and not if a
\* name has a '|' in it.)
CleanMeansSaved == ~dirty => Loaded(file) = mem

\* The entries a restart would make of a list that was saved.
FoundAgain(list) == {Reloaded(e) : e \in Range(list)}

\* The lines are the first entries of the list, the last of them perhaps cut short.
Begins(lines, list) ==
  /\ Len(lines) <= Len(list)
  /\ \A i \in DOMAIN lines : \/ lines[i] = list[i]
                             \/ i = Len(lines) /\ lines[i] \in CutLines(list[i])

\* What the code's taking a list for saved is worth, whatever open, write or crash went
\* wrong before: the file has all of the list, as far as its format can tell, or, if a
\* write of the last save failed, its beginning, so that those seen longest ago are lost
\* first; never an older list, a gap or a player who is not in the list.
CleanMeansWritten ==
  ~dirty => IF cut THEN Begins(file, mem) ELSE FoundAgain(file) = FoundAgain(mem)

\* A player who stays listed while the disk takes what is written reaches the file, and
\* again after each crash that cut it short: an open that failed leaves dirty set, and
\* a whole save comes at the end of a scan half a minute on. Only a list that is clean
\* after writes that failed, and in which nothing changes any more, stays as it is.
ReachesDisk ==
  \A p \in Players :
    <>[](Holds(mem, p) /\ writable) /\ []<>(dirty \/ ~cut) => []<>Holds(file, p)

\* How long ago each player was seen, as a list has it.
SeenIn(list) ==
  [p \in Players |-> IF Holds(list, p)
                     THEN list[CHOOSE i \in DOMAIN list : list[i].xuid = p].age
                     ELSE MaxAge + 1]

Log == INSTANCE PlayerLog WITH seen <- SeenIn(mem), saved <- SeenIn(file)

\* Whatever slots are scanned, entries sorted and lines written, and wherever a crash
\* falls, the list and the file are the log of PlayerLog: nobody is forgotten but the
\* one seen longest ago for somebody new, and a restart finds whom the save had reached,
\* each exactly as late as they were seen, but for the separator in a name.
ImplementsLog == Log!Spec
=============================================================================
