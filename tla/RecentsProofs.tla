----------------------------- MODULE RecentsProofs -----------------------------
(* Theorems about Recents, for any players, addresses, slots and limits. *)
EXTENDS Recents, Counting

-----------------------------------------------------------------------------
(* The addresses of an entry.                                                *)

\* No address is in a history twice, but for those a crash has cut.
OnceButCut(hist) ==
  \A j, k \in DOMAIN hist : hist[j] = hist[k] /\ hist[j] # Mangled => j = k

\* A history as push_address leaves it.
HistOK(hist) == hist \in Seq(AnyAddr) /\ Len(hist) <= MaxAddresses /\ OnceButCut(hist)

\* A history with an address at its end that was not in it before.
LEMMA AppendedOK ==
  ASSUME NEW hist \in Seq(AnyAddr), OnceButCut(hist), NEW a \in AnyAddr,
         a = Mangled \/ a \notin Range(hist)
  PROVE  /\ Append(hist, a) \in Seq(AnyAddr)
         /\ Len(Append(hist, a)) = Len(hist) + 1
         /\ OnceButCut(Append(hist, a))
         /\ Range(Append(hist, a)) = Range(hist) \cup {a}
<1> DEFINE new == Append(hist, a)
<1>1. /\ Len(hist) \in Nat /\ DOMAIN hist = 1..Len(hist)
      /\ \A i \in 1..Len(hist) : hist[i] \in AnyAddr
  BY LenProperties
<1>2. /\ new \in Seq(AnyAddr) /\ Len(new) = Len(hist) + 1
      /\ new[Len(hist) + 1] = a /\ \A i \in 1..Len(hist) : new[i] = hist[i]
  BY AppendProperties
<1>3. DOMAIN new = 1..(Len(hist) + 1)
  BY <1>2, LenProperties
<1> HIDE DEF new
<1>4. Range(new) = Range(hist) \cup {a}
  <2>1. \A i \in 1..(Len(hist) + 1) : new[i] \in Range(hist) \cup {a}
    BY <1>1, <1>2 DEF Range
  <2>2. \A b \in Range(hist) \cup {a} : \E i \in 1..(Len(hist) + 1) : new[i] = b
    BY <1>1, <1>2 DEF Range
  <2> QED
    BY <1>3, <2>1, <2>2 DEF Range
<1>5. OnceButCut(new)
  <2> SUFFICES ASSUME NEW j \in 1..(Len(hist) + 1), NEW k \in 1..(Len(hist) + 1),
                      new[j] = new[k], new[j] # Mangled, j < k
               PROVE  FALSE
    BY <1>1, <1>3 DEF OnceButCut
  <2>1. j \in 1..Len(hist) /\ new[j] = hist[j]
    BY <1>1, <1>2
  <2>2. CASE k = Len(hist) + 1
    BY <1>1, <1>2, <2>1, <2>2 DEF Range
  <2>3. CASE k # Len(hist) + 1
    <3>1. k \in 1..Len(hist) /\ new[k] = hist[k]
      BY <1>1, <1>2, <2>3
    <3>2. /\ j \in DOMAIN hist /\ k \in DOMAIN hist
          /\ hist[j] = hist[k] /\ hist[j] # Mangled
      BY <1>1, <2>1, <3>1
    <3>3. j = k
      BY <3>2 DEF OnceButCut
    <3> QED
      BY <3>3
  <2> QED
    BY <2>2, <2>3
<1> QED
  BY <1>2, <1>4, <1>5 DEF new

\* A history without its first addresses or without its last.
LEMMA CutOK ==
  ASSUME NEW hist, HistOK(hist), NEW m \in 1..(Len(hist) + 1), NEW n \in 0..Len(hist)
  PROVE  /\ HistOK(SubSeq(hist, m, n))
         /\ Len(SubSeq(hist, m, n)) <= n
         /\ Range(SubSeq(hist, m, n)) \subseteq Range(hist)
<1> DEFINE new == SubSeq(hist, m, n)
<1>1. /\ hist \in Seq(AnyAddr) /\ Len(hist) \in Nat /\ DOMAIN hist = 1..Len(hist)
      /\ \A i \in 1..Len(hist) : hist[i] \in AnyAddr
  BY LenProperties DEF HistOK
<1>2. \A i \in m..n : hist[i] \in AnyAddr
  BY <1>1
<1>3. /\ new \in Seq(AnyAddr) /\ Len(new) = IF m <= n THEN n - m + 1 ELSE 0
      /\ \A i \in 1..(n - m + 1) : new[i] = hist[m + i - 1]
  BY <1>1, <1>2, SubSeqProperties
<1>4. DOMAIN new = 1..Len(new) /\ Len(new) <= n /\ Len(new) <= Len(hist)
  BY <1>1, <1>3, LenProperties
<1> HIDE DEF new
<1>5. \A i \in 1..Len(new) : m + i - 1 \in DOMAIN hist /\ new[i] = hist[m + i - 1]
  BY <1>1, <1>3
<1>6. Range(new) \subseteq Range(hist)
  BY <1>4, <1>5 DEF Range
<1>7. OnceButCut(new)
  <2> SUFFICES ASSUME NEW j \in 1..Len(new), NEW k \in 1..Len(new),
                      new[j] = new[k], new[j] # Mangled
               PROVE  j = k
    BY <1>4 DEF OnceButCut
  <2>1. m + j - 1 = m + k - 1
    BY <1>5 DEF HistOK, OnceButCut
  <2> QED
    BY <2>1
<1> QED
  BY <1>1, <1>3, <1>4, <1>6, <1>7, SizeAssumption DEF HistOK, new

\* The tail of a history that is full.
LEMMA TailOK ==
  ASSUME NEW hist, HistOK(hist), hist # << >>
  PROVE  /\ HistOK(Tail(hist)) /\ Len(Tail(hist)) = Len(hist) - 1
         /\ Range(Tail(hist)) \subseteq Range(hist)
<1>1. hist \in Seq(AnyAddr) /\ Len(hist) \in Nat \ {0}
  BY EmptySeq DEF HistOK
<1>2. Tail(hist) = SubSeq(hist, 2, Len(hist)) /\ Len(Tail(hist)) = Len(hist) - 1
  BY <1>1, TailIsSubSeq, HeadTailProperties
<1>3. 2 \in 1..(Len(hist) + 1) /\ Len(hist) \in 0..Len(hist)
  BY <1>1
<1>4. HistOK(SubSeq(hist, 2, Len(hist))) /\ Range(SubSeq(hist, 2, Len(hist))) \subseteq Range(hist)
  BY <1>3, CutOK
<1> QED
  BY <1>2, <1>4

\* push_address keeps a history within max_addresses and its addresses apart; it
\* forgets one only if the history is full and the address is new.
LEMMA PushedOK ==
  ASSUME NEW hist, HistOK(hist), NEW a \in AnyAddr
  PROVE  /\ HistOK(Pushed(hist, a))
         /\ Range(Pushed(hist, a)) \subseteq Range(hist) \cup {a}
         /\ \/ a \notin Range(hist) /\ Len(hist) = MaxAddresses
            \/ Range(Pushed(hist, a)) = Range(hist) \cup {a}
<1>1. hist \in Seq(AnyAddr) /\ Len(hist) \in Nat /\ Len(hist) <= MaxAddresses
  BY LenProperties DEF HistOK
<1>2. CASE a \in Range(hist)
  BY <1>2 DEF Pushed
<1>3. CASE a \notin Range(hist) /\ Len(hist) < MaxAddresses
  <2>1. Pushed(hist, a) = Append(hist, a)
    BY <1>3 DEF Pushed
  <2>2. /\ Append(hist, a) \in Seq(AnyAddr) /\ Len(Append(hist, a)) = Len(hist) + 1
        /\ OnceButCut(Append(hist, a)) /\ Range(Append(hist, a)) = Range(hist) \cup {a}
    BY <1>1, <1>3, AppendedOK DEF HistOK
  <2> QED
    BY <1>1, <1>3, <2>1, <2>2, SizeAssumption DEF HistOK
<1>4. CASE a \notin Range(hist) /\ ~(Len(hist) < MaxAddresses)
  <2>1. Pushed(hist, a) = Append(Tail(hist), a) /\ Len(hist) = MaxAddresses
    BY <1>1, <1>4, SizeAssumption DEF Pushed
  <2>2. hist # << >>
    BY <2>1, EmptySeq, SizeAssumption
  <2>3. /\ HistOK(Tail(hist)) /\ Len(Tail(hist)) = Len(hist) - 1
        /\ a \notin Range(Tail(hist))
    BY <1>4, <2>2, TailOK
  <2>4. /\ Append(Tail(hist), a) \in Seq(AnyAddr)
        /\ Len(Append(Tail(hist), a)) = Len(Tail(hist)) + 1
        /\ OnceButCut(Append(Tail(hist), a))
        /\ Range(Append(Tail(hist), a)) = Range(Tail(hist)) \cup {a}
    BY <2>3, AppendedOK DEF HistOK
  <2>5. HistOK(Append(Tail(hist), a))
    BY <1>1, <2>1, <2>3, <2>4 DEF HistOK
  <2>6. Range(Tail(hist)) \subseteq Range(hist)
    BY <2>2, TailOK
  <2> QED
    BY <1>4, <2>1, <2>4, <2>5, <2>6
<1> QED
  BY <1>2, <1>3, <1>4

-----------------------------------------------------------------------------
(* Lists of entries.                                                         *)

\* An entry as the code may leave it, and a list of them, nobody twice.
EntryOK(e) == e \in Entry /\ HistOK(e.hist)

Once(list) == \A i, j \in DOMAIN list : list[i].xuid = list[j].xuid => i = j

ListOK(list) ==
  /\ list \in Seq(Entry) /\ Len(list) <= MaxEntries
  /\ \A i \in DOMAIN list : EntryOK(list[i])
  /\ Once(list)

\* No entry was seen later than one that stands after it.
Ascending(list) == \A i, j \in DOMAIN list : i < j => list[i].age <= list[j].age

LEMMA ListFacts ==
  ASSUME NEW list, ListOK(list)
  PROVE  /\ Len(list) \in Nat /\ DOMAIN list = 1..Len(list)
         /\ \A i \in 1..Len(list) : /\ list[i] \in Entry /\ EntryOK(list[i])
                                    /\ list[i].age \in Nat /\ list[i].xuid \in Players
<1>1. Len(list) \in Nat /\ DOMAIN list = 1..Len(list)
  BY LenProperties DEF ListOK
<1>2. \A i \in 1..Len(list) : list[i] \in Entry /\ EntryOK(list[i])
  BY <1>1 DEF ListOK, EntryOK
<1>3. \A e \in Entry : e.age \in Nat /\ e.xuid \in Players
  BY SizeAssumption DEF Entry
<1> QED
  BY <1>1, <1>2, <1>3

LEMMA EmptyListOK == ListOK(<< >>) /\ Ascending(<< >>)
  BY EmptySeq, SizeAssumption DEF ListOK, Once, Ascending

\* A list made of one by changing entries where they stand.
LEMMA MappedOK ==
  ASSUME NEW list, ListOK(list), NEW new, new = [i \in DOMAIN list |-> new[i]],
         \A i \in DOMAIN list : EntryOK(new[i]) /\ new[i].xuid = list[i].xuid
  PROVE  ListOK(new) /\ Len(new) = Len(list) /\ DOMAIN new = DOMAIN list
<1>1. Len(list) \in Nat /\ DOMAIN list = 1..Len(list)
  BY ListFacts
<1>2. new \in [1..Len(list) -> Entry]
  BY <1>1 DEF EntryOK
<1>3. new \in Seq(Entry) /\ Len(new) = Len(list) /\ DOMAIN new = 1..Len(list)
  BY <1>1, <1>2, FunctionIsSeq
<1> QED
  BY <1>1, <1>3 DEF ListOK, Once

\* A list made of the entries of one that stand at different places.
LEMMA PickedOK ==
  ASSUME NEW list, ListOK(list), NEW n \in Nat, n <= Len(list),
         NEW at \in [1..n -> DOMAIN list], \A k, l \in 1..n : at[k] = at[l] => k = l,
         NEW new \in [1..n -> Entry], \A k \in 1..n : new[k] = list[at[k]]
  PROVE  ListOK(new) /\ Len(new) = n /\ DOMAIN new = 1..n
<1>1. Len(list) \in Nat /\ DOMAIN list = 1..Len(list) /\ Len(list) <= MaxEntries
  BY ListFacts DEF ListOK
<1>2. \A k \in 1..n : new[k] = list[at[k]] /\ EntryOK(new[k])
  BY DEF ListOK
<1>4. new \in Seq(Entry) /\ Len(new) = n /\ DOMAIN new = 1..n
  BY FunctionIsSeq
<1>5. Once(new)
  <2> SUFFICES ASSUME NEW k \in 1..n, NEW l \in 1..n, new[k].xuid = new[l].xuid
               PROVE  k = l
    BY <1>4 DEF Once
  <2>1. at[k] = at[l]
    BY <1>2 DEF ListOK, Once
  <2> QED
    BY <2>1
<1>6. Len(new) <= MaxEntries
  BY <1>1, <1>4, SizeAssumption
<1> QED
  BY <1>2, <1>4, <1>5, <1>6 DEF ListOK

-----------------------------------------------------------------------------
(* sort_entries.                                                             *)

\* Where entry i goes, and where the entry at place k comes from (Recents!Sorted).
Position(list, i) == 1 + Cardinality({j \in DOMAIN list : Before(list, j, i)})
Source(list, k)   == CHOOSE i \in DOMAIN list : Position(list, i) = k

\* Sorting moves every entry to one place, and none before one that it comes after.
LEMMA SortPlaces ==
  ASSUME NEW list, ListOK(list)
  PROVE  /\ \A k \in DOMAIN list : Source(list, k) \in DOMAIN list
         /\ \A i \in DOMAIN list : \E k \in DOMAIN list : Source(list, k) = i
         /\ \A k, l \in DOMAIN list :
              k < l => Before(list, Source(list, k), Source(list, l))
<1> DEFINE D == DOMAIN list
           first(i) == {j \in D : Before(list, j, i)}
           noLater == [i \in D |-> first(i) \cup {i}]
<1>1. Len(list) \in Nat /\ D = 1..Len(list) /\ \A i \in D : list[i].age \in Nat
  BY ListFacts
<1>2. IsFiniteSet(D) /\ Cardinality(D) = Len(list)
  BY <1>1, FS_Interval
<1>3. \A i \in D : i \in Nat
  BY <1>1
<1>4. \A i, j \in D : i # j => Before(list, i, j) \/ Before(list, j, i)
  BY <1>1, <1>3 DEF Before
<1>5. \A i \in D : ~Before(list, i, i)
  BY <1>1, <1>3 DEF Before
<1>6. \A i, j, k \in D : Before(list, i, j) /\ Before(list, j, k) => Before(list, i, k)
  BY <1>1, <1>3 DEF Before
<1>7. \A i \in D : noLater[i] = first(i) \cup {i}
  OBVIOUS
<1>8. IsRanking(D, noLater)
  <2>1. noLater \in [D -> SUBSET D] /\ \A i \in D : i \in noLater[i]
    OBVIOUS
  <2>2. \A i, j \in D : Before(list, i, j) =>
                          noLater[i] \subseteq noLater[j] /\ j \notin noLater[i]
    <3> SUFFICES ASSUME NEW i \in D, NEW j \in D, Before(list, i, j)
                 PROVE  noLater[i] \subseteq noLater[j] /\ j \notin noLater[i]
      OBVIOUS
    <3>1. \A k \in first(i) : k \in first(j)
      BY <1>6
    <3>2. i \in first(j) /\ j \notin first(i) /\ i # j
      BY <1>5, <1>6
    <3> HIDE DEF noLater, first
    <3> QED
      BY <1>7, <3>1, <3>2
  <2> HIDE DEF noLater
  <2> QED
    BY <1>4, <2>1, <2>2 DEF IsRanking
<1>9. \A i \in D : Cardinality(noLater[i]) = Position(list, i)
  <2> SUFFICES ASSUME NEW i \in D
               PROVE  Cardinality(noLater[i]) = Position(list, i)
    OBVIOUS
  <2>1. IsFiniteSet(first(i)) /\ i \notin first(i)
    BY <1>2, <1>5, FS_Subset
  <2>2. Cardinality(first(i) \cup {i}) = Cardinality(first(i)) + 1 /\ Cardinality(first(i)) \in Nat
    BY <2>1, FS_AddElement, FS_CardinalityType
  <2> QED
    BY <1>7, <2>2 DEF Position
<1> HIDE DEF noLater, first
<1>10. /\ \A i \in D : Cardinality(noLater[i]) \in 1..Cardinality(D)
       /\ \A i, j \in D : Cardinality(noLater[i]) = Cardinality(noLater[j]) => i = j
       /\ AllTaken(D, noLater)
  BY <1>2, <1>8, PlacesTaken
<1>11. /\ \A i \in D : Position(list, i) \in D
       /\ \A i, j \in D : Position(list, i) = Position(list, j) => i = j
       /\ \A k \in D : \E i \in D : Position(list, i) = k
  BY <1>1, <1>2, <1>9, <1>10 DEF AllTaken
<1>12. \A k \in D : Source(list, k) \in D /\ Position(list, Source(list, k)) = k
  <2> SUFFICES ASSUME NEW k \in D
               PROVE  Source(list, k) \in D /\ Position(list, Source(list, k)) = k
    OBVIOUS
  <2>1. \E i \in D : Position(list, i) = k
    BY <1>11
  <2> QED
    BY <2>1 DEF Source
<1>13. \A i \in D : \E k \in D : Source(list, k) = i
  BY <1>11, <1>12
<1>14. ASSUME NEW k \in D, NEW l \in D, k < l
       PROVE  Before(list, Source(list, k), Source(list, l))
  <2> DEFINE i == Source(list, k)
             j == Source(list, l)
  <2>1. i \in D /\ j \in D /\ Cardinality(noLater[i]) = k /\ Cardinality(noLater[j]) = l
    BY <1>9, <1>12
  <2> HIDE DEF i, j
  <2>2. i # j
    BY <1>3, <1>14, <2>1
  <2>3. ~Before(list, j, i)
    <3> SUFFICES ASSUME Before(list, j, i) PROVE FALSE
      OBVIOUS
    <3>1. noLater[j] \subseteq noLater[i] /\ i \notin noLater[j] /\ i \in noLater[i]
      BY <1>5, <1>6, <1>7, <2>1, <2>2 DEF first
    <3>2. noLater[i] \in SUBSET D /\ noLater[j] \in SUBSET D
      BY <1>8, <2>1 DEF IsRanking
    <3>3. Cardinality(noLater[j]) < Cardinality(noLater[i])
      BY <1>2, <3>1, <3>2, StrictlyMore
    <3> QED
      BY <1>3, <1>14, <2>1, <3>3
  <2> QED
    BY <1>4, <2>1, <2>2, <2>3 DEF i, j
<1> QED
  BY <1>12, <1>13, <1>14

\* sort_entries loses nobody, and leaves those seen last first.
LEMMA SortedOK ==
  ASSUME NEW list, ListOK(list)
  PROVE  /\ ListOK(Sorted(list)) /\ Len(Sorted(list)) = Len(list)
         /\ DOMAIN Sorted(list) = DOMAIN list
         /\ \A k \in DOMAIN list : Sorted(list)[k] = list[Source(list, k)]
         /\ Ascending(Sorted(list))
<1> DEFINE at == [k \in DOMAIN list |-> Source(list, k)]
           new == Sorted(list)
<1>1. /\ Len(list) \in Nat /\ DOMAIN list = 1..Len(list)
      /\ \A i \in DOMAIN list : list[i].age \in Nat
  BY ListFacts
<1>2. new = [k \in DOMAIN list |-> list[Source(list, k)]]
  BY DEF Sorted, Source, Position
<1>3. /\ \A k \in DOMAIN list : Source(list, k) \in DOMAIN list
      /\ \A k, l \in DOMAIN list : k < l => Before(list, Source(list, k), Source(list, l))
  BY SortPlaces
<1>4. \A k, l \in DOMAIN list : Source(list, k) = Source(list, l) => k = l
  <2>1. \A i \in DOMAIN list : ~Before(list, i, i)
    BY <1>1 DEF Before
  <2>2. \A k, l \in DOMAIN list : k # l => k < l \/ l < k
    BY <1>1
  <2> QED
    BY <1>3, <2>1, <2>2
<1>5. at \in [1..Len(list) -> DOMAIN list]
  BY <1>1, <1>3
<1>6. \A k \in 1..Len(list) : at[k] = Source(list, k)
  BY <1>1
<1> HIDE DEF at, new
<1>7. new \in [1..Len(list) -> Entry] /\ \A k \in 1..Len(list) : new[k] = list[at[k]]
  <2>1. \A k \in DOMAIN list : list[Source(list, k)] \in Entry
    BY <1>3 DEF ListOK, EntryOK
  <2> QED
    BY <1>1, <1>2, <1>6, <2>1
<1>8. \A k, l \in 1..Len(list) : at[k] = at[l] => k = l
  BY <1>1, <1>4, <1>6
<1>9. ListOK(new) /\ Len(new) = Len(list) /\ DOMAIN new = 1..Len(list)
  <2> DEFINE n == Len(list)
  <2>1. n \in Nat /\ n <= Len(list) /\ at \in [1..n -> DOMAIN list]
    BY <1>1, <1>5
  <2>2. \A k, l \in 1..n : at[k] = at[l] => k = l
    BY <1>8
  <2>3. new \in [1..n -> Entry] /\ \A k \in 1..n : new[k] = list[at[k]]
    BY <1>7
  <2> HIDE DEF n
  <2>4. ListOK(new) /\ Len(new) = n /\ DOMAIN new = 1..n
    BY <2>1, <2>2, <2>3, PickedOK
  <2> QED
    BY <2>4 DEF n
<1>10. \A k \in DOMAIN list : new[k] = list[Source(list, k)]
  BY <1>2
<1>11. Ascending(new)
  <2> SUFFICES ASSUME NEW k \in DOMAIN list, NEW l \in DOMAIN list, k < l
               PROVE  new[k].age <= new[l].age
    BY <1>1, <1>9 DEF Ascending
  <2>1. Before(list, Source(list, k), Source(list, l))
    BY <1>3
  <2> QED
    BY <1>1, <1>3, <1>10, <2>1 DEF Before
<1> QED
  BY <1>1, <1>9, <1>10, <1>11 DEF new

\* A list that is in order already is left as it is.
LEMMA SortedFixed ==
  ASSUME NEW list, ListOK(list), Ascending(list)
  PROVE  Sorted(list) = list
<1>1. /\ Len(list) \in Nat /\ DOMAIN list = 1..Len(list) /\ list \in Seq(Entry)
      /\ \A i \in DOMAIN list : list[i].age \in Nat
  BY ListFacts DEF ListOK
<1>2. \A i, j \in DOMAIN list : Before(list, j, i) <=> j < i
  <2> SUFFICES ASSUME NEW i \in DOMAIN list, NEW j \in DOMAIN list
               PROVE  Before(list, j, i) <=> j < i
    OBVIOUS
  <2>1. i \in Nat /\ j \in Nat /\ list[i].age \in Nat /\ list[j].age \in Nat
    BY <1>1
  <2>2. (j < i => list[j].age <= list[i].age) /\ (i < j => list[i].age <= list[j].age)
    BY DEF Ascending
  <2> QED
    BY <2>1, <2>2 DEF Before
<1>3. \A i \in DOMAIN list : Position(list, i) = i
  <2> SUFFICES ASSUME NEW i \in DOMAIN list
               PROVE  Position(list, i) = i
    OBVIOUS
  <2>1. {j \in DOMAIN list : Before(list, j, i)} = 1..(i - 1)
    <3>1. {j \in DOMAIN list : Before(list, j, i)} = {j \in DOMAIN list : j < i}
      BY <1>2
    <3>2. {j \in DOMAIN list : j < i} = 1..(i - 1)
      BY <1>1
    <3> QED
      BY <3>1, <3>2
  <2>2. i \in Nat /\ i >= 1 /\ i - 1 \in Int
    BY <1>1
  <2>3. Cardinality(1..(i - 1)) = i - 1
    BY <2>2, FS_Interval
  <2>4. Position(list, i) = 1 + Cardinality(1..(i - 1))
    BY <2>1, Zenon DEF Position
  <2> QED
    BY <2>2, <2>3, <2>4
<1>4. \A k \in DOMAIN list : Source(list, k) = k
  BY <1>3 DEF Source
<1>5. /\ Sorted(list) \in Seq(Entry) /\ Len(Sorted(list)) = Len(list)
      /\ \A k \in 1..Len(list) : Sorted(list)[k] = list[k]
  BY <1>1, <1>4, SortedOK DEF ListOK
<1> QED
  BY <1>1, <1>5, SeqEqual

-----------------------------------------------------------------------------
(* upsert.                                                                   *)

MemberAddrs == Addrs \cup {NoAddr}

LEMMA RefreshedFields ==
  ASSUME NEW e \in Entry, NEW a \in MemberAddrs
  PROVE  /\ Refreshed(e, a).xuid = e.xuid /\ Refreshed(e, a).age = 0
         /\ Refreshed(e, a).cur = (IF a # NoAddr THEN a ELSE e.cur)
         /\ Refreshed(e, a).hist = (IF a # NoAddr /\ e.cur \notin {NoAddr, a}
                                    THEN Pushed(e.hist, e.cur) ELSE e.hist)
         /\ Refreshed(e, a).piped = (e.xuid \in Piped)
  BY DEF Refreshed, Entry

\* Changing the fields of an entry makes an entry.
LEMMA ChangedType ==
  ASSUME NEW e \in Entry, NEW age \in 0..MaxAge, NEW b \in BOOLEAN,
         NEW c \in AnyAddr \cup {NoAddr}, NEW h \in Seq(AnyAddr)
  PROVE  [e EXCEPT !.age = age, !.piped = b, !.cur = c, !.hist = h] \in Entry
  BY DEF Entry

LEMMA RefreshedOK ==
  ASSUME NEW e, EntryOK(e), NEW a \in MemberAddrs
  PROVE  EntryOK(Refreshed(e, a))
<1> DEFINE r == Refreshed(e, a)
<1>1. e \in Entry /\ HistOK(e.hist) /\ e.cur \in AnyAddr \cup {NoAddr} /\ e.xuid \in Players
  BY DEF EntryOK, Entry
<1>2. HistOK(r.hist)
  <2>1. CASE a # NoAddr /\ e.cur \notin {NoAddr, a}
    <3>1. r.hist = Pushed(e.hist, e.cur) /\ e.cur \in AnyAddr
      BY <1>1, <2>1, RefreshedFields
    <3> QED
      BY <1>1, <3>1, PushedOK
  <2>2. CASE ~(a # NoAddr /\ e.cur \notin {NoAddr, a})
    <3>1. r.hist = e.hist
      BY <1>1, <2>2, RefreshedFields
    <3> QED
      BY <1>1, <3>1
  <2> QED
    BY <2>1, <2>2
<1>3. r.hist \in Seq(AnyAddr)
  BY <1>2 DEF HistOK
<1>4. r.cur \in AnyAddr \cup {NoAddr}
  BY <1>1, RefreshedFields DEF AnyAddr, MemberAddrs
<1>5. (e.xuid \in Piped) \in BOOLEAN /\ 0 \in 0..MaxAge
  BY SizeAssumption
<1>6. r = [e EXCEPT !.age = 0, !.piped = (e.xuid \in Piped), !.cur = r.cur, !.hist = r.hist]
  BY <1>1, RefreshedFields DEF Refreshed
<1>7. r \in Entry
  <2> HIDE DEF r
  <2>1. \A b \in BOOLEAN :
          [e EXCEPT !.age = 0, !.piped = b, !.cur = r.cur, !.hist = r.hist] \in Entry
    BY <1>1, <1>3, <1>4, <1>5, ChangedType
  <2> QED
    BY <1>5, <1>6, <2>1, Zenon
<1> QED
  BY <1>2, <1>7 DEF EntryOK

LEMMA NewEntryOK ==
  ASSUME NEW p \in Players, NEW a \in MemberAddrs
  PROVE  EntryOK(NewEntry(p, a)) /\ KnownOf(NewEntry(p, a)) = {a} \ {NoAddr}
<1>1. /\ << >> \in Seq(AnyAddr) /\ Len(<< >>) = 0 /\ DOMAIN << >> = {}
      /\ Range(<< >>) = {}
  BY EmptySeq DEF Range
<1>2. HistOK(<< >>)
  BY <1>1, SizeAssumption DEF HistOK, OnceButCut
<1>3. (p \in Piped) \in BOOLEAN /\ 0 \in 0..MaxAge /\ a \in AnyAddr \cup {NoAddr}
  BY SizeAssumption DEF MemberAddrs, AnyAddr
<1>4. NewEntry(p, a) \in Entry
  BY <1>1, <1>3 DEF NewEntry, Entry
<1>5. NewEntry(p, a).hist = << >> /\ NewEntry(p, a).cur = a
  BY DEF NewEntry
<1> QED
  BY <1>1, <1>2, <1>4, <1>5 DEF EntryOK, KnownOf

\* A full list gives up the entry seen longest ago, and no other.
LEMMA RoomedOK ==
  ASSUME NEW list, ListOK(list)
  PROVE  /\ ListOK(Roomed(list)) /\ Len(Roomed(list)) < MaxEntries
         /\ \A k \in DOMAIN Roomed(list) :
              \E i \in DOMAIN list : Roomed(list)[k] = list[i]
         /\ \A i \in DOMAIN list : ~Holds(Roomed(list), list[i].xuid) =>
              /\ Len(list) = MaxEntries
              /\ \A j \in DOMAIN list : list[j].age <= list[i].age
<1>1. /\ Len(list) \in Nat /\ DOMAIN list = 1..Len(list) /\ Len(list) <= MaxEntries
      /\ \A i \in DOMAIN list : list[i].age \in Nat
  BY ListFacts DEF ListOK
<1>2. CASE Len(list) < MaxEntries
  <2>1. Roomed(list) = list
    BY <1>1, <1>2, SizeAssumption DEF Roomed
  <2> QED
    BY <1>2, <2>1 DEF Holds
<1>3. CASE Len(list) = MaxEntries
  <2> DEFINE n == MaxEntries - 1
             by == Sorted(list)
             new == SubSeq(by, 1, n)
             at == [k \in 1..n |-> k]
  <2>1. n \in Nat /\ n <= Len(list) /\ MaxEntries = n + 1
    BY <1>3, SizeAssumption
  <2>2. /\ ListOK(by) /\ Len(by) = n + 1 /\ DOMAIN by = 1..(n + 1) /\ Ascending(by)
        /\ \A k \in 1..(n + 1) : by[k] = list[Source(list, k)]
    BY <1>1, <1>3, <2>1, SortedOK
  <2>3. \A k \in 1..(n + 1) : by[k] \in Entry
    BY <2>2 DEF ListOK, EntryOK
  <2>4. /\ \A k \in 1..(n + 1) : Source(list, k) \in DOMAIN list
        /\ \A i \in DOMAIN list : \E k \in 1..(n + 1) : Source(list, k) = i
    BY <1>1, <1>3, <2>1, SortPlaces
  <2>5. Roomed(list) = new
    BY <1>1, <1>3, SizeAssumption DEF Roomed
  <2> HIDE DEF n, by
  <2>6. /\ new \in Seq(Entry) /\ Len(new) = n /\ \A k \in 1..n : new[k] = by[k]
    <3>1. \A k \in 1..n : by[k] \in Entry
      BY <2>1, <2>3
    <3>2. /\ new \in Seq(Entry) /\ Len(new) = IF 1 <= n THEN n - 1 + 1 ELSE 0
          /\ \A k \in 1..(n - 1 + 1) : new[k] = by[1 + k - 1]
      BY <2>1, <3>1, SubSeqProperties
    <3>3. n - 1 + 1 = n /\ \A k \in 1..n : 1 + k - 1 = k
      BY <2>1
    <3> HIDE DEF new
    <3> QED
      BY <2>1, <3>2, <3>3
  <2>7. DOMAIN new = 1..n
    BY <2>6, LenProperties
  <2> HIDE DEF new
  <2>8. ListOK(new)
    <3>1. at \in [1..n -> DOMAIN by] /\ \A k \in 1..n : at[k] = k
      BY <2>1, <2>2
    <3>2. new \in [1..n -> Entry] /\ \A k \in 1..n : new[k] = by[at[k]]
      BY <2>1, <2>3, <2>6, <2>7, <3>1, LenProperties
    <3>3. n <= Len(by) /\ \A k, l \in 1..n : at[k] = at[l] => k = l
      BY <2>1, <2>2, <3>1
    <3> HIDE DEF at
    <3> QED
      BY <2>1, <2>2, <3>1, <3>2, <3>3, PickedOK
  <2>9. \A k \in 1..n : \E i \in DOMAIN list : new[k] = list[i]
    BY <2>1, <2>2, <2>4, <2>6
  <2>10. ASSUME NEW i \in DOMAIN list, ~Holds(new, list[i].xuid), NEW j \in DOMAIN list
         PROVE  list[j].age <= list[i].age
    <3>1. PICK k \in 1..(n + 1) : Source(list, k) = i
      BY <2>4
    <3>2. PICK l \in 1..(n + 1) : Source(list, l) = j
      BY <2>4
    <3>3. by[k] = list[i] /\ by[l] = list[j]
      BY <2>2, <3>1, <3>2
    <3>4. k = n + 1
      <4>1. k \notin 1..n
        BY <2>6, <2>7, <2>10, <3>3 DEF Holds
      <4> QED
        BY <2>1, <4>1
    <3>5. l = k \/ l < k
      BY <2>1, <3>4
    <3>6. list[i].age \in Nat
      BY <1>1
    <3> QED
      BY <2>2, <3>3, <3>5, <3>6 DEF Ascending
  <2> QED
    BY <1>3, <2>1, <2>5, <2>6, <2>7, <2>8, <2>9, <2>10
<1> QED
  BY <1>1, <1>2, <1>3, SizeAssumption

\* upsert lists the player with what is known of them, and leaves the others as they
\* are; if it has to give one up, it is one seen longest ago.
LEMMA UpsertedOK ==
  ASSUME NEW list, ListOK(list), NEW p \in Players, NEW a \in MemberAddrs
  PROVE  /\ ListOK(Upserted(list, p, a)) /\ Holds(Upserted(list, p, a), p)
         /\ \A k \in DOMAIN Upserted(list, p, a) :
              LET e == Upserted(list, p, a)[k] IN
                \/ e.xuid # p /\ \E i \in DOMAIN list : e = list[i]
                \/ \E i \in DOMAIN list : list[i].xuid = p /\ e = Refreshed(list[i], a)
                \/ e = NewEntry(p, a) /\ ~Holds(list, p)
         /\ \A i \in DOMAIN list : ~Holds(Upserted(list, p, a), list[i].xuid) =>
              /\ ~Holds(list, p) /\ Len(list) = MaxEntries
              /\ \A j \in DOMAIN list : list[j].age <= list[i].age
<1> DEFINE new == Upserted(list, p, a)
<1>1. \A i \in DOMAIN list : list[i] \in Entry /\ EntryOK(list[i])
  BY DEF ListOK, EntryOK
<1>2. CASE Holds(list, p)
  <2>1. new = [i \in DOMAIN list |->
                 IF list[i].xuid = p THEN Refreshed(list[i], a) ELSE list[i]]
    BY <1>2 DEF Upserted
  <2>2. \A i \in DOMAIN list : EntryOK(new[i]) /\ new[i].xuid = list[i].xuid
    BY <1>1, <2>1, RefreshedOK, RefreshedFields
  <2>3. new = [i \in DOMAIN list |-> new[i]]
    BY <2>1
  <2>4. \A i \in DOMAIN list :
          new[i] = IF list[i].xuid = p THEN Refreshed(list[i], a) ELSE list[i]
    BY <2>1
  <2> HIDE DEF new
  <2>5. ListOK(new) /\ DOMAIN new = DOMAIN list
    BY <2>2, <2>3, MappedOK
  <2>6. Holds(new, p) /\ \A i \in DOMAIN list : Holds(new, list[i].xuid)
    BY <1>2, <2>2, <2>5 DEF Holds
  <2>7. \A k \in DOMAIN new :
          \/ new[k].xuid # p /\ \E i \in DOMAIN list : new[k] = list[i]
          \/ \E i \in DOMAIN list : list[i].xuid = p /\ new[k] = Refreshed(list[i], a)
    BY <2>2, <2>4, <2>5
  <2> QED
    BY <2>5, <2>6, <2>7 DEF new
<1>3. CASE ~Holds(list, p)
  <2> DEFINE r == Roomed(list)
             q == NewEntry(p, a)
  <2>1. /\ ListOK(r) /\ Len(r) < MaxEntries
        /\ \A k \in DOMAIN r : \E i \in DOMAIN list : r[k] = list[i]
        /\ \A i \in DOMAIN list : ~Holds(r, list[i].xuid) =>
             /\ Len(list) = MaxEntries
             /\ \A j \in DOMAIN list : list[j].age <= list[i].age
    BY RoomedOK
  <2>2. EntryOK(q) /\ q \in Entry /\ q.xuid = p
    BY NewEntryOK DEF EntryOK, NewEntry
  <2>3. new = Append(r, q)
    BY <1>3 DEF Upserted
  <2> HIDE DEF r, q, new
  <2>4. Len(r) \in Nat /\ DOMAIN r = 1..Len(r) /\ r \in Seq(Entry)
    BY <2>1, ListFacts DEF ListOK
  <2>5. /\ new \in Seq(Entry) /\ Len(new) = Len(r) + 1
        /\ new[Len(r) + 1] = q /\ \A k \in 1..Len(r) : new[k] = r[k]
    BY <2>2, <2>3, <2>4, AppendProperties
  <2>6. DOMAIN new = 1..(Len(r) + 1)
    BY <2>5, LenProperties
  <2>7. \A k \in 1..Len(r) : r[k].xuid # p
    BY <1>3, <2>1, <2>4 DEF Holds
  <2>8. \A k \in 1..(Len(r) + 1) : k = Len(r) + 1 \/ k \in 1..Len(r)
    BY <2>4
  <2>9. Once(new)
    <3> SUFFICES ASSUME NEW i \in 1..(Len(r) + 1), NEW j \in 1..(Len(r) + 1),
                        new[i].xuid = new[j].xuid
                 PROVE  i = j
      BY <2>6 DEF Once
    <3>1. CASE i \in 1..Len(r) /\ j \in 1..Len(r)
      BY <2>1, <2>4, <2>5, <3>1 DEF ListOK, Once
    <3>2. CASE i \in 1..Len(r) /\ j = Len(r) + 1
      BY <2>2, <2>5, <2>7, <3>2
    <3>3. CASE i = Len(r) + 1 /\ j \in 1..Len(r)
      BY <2>2, <2>5, <2>7, <3>3
    <3> QED
      BY <2>8, <3>1, <3>2, <3>3
  <2>10. ListOK(new)
    <3>1. \A k \in 1..(Len(r) + 1) : EntryOK(new[k])
      BY <2>1, <2>2, <2>4, <2>5, <2>8 DEF ListOK
    <3>2. Len(new) <= MaxEntries
      BY <2>1, <2>4, <2>5, SizeAssumption
    <3> QED
      BY <2>5, <2>6, <2>9, <3>1, <3>2 DEF ListOK
  <2>11. Len(r) + 1 \in DOMAIN new /\ \A k \in 1..Len(r) : k \in DOMAIN new
    BY <2>4, <2>6
  <2>12. Holds(new, p) /\ \A x : Holds(r, x) => Holds(new, x)
    <3>1. Holds(new, p)
      BY <2>2, <2>5, <2>11 DEF Holds
    <3>2. ASSUME NEW x, Holds(r, x)
          PROVE  Holds(new, x)
      <4>1. PICK k \in 1..Len(r) : r[k].xuid = x
        BY <2>4, <3>2 DEF Holds
      <4> QED
        BY <2>5, <2>11, <4>1 DEF Holds
    <3> QED
      BY <3>1, <3>2
  <2>13. \A k \in DOMAIN new :
           \/ new[k].xuid # p /\ \E i \in DOMAIN list : new[k] = list[i]
           \/ new[k] = q
    <3> SUFFICES ASSUME NEW k \in 1..(Len(r) + 1)
                 PROVE  \/ new[k].xuid # p /\ \E i \in DOMAIN list : new[k] = list[i]
                        \/ new[k] = q
      BY <2>6
    <3>1. CASE k \in 1..Len(r)
      <4>1. new[k] = r[k] /\ r[k].xuid # p /\ k \in DOMAIN r
        BY <2>4, <2>5, <2>7, <3>1
      <4> QED
        BY <2>1, <4>1
    <3>2. CASE k = Len(r) + 1
      BY <2>5, <3>2
    <3> QED
      BY <2>8, <3>1, <3>2
  <2> QED
    BY <1>3, <2>1, <2>10, <2>12, <2>13 DEF new, q
<1> QED
  BY <1>2, <1>3

-----------------------------------------------------------------------------
(* The addresses known of a player.                                          *)

\* What is known of the player of an entry, who was seen at the addresses of u while
\* listed (AddressesKept, of one entry; u only ever grows while the player stays).
KnownRight(e, u) ==
  /\ KnownOf(e) \subseteq u /\ IsFiniteSet(u)
  /\ Mangled \notin u /\ Cardinality(u) <= MaxAddresses => KnownOf(e) = u

\* A full history of whole addresses, and one more, are too many to be kept.
LEMMA FullHistory ==
  ASSUME NEW hist, HistOK(hist), Len(hist) = MaxAddresses,
         NEW c, c \notin Range(hist), NEW u, IsFiniteSet(u), Mangled \notin u,
         Range(hist) \cup {c} \subseteq u
  PROVE  Cardinality(u) > MaxAddresses
<1> DEFINE D == 1..Len(hist)
<1>1. Len(hist) \in Nat /\ DOMAIN hist = D /\ hist \in [D -> AnyAddr]
  BY LenProperties DEF HistOK
<1>2. IsFiniteSet(D) /\ Cardinality(D) = MaxAddresses
  BY <1>1, FS_Interval
<1> HIDE DEF D
<1>3. \A j \in D : hist[j] \in Range(hist) /\ hist[j] # Mangled
  BY <1>1 DEF Range
<1>4. \A j, k \in D : hist[j] = hist[k] => j = k
  BY <1>1, <1>3 DEF HistOK, OnceButCut
<1>5. Range(hist) \subseteq u /\ c \in u
  OBVIOUS
<1>6. IsFiniteSet(Range(hist)) /\ IsFiniteSet(Range(hist) \cup {c})
  BY <1>5, FS_Subset
<1>7. hist \in Injection(D, Range(hist))
  BY <1>1, <1>3, <1>4 DEF Injection, IsInjective
<1>8. MaxAddresses <= Cardinality(Range(hist))
  BY <1>2, <1>6, <1>7, FS_Injection
<1>9. Cardinality(Range(hist) \cup {c}) = Cardinality(Range(hist)) + 1
  BY <1>6, FS_AddElement
<1>10. Cardinality(Range(hist) \cup {c}) <= Cardinality(u)
  BY FS_Subset
<1>11. Cardinality(Range(hist)) \in Nat /\ Cardinality(u) \in Nat
  BY <1>6, FS_CardinalityType
<1> QED
  BY <1>8, <1>9, <1>10, <1>11, SizeAssumption

\* A player seen again at a has been seen at a as well, and what was known of them is
\* still known unless there was too much of it.
LEMMA RefreshedKnown ==
  ASSUME NEW e, EntryOK(e), NEW a \in MemberAddrs, NEW u, KnownRight(e, u)
  PROVE  KnownRight(Refreshed(e, a), u \cup ({a} \ {NoAddr}))
<1> DEFINE r == Refreshed(e, a)
           v == u \cup ({a} \ {NoAddr})
<1>1. /\ e \in Entry /\ HistOK(e.hist) /\ e.cur \in AnyAddr \cup {NoAddr}
      /\ e.hist \in Seq(AnyAddr)
  BY DEF EntryOK, Entry, HistOK
<1>2. Range(e.hist) \subseteq AnyAddr
  BY <1>1, LenProperties DEF Range
<1>3. NoAddr \notin AnyAddr /\ Mangled \notin MemberAddrs \ {NoAddr}
  BY NoneAssumption DEF AnyAddr, MemberAddrs
<1>4. KnownOf(e) = Range(e.hist) \cup ({e.cur} \ {NoAddr})
  BY <1>2, <1>3 DEF KnownOf
<1>5. /\ IsFiniteSet(u) /\ KnownOf(e) \subseteq u
      /\ IsFiniteSet({a} \ {NoAddr}) /\ IsFiniteSet(v)
  <2>1. IsFiniteSet({a})
    BY FS_Singleton
  <2>2. IsFiniteSet({a} \ {NoAddr})
    BY <2>1, FS_Subset
  <2> QED
    BY <2>2, FS_Union DEF KnownRight
<1>6. u \subseteq v /\ Cardinality(u) <= Cardinality(v) /\ Cardinality(u) \in Nat /\ Cardinality(v) \in Nat
  BY <1>5, FS_Subset, FS_CardinalityType
<1>7. Mangled \notin v => Mangled \notin u
  OBVIOUS
<1>8. Mangled \notin v /\ Cardinality(v) <= MaxAddresses => KnownOf(e) = u
  BY <1>6, <1>7, SizeAssumption DEF KnownRight
<1>9. CASE a = NoAddr
  <2>1. r.cur = e.cur /\ r.hist = e.hist
    BY <1>1, <1>9, RefreshedFields
  <2>2. KnownOf(r) = KnownOf(e) /\ v = u
    BY <1>9, <2>1 DEF KnownOf
  <2> QED
    BY <2>2 DEF KnownRight
<1>10. CASE a # NoAddr /\ e.cur \in {NoAddr, a}
  <2>1. r.cur = a /\ r.hist = e.hist
    BY <1>1, <1>10, RefreshedFields
  <2>2. KnownOf(r) = Range(e.hist) \cup {a} /\ v = u \cup {a}
    BY <1>2, <1>3, <1>10, <2>1 DEF KnownOf
  <2>3. KnownOf(r) = KnownOf(e) \cup {a}
    BY <1>4, <1>10, <2>2
  <2> HIDE DEF r, v
  <2> QED
    BY <1>5, <1>8, <2>2, <2>3 DEF KnownRight, r, v
<1>11. CASE a # NoAddr /\ e.cur \notin {NoAddr, a}
  <2>1. r.cur = a /\ r.hist = Pushed(e.hist, e.cur) /\ e.cur \in AnyAddr
    BY <1>1, <1>11, RefreshedFields
  <2>2. /\ HistOK(r.hist) /\ Range(r.hist) \subseteq Range(e.hist) \cup {e.cur}
        /\ \/ e.cur \notin Range(e.hist) /\ Len(e.hist) = MaxAddresses
           \/ Range(r.hist) = Range(e.hist) \cup {e.cur}
    BY <1>1, <2>1, PushedOK
  <2>3. KnownOf(e) = Range(e.hist) \cup {e.cur} /\ v = u \cup {a}
    BY <1>4, <1>11
  <2>4. KnownOf(r) = Range(r.hist) \cup {a}
    <3>1. NoAddr \notin Range(r.hist)
      BY <1>2, <1>3, <2>1, <2>2
    <3> QED
      BY <1>11, <2>1, <3>1 DEF KnownOf
  <2>5. KnownOf(r) \subseteq v
    BY <1>5, <2>2, <2>3, <2>4
  <2>6. ASSUME Mangled \notin v, Cardinality(v) <= MaxAddresses
        PROVE  KnownOf(r) = v
    <3>1. ~(e.cur \notin Range(e.hist) /\ Len(e.hist) = MaxAddresses)
      <4>1. Range(e.hist) \cup {e.cur} \subseteq v
        BY <1>5, <2>3
      <4> HIDE DEF v
      <4>2. Cardinality(v) \in Nat /\ ~(Cardinality(v) > MaxAddresses)
        BY <1>6, <2>6, SizeAssumption
      <4> QED
        BY <1>1, <1>5, <2>6, <4>1, <4>2, FullHistory
    <3>2. Range(r.hist) = Range(e.hist) \cup {e.cur}
      BY <2>2, <3>1
    <3>3. KnownOf(e) = u
      BY <1>8, <2>6
    <3> QED
      BY <2>3, <2>4, <3>2, <3>3
  <2> HIDE DEF r, v
  <2> QED
    BY <1>5, <2>5, <2>6 DEF KnownRight, r, v
<1> QED
  BY <1>9, <1>10, <1>11

-----------------------------------------------------------------------------
(* Time, the file and load.                                                  *)

\* Time changes ages only, and none of them to nothing.
LEMMA OlderOK ==
  ASSUME NEW list, ListOK(list)
  PROVE  /\ ListOK(Older(list)) /\ Len(Older(list)) = Len(list)
         /\ DOMAIN Older(list) = DOMAIN list
         /\ \A i \in DOMAIN list :
              LET e == Older(list)[i] IN
              /\ e.xuid = list[i].xuid /\ e.cur = list[i].cur
              /\ e.hist = list[i].hist /\ e.piped = list[i].piped
              /\ e.age = IF list[i].age < MaxAge THEN list[i].age + 1 ELSE list[i].age
              /\ e.age # 0
         /\ Ascending(list) => Ascending(Older(list))
<1> DEFINE new == Older(list)
           aged(n) == IF n < MaxAge THEN n + 1 ELSE n
<1>1. Len(list) \in Nat /\ DOMAIN list = 1..Len(list)
  BY ListFacts
<1>2. \A e \in Entry : /\ e.age \in 0..MaxAge /\ aged(e.age) \in 0..MaxAge
                       /\ aged(e.age) # 0 /\ e.hist \in Seq(AnyAddr)
                       /\ e.piped \in BOOLEAN /\ e.cur \in AnyAddr \cup {NoAddr}
  BY SizeAssumption DEF Entry
<1>3. \A i \in DOMAIN list :
        /\ list[i] \in Entry /\ EntryOK(list[i])
        /\ new[i] = [list[i] EXCEPT !.age = aged(@)]
  BY DEF ListOK, EntryOK, Older
<1> HIDE DEF aged
<1>4. \A e \in Entry : \A f : f = [e EXCEPT !.age = aged(@)] =>
        /\ f.xuid = e.xuid /\ f.cur = e.cur /\ f.hist = e.hist /\ f.piped = e.piped
        /\ f.age = aged(e.age) /\ f \in Entry
  BY <1>2 DEF Entry
<1>5. new = [i \in DOMAIN list |-> new[i]]
  BY DEF Older
<1> HIDE DEF new
<1>6. \A i \in DOMAIN list :
        /\ new[i].xuid = list[i].xuid /\ new[i].cur = list[i].cur
        /\ new[i].hist = list[i].hist /\ new[i].piped = list[i].piped
        /\ new[i].age = aged(list[i].age) /\ new[i].age # 0 /\ new[i] \in Entry
  <2> SUFFICES ASSUME NEW i \in DOMAIN list, NEW e, e = list[i], NEW f, f = new[i]
               PROVE  /\ f.xuid = e.xuid /\ f.cur = e.cur
                      /\ f.hist = e.hist /\ f.piped = e.piped
                      /\ f.age = aged(e.age) /\ f.age # 0 /\ f \in Entry
    OBVIOUS
  <2>1. e \in Entry /\ f = [e EXCEPT !.age = aged(@)]
    BY <1>3
  <2>2. aged(e.age) # 0
    BY <1>2, <2>1
  <2> QED
    BY <1>4, <2>1, <2>2, Zenon
<1>7. \A i \in DOMAIN list : EntryOK(new[i])
  BY <1>3, <1>6 DEF EntryOK
<1>8. ListOK(new) /\ Len(new) = Len(list) /\ DOMAIN new = DOMAIN list
  BY <1>5, <1>6, <1>7, MappedOK
<1>9. ASSUME Ascending(list) PROVE Ascending(new)
  <2> SUFFICES ASSUME NEW i \in DOMAIN list, NEW j \in DOMAIN list, i < j
               PROVE  new[i].age <= new[j].age
    BY <1>8 DEF Ascending
  <2>1. list[i].age <= list[j].age
    BY <1>9 DEF Ascending
  <2>2. list[i].age \in 0..MaxAge /\ list[j].age \in 0..MaxAge
    BY <1>2, <1>3
  <2> QED
    BY <1>6, <2>1, <2>2, SizeAssumption DEF aged
<1> QED
  BY <1>6, <1>8, <1>9 DEF new, aged

\* What load makes of a line is an entry of the same player.
LEMMA ReloadedOK ==
  ASSUME NEW e, EntryOK(e)
  PROVE  /\ EntryOK(Reloaded(e)) /\ Reloaded(e).xuid = e.xuid
         /\ e.age # 0 => Reloaded(e).age # 0
         /\ ~e.piped => Reloaded(e) = e
<1>1. /\ e \in Entry /\ HistOK(e.hist) /\ e.hist \in Seq(AnyAddr) /\ e.age \in 0..MaxAge
      /\ e.cur \in AnyAddr \cup {NoAddr} /\ e.piped \in BOOLEAN
  BY DEF EntryOK, Entry
<1>2. HistOK(<< >>)
  BY EmptySeq, SizeAssumption DEF HistOK, OnceButCut
<1>3. CASE ~e.piped
  <2>1. Reloaded(e) = [e EXCEPT !.piped = FALSE, !.age = e.age, !.cur = e.cur, !.hist = e.hist]
    BY <1>3 DEF Reloaded
  <2>2. Reloaded(e) = e
    BY <1>1, <1>3, <2>1 DEF Entry
  <2> QED
    BY <2>2
<1>4. CASE e.piped
  <2> DEFINE h == IF e.cur # NoAddr /\ e.hist # << >> THEN Tail(e.hist) ELSE << >>
  <2>1. Reloaded(e) = [e EXCEPT !.piped = FALSE, !.age = MaxAge, !.cur = NoAddr, !.hist = h]
    BY <1>4 DEF Reloaded
  <2>2. HistOK(h)
    BY <1>1, <1>2, TailOK
  <2> HIDE DEF h
  <2>3. h \in Seq(AnyAddr) /\ MaxAge \in 0..MaxAge /\ MaxAge # 0
    BY <2>2, SizeAssumption DEF HistOK
  <2>4. /\ Reloaded(e) \in Entry /\ Reloaded(e).hist = h
        /\ Reloaded(e).xuid = e.xuid /\ Reloaded(e).age = MaxAge
    BY <1>1, <2>1, <2>3 DEF Entry
  <2> QED
    BY <1>4, <2>2, <2>3, <2>4 DEF EntryOK
<1> QED
  BY <1>1, <1>3, <1>4

\* What load makes of a file is a list of the same players, those seen last first.
LEMMA LoadedOK ==
  ASSUME NEW lines, ListOK(lines)
  PROVE  /\ ListOK(Loaded(lines)) /\ Ascending(Loaded(lines))
         /\ (\A i \in DOMAIN lines : lines[i].age # 0)
              => \A i \in DOMAIN Loaded(lines) : Loaded(lines)[i].age # 0
         /\ (Ascending(lines) /\ \A i \in DOMAIN lines : ~lines[i].piped)
              => Loaded(lines) = lines
<1> DEFINE read == [i \in DOMAIN lines |-> Reloaded(lines[i])]
<1>1. \A i \in DOMAIN lines : EntryOK(lines[i])
  BY DEF ListOK
<1>2. \A i \in DOMAIN lines :
        /\ read[i] = Reloaded(lines[i]) /\ EntryOK(read[i]) /\ read[i].xuid = lines[i].xuid
        /\ (lines[i].age # 0 => read[i].age # 0) /\ (~lines[i].piped => read[i] = lines[i])
  BY <1>1, ReloadedOK
<1>3. read = [i \in DOMAIN lines |-> read[i]] /\ Loaded(lines) = Sorted(read)
  BY DEF Loaded
<1>4. lines = [i \in DOMAIN lines |-> lines[i]]
  <2>1. lines \in [1..Len(lines) -> Entry] /\ DOMAIN lines = 1..Len(lines)
    BY LenProperties DEF ListOK
  <2> QED
    BY <2>1
<1>5. (\A i \in DOMAIN lines : read[i] = lines[i]) => read = lines
  BY <1>4
<1> HIDE DEF read
<1>6. ListOK(read) /\ DOMAIN read = DOMAIN lines
  BY <1>2, <1>3, MappedOK
<1>7. /\ ListOK(Sorted(read)) /\ Ascending(Sorted(read))
      /\ DOMAIN Sorted(read) = DOMAIN read
      /\ \A k \in DOMAIN read : Sorted(read)[k] = read[Source(read, k)]
  BY <1>6, SortedOK
<1>8. \A k \in DOMAIN read : Source(read, k) \in DOMAIN read
  BY <1>6, SortPlaces
<1>9. ASSUME \A i \in DOMAIN lines : lines[i].age # 0
      PROVE  \A i \in DOMAIN Sorted(read) : Sorted(read)[i].age # 0
  BY <1>2, <1>6, <1>7, <1>8, <1>9
<1>10. ASSUME Ascending(lines), \A i \in DOMAIN lines : ~lines[i].piped
       PROVE  Sorted(read) = lines
  <2>1. read = lines
    BY <1>2, <1>5, <1>10
  <2> QED
    BY <1>10, <2>1, SortedFixed
<1> QED
  BY <1>3, <1>7, <1>9, <1>10

\* A line that was cut short is one of the same player, seen at the same time.
LEMMA CutLinesOK ==
  ASSUME NEW e, EntryOK(e), NEW l \in CutLines(e)
  PROVE  EntryOK(l) /\ l.xuid = e.xuid /\ l.age = e.age /\ l.piped = e.piped
<1> DEFINE Kept(k) == SubSeq(e.hist, 1, k)
<1>1. /\ e \in Entry /\ HistOK(e.hist) /\ e.hist \in Seq(AnyAddr)
      /\ Len(e.hist) \in Nat /\ Len(e.hist) <= MaxAddresses
  BY LenProperties DEF EntryOK, Entry, HistOK
<1>2. \A k \in 0..Len(e.hist) : HistOK(Kept(k)) /\ Len(Kept(k)) <= k
  <2>1. 1 \in 1..(Len(e.hist) + 1)
    BY <1>1
  <2> QED
    BY <1>1, <2>1, CutOK
<1>3. \A k \in 0..(Len(e.hist) - 1) : HistOK(Append(Kept(k), Mangled))
  <2> SUFFICES ASSUME NEW k \in 0..(Len(e.hist) - 1)
               PROVE  HistOK(Append(Kept(k), Mangled))
    OBVIOUS
  <2> DEFINE h == Kept(k)
  <2>1. k \in 0..Len(e.hist) /\ HistOK(h) /\ Len(h) <= k
    BY <1>1, <1>2
  <2> HIDE DEF h
  <2>2. h \in Seq(AnyAddr) /\ Len(h) \in Nat /\ OnceButCut(h) /\ Mangled \in AnyAddr
    BY <2>1, LenProperties DEF HistOK, AnyAddr
  <2>3. /\ Append(h, Mangled) \in Seq(AnyAddr) /\ OnceButCut(Append(h, Mangled))
        /\ Len(Append(h, Mangled)) = Len(h) + 1
    BY <2>2, AppendedOK
  <2>4. Len(Append(h, Mangled)) <= MaxAddresses
    BY <1>1, <2>1, <2>2, <2>3, SizeAssumption
  <2> QED
    BY <2>3, <2>4 DEF HistOK, h
<1>4. HistOK(<< >>) /\ Mangled \in AnyAddr \cup {NoAddr}
  BY EmptySeq, SizeAssumption DEF HistOK, OnceButCut, AnyAddr
<1>5. \/ l = [e EXCEPT !.cur = Mangled, !.hist = << >>]
      \/ \E h : HistOK(h) /\ l = [e EXCEPT !.hist = h]
  <2>1. \/ l = [e EXCEPT !.cur = Mangled, !.hist = << >>]
        \/ \E k \in 0..Len(e.hist) : l = [e EXCEPT !.hist = Kept(k)]
        \/ \E k \in 0..(Len(e.hist) - 1) : l = [e EXCEPT !.hist = Append(Kept(k), Mangled)]
    BY DEF CutLines
  <2> HIDE DEF Kept
  <2> QED
    BY <1>2, <1>3, <2>1
<1>6. CASE l = [e EXCEPT !.cur = Mangled, !.hist = << >>]
  BY <1>1, <1>4, <1>6 DEF EntryOK, Entry, HistOK
<1>7. CASE \E h : HistOK(h) /\ l = [e EXCEPT !.hist = h]
  BY <1>1, <1>7 DEF EntryOK, Entry, HistOK
<1> QED
  BY <1>5, <1>6, <1>7

-----------------------------------------------------------------------------
(* The inductive invariant.                                                  *)

\* The type of the state, with nobody twice in the list or in the file (OnceEach).
ShapeOK ==
  /\ lobby \in [1..Slots -> Members \cup {NoMember}]
  /\ ListOK(mem) /\ ListOK(file)
  /\ dirty \in BOOLEAN /\ writable \in BOOLEAN /\ cut \in BOOLEAN
  /\ scanDue \in BOOLEAN /\ saveDue \in BOOLEAN
  /\ pc \in {"idle", "scan", "open", "write"}
  /\ pos \in Nat \ {0}
  /\ scanned \in SUBSET Players
  /\ used \in [Players -> SUBSET AnyAddr]

\* A scan has seen no more players than slots, and those it has seen are the entries
\* seen just now: time has passed since the scan before it.
ScanOK ==
  /\ pc # "scan" => scanned = {}
  /\ pc = "scan" => /\ ~scanDue /\ pos <= Slots + 1
                    /\ IsFiniteSet(scanned) /\ Cardinality(scanned) < pos
                    /\ \A i \in DOMAIN mem : mem[i].age = 0 <=> mem[i].xuid \in scanned
  /\ scanDue => pc = "idle" /\ \A i \in DOMAIN mem : mem[i].age # 0
  /\ ScannedStay

\* What is written is the list as the scan has sorted it, line by line until a write
\* fails; on disk, too, those seen last come first, wherever a failure or a crash ended
\* the save.
SaveOK ==
  /\ Ascending(file)
  /\ pc \in {"open", "write"} => dirty /\ Ascending(mem)
  /\ pc = "open" => pos = 1
  /\ pc = "write" => /\ pos <= Len(mem) + 1
                     /\ ~cut => Len(file) = pos - 1 /\ \A i \in 1..(pos - 1) : file[i] = mem[i]
                     /\ cut => Begins(file, mem)

\* What is known of the listed players' addresses.
KnownOK == \A i \in DOMAIN mem : KnownRight(mem[i], used[mem[i].xuid])

RecentsInv == ShapeOK /\ ScanOK /\ SaveOK /\ KnownOK

LEMMA InvInit == Init => RecentsInv
<1> SUFFICES ASSUME Init PROVE RecentsInv
  OBVIOUS
<1>1. ListOK(<< >>) /\ Ascending(<< >>) /\ DOMAIN << >> = {}
  BY EmptyListOK, EmptySeq
<1>2. ShapeOK
  <2>1. ListOK(mem) /\ ListOK(file)
    BY <1>1 DEF Init
  <2>2. used \in [Players -> SUBSET AnyAddr]
    BY DEF Init
  <2>3. lobby \in [1..Slots -> Members \cup {NoMember}]
    BY DEF Init, EmptyLobby
  <2>4. pos \in Nat \ {0} /\ scanned \in SUBSET Players /\ pc \in {"idle", "scan", "open", "write"}
    BY DEF Init
  <2>5. /\ dirty \in BOOLEAN /\ writable \in BOOLEAN /\ cut \in BOOLEAN
        /\ scanDue \in BOOLEAN /\ saveDue \in BOOLEAN
    BY DEF Init
  <2> QED
    BY <2>1, <2>2, <2>3, <2>4, <2>5 DEF ShapeOK
<1>3. ScanOK
  BY <1>1 DEF Init, ScanOK, ScannedStay
<1>4. SaveOK /\ KnownOK
  BY <1>1 DEF Init, SaveOK, KnownOK
<1> QED
  BY <1>2, <1>3, <1>4 DEF RecentsInv

\* The steps that leave the list and the file alone.
LEMMA InvAround ==
  ASSUME RecentsInv,
         \/ \E s \in 1..Slots, m \in Members \cup {NoMember} : LobbyChanges(s, m)
         \/ DiskChanges \/ SaveFallsDue \/ ScanStarts \/ ScanSkips
         \/ SaveFails \/ SaveCloses \/ UNCHANGED vars
  PROVE  RecentsInv'
<1> USE DEF RecentsInv
<1>1. ASSUME UNCHANGED <<mem, file, used>>, ShapeOK', ScanOK', SaveOK'
      PROVE  RecentsInv'
  BY <1>1 DEF KnownOK
<1>2. CASE \E s \in 1..Slots, m \in Members \cup {NoMember} : LobbyChanges(s, m)
  BY <1>1, <1>2 DEF LobbyChanges, ShapeOK, ScanOK, ScannedStay, SaveOK
<1>3. CASE DiskChanges
  BY <1>1, <1>3 DEF DiskChanges, ShapeOK, ScanOK, ScannedStay, SaveOK
<1>4. CASE SaveFallsDue
  BY <1>1, <1>4 DEF SaveFallsDue, ShapeOK, ScanOK, ScannedStay, SaveOK
<1>5. CASE ScanStarts
  <2>1. IsFiniteSet({}) /\ Cardinality({}) = 0
    BY FS_EmptySet
  <2>2. ShapeOK' /\ SaveOK'
    <3>1. ShapeOK'
      <4>1. pos' \in Nat \ {0} /\ scanned' \in SUBSET Players /\ pc' \in {"idle", "scan", "open", "write"}
        BY <1>5 DEF ScanStarts
      <4>2. /\ dirty' \in BOOLEAN /\ writable' \in BOOLEAN /\ cut' \in BOOLEAN
            /\ scanDue' \in BOOLEAN /\ saveDue' \in BOOLEAN
        BY <1>5 DEF ScanStarts, ShapeOK
      <4> QED
        BY <1>5, <4>1, <4>2 DEF ScanStarts, ShapeOK
    <3>2. SaveOK'
      BY <1>5 DEF ScanStarts, SaveOK
    <3> QED
      BY <3>1, <3>2
  <2>3. ScanOK'
    BY <1>5, <2>1, SizeAssumption DEF ScanStarts, ScanOK, ScannedStay
  <2> QED
    BY <1>1, <1>5, <2>2, <2>3 DEF ScanStarts
<1>6. CASE ScanSkips
  <2>1. IsFiniteSet(scanned) /\ Cardinality(scanned) \in Nat /\ pos \in Nat \ {0}
    BY <1>6, FS_CardinalityType DEF ScanSkips, ScanOK, ShapeOK
  <2>2. ShapeOK' /\ SaveOK'
    BY <1>6 DEF ScanSkips, ShapeOK, SaveOK
  <2>3. ScanOK'
    BY <1>6, <2>1, SizeAssumption DEF ScanSkips, ScanOK, ScannedStay
  <2> QED
    BY <1>1, <1>6, <2>2, <2>3 DEF ScanSkips
<1>7. CASE SaveFails
  BY <1>1, <1>7 DEF SaveFails, ShapeOK, ScanOK, ScannedStay, SaveOK
<1>8. CASE SaveCloses
  <2>1. pos' \in Nat \ {0} /\ pc' \in {"idle", "scan", "open", "write"}
    BY <1>8 DEF SaveCloses
  <2>2. /\ dirty' \in BOOLEAN /\ writable' \in BOOLEAN /\ cut' \in BOOLEAN
        /\ scanDue' \in BOOLEAN /\ saveDue' \in BOOLEAN
    BY <1>8 DEF SaveCloses, ShapeOK
  <2>3. ShapeOK'
    BY <1>8, <2>1, <2>2 DEF SaveCloses, ShapeOK
  <2>4. ScanOK' /\ SaveOK'
    BY <1>8 DEF SaveCloses, ScanOK, ScannedStay, SaveOK
  <2> QED
    BY <1>1, <1>8, <2>3, <2>4 DEF SaveCloses
<1>9. CASE UNCHANGED vars
  BY <1>1, <1>9 DEF vars, ShapeOK, ScanOK, ScannedStay, SaveOK
<1> QED
  BY <1>2, <1>3, <1>4, <1>5, <1>6, <1>7, <1>8, <1>9

\* Two seconds pass.
LEMMA InvTime ==
  ASSUME RecentsInv, TimePasses
  PROVE  RecentsInv'
<1> USE DEF RecentsInv
<1>1. /\ mem' = Older(mem) /\ file' = Older(file) /\ pc = "idle" /\ scanDue' = TRUE
      /\ UNCHANGED <<lobby, dirty, writable, cut, pc, pos, saveDue, scanned, used>>
  BY DEF TimePasses
<1>2. ListOK(mem) /\ ListOK(file) /\ Ascending(file) /\ scanned = {}
  BY <1>1 DEF ShapeOK, SaveOK, ScanOK
<1>3. /\ ListOK(mem') /\ DOMAIN mem' = DOMAIN mem
      /\ \A i \in DOMAIN mem : /\ mem'[i].xuid = mem[i].xuid /\ mem'[i].cur = mem[i].cur
                               /\ mem'[i].hist = mem[i].hist /\ mem'[i].age # 0
  BY <1>1, <1>2, OlderOK
<1>4. ListOK(file') /\ Ascending(file')
  BY <1>1, <1>2, OlderOK
<1>5. ShapeOK' /\ ScanOK' /\ SaveOK'
  BY <1>1, <1>2, <1>3, <1>4 DEF ShapeOK, ScanOK, ScannedStay, SaveOK
<1>6. KnownOK'
  BY <1>1, <1>3 DEF KnownOK, KnownRight, KnownOf
<1> QED
  BY <1>5, <1>6

\* What ScanSees does to the list, with the member of the slot taken out.
LEMMA SeenMember ==
  ASSUME RecentsInv, ScanSees
  PROVE  /\ lobby[pos].who \in Players /\ lobby[pos].addr \in MemberAddrs
         /\ pc = "scan" /\ pos \in 1..Slots
<1>1. lobby \in [1..Slots -> Members \cup {NoMember}] /\ pos \in Nat \ {0} /\ pos <= Slots
  BY DEF RecentsInv, ShapeOK, ScanSees
<1>2. pos \in 1..Slots /\ lobby[pos] \in Members \cup {NoMember} /\ lobby[pos].who # Nobody
  BY <1>1, SizeAssumption DEF ScanSees
<1>3. lobby[pos] \in Members
  BY <1>2 DEF NoMember
<1> QED
  BY <1>2, <1>3 DEF Members, MemberAddrs, ScanSees

\* A player this scan has seen is not given up: whoever is given up was seen no later
\* than anyone in a full list, so everyone in it would have been seen by this scan,
\* which has seen fewer than there are slots.
LEMMA SeenAreKept ==
  ASSUME RecentsInv, ScanSees, NEW q \in scanned
  PROVE  Holds(mem', q)
<1> DEFINE p == lobby[pos].who
           a == lobby[pos].addr
<1>1. p \in Players /\ a \in MemberAddrs /\ pc = "scan" /\ pos \in 1..Slots
  BY SeenMember
<1>2. mem' = Upserted(mem, p, a) /\ ListOK(mem)
  BY DEF ScanSees, RecentsInv, ShapeOK
<1> HIDE DEF p, a
<1>3. /\ IsFiniteSet(scanned) /\ Cardinality(scanned) < pos
      /\ \A i \in DOMAIN mem : mem[i].age = 0 <=> mem[i].xuid \in scanned
  BY <1>1 DEF RecentsInv, ScanOK
<1>4. PICK i \in DOMAIN mem : mem[i].xuid = q
  BY DEF RecentsInv, ScanOK, ScannedStay, Holds
<1>5. SUFFICES ASSUME ~Holds(mem', mem[i].xuid)
               PROVE  FALSE
  BY <1>4
<1>6. Len(mem) = MaxEntries /\ \A j \in DOMAIN mem : mem[j].age <= mem[i].age
  BY <1>1, <1>2, <1>5, UpsertedOK
<1>7. DOMAIN mem = 1..MaxEntries /\ \A j \in DOMAIN mem : mem[j].age \in Nat
  BY <1>2, <1>6, ListFacts
<1>8. \A j \in DOMAIN mem : mem[j].xuid \in scanned
  <2>1. mem[i].age = 0
    BY <1>3, <1>4
  <2> QED
    BY <1>3, <1>6, <1>7, <2>1
<1> DEFINE f == [j \in 1..MaxEntries |-> mem[j].xuid]
<1>9. f \in Injection(1..MaxEntries, scanned)
  BY <1>2, <1>7, <1>8 DEF Injection, IsInjective, ListOK, Once
<1>10. Cardinality(1..MaxEntries) <= Cardinality(scanned)
  BY <1>3, <1>9, FS_Injection
<1>11. Cardinality(1..MaxEntries) = MaxEntries /\ Cardinality(scanned) \in Nat
  BY <1>3, FS_Interval, FS_CardinalityType, SizeAssumption
<1> QED
  BY <1>1, <1>3, <1>10, <1>11, SizeAssumption

LEMMA InvSees ==
  ASSUME RecentsInv, ScanSees
  PROVE  RecentsInv'
<1> DEFINE p == lobby[pos].who
           a == lobby[pos].addr
<1>1. p \in Players /\ a \in MemberAddrs /\ pc = "scan" /\ pos \in 1..Slots
  BY SeenMember
<1>2. /\ mem' = Upserted(mem, p, a) /\ dirty' = TRUE /\ pos' = pos + 1
      /\ scanned' = scanned \cup {p}
      /\ used' = [used EXCEPT ![p] = (IF Holds(mem, p) THEN @ ELSE {}) \cup ({a} \ {NoAddr})]
      /\ UNCHANGED <<lobby, file, writable, cut, pc, scanDue, saveDue>>
  BY DEF ScanSees
<1>3. \A q \in scanned : Holds(mem', q)
  BY SeenAreKept
<1> HIDE DEF p, a
<1>4. ListOK(mem) /\ used \in [Players -> SUBSET AnyAddr]
  BY DEF RecentsInv, ShapeOK
<1>5. /\ ListOK(mem') /\ Holds(mem', p)
      /\ \A k \in DOMAIN mem' :
           \/ mem'[k].xuid # p /\ \E i \in DOMAIN mem : mem'[k] = mem[i]
           \/ \E i \in DOMAIN mem : mem[i].xuid = p /\ mem'[k] = Refreshed(mem[i], a)
           \/ mem'[k] = NewEntry(p, a) /\ ~Holds(mem, p)
  BY <1>1, <1>2, <1>4, UpsertedOK
<1>6. \A i \in DOMAIN mem : /\ EntryOK(mem[i]) /\ Refreshed(mem[i], a).xuid = mem[i].xuid
                            /\ Refreshed(mem[i], a).age = 0
  BY <1>1, <1>4, RefreshedFields DEF ListOK, EntryOK
<1>7. NewEntry(p, a).xuid = p /\ NewEntry(p, a).age = 0
  BY DEF NewEntry
<1>8. ShapeOK'
  <2>1. {a} \ {NoAddr} \subseteq AnyAddr
    BY <1>1 DEF MemberAddrs, AnyAddr
  <2>2. used' \in [Players -> SUBSET AnyAddr]
    BY <1>1, <1>2, <1>4, <2>1
  <2>3. pos' \in Nat \ {0} /\ scanned' \in SUBSET Players
    BY <1>1, <1>2 DEF RecentsInv, ShapeOK
  <2>4. dirty' \in BOOLEAN
    BY <1>2
  <2> QED
    BY <1>2, <1>5, <2>2, <2>3, <2>4 DEF RecentsInv, ShapeOK
<1>9. ScanOK'
  <2>1. /\ ~scanDue /\ IsFiniteSet(scanned) /\ Cardinality(scanned) < pos
        /\ \A i \in DOMAIN mem : mem[i].age = 0 <=> mem[i].xuid \in scanned
    BY <1>1 DEF RecentsInv, ScanOK
  <2>2. IsFiniteSet(scanned') /\ Cardinality(scanned') < pos'
    <3>1. Cardinality(scanned) \in Nat
      BY <2>1, FS_CardinalityType
    <3>2. IsFiniteSet(scanned \cup {p})
      BY <2>1, FS_AddElement
    <3>3. Cardinality(scanned \cup {p}) <= Cardinality(scanned) + 1
      BY <2>1, <3>1, FS_AddElement
    <3>4. Cardinality(scanned \cup {p}) \in Nat
      BY <3>2, FS_CardinalityType
    <3> QED
      BY <1>1, <1>2, <2>1, <3>1, <3>2, <3>3, <3>4
  <2>3. \A k \in DOMAIN mem' : mem'[k].age = 0 <=> mem'[k].xuid \in scanned'
    <3> SUFFICES ASSUME NEW k \in DOMAIN mem'
                 PROVE  mem'[k].age = 0 <=> mem'[k].xuid \in scanned \cup {p}
      BY <1>2
    <3>1. CASE mem'[k].xuid # p /\ \E i \in DOMAIN mem : mem'[k] = mem[i]
      BY <2>1, <3>1
    <3>2. CASE \E i \in DOMAIN mem : mem[i].xuid = p /\ mem'[k] = Refreshed(mem[i], a)
      BY <1>6, <3>2
    <3>3. CASE mem'[k] = NewEntry(p, a)
      BY <1>7, <3>3
    <3> QED
      BY <1>5, <3>1, <3>2, <3>3
  <2>4. ScannedStay'
    BY <1>2, <1>3, <1>5 DEF ScannedStay, Holds
  <2>5. pos' <= Slots + 1 /\ pc' = "scan" /\ ~scanDue'
    BY <1>1, <1>2, <2>1, SizeAssumption
  <2> QED
    BY <2>2, <2>3, <2>4, <2>5 DEF ScanOK
<1>10. SaveOK'
  BY <1>1, <1>2 DEF RecentsInv, SaveOK
<1>11. KnownOK'
  <2>1. \A i \in DOMAIN mem : KnownRight(mem[i], used[mem[i].xuid])
    BY DEF RecentsInv, KnownOK
  <2>2. used'[p] = (IF Holds(mem, p) THEN used[p] ELSE {}) \cup ({a} \ {NoAddr})
    BY <1>1, <1>2, <1>4
  <2>3. \A q \in Players : q # p => used'[q] = used[q]
    BY <1>1, <1>2, <1>4
  <2> SUFFICES ASSUME NEW k \in DOMAIN mem'
               PROVE  KnownRight(mem'[k], used'[mem'[k].xuid])
    BY DEF KnownOK
  <2>4. CASE mem'[k].xuid # p /\ \E i \in DOMAIN mem : mem'[k] = mem[i]
    <3>1. PICK i \in DOMAIN mem : mem'[k] = mem[i] /\ mem[i].xuid # p
      BY <2>4
    <3>2. mem[i].xuid \in Players
      BY <1>4, ListFacts
    <3> QED
      BY <2>1, <2>3, <3>1, <3>2
  <2>5. CASE \E i \in DOMAIN mem : mem[i].xuid = p /\ mem'[k] = Refreshed(mem[i], a)
    <3>1. PICK i \in DOMAIN mem : mem[i].xuid = p /\ mem'[k] = Refreshed(mem[i], a)
      BY <2>5
    <3>2. KnownRight(mem[i], used[p]) /\ Holds(mem, p)
      BY <2>1, <3>1 DEF Holds
    <3>3. KnownRight(mem'[k], used[p] \cup ({a} \ {NoAddr}))
      BY <1>1, <1>6, <3>1, <3>2, RefreshedKnown
    <3>4. mem'[k].xuid = p
      BY <1>6, <3>1
    <3> QED
      BY <2>2, <3>2, <3>3, <3>4
  <2>6. CASE mem'[k] = NewEntry(p, a) /\ ~Holds(mem, p)
    <3>1. used'[p] = {a} \ {NoAddr}
      BY <2>2, <2>6
    <3>2. KnownOf(mem'[k]) = {a} \ {NoAddr}
      BY <1>1, <2>6, NewEntryOK
    <3>3. IsFiniteSet({a} \ {NoAddr})
      BY FS_Singleton, FS_Subset
    <3> QED
      BY <1>7, <2>6, <3>1, <3>2, <3>3 DEF KnownRight
  <2> QED
    BY <1>5, <2>4, <2>5, <2>6
<1> QED
  BY <1>8, <1>9, <1>10, <1>11 DEF RecentsInv

\* The scan is done and the list sorted.
LEMMA InvEnds ==
  ASSUME RecentsInv, ScanEnds
  PROVE  RecentsInv'
<1>1. /\ mem' = Sorted(mem) /\ pc' = (IF dirty /\ saveDue THEN "open" ELSE "idle")
      /\ pos' = 1 /\ scanned' = {} /\ pc = "scan"
      /\ UNCHANGED <<lobby, dirty, file, writable, cut, scanDue, saveDue, used>>
  BY DEF ScanEnds
<1>2. ListOK(mem) /\ scanDue = FALSE
  BY <1>1 DEF RecentsInv, ShapeOK, ScanOK
<1>3. /\ ListOK(mem') /\ Ascending(mem') /\ DOMAIN mem' = DOMAIN mem
      /\ \A k \in DOMAIN mem : mem'[k] = mem[Source(mem, k)]
  BY <1>1, <1>2, SortedOK
<1>4. \A k \in DOMAIN mem : Source(mem, k) \in DOMAIN mem
  BY <1>2, SortPlaces
<1>5. ShapeOK'
  <2>1. pos' \in Nat \ {0} /\ scanned' \in SUBSET Players /\ pc' \in {"idle", "scan", "open", "write"}
    BY <1>1
  <2> QED
    BY <1>1, <1>3, <2>1 DEF RecentsInv, ShapeOK
<1>6. ScanOK'
  BY <1>1, <1>2 DEF ScanOK, ScannedStay
<1>7. SaveOK'
  BY <1>1, <1>3 DEF RecentsInv, SaveOK
<1>8. KnownOK'
  BY <1>1, <1>3, <1>4 DEF RecentsInv, KnownOK
<1> QED
  BY <1>5, <1>6, <1>7, <1>8 DEF RecentsInv

-----------------------------------------------------------------------------
(* The file.                                                                 *)

\* A line of the entry being written, whole or cut short, goes on with the file.
LEMMA LineOK ==
  ASSUME RecentsInv, pc = "write", ~cut, pos <= Len(mem),
         NEW l, EntryOK(l), l.xuid = mem[pos].xuid, l.age = mem[pos].age
  PROVE  /\ ListOK(Append(file, l)) /\ Ascending(Append(file, l))
         /\ Len(Append(file, l)) = pos /\ Append(file, l)[pos] = l
         /\ \A i \in 1..(pos - 1) : Append(file, l)[i] = mem[i]
         /\ \A i \in DOMAIN Append(file, l) : i = pos \/ i \in DOMAIN file
         /\ \A i \in DOMAIN file : Append(file, l)[i] = file[i]
<1> DEFINE new == Append(file, l)
<1>1. /\ ListOK(mem) /\ ListOK(file) /\ Ascending(mem) /\ pos \in Nat \ {0}
      /\ Len(file) = pos - 1 /\ \A i \in 1..(pos - 1) : file[i] = mem[i]
  BY DEF RecentsInv, ShapeOK, SaveOK
<1>2. Len(mem) \in Nat /\ DOMAIN mem = 1..Len(mem) /\ Len(mem) <= MaxEntries
  BY <1>1, ListFacts DEF ListOK
<1>3. DOMAIN file = 1..(pos - 1) /\ file \in Seq(Entry)
  BY <1>1, ListFacts DEF ListOK
<1>4. l \in Entry
  BY DEF EntryOK
<1>5. /\ new \in Seq(Entry) /\ Len(new) = pos /\ new[pos] = l
      /\ \A i \in 1..(pos - 1) : new[i] = file[i]
  <2>1. /\ new \in Seq(Entry) /\ Len(new) = Len(file) + 1 /\ new[Len(file) + 1] = l
        /\ \A i \in 1..Len(file) : new[i] = file[i]
    BY <1>3, <1>4, AppendProperties
  <2>2. Len(file) + 1 = pos
    BY <1>1
  <2> HIDE DEF new
  <2> QED
    BY <1>1, <2>1, <2>2
<1>6. DOMAIN new = 1..pos
  BY <1>5, LenProperties
<1> HIDE DEF new
<1>7. \A i \in 1..pos : i = pos \/ i \in 1..(pos - 1)
  BY <1>1
<1>8. \A i \in 1..pos : i \in DOMAIN mem /\ new[i].xuid = mem[i].xuid /\ new[i].age = mem[i].age
  BY <1>1, <1>2, <1>5, <1>7
<1>9. Once(new) /\ Ascending(new)
  BY <1>1, <1>6, <1>8 DEF ListOK, Once, Ascending
<1>10. \A i \in 1..pos : EntryOK(new[i])
  BY <1>1, <1>3, <1>5, <1>7 DEF ListOK
<1>11. ListOK(new)
  BY <1>1, <1>2, <1>5, <1>6, <1>9, <1>10, SizeAssumption DEF ListOK
<1> QED
  BY <1>1, <1>3, <1>5, <1>6, <1>7, <1>9, <1>11 DEF new

\* What is left of a write that was cut short is the beginning of the list.
LEMMA LeftBegins ==
  ASSUME RecentsInv, pc = "write", ~cut, pos <= Len(mem), NEW left \in LeftOver
  PROVE  ListOK(left) /\ Ascending(left) /\ Begins(left, mem)
<1>1. /\ ListOK(mem) /\ ListOK(file) /\ Ascending(file) /\ pos \in Nat \ {0}
      /\ Len(file) = pos - 1 /\ \A i \in 1..(pos - 1) : file[i] = mem[i]
  BY DEF RecentsInv, ShapeOK, SaveOK
<1>2. Len(mem) \in Nat /\ pos \in DOMAIN mem /\ EntryOK(mem[pos]) /\ DOMAIN file = 1..(pos - 1)
  BY <1>1, ListFacts
<1>3. CASE left = file
  <2>1. Begins(file, mem)
    BY <1>1, <1>2 DEF Begins
  <2> QED
    BY <1>1, <1>3, <2>1
<1>4. CASE \E l \in CutLines(mem[pos]) : left = Append(file, l)
  <2>1. PICK l \in CutLines(mem[pos]) : left = Append(file, l)
    BY <1>4
  <2>2. EntryOK(l) /\ l.xuid = mem[pos].xuid /\ l.age = mem[pos].age
    BY <1>2, CutLinesOK
  <2>3. /\ ListOK(left) /\ Ascending(left) /\ Len(left) = pos /\ left[pos] = l
        /\ \A i \in 1..(pos - 1) : left[i] = mem[i]
    BY <2>1, <2>2, LineOK
  <2>4. DOMAIN left = 1..pos /\ \A i \in 1..pos : i = pos \/ i \in 1..(pos - 1)
    BY <1>1, <2>3, ListFacts
  <2>5. Begins(left, mem)
    BY <2>1, <2>3, <2>4 DEF Begins
  <2> QED
    BY <2>3, <2>5
<1> QED
  BY <1>3, <1>4 DEF LeftOver

LEMMA InvSave ==
  ASSUME RecentsInv, SaveOpens \/ SaveWrites \/ WriteFails
  PROVE  RecentsInv'
<1>1. CASE SaveOpens
  <2>1. /\ file' = << >> /\ cut' = FALSE /\ pc = "open" /\ pc' = "write"
        /\ UNCHANGED <<lobby, mem, dirty, writable, pos, scanDue, saveDue, scanned, used>>
    BY <1>1 DEF SaveOpens
  <2>2. ListOK(file') /\ Ascending(file') /\ Len(file') = 0
    BY <2>1, EmptyListOK, EmptySeq
  <2>3. ListOK(mem) /\ pos = 1 /\ dirty /\ Ascending(mem)
    BY <2>1 DEF RecentsInv, ShapeOK, SaveOK
  <2>4. ShapeOK' /\ ScanOK' /\ KnownOK'
    BY <2>1, <2>2 DEF RecentsInv, ShapeOK, ScanOK, ScannedStay, KnownOK
  <2>5. Len(mem) \in Nat
    BY <2>3, ListFacts
  <2>6. SaveOK'
    BY <2>1, <2>2, <2>3, <2>5 DEF SaveOK
  <2> QED
    BY <2>4, <2>6 DEF RecentsInv
<1>2. CASE SaveWrites
  <2>1. /\ file' = Append(file, mem[pos]) /\ pos' = pos + 1
        /\ pc = "write" /\ ~cut /\ pos <= Len(mem)
        /\ UNCHANGED <<lobby, mem, dirty, writable, cut, pc, scanDue, saveDue, scanned, used>>
    BY <1>2 DEF SaveWrites
  <2>2. ListOK(mem) /\ pos \in Nat \ {0}
    BY DEF RecentsInv, ShapeOK
  <2>3. Len(mem) \in Nat /\ EntryOK(mem[pos])
    BY <2>1, <2>2, ListFacts
  <2>4. /\ ListOK(file') /\ Ascending(file') /\ Len(file') = pos /\ file'[pos] = mem[pos]
        /\ \A i \in 1..(pos - 1) : file'[i] = mem[i]
    BY <2>1, <2>3, LineOK
  <2>5. ShapeOK' /\ ScanOK' /\ KnownOK'
    <3>1. pos' \in Nat \ {0}
      BY <2>1, <2>2
    <3> QED
      BY <2>1, <2>4, <3>1 DEF RecentsInv, ShapeOK, ScanOK, ScannedStay, KnownOK
  <2>6. pos' - 1 = pos /\ pos' <= Len(mem) + 1 /\ \A i \in 1..pos : i = pos \/ i \in 1..(pos - 1)
    BY <2>1, <2>2, <2>3
  <2>7. \A i \in 1..(pos' - 1) : file'[i] = mem[i]
    BY <2>4, <2>6
  <2>8. SaveOK'
    BY <2>1, <2>4, <2>6, <2>7 DEF RecentsInv, SaveOK
  <2> QED
    BY <2>5, <2>8 DEF RecentsInv
<1>3. CASE WriteFails
  <2>1. /\ file' \in LeftOver /\ cut' = TRUE /\ pc = "write" /\ ~cut /\ pos <= Len(mem)
        /\ UNCHANGED <<lobby, mem, dirty, writable, pc, pos, scanDue, saveDue, scanned, used>>
    BY <1>3 DEF WriteFails
  <2>2. ListOK(file') /\ Ascending(file') /\ Begins(file', mem)
    BY <2>1, LeftBegins
  <2>3. ShapeOK' /\ ScanOK' /\ KnownOK'
    BY <2>1, <2>2 DEF RecentsInv, ShapeOK, ScanOK, ScannedStay, KnownOK
  <2>4. SaveOK'
    BY <2>1, <2>2 DEF RecentsInv, SaveOK
  <2> QED
    BY <2>3, <2>4 DEF RecentsInv
<1> QED
  BY <1>1, <1>2, <1>3

\* The addresses of an entry are finitely many.
LEMMA KnownFinite ==
  ASSUME NEW e, EntryOK(e)
  PROVE  IsFiniteSet(KnownOf(e))
<1>1. e.hist \in Seq(AnyAddr)
  BY DEF EntryOK, HistOK
<1> DEFINE n == Len(e.hist)
           h == e.hist
<1>2. n \in Nat /\ DOMAIN h = 1..n /\ h \in [1..n -> AnyAddr]
  BY <1>1, LenProperties
<1> HIDE DEF n, h
<1>3. h \in Surjection(1..n, Range(h)) /\ IsFiniteSet(1..n)
  BY <1>2, FS_Interval DEF Surjection, Range
<1>4. IsFiniteSet(Range(h))
  BY <1>3, FS_Surjection
<1>5. IsFiniteSet(Range(h) \cup {e.cur})
  BY <1>4, FS_AddElement
<1> QED
  BY <1>5, FS_Subset DEF KnownOf, h

\* What a crash leaves is read back as a list of whole lines, each player once.
LEMMA InvRestarts ==
  ASSUME RecentsInv, Restarts
  PROVE  RecentsInv'
<1>1. \E left : ListOK(left) /\ Ascending(left) /\ file' = Older(left)
  <2>1. PICK left \in {file} \cup IF pc = "write" /\ ~cut /\ pos <= Len(mem) THEN LeftOver ELSE {} :
             file' = Older(left)
    BY DEF Restarts
  <2>2. CASE left = file
    BY <2>1, <2>2 DEF RecentsInv, ShapeOK, SaveOK
  <2>3. CASE pc = "write" /\ ~cut /\ pos <= Len(mem) /\ left \in LeftOver
    BY <2>1, <2>3, LeftBegins
  <2> QED
    BY <2>1, <2>2, <2>3
<1>2. PICK left : ListOK(left) /\ Ascending(left) /\ file' = Older(left)
  BY <1>1
<1>3. /\ ListOK(file') /\ Ascending(file')
      /\ DOMAIN file' = DOMAIN left /\ \A i \in DOMAIN left : file'[i].age # 0
  BY <1>2, OlderOK
<1>4. /\ mem' = Loaded(file') /\ dirty' = FALSE /\ cut' = FALSE /\ pc' = "idle" /\ pos' = 1
      /\ scanDue' = TRUE /\ saveDue' = TRUE /\ scanned' = {} /\ writable' = writable
      /\ lobby' = EmptyLobby
      /\ used' = [p \in Players |->
                    UNION {(Range(mem'[i].hist) \cup {mem'[i].cur}) \ {NoAddr} :
                             i \in {j \in DOMAIN mem' : mem'[j].xuid = p}}]
  BY DEF Restarts
<1>5. ListOK(mem') /\ \A i \in DOMAIN mem' : mem'[i].age # 0
  BY <1>3, <1>4, LoadedOK
<1>6. /\ \A i \in DOMAIN mem' : /\ EntryOK(mem'[i]) /\ mem'[i].xuid \in Players
                                /\ KnownOf(mem'[i]) \subseteq AnyAddr
      /\ Once(mem')
  <2>1. \A i \in DOMAIN mem' : EntryOK(mem'[i]) /\ mem'[i].xuid \in Players
    BY <1>5, ListFacts
  <2>2. ASSUME NEW e, EntryOK(e) PROVE KnownOf(e) \subseteq AnyAddr
    <3>1. e.hist \in Seq(AnyAddr) /\ e.cur \in AnyAddr \cup {NoAddr}
      BY <2>2 DEF EntryOK, HistOK, Entry
    <3>2. Range(e.hist) \subseteq AnyAddr
      BY <3>1, LenProperties DEF Range
    <3> QED
      BY <3>1, <3>2 DEF KnownOf
  <2> QED
    BY <1>5, <2>1, <2>2 DEF ListOK
<1>7. \A p \in Players : used'[p] = UNION {KnownOf(mem'[i]) : i \in {j \in DOMAIN mem' : mem'[j].xuid = p}}
  BY <1>4 DEF KnownOf
<1>8. ShapeOK'
  <2>1. used' \in [Players -> SUBSET AnyAddr]
    <3>1. \A p \in Players : used'[p] \subseteq AnyAddr
      BY <1>6, <1>7
    <3>2. used' = [p \in Players |-> used'[p]]
      BY <1>4
    <3> QED
      BY <3>1, <3>2
  <2>2. lobby' \in [1..Slots -> Members \cup {NoMember}]
    BY <1>4 DEF EmptyLobby
  <2>3. pos' \in Nat \ {0} /\ scanned' \in SUBSET Players /\ pc' \in {"idle", "scan", "open", "write"}
    BY <1>4
  <2>4. /\ dirty' \in BOOLEAN /\ cut' \in BOOLEAN
        /\ scanDue' \in BOOLEAN /\ saveDue' \in BOOLEAN
    BY <1>4
  <2>5. writable' \in BOOLEAN
    BY <1>4 DEF RecentsInv, ShapeOK
  <2> QED
    BY <1>3, <1>5, <2>1, <2>2, <2>3, <2>4, <2>5 DEF ShapeOK
<1>9. ScanOK'
  BY <1>4, <1>5 DEF ScanOK, ScannedStay
<1>10. SaveOK'
  BY <1>3, <1>4 DEF SaveOK
<1>11. KnownOK'
  <2> SUFFICES ASSUME NEW k \in DOMAIN mem'
               PROVE  KnownRight(mem'[k], used'[mem'[k].xuid])
    BY DEF KnownOK
  <2>1. {j \in DOMAIN mem' : mem'[j].xuid = mem'[k].xuid} = {k}
    BY <1>6 DEF Once
  <2>2. used'[mem'[k].xuid] = KnownOf(mem'[k])
    <3>1. used'[mem'[k].xuid] =
            UNION {KnownOf(mem'[i]) : i \in {j \in DOMAIN mem' : mem'[j].xuid = mem'[k].xuid}}
      BY <1>6, <1>7
    <3>2. UNION {KnownOf(mem'[i]) : i \in {k}} = KnownOf(mem'[k])
      OBVIOUS
    <3> QED
      BY <2>1, <3>1, <3>2
  <2>3. IsFiniteSet(KnownOf(mem'[k]))
    BY <1>6, KnownFinite
  <2> QED
    BY <2>2, <2>3 DEF KnownRight
<1> QED
  BY <1>8, <1>9, <1>10, <1>11 DEF RecentsInv

\* RecentsInv holds in every state.
THEOREM RecentsInvariant == Spec => []RecentsInv
<1>1. RecentsInv /\ [Next]_vars => RecentsInv'
  BY InvAround, InvTime, InvSees, InvEnds, InvSave, InvRestarts DEF Next, Tick
<1> QED
  BY InvInit, <1>1, PTL DEF Spec

-----------------------------------------------------------------------------
(* The theorems.                                                             *)

\* The state is well typed: the list fits the array it is kept in (max_entries),
\* and every history its own (max_addresses).
THEOREM RecentsTypeCorrect == Spec => []TypeOK
<1>1. RecentsInv => TypeOK
  <2> SUFFICES ASSUME RecentsInv PROVE TypeOK
    OBVIOUS
  <2>1. ListOK(mem) /\ ListOK(file)
    BY DEF RecentsInv, ShapeOK
  <2>2. \A i \in DOMAIN mem : Len(mem[i].hist) <= MaxAddresses
    BY <2>1 DEF ListOK, EntryOK, HistOK
  <2>3. {dirty, writable, cut, scanDue, saveDue} \subseteq BOOLEAN
    BY DEF RecentsInv, ShapeOK
  <2> QED
    BY <2>1, <2>2, <2>3 DEF RecentsInv, ShapeOK, ListOK, TypeOK
<1> QED
  BY <1>1, RecentsInvariant, PTL

\* Nobody is in the list or in the file twice, whatever crashes cut the file short
\* and whoever was evicted, reloaded and met again.
THEOREM EveryPlayerOnce == Spec => []OnceEach
<1>1. RecentsInv => OnceEach
  BY DEF RecentsInv, ShapeOK, ListOK, Once, OnceEach
<1> QED
  BY <1>1, RecentsInvariant, PTL

\* A scan lists all of the lobby, however full the list is: what makes room is never
\* a player the scan has seen, because the array has as many entries as there are
\* slots and nobody from before the scan was seen in the same second.
THEOREM LobbyIsListed == Spec => []ScannedStay
<1>1. RecentsInv => ScannedStay
  BY DEF RecentsInv, ScanOK
<1> QED
  BY <1>1, RecentsInvariant, PTL

\* Whoever upsert gives up for a newcomer was seen no later than anyone else.
THEOREM OldestMakesRoom == Spec => OldestLeaves
<1> DEFINE A == pc = "scan" /\ pos' = pos + 1 =>
                  \A i \in DOMAIN mem :
                    ~Holds(mem', mem[i].xuid) => \A j \in DOMAIN mem : mem[j].age <= mem[i].age
<1>1. RecentsInv /\ [Next]_vars => A
  <2> SUFFICES ASSUME RecentsInv, [Next]_vars, pc = "scan", pos' = pos + 1,
                      NEW i \in DOMAIN mem, ~Holds(mem', mem[i].xuid), NEW j \in DOMAIN mem
               PROVE  mem[j].age <= mem[i].age
    OBVIOUS
  <2>1. pos \in Nat \ {0} /\ pos + 1 # pos /\ pos + 1 # 1
    BY DEF RecentsInv, ShapeOK
  <2>2. \/ ScanSees \/ UNCHANGED mem
    BY <2>1
    DEF Next, Tick, LobbyChanges, DiskChanges, TimePasses, SaveFallsDue, ScanStarts, ScanSkips,
        ScanEnds, SaveFails, SaveOpens, SaveWrites, WriteFails, SaveCloses, Restarts, vars
  <2>3. CASE ScanSees
    <3>1. lobby[pos].who \in Players /\ lobby[pos].addr \in MemberAddrs
      BY <2>3, SeenMember
    <3>2. mem' = Upserted(mem, lobby[pos].who, lobby[pos].addr) /\ ListOK(mem)
      BY <2>3 DEF ScanSees, RecentsInv, ShapeOK
    <3> QED
      BY <3>1, <3>2, UpsertedOK
  <2>4. CASE UNCHANGED mem
    BY <2>4 DEF Holds
  <2> QED
    BY <2>2, <2>3, <2>4
<1>2. [][A]_vars => OldestLeaves
  BY PTL DEF OldestLeaves
<1> HIDE DEF A
<1> QED
  BY <1>1, <1>2, RecentsInvariant, PTL DEF Spec

\* As long as a player was seen at no more than max_addresses addresses since they
\* were listed, all of them are known, each once, in whatever order they came and
\* came back and over any number of restarts.
THEOREM AddressesAreKept == Spec => []AddressesKept
<1>1. RecentsInv => AddressesKept
  <2> SUFFICES ASSUME RecentsInv, NEW i \in DOMAIN mem, Mangled \notin used[mem[i].xuid]
               PROVE  /\ KnownOf(mem[i]) \subseteq used[mem[i].xuid]
                      /\ Cardinality(used[mem[i].xuid]) <= MaxAddresses
                           => KnownOf(mem[i]) = used[mem[i].xuid]
                      /\ \A j, k \in DOMAIN mem[i].hist :
                           mem[i].hist[j] = mem[i].hist[k] => j = k
    BY DEF AddressesKept
  <2>1. KnownRight(mem[i], used[mem[i].xuid]) /\ HistOK(mem[i].hist)
    BY DEF RecentsInv, ShapeOK, KnownOK, ListOK, EntryOK
  <2>2. \A j \in DOMAIN mem[i].hist : mem[i].hist[j] # Mangled
    <3>1. ASSUME NEW j \in DOMAIN mem[i].hist, mem[i].hist[j] = Mangled PROVE FALSE
      <4>1. Mangled \in Range(mem[i].hist) /\ Mangled # NoAddr
        BY <3>1, NoneAssumption DEF Range
      <4> QED
        BY <2>1, <4>1 DEF KnownRight, KnownOf
    <3> QED
      BY <3>1
  <2> QED
    BY <2>1, <2>2 DEF KnownRight, HistOK, OnceButCut
<1> QED
  BY <1>1, RecentsInvariant, PTL

\* An entry after time has passed (Recents!Older, of one entry).
Aged(e) == [e EXCEPT !.age = IF @ < MaxAge THEN @ + 1 ELSE @]

LEMMA AgedOK ==
  ASSUME NEW e, EntryOK(e)
  PROVE  /\ EntryOK(Aged(e)) /\ Reloaded(Aged(e)) = Aged(Reloaded(e))
         /\ \A l \in CutLines(e) : Aged(l) \in CutLines(Aged(e))
<1> DEFINE n == IF e.age < MaxAge THEN e.age + 1 ELSE e.age
<1>1. /\ e \in Entry /\ HistOK(e.hist) /\ e.hist \in Seq(AnyAddr) /\ e.age \in 0..MaxAge
      /\ e.cur \in AnyAddr \cup {NoAddr} /\ e.piped \in BOOLEAN
  BY DEF EntryOK, Entry
<1>2. n \in 0..MaxAge
  BY <1>1, SizeAssumption
<1>3. Aged(e) = [e EXCEPT !.age = n]
  BY DEF Aged
<1> HIDE DEF n
<1>4. /\ Aged(e) \in Entry /\ Aged(e).age = n /\ Aged(e).hist = e.hist /\ Aged(e).cur = e.cur
      /\ Aged(e).piped = e.piped
  BY <1>1, <1>2, <1>3 DEF Entry
<1>5. EntryOK(Aged(e))
  BY <1>1, <1>4 DEF EntryOK
<1>6. Reloaded(Aged(e)) = Aged(Reloaded(e))
  <2>1. CASE ~e.piped
    BY <1>4, <1>5, <2>1, ReloadedOK
  <2>2. CASE e.piped
    <3> DEFINE h == IF e.cur # NoAddr /\ e.hist # << >> THEN Tail(e.hist) ELSE << >>
    <3>1. Reloaded(e) = [e EXCEPT !.piped = FALSE, !.age = MaxAge, !.cur = NoAddr, !.hist = h]
      BY <2>2 DEF Reloaded
    <3>2. Reloaded(Aged(e)) =
            [Aged(e) EXCEPT !.piped = FALSE, !.age = MaxAge, !.cur = NoAddr, !.hist = h]
      BY <1>4, <2>2 DEF Reloaded
    <3> HIDE DEF h
    <3>3. Reloaded(Aged(e)) = Reloaded(e)
      BY <1>1, <1>3, <3>1, <3>2 DEF Entry
    <3>4. Aged(Reloaded(e)) = Reloaded(e)
      <4>1. Reloaded(e).age = MaxAge /\ ~(MaxAge < MaxAge)
        BY <1>1, <3>1, SizeAssumption DEF Entry
      <4>2. Reloaded(e) \in Entry
        BY ReloadedOK DEF EntryOK
      <4> QED
        BY <4>1, <4>2 DEF Aged, Entry
    <3> QED
      BY <3>3, <3>4
  <2> QED
    BY <1>1, <2>1, <2>2
<1>7. ASSUME NEW l \in CutLines(e)
      PROVE  Aged(l) \in CutLines(Aged(e))
  <2>1. EntryOK(l) /\ l.age = e.age
    BY CutLinesOK
  <2>2. Aged(l) = [l EXCEPT !.age = n]
    BY <2>1 DEF Aged, n
  <2>3. CASE e.cur # NoAddr /\ l = [e EXCEPT !.cur = Mangled, !.hist = << >>]
    <3>1. Aged(l) = [Aged(e) EXCEPT !.cur = Mangled, !.hist = << >>]
      BY <1>1, <1>3, <2>2, <2>3 DEF Entry
    <3> QED
      BY <1>4, <2>3, <3>1 DEF CutLines
  <2>4. ASSUME NEW h, l = [e EXCEPT !.hist = h]
        PROVE  Aged(l) = [Aged(e) EXCEPT !.hist = h]
    BY <1>1, <1>3, <2>2, <2>4 DEF Entry
  <2>5. CASE \E k \in 0..Len(e.hist) : l = [e EXCEPT !.hist = SubSeq(e.hist, 1, k)]
    BY <1>4, <2>4, <2>5 DEF CutLines
  <2>6. CASE \E k \in 0..(Len(e.hist) - 1) :
               l = [e EXCEPT !.hist = Append(SubSeq(e.hist, 1, k), Mangled)]
    BY <1>4, <2>4, <2>6 DEF CutLines
  <2> QED
    BY <2>3, <2>5, <2>6 DEF CutLines
<1> QED
  BY <1>5, <1>6, <1>7

\* Time does not change what the file says of the list.
LEMMA OlderWritten ==
  ASSUME NEW lines, ListOK(lines), NEW list, ListOK(list)
  PROVE  /\ FoundAgain(lines) = FoundAgain(list)
              => FoundAgain(Older(lines)) = FoundAgain(Older(list))
         /\ Begins(lines, list) => Begins(Older(lines), Older(list))
<1>1. ASSUME NEW l, ListOK(l)
      PROVE  /\ DOMAIN Older(l) = DOMAIN l /\ Len(Older(l)) = Len(l)
             /\ \A i \in DOMAIN l : Older(l)[i] = Aged(l[i]) /\ EntryOK(l[i])
  BY <1>1, OlderOK DEF ListOK, Older, Aged
<1>2. ASSUME NEW l, ListOK(l)
      PROVE  FoundAgain(Older(l)) = {Aged(e) : e \in FoundAgain(l)}
  <2>1. FoundAgain(Older(l)) = {Reloaded(Aged(l[i])) : i \in DOMAIN l}
    BY <1>1, <1>2 DEF FoundAgain, Range
  <2>2. {Aged(e) : e \in FoundAgain(l)} = {Aged(Reloaded(l[i])) : i \in DOMAIN l}
    BY DEF FoundAgain, Range
  <2>3. \A i \in DOMAIN l : Reloaded(Aged(l[i])) = Aged(Reloaded(l[i]))
    BY <1>1, <1>2, AgedOK
  <2> QED
    BY <2>1, <2>2, <2>3
<1>3. ASSUME Begins(lines, list)
      PROVE  Begins(Older(lines), Older(list))
  <2>1. \A i \in DOMAIN lines : i \in DOMAIN list
    BY <1>3, ListFacts DEF Begins
  <2>2. ASSUME NEW i \in DOMAIN lines
        PROVE  \/ Older(lines)[i] = Older(list)[i]
               \/ i = Len(lines) /\ Older(lines)[i] \in CutLines(Older(list)[i])
    <3>1. Older(lines)[i] = Aged(lines[i]) /\ Older(list)[i] = Aged(list[i]) /\ EntryOK(list[i])
      BY <1>1, <2>1
    <3>2. lines[i] = list[i] \/ (i = Len(lines) /\ lines[i] \in CutLines(list[i]))
      BY <1>3 DEF Begins
    <3> QED
      BY <3>1, <3>2, AgedOK
  <2> QED
    BY <1>1, <1>3, <2>2 DEF Begins
<1> QED
  BY <1>2, <1>3

\* Loading a file and saving it again would change nothing more.
LEMMA LoadedFound ==
  ASSUME NEW lines, ListOK(lines)
  PROVE  FoundAgain(Loaded(lines)) = FoundAgain(lines)
<1> DEFINE read == [i \in DOMAIN lines |-> Reloaded(lines[i])]
<1>1. \A i \in DOMAIN lines : lines[i] \in Entry /\ EntryOK(lines[i])
  BY DEF ListOK, EntryOK
<1>2. \A i \in DOMAIN lines :
        /\ read[i] = Reloaded(lines[i]) /\ EntryOK(read[i]) /\ read[i].xuid = lines[i].xuid
        /\ ~read[i].piped
  <2>1. \A e \in Entry : Reloaded(e).piped = FALSE
    BY DEF Reloaded, Entry
  <2> QED
    BY <1>1, <2>1, ReloadedOK
<1>3. read = [i \in DOMAIN lines |-> read[i]] /\ Loaded(lines) = Sorted(read)
  BY DEF Loaded
<1> HIDE DEF read
<1>4. ListOK(read) /\ DOMAIN read = DOMAIN lines
  BY <1>2, <1>3, MappedOK
<1>5. /\ DOMAIN Sorted(read) = DOMAIN read
      /\ \A k \in DOMAIN read : Sorted(read)[k] = read[Source(read, k)]
      /\ \A k \in DOMAIN read : Source(read, k) \in DOMAIN read
      /\ \A i \in DOMAIN read : \E k \in DOMAIN read : Source(read, k) = i
  BY <1>4, SortedOK, SortPlaces
<1>6. \A i \in DOMAIN read : Reloaded(read[i]) = read[i]
  BY <1>2, <1>4, ReloadedOK
<1>7. FoundAgain(Sorted(read)) = {read[i] : i \in DOMAIN read}
  <2>1. FoundAgain(Sorted(read)) = {Reloaded(Sorted(read)[k]) : k \in DOMAIN read}
    BY <1>5 DEF FoundAgain, Range
  <2>2. \A k \in DOMAIN read : Reloaded(Sorted(read)[k]) = read[Source(read, k)]
    BY <1>5, <1>6
  <2>3. FoundAgain(Sorted(read)) = {read[Source(read, k)] : k \in DOMAIN read}
    BY <2>1, <2>2
  <2> QED
    BY <1>5, <2>3
<1>8. FoundAgain(lines) = {read[i] : i \in DOMAIN read}
  BY <1>2, <1>4 DEF FoundAgain, Range
<1> QED
  BY <1>3, <1>7, <1>8

\* What a clean list is worth on disk, and that it is in order: the next scan, if it
\* meets nobody, sorts it and calls it clean all the same.
WrittenOK == CleanMeansWritten /\ (~dirty => Ascending(mem))

LEMMA WrittenInit == Init => WrittenOK
  BY EmptyListOK DEF Init, WrittenOK, CleanMeansWritten

LEMMA WrittenNext ==
  ASSUME RecentsInv, WrittenOK, [Next]_vars
  PROVE  WrittenOK'
<1>1. /\ ListOK(mem) /\ ListOK(file) /\ pos \in Nat \ {0}
      /\ pc \in {"open", "write"} => dirty /\ Ascending(mem)
  BY DEF RecentsInv, ShapeOK, SaveOK
<1>2. CASE UNCHANGED <<mem, file, dirty, cut>>
  BY <1>2 DEF WrittenOK, CleanMeansWritten
<1>3. CASE dirty'
  BY <1>3 DEF WrittenOK, CleanMeansWritten
<1>4. CASE TimePasses
  <2>1. mem' = Older(mem) /\ file' = Older(file) /\ dirty' = dirty /\ cut' = cut
    BY <1>4 DEF TimePasses
  <2>2. Ascending(mem) => Ascending(mem')
    BY <1>1, <2>1, OlderOK
  <2>3. CleanMeansWritten'
    BY <1>1, <2>1, OlderWritten DEF WrittenOK, CleanMeansWritten
  <2> QED
    BY <2>1, <2>2, <2>3 DEF WrittenOK
<1>5. CASE ScanEnds
  <2>1. mem' = Sorted(mem) /\ UNCHANGED <<file, dirty, cut>>
    BY <1>5 DEF ScanEnds
  <2>2. ~dirty => mem' = mem
    BY <1>1, <2>1, SortedFixed DEF WrittenOK
  <2> QED
    BY <2>1, <2>2 DEF WrittenOK, CleanMeansWritten
<1>6. CASE SaveCloses
  <2>1. UNCHANGED <<mem, file, cut>> /\ pc = "write" /\ (cut \/ pos > Len(mem))
    BY <1>6 DEF SaveCloses
  <2>2. cut => Begins(file, mem)
    BY <2>1 DEF RecentsInv, SaveOK
  <2>3. ~cut => file = mem
    <3> SUFFICES ASSUME ~cut PROVE file = mem
      OBVIOUS
    <3>1. /\ pos <= Len(mem) + 1 /\ pos > Len(mem) /\ Len(file) = pos - 1
          /\ \A i \in 1..(pos - 1) : file[i] = mem[i]
      BY <2>1 DEF RecentsInv, SaveOK
    <3>2. Len(mem) \in Nat /\ mem \in Seq(Entry) /\ file \in Seq(Entry)
      BY <1>1, ListFacts DEF ListOK
    <3>3. Len(file) = Len(mem) /\ \A i \in 1..Len(file) : file[i] = mem[i]
      BY <1>1, <3>1, <3>2
    <3> QED
      BY <3>2, <3>3, SeqEqual
  <2> QED
    BY <1>1, <2>1, <2>2, <2>3 DEF WrittenOK, CleanMeansWritten
<1>7. CASE Restarts
  <2>1. mem' = Loaded(file') /\ cut' = FALSE
    BY <1>7 DEF Restarts
  <2>2. ListOK(file')
    BY <1>7, InvRestarts DEF RecentsInv, ShapeOK
  <2>3. Ascending(mem') /\ FoundAgain(mem') = FoundAgain(file')
    BY <2>1, <2>2, LoadedOK, LoadedFound
  <2> QED
    BY <2>1, <2>3 DEF WrittenOK, CleanMeansWritten
<1>8. SaveOpens \/ SaveWrites \/ WriteFails \/ ScanSees => dirty'
  BY <1>1 DEF SaveOpens, SaveWrites, WriteFails, ScanSees
<1> QED
  BY <1>2, <1>3, <1>4, <1>5, <1>6, <1>7, <1>8
  DEF Next, Tick, LobbyChanges, DiskChanges, SaveFallsDue, ScanStarts, ScanSkips, SaveFails, vars

\* Whatever open or write fails, in the middle of a line or not, and wherever a crash
\* falls: a list that is not dirty is on disk as far as the format of the file can tell,
\* or, after a write that failed, from its first entry up to where it did. (That it need
\* not be there as a whole, recents_full_disk shows: after a failed write, or with '|' in a name.)
THEOREM CleanIsOnDisk == Spec => []CleanMeansWritten
<1>1. RecentsInv /\ WrittenOK /\ [Next]_vars => WrittenOK'
  BY WrittenNext
<1>2. WrittenOK => CleanMeansWritten
  BY DEF WrittenOK
<1> QED
  BY WrittenInit, <1>1, <1>2, RecentsInvariant, PTL DEF Spec

-----------------------------------------------------------------------------
(* The list implements the log of PlayerLog.                                 *)

\* PlayerLog counts as Recents does: it is the same library that is extended twice.
LEMMA CountsAlike == \A S : Log!Cardinality(S) = Cardinality(S)
  BY DEF Log!Cardinality, Cardinality

LEMMA SeenAt ==
  ASSUME NEW list, ListOK(list)
  PROVE  /\ \A i \in DOMAIN list : SeenIn(list)[list[i].xuid] = list[i].age
         /\ \A p \in Players : ~Holds(list, p) => SeenIn(list)[p] = MaxAge + 1
         /\ SeenIn(list) \in [Players -> 0..(MaxAge + 1)]
<1>1. \A i \in DOMAIN list : list[i].xuid \in Players /\ list[i].age \in 0..MaxAge
  BY ListFacts DEF Entry
<1>2. ASSUME NEW i \in DOMAIN list
      PROVE  SeenIn(list)[list[i].xuid] = list[i].age
  <2> DEFINE p == list[i].xuid
             at == CHOOSE j \in DOMAIN list : list[j].xuid = p
  <2>1. p \in Players /\ Holds(list, p)
    BY <1>1 DEF Holds
  <2>2. at \in DOMAIN list /\ list[at].xuid = p
    OBVIOUS
  <2>3. at = i
    BY <2>2 DEF ListOK, Once
  <2> QED
    BY <2>1, <2>3 DEF SeenIn
<1>3. \A p \in Players : ~Holds(list, p) => SeenIn(list)[p] = MaxAge + 1
  BY DEF SeenIn
<1>4. ASSUME NEW p \in Players
      PROVE  SeenIn(list)[p] \in 0..(MaxAge + 1)
  <2>1. CASE Holds(list, p)
    <3>1. PICK i \in DOMAIN list : list[i].xuid = p
      BY <2>1 DEF Holds
    <3> QED
      BY <1>1, <1>2, <3>1, SizeAssumption
  <2>2. CASE ~Holds(list, p)
    BY <1>3, <2>2, SizeAssumption
  <2> QED
    BY <2>1, <2>2
<1>5. SeenIn(list) = [p \in Players |-> SeenIn(list)[p]]
  BY DEF SeenIn
<1> QED
  BY <1>2, <1>3, <1>4, <1>5

\* A list is known by its entries, wherever they stand: whatever has the age of each of
\* its players and of nobody else is what it says.
LEMMA SeenIs ==
  ASSUME NEW list, ListOK(list), NEW log, log = [p \in Players |-> log[p]],
         \A i \in DOMAIN list : log[list[i].xuid] = list[i].age,
         \A p \in Players : ~Holds(list, p) => log[p] = MaxAge + 1
  PROVE  SeenIn(list) = log
<1>1. ASSUME NEW p \in Players
      PROVE  SeenIn(list)[p] = log[p]
  <2>1. CASE Holds(list, p)
    BY <2>1, SeenAt DEF Holds
  <2>2. CASE ~Holds(list, p)
    BY <2>2, SeenAt
  <2> QED
    BY <2>1, <2>2
<1>2. SeenIn(list) = [p \in Players |-> SeenIn(list)[p]]
  BY DEF SeenIn
<1> QED
  BY <1>1, <1>2

\* The log knows the players that are listed, and as many as there are entries.
LEMMA KnownInLog ==
  ASSUME NEW list, ListOK(list)
  PROVE  /\ Log!Known(SeenIn(list)) = {p \in Players : Holds(list, p)}
         /\ IsFiniteSet(Log!Known(SeenIn(list)))
         /\ Cardinality(Log!Known(SeenIn(list))) = Len(list)
<1> DEFINE K == {p \in Players : Holds(list, p)}
           f == [i \in DOMAIN list |-> list[i].xuid]
<1>1. /\ Len(list) \in Nat /\ DOMAIN list = 1..Len(list)
      /\ \A i \in DOMAIN list : list[i].xuid \in Players /\ list[i].age \in 0..MaxAge
  BY ListFacts DEF Entry
<1>2. \A i \in DOMAIN list : list[i].age # MaxAge + 1
  BY <1>1, SizeAssumption
<1>3. \A p \in Players : SeenIn(list)[p] # MaxAge + 1 <=> Holds(list, p)
  BY <1>2, SeenAt DEF Holds
<1>4. Log!Known(SeenIn(list)) = K
  BY <1>3 DEF Log!Known, Log!Never
<1>5. IsFiniteSet(DOMAIN list) /\ Cardinality(DOMAIN list) = Len(list)
  BY <1>1, FS_Interval
<1>6. f \in Bijection(DOMAIN list, K)
  <2>1. \A i \in DOMAIN list : f[i] = list[i].xuid /\ f[i] \in K
    BY <1>1 DEF Holds
  <2>2. f \in [DOMAIN list -> K]
    BY <2>1
  <2>3. \A i, j \in DOMAIN list : f[i] = f[j] => i = j
    BY <2>1 DEF ListOK, Once
  <2>4. \A p \in K : \E i \in DOMAIN list : f[i] = p
    BY DEF Holds
  <2> HIDE DEF f
  <2> QED
    BY <2>2, <2>3, <2>4 DEF Bijection, Injection, Surjection, IsInjective
<1> HIDE DEF K, f
<1>7. IsFiniteSet(K) /\ Cardinality(K) = Len(list)
  <2>1. ExistsBijection(DOMAIN list, K)
    BY <1>6 DEF ExistsBijection
  <2> QED
    BY <1>5, <2>1, FS_Bijection
<1> QED
  BY <1>4, <1>7 DEF K

\* Sorting tells the log nothing.
LEMMA SortedSeen ==
  ASSUME NEW list, ListOK(list)
  PROVE  SeenIn(Sorted(list)) = SeenIn(list)
<1> DEFINE new == Sorted(list)
<1>1. /\ ListOK(new) /\ DOMAIN new = DOMAIN list
      /\ \A k \in DOMAIN list : new[k] = list[Source(list, k)]
      /\ \A k \in DOMAIN list : Source(list, k) \in DOMAIN list
      /\ \A i \in DOMAIN list : \E k \in DOMAIN list : Source(list, k) = i
  BY SortedOK, SortPlaces
<1> HIDE DEF new
<1>2. \A k \in DOMAIN new : SeenIn(list)[new[k].xuid] = new[k].age
  BY <1>1, SeenAt
<1>3. \A p \in Players : ~Holds(new, p) => ~Holds(list, p)
  <2> SUFFICES ASSUME NEW p \in Players, Holds(list, p) PROVE Holds(new, p)
    OBVIOUS
  <2>1. PICK i \in DOMAIN list : list[i].xuid = p
    BY DEF Holds
  <2>2. PICK k \in DOMAIN list : Source(list, k) = i
    BY <1>1
  <2> QED
    BY <1>1, <2>1, <2>2 DEF Holds
<1>4. SeenIn(list) = [p \in Players |-> SeenIn(list)[p]]
  BY DEF SeenIn
<1>5. SeenIn(new) = SeenIn(list)
  BY <1>1, <1>2, <1>3, <1>4, SeenAt, SeenIs
<1> QED
  BY <1>5 DEF new

\* Time passes in the log as in the list.
LEMMA OlderSeen ==
  ASSUME NEW list, ListOK(list)
  PROVE  SeenIn(Older(list)) = Log!Older(SeenIn(list))
<1> DEFINE new == Older(list)
           log == Log!Older(SeenIn(list))
<1>1. /\ ListOK(new) /\ DOMAIN new = DOMAIN list
      /\ \A i \in DOMAIN list :
           /\ new[i].xuid = list[i].xuid
           /\ new[i].age = IF list[i].age < MaxAge THEN list[i].age + 1 ELSE list[i].age
  BY OlderOK
<1>2. \A p \in Players :
        log[p] = IF SeenIn(list)[p] < MaxAge THEN SeenIn(list)[p] + 1 ELSE SeenIn(list)[p]
  BY DEF Log!Older
<1>3. log = [p \in Players |-> log[p]]
  BY DEF Log!Older
<1> HIDE DEF new, log
<1>4. ASSUME NEW i \in DOMAIN new
      PROVE  log[new[i].xuid] = new[i].age
  <2>1. list[i].xuid \in Players /\ SeenIn(list)[list[i].xuid] = list[i].age
    BY <1>1, SeenAt, ListFacts
  <2> QED
    BY <1>1, <1>2, <2>1
<1>5. \A p \in Players : ~Holds(new, p) => log[p] = MaxAge + 1
  <2>1. \A p \in Players : ~Holds(new, p) => ~Holds(list, p)
    BY <1>1 DEF Holds
  <2> QED
    BY <1>2, <2>1, SeenAt, SizeAssumption
<1>6. SeenIn(new) = log
  BY <1>1, <1>3, <1>4, <1>5, SeenIs
<1> QED
  BY <1>6 DEF new, log

LEMMA EmptySeen == SeenIn(<< >>) = Log!Blank
<1>1. \A p \in Players : ~Holds(<< >>, p)
  BY EmptySeq DEF Holds
<1> QED
  BY <1>1 DEF SeenIn, Log!Blank, Log!Never

\* An entry at the end of a list that does not have its player.
LEMMA AppendedSeen ==
  ASSUME NEW list, ListOK(list), NEW e, EntryOK(e), ListOK(Append(list, e)),
         ~Holds(list, e.xuid)
  PROVE  SeenIn(Append(list, e)) = [SeenIn(list) EXCEPT ![e.xuid] = e.age]
<1> DEFINE new == Append(list, e)
           log == [SeenIn(list) EXCEPT ![e.xuid] = e.age]
<1>1. list \in Seq(Entry) /\ e \in Entry /\ e.xuid \in Players
  BY DEF ListOK, EntryOK, Entry
<1>2. /\ Len(list) \in Nat /\ DOMAIN list = 1..Len(list)
      /\ DOMAIN new = 1..(Len(list) + 1) /\ new[Len(list) + 1] = e
      /\ \A i \in 1..Len(list) : new[i] = list[i]
  BY <1>1, AppendProperties, LenProperties
<1>3. /\ \A p \in Players : log[p] = IF p = e.xuid THEN e.age ELSE SeenIn(list)[p]
      /\ log = [p \in Players |-> log[p]]
  BY SeenAt
<1> HIDE DEF new, log
<1>4. \A i \in 1..Len(list) : list[i].xuid # e.xuid /\ list[i].xuid \in Players
  BY <1>2, ListFacts DEF Holds
<1>5. \A i \in DOMAIN new : log[new[i].xuid] = new[i].age
  <2>1. ASSUME NEW i \in 1..Len(list)
        PROVE  log[new[i].xuid] = new[i].age
    <3>1. SeenIn(list)[list[i].xuid] = list[i].age
      BY <1>2, SeenAt
    <3>2. new[i] = list[i]
      BY <1>2
    <3>3. log[list[i].xuid] = SeenIn(list)[list[i].xuid]
      BY <1>3, <1>4
    <3> QED
      BY <3>1, <3>2, <3>3
  <2>2. \A i \in DOMAIN new : i \in 1..Len(list) \/ i = Len(list) + 1
    BY <1>2
  <2> QED
    BY <1>1, <1>2, <1>3, <2>1, <2>2
<1>6. \A p \in Players : ~Holds(new, p) => ~Holds(list, p) /\ p # e.xuid
  <2>1. \A i \in 1..(Len(list) + 1) : i \in DOMAIN new
    BY <1>2
  <2>2. Len(list) + 1 \in DOMAIN new /\ \A i \in DOMAIN list : i \in DOMAIN new
    BY <1>2, <2>1
  <2> QED
    BY <1>2, <2>2 DEF Holds
<1>7. \A p \in Players : ~Holds(new, p) => log[p] = MaxAge + 1
  BY <1>3, <1>6, SeenAt
<1>8. ListOK(new)
  BY DEF new
<1>9. SeenIn(new) = log
  BY <1>3, <1>5, <1>7, <1>8, SeenIs
<1> QED
  BY <1>9 DEF new, log

\* Making room in a full list is giving up one of the players seen longest ago.
LEMMA RoomedSeen ==
  ASSUME NEW list, ListOK(list), Len(list) = MaxEntries
  PROVE  \E q \in Players :
           /\ Holds(list, q) /\ \A j \in DOMAIN list : list[j].age <= SeenIn(list)[q]
           /\ SeenIn(Roomed(list)) = [SeenIn(list) EXCEPT ![q] = MaxAge + 1]
<1> DEFINE n == MaxEntries - 1
           by == Sorted(list)
           new == Roomed(list)
           q == by[n + 1].xuid
           log == [SeenIn(by) EXCEPT ![q] = MaxAge + 1]
<1>1. n \in Nat /\ MaxEntries = n + 1 /\ ListOK(new)
  BY SizeAssumption, RoomedOK
<1>2. /\ ListOK(by) /\ Len(by) = n + 1 /\ DOMAIN by = 1..(n + 1) /\ Ascending(by)
      /\ \A k \in 1..(n + 1) : by[k] \in Entry /\ by[k].age \in Nat /\ by[k].xuid \in Players
      /\ SeenIn(by) = SeenIn(list)
  BY <1>1, SortedOK, SortedSeen, ListFacts
<1>3. new = SubSeq(by, 1, n)
  BY SizeAssumption DEF Roomed
<1> HIDE DEF n, by
<1>4. DOMAIN new = 1..n /\ \A k \in 1..n : new[k] = by[k]
  <2>1. \A k \in 1..n : by[k] \in Entry
    BY <1>1, <1>2
  <2>2. /\ SubSeq(by, 1, n) \in Seq(Entry)
        /\ Len(SubSeq(by, 1, n)) = IF 1 <= n THEN n - 1 + 1 ELSE 0
        /\ \A k \in 1..(n - 1 + 1) : SubSeq(by, 1, n)[k] = by[1 + k - 1]
    BY <1>1, <2>1, SubSeqProperties
  <2>3. n - 1 + 1 = n /\ \A k \in 1..n : 1 + k - 1 = k
    BY <1>1
  <2>4. Len(new) = n
    BY <1>1, <1>3, <2>2
  <2>5. DOMAIN new = 1..Len(new)
    BY <1>1, ListFacts
  <2> QED
    BY <1>3, <2>2, <2>3, <2>4, <2>5
<1> HIDE DEF new
<1>5. \A k \in 1..(n + 1) : k = n + 1 \/ k \in 1..n
  BY <1>1
<1>6. \A k \in 1..n : k \in 1..(n + 1) /\ k # n + 1 /\ n + 1 \in 1..(n + 1) /\ k < n + 1
  BY <1>1
<1>7. n + 1 \in 1..(n + 1)
  BY <1>1
<1>8. q \in Players /\ SeenIn(by)[q] = by[n + 1].age /\ Holds(by, q)
  BY <1>2, <1>7, SeenAt DEF Holds
<1>9. \A k \in 1..n : by[k].xuid # q
  BY <1>2, <1>6, <1>7 DEF ListOK, Once
<1> HIDE DEF q
<1>10. /\ \A p \in Players : log[p] = IF p = q THEN MaxAge + 1 ELSE SeenIn(by)[p]
       /\ log = [p \in Players |-> log[p]]
  BY <1>2, SeenAt
<1> HIDE DEF log
<1>11. \A k \in DOMAIN new : log[new[k].xuid] = new[k].age
  BY <1>2, <1>4, <1>6, <1>9, <1>10, SeenAt
<1>12. \A p \in Players : ~Holds(new, p) => log[p] = MaxAge + 1
  <2> SUFFICES ASSUME NEW p \in Players, ~Holds(new, p), p # q PROVE ~Holds(by, p)
    BY <1>2, <1>10, SeenAt
  <2>1. \A k \in 1..n : by[k].xuid # p
    BY <1>4 DEF Holds
  <2>2. by[n + 1].xuid # p
    BY DEF q
  <2> QED
    BY <1>2, <1>5, <2>1, <2>2 DEF Holds
<1>13. SeenIn(new) = log
  BY <1>1, <1>10, <1>11, <1>12, SeenIs
<1>14. Holds(list, q)
  <2>1. \A p \in Players : Holds(list, p) <=> SeenIn(list)[p] # MaxAge + 1
    BY KnownInLog DEF Log!Known, Log!Never
  <2>2. SeenIn(by)[q] # MaxAge + 1
    <3>1. by[n + 1].age \in 0..MaxAge
      BY <1>2, <1>7 DEF Entry
    <3> QED
      BY <1>8, <3>1, SizeAssumption
  <2> QED
    BY <1>2, <1>8, <2>1, <2>2
<1>15. ASSUME NEW j \in DOMAIN list
       PROVE  list[j].age <= SeenIn(list)[q]
  <2>1. PICK k \in 1..(n + 1) : by[k] = list[j]
    <3>1. /\ \E k \in DOMAIN list : Source(list, k) = j
          /\ \A k \in DOMAIN list : by[k] = list[Source(list, k)]
          /\ DOMAIN by = DOMAIN list
      BY SortedOK, SortPlaces DEF by
    <3> QED
      BY <1>2, <3>1
  <2>2. by[k].age <= by[n + 1].age
    <3>1. CASE k = n + 1
      BY <1>2, <3>1
    <3>2. CASE k \in 1..n
      BY <1>2, <1>6, <1>7, <3>2 DEF Ascending
    <3> QED
      BY <1>5, <3>1, <3>2
  <2> QED
    BY <1>2, <1>8, <2>1, <2>2
<1> QED
  BY <1>2, <1>8, <1>13, <1>14, <1>15 DEF log, new

\* Every entry that load will read wrongly is of a player whose name has a '|' in it.
Named(list) == \A i \in DOMAIN list : list[i].piped => list[i].xuid \in Piped

NamesOK == Named(mem) /\ Named(file)

\* What load makes of the log: of some players with a '|' in their names it does not
\* know how long ago they were seen.
LEMMA LoadedSeen ==
  ASSUME NEW lines, ListOK(lines), Named(lines)
  PROVE  \E lost \in SUBSET (Piped \cap Log!Known(SeenIn(lines))) :
           SeenIn(Loaded(lines)) =
             [p \in Players |-> IF p \in lost THEN MaxAge ELSE SeenIn(lines)[p]]
<1> DEFINE read == [i \in DOMAIN lines |-> Reloaded(lines[i])]
           lost == {p \in Piped : \E i \in DOMAIN lines : lines[i].piped /\ lines[i].xuid = p}
           log == [p \in Players |-> IF p \in lost THEN MaxAge ELSE SeenIn(lines)[p]]
<1>1. \A i \in DOMAIN lines : /\ lines[i] \in Entry /\ EntryOK(lines[i])
                              /\ lines[i].xuid \in Players
  BY ListFacts DEF ListOK, EntryOK
<1>2. \A i \in DOMAIN lines :
        /\ EntryOK(read[i]) /\ read[i].xuid = lines[i].xuid
        /\ read[i].age = IF lines[i].piped THEN MaxAge ELSE lines[i].age
  <2>1. \A e \in Entry : Reloaded(e).age = IF e.piped THEN MaxAge ELSE e.age
    BY DEF Reloaded, Entry
  <2> QED
    BY <1>1, <2>1, ReloadedOK
<1>3. read = [i \in DOMAIN lines |-> read[i]] /\ Loaded(lines) = Sorted(read)
  BY DEF Loaded
<1> HIDE DEF read
<1>4. ListOK(read) /\ DOMAIN read = DOMAIN lines
  BY <1>2, <1>3, MappedOK
<1>5. \A i \in DOMAIN lines : lines[i].xuid \in lost <=> lines[i].piped
  BY DEF ListOK, Once, Named
<1>6. /\ \A p \in Players : log[p] = IF p \in lost THEN MaxAge ELSE SeenIn(lines)[p]
      /\ log = [p \in Players |-> log[p]]
  OBVIOUS
<1>7. \A p \in lost : p \in Piped /\ p \in Players /\ Holds(lines, p)
  BY <1>1 DEF Holds
<1> HIDE DEF lost, log
<1>8. ASSUME NEW i \in DOMAIN read
      PROVE  log[read[i].xuid] = read[i].age
  <2>1. i \in DOMAIN lines /\ SeenIn(lines)[lines[i].xuid] = lines[i].age
    BY <1>4, SeenAt
  <2> QED
    BY <1>1, <1>2, <1>5, <1>6, <2>1
<1>9. \A p \in Players : ~Holds(read, p) => log[p] = MaxAge + 1
  <2>1. \A p \in Players : ~Holds(read, p) => ~Holds(lines, p)
    BY <1>2, <1>4 DEF Holds
  <2> QED
    BY <1>6, <1>7, <2>1, SeenAt
<1>10. SeenIn(read) = log
  BY <1>4, <1>6, <1>8, <1>9, SeenIs
<1>11. SeenIn(Loaded(lines)) = log
  BY <1>3, <1>4, <1>10, SortedSeen
<1>12. lost \in SUBSET (Piped \cap Log!Known(SeenIn(lines)))
  BY <1>7, KnownInLog
<1> QED
  BY <1>11, <1>12 DEF log

\* A list has only right names in it if it has its entries from one that does.
LEMMA NamedFrom ==
  ASSUME NEW list, Named(list), NEW new,
         \A k \in DOMAIN new : \/ ~new[k].piped
                               \/ new[k].xuid \in Piped
                               \/ \E i \in DOMAIN list : /\ new[k].xuid = list[i].xuid
                                                         /\ new[k].piped = list[i].piped
  PROVE  Named(new)
  BY DEF Named

\* The file as a crash or a write that fails leaves it: as it is, or with the line that
\* was being written.
LEMMA LeftOK ==
  ASSUME RecentsInv, NamesOK,
         NEW left \in {file} \cup IF pc = "write" /\ ~cut /\ pos <= Len(mem) THEN LeftOver ELSE {}
  PROVE  /\ ListOK(left) /\ Named(left)
         /\ SeenIn(left) \in {SeenIn(file)} \cup
              {[SeenIn(file) EXCEPT ![p] = SeenIn(mem)[p]] : p \in Log!Known(SeenIn(mem))}
<1>1. ListOK(mem) /\ ListOK(file) /\ Named(mem) /\ Named(file) /\ pos \in Nat \ {0}
  BY DEF RecentsInv, ShapeOK, NamesOK
<1>2. CASE left = file
  BY <1>1, <1>2
<1>3. CASE /\ pc = "write" /\ ~cut /\ pos <= Len(mem)
           /\ \E l \in CutLines(mem[pos]) : left = Append(file, l)
  <2>1. PICK l \in CutLines(mem[pos]) : left = Append(file, l)
    BY <1>3
  <2>2. pos \in DOMAIN mem /\ EntryOK(mem[pos]) /\ mem[pos].xuid \in Players
    BY <1>1, <1>3, ListFacts
  <2>3. EntryOK(l) /\ l.xuid = mem[pos].xuid /\ l.age = mem[pos].age /\ l.piped = mem[pos].piped
    BY <2>2, CutLinesOK
  <2>4. /\ ListOK(left) /\ left[pos] = l
        /\ \A i \in DOMAIN left : i = pos \/ i \in DOMAIN file
        /\ \A i \in DOMAIN file : left[i] = file[i]
    BY <1>3, <2>1, <2>3, LineOK
  <2>5. Named(left)
    BY <1>1, <2>2, <2>3, <2>4 DEF Named
  <2>6. ~Holds(file, l.xuid)
    <3>1. Len(file) = pos - 1 /\ \A i \in 1..(pos - 1) : file[i] = mem[i]
      BY <1>3 DEF RecentsInv, SaveOK
    <3>2. DOMAIN file = 1..(pos - 1) /\ \A i \in 1..(pos - 1) : i # pos /\ i \in DOMAIN mem
      BY <1>1, <1>3, <3>1, ListFacts
    <3> QED
      BY <1>1, <2>2, <2>3, <3>1, <3>2 DEF Holds, ListOK, Once
  <2>7. SeenIn(left) = [SeenIn(file) EXCEPT ![l.xuid] = l.age]
    BY <1>1, <2>1, <2>3, <2>4, <2>6, AppendedSeen
  <2>8. l.xuid \in Log!Known(SeenIn(mem)) /\ SeenIn(mem)[l.xuid] = l.age
    <3>1. Holds(mem, l.xuid) /\ l.xuid \in Players
      BY <2>2, <2>3 DEF Holds
    <3> QED
      BY <1>1, <2>2, <2>3, <3>1, SeenAt, KnownInLog
  <2> QED
    BY <2>4, <2>5, <2>7, <2>8
<1> QED
  BY <1>2, <1>3 DEF LeftOver

LEMMA NamesInit == Init => NamesOK
  BY EmptySeq DEF Init, NamesOK, Named

LEMMA NamesNext == RecentsInv /\ NamesOK /\ [Next]_vars => NamesOK'
<1> SUFFICES ASSUME RecentsInv, NamesOK, [Next]_vars PROVE NamesOK'
  OBVIOUS
<1>1. ListOK(mem) /\ ListOK(file) /\ Named(mem) /\ Named(file) /\ pos \in Nat \ {0}
  BY DEF RecentsInv, ShapeOK, NamesOK
<1>2. SUFFICES Named(mem') /\ Named(file')
  BY DEF NamesOK, Named
<1>3. CASE UNCHANGED <<mem, file>>
  BY <1>1, <1>3
<1>4. CASE TimePasses
  <2>1. mem' = Older(mem) /\ file' = Older(file)
    BY <1>4 DEF TimePasses
  <2>2. ASSUME NEW list, ListOK(list), Named(list)
        PROVE  Named(Older(list))
    BY <2>2, OlderOK DEF Named
  <2> QED
    BY <1>1, <2>1, <2>2
<1>5. CASE ScanSees
  <2> DEFINE p == lobby[pos].who
             a == lobby[pos].addr
  <2>1. p \in Players /\ a \in MemberAddrs
    BY <1>5, SeenMember
  <2>2. mem' = Upserted(mem, p, a) /\ file' = file
    BY <1>5 DEF ScanSees
  <2> HIDE DEF p, a
  <2>3. \A k \in DOMAIN mem' :
          \/ \E i \in DOMAIN mem : mem'[k] = mem[i]
          \/ \E i \in DOMAIN mem : mem'[k] = Refreshed(mem[i], a)
          \/ mem'[k] = NewEntry(p, a)
    BY <1>1, <2>1, <2>2, UpsertedOK
  <2>4. \A i \in DOMAIN mem : LET e == Refreshed(mem[i], a) IN e.piped => e.xuid \in Piped
    <3> SUFFICES ASSUME NEW i \in DOMAIN mem
                 PROVE  LET e == Refreshed(mem[i], a) IN e.piped => e.xuid \in Piped
      OBVIOUS
    <3>1. mem[i] \in Entry
      BY <1>1, ListFacts
    <3>2. /\ Refreshed(mem[i], a).xuid = mem[i].xuid
          /\ Refreshed(mem[i], a).piped = (mem[i].xuid \in Piped)
      BY <2>1, <3>1, RefreshedFields
    <3> QED
      BY <3>2
  <2>5. NewEntry(p, a).piped => NewEntry(p, a).xuid \in Piped
    BY DEF NewEntry
  <2>6. Named(mem')
    BY <1>1, <2>3, <2>4, <2>5 DEF Named
  <2> QED
    BY <1>1, <2>2, <2>6
<1>6. CASE ScanEnds
  <2>1. mem' = Sorted(mem) /\ file' = file
    BY <1>6 DEF ScanEnds
  <2>2. \A k \in DOMAIN mem' : \E i \in DOMAIN mem : mem'[k] = mem[i]
    BY <1>1, <2>1, SortedOK, SortPlaces
  <2> QED
    BY <1>1, <2>1, <2>2 DEF Named
<1>7. CASE SaveOpens
  BY <1>1, <1>7, EmptySeq DEF SaveOpens, Named
<1>8. CASE SaveWrites
  <2>1. /\ file' = Append(file, mem[pos]) /\ mem' = mem
        /\ pc = "write" /\ ~cut /\ pos <= Len(mem) /\ pos \in DOMAIN mem /\ EntryOK(mem[pos])
    BY <1>1, <1>8, ListFacts DEF SaveWrites
  <2>2. /\ file'[pos] = mem[pos]
        /\ \A i \in DOMAIN file' : i = pos \/ i \in DOMAIN file
        /\ \A i \in DOMAIN file : file'[i] = file[i]
    BY <2>1, LineOK
  <2> QED
    BY <1>1, <2>1, <2>2 DEF Named
<1>9. CASE Restarts
  <2>1. \E left : ListOK(left) /\ Named(left) /\ file' = Older(left)
    BY <1>9, LeftOK DEF Restarts
  <2>2. PICK left : ListOK(left) /\ Named(left) /\ file' = Older(left)
    BY <2>1
  <2>3. Named(file') /\ ListOK(file')
    BY <2>2, OlderOK DEF Named
  <2>4. mem' = Sorted([i \in DOMAIN file' |-> Reloaded(file'[i])])
    BY <1>9 DEF Restarts, Loaded
  <2> DEFINE read == [i \in DOMAIN file' |-> Reloaded(file'[i])]
  <2>5. \A i \in DOMAIN file' : EntryOK(read[i]) /\ read[i].xuid = file'[i].xuid /\ ~read[i].piped
    <3>1. \A e \in Entry : Reloaded(e).piped = FALSE
      BY DEF Reloaded, Entry
    <3>2. \A i \in DOMAIN file' : file'[i] \in Entry /\ EntryOK(file'[i])
      BY <2>3, ListFacts
    <3> QED
      BY <3>1, <3>2, ReloadedOK
  <2>6. read = [i \in DOMAIN file' |-> read[i]]
    OBVIOUS
  <2>7. mem' = Sorted(read)
    BY <2>4
  <2> HIDE DEF read
  <2>8. ListOK(read) /\ DOMAIN read = DOMAIN file'
    BY <2>3, <2>5, <2>6, MappedOK
  <2>9. \A k \in DOMAIN mem' : \E i \in DOMAIN read : mem'[k] = read[i]
    BY <2>7, <2>8, SortedOK, SortPlaces
  <2> QED
    BY <2>3, <2>5, <2>8, <2>9 DEF Named
<1>10. CASE WriteFails
  BY <1>1, <1>10, LeftOK DEF WriteFails
<1> QED
  BY <1>3, <1>4, <1>5, <1>6, <1>7, <1>8, <1>9, <1>10
  DEF Next, Tick, LobbyChanges, DiskChanges, SaveFallsDue, ScanStarts, ScanSkips,
      SaveFails, SaveCloses, vars

\* A scan that comes to a player meets them, instead of one seen longest ago if the list
\* is full.
LEMMA MeetsStep ==
  ASSUME RecentsInv, ScanSees
  PROVE  Log!Next
<1> DEFINE p == lobby[pos].who
           a == lobby[pos].addr
           K == Log!Known(SeenIn(mem))
<1>1. p \in Players /\ a \in MemberAddrs /\ ListOK(mem)
  BY SeenMember DEF RecentsInv, ShapeOK
<1>2. mem' = Upserted(mem, p, a) /\ SeenIn(file)' = SeenIn(file)
  BY DEF ScanSees, SeenIn, Holds
<1> HIDE DEF p, a
<1>3. ListOK(Upserted(mem, p, a))
  BY <1>1, UpsertedOK
<1>4. /\ K = {q \in Players : Holds(mem, q)} /\ Cardinality(K) = Len(mem)
      /\ Len(mem) \in Nat /\ Len(mem) <= MaxEntries
  BY <1>1, KnownInLog, ListFacts DEF ListOK
<1> HIDE DEF K
<1>5. CASE Holds(mem, p)
  <2> DEFINE new == Upserted(mem, p, a)
             log == [SeenIn(mem) EXCEPT ![p] = 0]
  <2>1. /\ DOMAIN new = DOMAIN mem
        /\ \A i \in DOMAIN mem :
             new[i] = IF mem[i].xuid = p THEN Refreshed(mem[i], a) ELSE mem[i]
    BY <1>5 DEF Upserted
  <2>2. \A i \in DOMAIN mem : /\ mem[i] \in Entry /\ mem[i].xuid \in Players
                              /\ Refreshed(mem[i], a).xuid = mem[i].xuid
                              /\ Refreshed(mem[i], a).age = 0
    BY <1>1, ListFacts, RefreshedFields
  <2>3. /\ \A q \in Players : log[q] = IF q = p THEN 0 ELSE SeenIn(mem)[q]
        /\ log = [q \in Players |-> log[q]]
    BY <1>1, SeenAt
  <2> HIDE DEF new, log
  <2>4. ASSUME NEW i \in DOMAIN new
        PROVE  log[new[i].xuid] = new[i].age
    <3>1. i \in DOMAIN mem /\ SeenIn(mem)[mem[i].xuid] = mem[i].age
      BY <1>1, <2>1, SeenAt
    <3> QED
      BY <2>1, <2>2, <2>3, <3>1
  <2>5. \A q \in Players : ~Holds(new, q) => log[q] = MaxAge + 1
    <3>1. \A q \in Players : ~Holds(new, q) => ~Holds(mem, q) /\ q # p
      BY <1>5, <2>1, <2>2 DEF Holds
    <3> QED
      BY <1>1, <2>3, <3>1, SeenAt
  <2>6. SeenIn(new) = log
    BY <1>3, <2>3, <2>4, <2>5, SeenIs DEF new
  <2>7. SeenIn(mem)' = [SeenIn(mem) EXCEPT ![p] = 0]
    BY <1>2, <2>6 DEF new, log
  <2>8. Log!Meets(p)
    BY <1>1, <1>2, <1>4, <1>5, <2>7 DEF Log!Meets, K
  <2> QED
    BY <1>1, <2>8 DEF Log!Next
<1>6. CASE ~Holds(mem, p)
  <2> DEFINE r == Roomed(mem)
             e == NewEntry(p, a)
  <2>1. Upserted(mem, p, a) = Append(r, e)
    BY <1>6 DEF Upserted
  <2>2. EntryOK(e) /\ e.xuid = p /\ e.age = 0
    BY <1>1, NewEntryOK DEF NewEntry
  <2>3. ListOK(r) /\ ~Holds(r, p)
    BY <1>1, <1>6, RoomedOK DEF Holds
  <2> HIDE DEF r, e
  <2>4. SeenIn(mem') = [SeenIn(r) EXCEPT ![p] = 0]
    BY <1>2, <1>3, <2>1, <2>2, <2>3, AppendedSeen
  <2>5. CASE Len(mem) < MaxEntries
    <3>1. r = mem
      BY <1>4, <2>5, SizeAssumption DEF Roomed, r
    <3>2. SeenIn(mem)' = [SeenIn(mem) EXCEPT ![p] = 0]
      BY <2>4, <3>1
    <3>3. Log!Meets(p)
      BY <1>2, <1>4, <2>5, <3>2, CountsAlike DEF Log!Meets, K
    <3> QED
      BY <1>1, <3>3 DEF Log!Next
  <2>6. CASE Len(mem) = MaxEntries
    <3>1. PICK q \in Players :
             /\ Holds(mem, q) /\ \A j \in DOMAIN mem : mem[j].age <= SeenIn(mem)[q]
             /\ SeenIn(r) = [SeenIn(mem) EXCEPT ![q] = MaxAge + 1]
      BY <1>1, <2>6, RoomedSeen DEF r
    <3>2. p # q /\ SeenIn(mem) \in [Players -> 0..(MaxAge + 1)]
      BY <1>1, <1>6, <3>1, SeenAt
    <3>3. SeenIn(mem)' = [SeenIn(mem) EXCEPT ![p] = 0, ![q] = MaxAge + 1]
      BY <1>1, <2>4, <3>1, <3>2
    <3>4. ASSUME NEW t \in K
          PROVE  SeenIn(mem)[t] <= SeenIn(mem)[q]
      <4>1. PICK j \in DOMAIN mem : mem[j].xuid = t
        BY <1>4 DEF Holds
      <4>2. SeenIn(mem)[mem[j].xuid] = mem[j].age
        BY <1>1, SeenAt
      <4> QED
        BY <3>1, <4>1, <4>2
    <3>5. p \notin K /\ q \in K /\ Cardinality(K) = MaxEntries
      BY <1>4, <1>6, <2>6, <3>1
    <3>6. Log!MeetsInsteadOf(p, q)
      BY <1>2, <3>3, <3>4, <3>5, CountsAlike DEF Log!MeetsInsteadOf, Log!Never, K
    <3> QED
      BY <1>1, <3>6 DEF Log!Next
  <2> QED
    BY <1>4, <2>5, <2>6, SizeAssumption
<1> QED
  BY <1>5, <1>6

LEMMA LogInit == Init => Log!Init
  BY EmptySeen DEF Init, Log!Init

\* Every step is one of the log or leaves it alone.
LEMMA LogStep ==
  RecentsInv /\ NamesOK /\ [Next]_vars => [Log!Next]_<<SeenIn(mem), SeenIn(file)>>
<1> SUFFICES ASSUME RecentsInv, NamesOK, [Next]_vars
             PROVE  [Log!Next]_<<SeenIn(mem), SeenIn(file)>>
  OBVIOUS
<1>1. ListOK(mem) /\ ListOK(file) /\ pos \in Nat \ {0}
  BY DEF RecentsInv, ShapeOK
<1>2. CASE UNCHANGED <<mem, file>>
  BY <1>2 DEF SeenIn, Holds
<1>3. CASE TimePasses
  <2>1. mem' = Older(mem) /\ file' = Older(file)
    BY <1>3 DEF TimePasses
  <2>2. SeenIn(mem') = Log!Older(SeenIn(mem)) /\ SeenIn(file') = Log!Older(SeenIn(file))
    BY <1>1, <2>1, OlderSeen
  <2> QED
    BY <2>2 DEF Log!Next, Log!TimePasses
<1>4. CASE ScanSees
  BY <1>4, MeetsStep
<1>5. CASE ScanEnds
  <2>1. mem' = Sorted(mem) /\ file' = file
    BY <1>5 DEF ScanEnds
  <2>2. SeenIn(mem') = SeenIn(mem) /\ SeenIn(file') = SeenIn(file)
    BY <1>1, <2>1, SortedSeen
  <2> QED
    BY <2>2
<1>6. CASE SaveOpens
  <2>1. file' = << >> /\ mem' = mem
    BY <1>6 DEF SaveOpens
  <2>2. SeenIn(file') = Log!Blank /\ SeenIn(mem') = SeenIn(mem)
    BY <2>1, EmptySeen
  <2> QED
    BY <2>2 DEF Log!Next, Log!SaveBegins
<1>7. CASE SaveWrites
  <2> DEFINE p == mem[pos].xuid
  <2>1. /\ file' = Append(file, mem[pos]) /\ mem' = mem
        /\ pc = "write" /\ ~cut /\ pos <= Len(mem) /\ pos \in DOMAIN mem /\ EntryOK(mem[pos])
        /\ p \in Players
    BY <1>1, <1>7, ListFacts DEF SaveWrites
  <2>2. ListOK(file')
    BY <2>1, LineOK
  <2>3. ~Holds(file, p)
    <3>1. Len(file) = pos - 1 /\ \A i \in 1..(pos - 1) : file[i] = mem[i]
      BY <2>1 DEF RecentsInv, SaveOK
    <3>2. DOMAIN file = 1..(pos - 1) /\ \A i \in 1..(pos - 1) : i # pos /\ i \in DOMAIN mem
      BY <1>1, <2>1, <3>1, ListFacts
    <3> QED
      BY <1>1, <2>1, <3>1, <3>2 DEF Holds, ListOK, Once
  <2>4. SeenIn(file') = [SeenIn(file) EXCEPT ![p] = mem[pos].age]
    BY <1>1, <2>1, <2>2, <2>3, AppendedSeen
  <2>5. p \in Log!Known(SeenIn(mem)) /\ SeenIn(mem)[p] = mem[pos].age
    <3>1. Holds(mem, p)
      BY <2>1 DEF Holds
    <3> QED
      BY <1>1, <2>1, <3>1, SeenAt, KnownInLog
  <2>6. SeenIn(mem') = SeenIn(mem)
    BY <2>1
  <2> HIDE DEF p
  <2>7. Log!Saves(p)
    BY <2>4, <2>5, <2>6 DEF Log!Saves
  <2> QED
    BY <2>1, <2>7 DEF Log!Next
<1>8. CASE Restarts
  <2>1. PICK left \in {file} \cup IF pc = "write" /\ ~cut /\ pos <= Len(mem) THEN LeftOver ELSE {} :
             file' = Older(left)
    BY <1>8 DEF Restarts
  <2>2. /\ ListOK(left) /\ Named(left)
        /\ SeenIn(left) \in {SeenIn(file)} \cup
             {[SeenIn(file) EXCEPT ![p] = SeenIn(mem)[p]] : p \in Log!Known(SeenIn(mem))}
    BY LeftOK
  <2>3. SeenIn(file') = Log!Older(SeenIn(left))
    BY <2>1, <2>2, OlderSeen
  <2>4. ListOK(file') /\ Named(file')
    BY <2>1, <2>2, OlderOK DEF Named
  <2>5. PICK lost \in SUBSET (Piped \cap Log!Known(SeenIn(file'))) :
             SeenIn(Loaded(file')) =
               [p \in Players |-> IF p \in lost THEN MaxAge ELSE SeenIn(file')[p]]
    BY <2>4, LoadedSeen
  <2>6. mem' = Loaded(file')
    BY <1>8 DEF Restarts
  <2>7. SeenIn(mem') = [p \in Players |-> IF p \in lost THEN MaxAge ELSE SeenIn(file')[p]]
    BY <2>5, <2>6
  <2>8. Log!Restarts
    BY <2>2, <2>3, <2>5, <2>7 DEF Log!Restarts
  <2> QED
    BY <2>8 DEF Log!Next
<1>9. CASE WriteFails
  <2>1. \/ SeenIn(file') = SeenIn(file)
        \/ \E p \in Log!Known(SeenIn(mem)) : SeenIn(file') = [SeenIn(file) EXCEPT ![p] = SeenIn(mem)[p]]
    BY <1>9, LeftOK DEF WriteFails
  <2>2. SeenIn(mem') = SeenIn(mem)
    BY <1>9 DEF WriteFails
  <2>3. ASSUME NEW p \in Log!Known(SeenIn(mem)),
               SeenIn(file') = [SeenIn(file) EXCEPT ![p] = SeenIn(mem)[p]]
        PROVE  Log!Next
    <3>1. p \in Players
      BY DEF Log!Known
    <3>2. Log!Saves(p)
      BY <2>2, <2>3 DEF Log!Saves
    <3> QED
      BY <3>1, <3>2 DEF Log!Next
  <2> QED
    BY <2>1, <2>2, <2>3
<1> QED
  BY <1>2, <1>3, <1>4, <1>5, <1>6, <1>7, <1>8, <1>9
  DEF Next, Tick, LobbyChanges, DiskChanges, SaveFallsDue, ScanStarts, ScanSkips,
      SaveFails, SaveCloses, vars

\* The list and the file implement the log of PlayerLog: whatever the scan does to the
\* order, the addresses and the room there is, and wherever a crash falls, nobody is
\* forgotten but one seen longest ago, for somebody new in a full list, and a restart
\* finds whom the save had reached as late as they were seen.
THEOREM RecentsImplementLog == Spec => ImplementsLog
<1>1. RecentsInv /\ NamesOK /\ [Next]_vars => NamesOK'
  BY NamesNext
<1> QED
  BY LogInit, NamesInit, <1>1, LogStep, RecentsInvariant, PTL
     DEF Spec, ImplementsLog, Log!Spec
=============================================================================
