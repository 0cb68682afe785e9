------------------------------ MODULE GuardsProofs ------------------------------
(* Theorems about ServerCommands and LobbyGuard, in every behaviour of Guards: for     *)
(* rings of any size, any commands, messages, config strings and clock, any number of  *)
(* threads, any limits of arrays, and any depth of printing that is allowed.           *)
EXTENDS Guards, Counting

-----------------------------------------------------------------------------
(* Numbers and their slots.                                                  *)

\* Two numbers that share a slot are at least a ring apart.
LEMMA Apart ==
  ASSUME NEW w \in Nat \ {0}, NEW a \in Int, NEW b \in Int, a % w = b % w, a < b
  PROVE  b >= a + w
<1> DEFINE p == b \div w
           q == a \div w
           r == a % w
<1>1. p \in Int /\ q \in Int /\ r \in Int /\ b = w * p + r /\ a = w * q + r
  BY Euclid
<1> HIDE DEF p, q, r
<1>2. w * (p - q) = w * p - w * q
  BY <1>1, Distributes
<1>3. w * p \in Int /\ w * q \in Int
  BY <1>1
<1>4. b - a = w * (p - q)
  BY <1>1, <1>2, <1>3
<1>5. p - q > 0
  <2>1. CASE p - q <= 0
    <3>1. w * (q - p) >= 0
      BY <1>1, <2>1
    <3>2. w * (q - p) = w * q - w * p
      BY <1>1, Distributes
    <3>3. QED
      BY <1>1, <1>3, <3>1, <3>2
  <2>2. QED
    BY <1>1, <2>1
<1>6. w * (p - q) >= w
  BY <1>1, <1>5, Multiple
<1>7. QED
  BY <1>4, <1>6

LEMMA SlotType == \A n \in Int : Slot(n) \in Slots
  BY Euclid, SequenceAssumption DEF Slot, Slots

\* Within a ring's length every number has a slot to itself.
LEMMA SlotsApart ==
  ASSUME NEW n \in Int, NEW m \in Int, Slot(n) = Slot(m), n - m < Window, m - n < Window
  PROVE  n = m
<1>1. Window \in Nat \ {0}
  BY SequenceAssumption
<1>2. ASSUME n < m PROVE FALSE
  <2>1. n % Window = m % Window
    BY DEF Slot
  <2>2. m >= n + Window
    BY <1>1, <1>2, <2>1, Apart
  <2>3. QED
    BY <1>1, <2>2
<1>3. ASSUME m < n PROVE FALSE
  <2>1. m % Window = n % Window
    BY DEF Slot
  <2>2. n >= m + Window
    BY <1>1, <1>3, <2>1, Apart
  <2>3. QED
    BY <1>1, <2>2
<1>4. QED
  BY <1>2, <1>3

\* The greatest of a set is the one no other exceeds.
LEMMA MaxIs ==
  ASSUME NEW S \in SUBSET Int, NEW m \in S, \A x \in S : x <= m
  PROVE  Max(S) = m
<1>1. \A y \in S : m >= y
  OBVIOUS
<1>2. Max(S) \in S /\ \A y \in S : Max(S) >= y
  BY <1>1 DEF Max
<1>3. Max(S) \in Int /\ m \in Int /\ Max(S) >= m /\ Max(S) <= m
  BY <1>2
<1> HIDE DEF Max
<1>4. QED
  BY <1>3

-----------------------------------------------------------------------------
(* The inductive invariant.                                                  *)

\* The ring holds the commands of the last numbers up to `last`, each in its slot.
Holds(ring, last) == \A n \in 1 .. last : n > last - Window => ring[Slot(n)] = n

\* A message: successive commands, under their own numbers.
Message(batch, low, high) ==
  /\ DOMAIN batch = low .. high
  /\ \A n \in low .. high : batch[n] = n

\* What a client has no gap before, or has all of whose ring.
Fresh(low, high) == low <= received.sequence + 1 \/ high - low + 1 >= Window

ServerInv ==
  /\ sent \in [sequence : Nat, acknowledge : Int, ring : [Slots -> Nat]]
  /\ Holds(sent.ring, sent.sequence)

ClientInv ==
  /\ received.sequence \in 0 .. sent.sequence
  /\ ~skewed => Holds(received.ring, received.sequence)

FlightInv ==
  \A batch \in flight :
    \E low \in 1 .. sent.sequence, high \in 1 .. sent.sequence :
      low <= high /\ Message(batch, low, high) /\ (~skewed => Fresh(low, high))

\* What the server takes as acknowledged, the client has, or needs no longer.
AcknowledgeInv ==
  ~skewed => /\ sent.acknowledge >= 0
             /\ \/ sent.acknowledge <= received.sequence
                \/ sent.acknowledge <= sent.sequence - Window

AnswerInv == ~skewed /\ answer # None => answer.given = answer.asked

RingInv ==
  /\ skewed \in BOOLEAN
  /\ ServerInv /\ ClientInv /\ FlightInv /\ AcknowledgeInv /\ AnswerInv

LEMMA RingInit == Init => RingInv
<1> SUFFICES ASSUME Init PROVE RingInv
  OBVIOUS
<1>1. /\ sent = [sequence |-> 0, acknowledge |-> 0, ring |-> [s \in Slots |-> 0]]
      /\ received = [sequence |-> 0, ring |-> [s \in Slots |-> 0]]
      /\ flight = {} /\ skewed = FALSE /\ answer = None
  BY DEF Init, CommandsInit
<1>2. ServerInv
  BY <1>1 DEF ServerInv, Holds
<1>3. ClientInv
  BY <1>1 DEF ClientInv, Holds
<1>4. FlightInv /\ AnswerInv
  BY <1>1 DEF FlightInv, AnswerInv
<1>5. AcknowledgeInv
  BY <1>1 DEF AcknowledgeInv
<1>6. QED
  BY <1>1, <1>2, <1>3, <1>4, <1>5 DEF RingInv

-----------------------------------------------------------------------------
(* The server's steps.                                                       *)

LEMMA QueueStep == ASSUME RingInv, QueueCommand PROVE RingInv'
<1> DEFINE n == sent.sequence + 1
<1>1. n \in Nat \ {0} /\ Slot(n) \in Slots /\ Window \in Nat \ {0}
  BY SlotType, SequenceAssumption DEF RingInv, ServerInv
<1>2. /\ sent'.sequence = n /\ sent'.acknowledge = sent.acknowledge
      /\ sent'.ring = [sent.ring EXCEPT ![Slot(n)] = n]
      /\ sent' \in [sequence : Nat, acknowledge : Int, ring : [Slots -> Nat]]
  BY <1>1 DEF QueueCommand, RingInv, ServerInv
<1>3. UNCHANGED <<flight, received, skewed, answer>>
  BY DEF QueueCommand
<1>4. Holds(sent'.ring, sent'.sequence)
  <2> SUFFICES ASSUME NEW m \in 1 .. n, m > n - Window
               PROVE  sent'.ring[Slot(m)] = m
    BY <1>2 DEF Holds
  <2>1. CASE m = n
    BY <1>1, <1>2, <2>1 DEF RingInv, ServerInv
  <2>2. CASE m # n
    <3>1. Slot(m) # Slot(n) /\ Slot(m) \in Slots
      BY <1>1, <2>2, SlotsApart, SlotType
    <3>2. sent.ring[Slot(m)] = m
      BY <1>1, <2>2 DEF RingInv, ServerInv, Holds
    <3>3. QED
      BY <1>1, <1>2, <3>1, <3>2 DEF RingInv, ServerInv
  <2>3. QED
    BY <2>1, <2>2
<1>5. ServerInv'
  BY <1>2, <1>4 DEF ServerInv
<1>6. ClientInv'
  BY <1>1, <1>2, <1>3 DEF RingInv, ServerInv, ClientInv
<1>7. FlightInv'
  BY <1>1, <1>2, <1>3 DEF RingInv, ServerInv, FlightInv, Fresh
<1>8. AcknowledgeInv'
  BY <1>1, <1>2, <1>3 DEF RingInv, ServerInv, ClientInv, AcknowledgeInv
<1>9. QED
  BY <1>3, <1>5, <1>6, <1>7, <1>8 DEF RingInv, AnswerInv

LEMMA ClaimStep == ASSUME RingInv, ClaimAcknowledge PROVE RingInv'
<1>1. PICK a \in -1 .. MaxSequence[texts] + 1 :
        sent' = [sent EXCEPT !.acknowledge = a] /\ skewed' = (skewed \/ a \notin 0 .. received.sequence)
  BY DEF ClaimAcknowledge
<1>2. UNCHANGED <<flight, received, answer>>
  BY DEF ClaimAcknowledge
<1>3. a \in Int
  OBVIOUS
<1>4. /\ sent'.sequence = sent.sequence /\ sent'.ring = sent.ring /\ sent'.acknowledge = a
      /\ sent' \in [sequence : Nat, acknowledge : Int, ring : [Slots -> Nat]]
  BY <1>1, <1>3 DEF RingInv, ServerInv
<1>5. skewed' \in BOOLEAN /\ (~skewed' => ~skewed /\ a \in 0 .. received.sequence)
  BY <1>1
<1>6. ServerInv' /\ ClientInv'
  BY <1>2, <1>4, <1>5 DEF RingInv, ServerInv, ClientInv
<1>7. FlightInv'
  BY <1>2, <1>4, <1>5 DEF RingInv, FlightInv, Fresh
<1>8. AcknowledgeInv' /\ AnswerInv'
  BY <1>2, <1>4, <1>5 DEF RingInv, AcknowledgeInv, AnswerInv, ClientInv
<1>9. QED
  BY <1>5, <1>6, <1>7, <1>8 DEF RingInv

\* What hk_write_reliable_commands takes as acknowledged leaves no more than a ring of
\* commands to write, and is what was claimed or the oldest the ring allows.
LEMMA ClampType ==
  ASSUME NEW a \in Int, NEW last \in Nat
  PROVE  /\ Clamped(a, last) \in 0 .. last /\ Clamped(a, last) >= last - Window
         /\ a \in 0 .. last => Clamped(a, last) \in {a, last - Window}
<1> USE SequenceAssumption
<1>1. CASE a \notin 0 .. last
  BY <1>1 DEF Clamped
<1>2. CASE a \in 0 .. last /\ a < last - Window
  <2>1. Max({a, last - Window}) = last - Window
    BY <1>2, MaxIs
  <2>2. QED
    BY <1>2, <2>1 DEF Clamped
<1>3. CASE a \in 0 .. last /\ a >= last - Window
  <2> DEFINE S == {a, last - Window}
  <2>1. S \in SUBSET Int /\ a \in S /\ \A x \in S : x <= a
    BY <1>3
  <2> HIDE DEF S
  <2>2. Max(S) = a
    BY <2>1, MaxIs
  <2>3. QED
    BY <1>3, <2>2 DEF Clamped, S
<1>4. QED
  BY <1>1, <1>2, <1>3

LEMMA WriteStep == ASSUME RingInv, WriteReliableCommands PROVE RingInv'
<1> DEFINE last  == sent.sequence
           a     == Clamped(sent.acknowledge, last)
           batch == [n \in a + 1 .. last |-> sent.ring[Slot(n)]]
<1>1. last \in Nat /\ sent.acknowledge \in Int /\ Window \in Nat \ {0}
  BY SequenceAssumption DEF RingInv, ServerInv
<1>2. /\ a \in 0 .. last /\ a >= last - Window
      /\ sent.acknowledge \in 0 .. last => a \in {sent.acknowledge, last - Window}
  BY <1>1, ClampType
<1>3. /\ sent' = [sent EXCEPT !.acknowledge = a]
      /\ flight' = IF DOMAIN batch = {} THEN flight ELSE flight \cup {batch}
      /\ UNCHANGED <<received, skewed, answer>>
  BY DEF WriteReliableCommands
<1>4. /\ DOMAIN batch = a + 1 .. last
      /\ \A n \in a + 1 .. last : batch[n] = sent.ring[Slot(n)]
  OBVIOUS
<1> HIDE DEF a, batch
<1>5. /\ sent'.sequence = last /\ sent'.ring = sent.ring /\ sent'.acknowledge = a
      /\ sent' \in [sequence : Nat, acknowledge : Int, ring : [Slots -> Nat]]
  BY <1>2, <1>3 DEF RingInv, ServerInv
<1>6. ServerInv' /\ ClientInv'
  BY <1>3, <1>5 DEF RingInv, ServerInv, ClientInv
<1>7. ~skewed => a >= 0 /\ (a <= received.sequence \/ a <= last - Window)
  BY <1>1, <1>2, SequenceAssumption DEF RingInv, AcknowledgeInv, ClientInv
<1>8. ASSUME DOMAIN batch # {}
      PROVE  /\ a + 1 \in 1 .. last /\ last \in 1 .. last
             /\ Message(batch, a + 1, last)
             /\ ~skewed => Fresh(a + 1, last)
  <2>1. a + 1 \in 1 .. last /\ last \in 1 .. last
    BY <1>1, <1>2, <1>4, <1>8
  <2>2. \A n \in a + 1 .. last : batch[n] = n
    BY <1>1, <1>2, <1>4 DEF RingInv, ServerInv, Holds
  <2>3. ~skewed => Fresh(a + 1, last)
    BY <1>1, <1>2, <1>7 DEF Fresh, RingInv, ClientInv
  <2>4. QED
    BY <1>4, <2>1, <2>2, <2>3 DEF Message
<1>9. FlightInv'
  <2> SUFFICES ASSUME NEW b \in flight'
               PROVE  \E low \in 1 .. last, high \in 1 .. last :
                        low <= high /\ Message(b, low, high) /\ (~skewed => Fresh(low, high))
    BY <1>3, <1>5 DEF FlightInv, Fresh
  <2>1. CASE b \in flight
    BY <2>1 DEF RingInv, FlightInv
  <2>2. CASE b \notin flight
    <3>1. b = batch /\ DOMAIN batch # {}
      BY <1>3, <2>2
    <3>2. a + 1 <= last
      BY <1>1, <1>8, <3>1
    <3>3. QED
      BY <1>8, <3>1, <3>2
  <2>3. QED
    BY <2>1, <2>2
<1>10. AcknowledgeInv' /\ AnswerInv'
  BY <1>3, <1>5, <1>7 DEF RingInv, AcknowledgeInv, AnswerInv
<1>11. QED
  BY <1>3, <1>6, <1>9, <1>10 DEF RingInv

-----------------------------------------------------------------------------
(* The client's steps, and the network.                                      *)

\* What Receive makes of a message and the ring: the new commands, each in its slot.
New(batch, had) == {n \in DOMAIN batch : n > had}
Kept(batch, had, old) ==
  [s \in Slots |-> LET here == {n \in New(batch, had) : Slot(n) = s} IN
                   IF here = {} THEN old[s] ELSE batch[Max(here)]]

\* What a client's ring holds once it has kept the new commands of a message that leaves
\* no gap: of each slot the last that belongs there.
LEMMA KeptHolds ==
  ASSUME NEW had \in Nat, NEW low \in Nat \ {0}, NEW high \in Nat, high > had, low <= high,
         low <= had + 1 \/ high - low + 1 >= Window,
         NEW batch, Message(batch, low, high),
         NEW old, Holds(old, had)
  PROVE  Holds(Kept(batch, had, old), high)
<1> DEFINE new  == New(batch, had)
           ring == Kept(batch, had, old)
<1> SUFFICES ASSUME NEW n \in 1 .. high, n > high - Window
             PROVE  ring[Slot(n)] = n
  BY DEF Holds
<1> DEFINE here == {m \in new : Slot(m) = Slot(n)}
<1>0. Window \in Nat \ {0}
  BY SequenceAssumption
<1>1. new = {m \in low .. high : m > had} /\ new \in SUBSET Int
  BY DEF Message, New
<1>2. Slot(n) \in Slots
  BY SlotType
<1>3. ring[Slot(n)] = IF here = {} THEN old[Slot(n)] ELSE batch[Max(here)]
  BY <1>2 DEF Kept
<1> HIDE DEF new, ring
<1>4. CASE n \in new
  <2>1. n \in here /\ here \in SUBSET Int
    BY <1>1, <1>4
  <2>2. ASSUME NEW m \in here PROVE m <= n
    <3>1. m \in Int /\ m <= high /\ Slot(m) = Slot(n)
      BY <1>1
    <3>2. CASE m > n
      <4>1. m - n < Window /\ n - m < Window
        BY <1>0, <3>1, <3>2
      <4>2. m = n
        BY <3>1, <4>1, SlotsApart
      <4>3. QED
        BY <4>2, <3>1
    <3>3. QED
      BY <3>1, <3>2
  <2>3. Max(here) = n
    BY <2>1, <2>2, MaxIs
  <2>4. batch[n] = n
    BY <1>1, <1>4 DEF Message
  <2>5. QED
    BY <1>3, <2>1, <2>3, <2>4
<1>5. CASE n \notin new
  <2>1. n <= had
    BY <1>0, <1>1, <1>5
  <2>2. old[Slot(n)] = n
    BY <1>0, <2>1 DEF Holds
  <2>3. ASSUME NEW m \in here PROVE FALSE
    <3>1. m \in Int /\ m > n /\ m <= high /\ Slot(m) = Slot(n)
      BY <1>1, <2>1
    <3>2. m - n < Window /\ n - m < Window
      BY <1>0, <3>1
    <3>3. m = n
      BY <3>1, <3>2, SlotsApart
    <3>4. QED
      BY <3>1, <3>3
  <2>4. here = {}
    BY <2>3
  <2>5. QED
    BY <1>3, <2>2, <2>4
<1>6. QED
  BY <1>4, <1>5

LEMMA ReceiveStep ==
  ASSUME RingInv, NEW batch \in flight, Receive(batch)
  PROVE  RingInv'
<1> DEFINE had  == received.sequence
           new  == New(batch, had)
           ring == Kept(batch, had, received.ring)
<1>1. /\ UNCHANGED <<sent, skewed, answer>> /\ flight' \in {flight, flight \ {batch}}
      /\ received' = IF new = {} THEN received ELSE [sequence |-> Max(new), ring |-> ring]
  BY DEF Receive, New, Kept
<1>2. PICK low \in 1 .. sent.sequence, high \in 1 .. sent.sequence :
        low <= high /\ Message(batch, low, high) /\ (~skewed => Fresh(low, high))
  BY DEF RingInv, FlightInv
<1>3. had \in Nat /\ sent.sequence \in Nat /\ had <= sent.sequence /\ low \in Nat \ {0} /\ high \in Nat
  BY DEF RingInv, ServerInv, ClientInv
<1>4. new = {n \in low .. high : n > had} /\ new \in SUBSET Int
  BY <1>2 DEF Message, New
<1>5. received'.sequence \in had .. sent.sequence /\ ClientInv'
  <2>1. CASE new = {}
    BY <1>1, <1>3, <2>1 DEF RingInv, ClientInv
  <2>2. CASE new # {}
    <3>1. high > had /\ high \in new
      BY <1>2, <1>3, <1>4, <2>2
    <3>2. Max(new) = high
      <4>1. \A x \in new : x <= high
        BY <1>3, <1>4
      <4> HIDE DEF new
      <4>2. QED
        BY <1>4, <3>1, <4>1, MaxIs
    <3>3. received'.sequence = high /\ received'.ring = ring
      BY <1>1, <2>2, <3>2
    <3>4. ASSUME ~skewed PROVE Holds(ring, high)
      <4>1. low <= had + 1 \/ high - low + 1 >= Window
        BY <1>2, <3>4 DEF Fresh
      <4>2. Holds(received.ring, had)
        BY <3>4 DEF RingInv, ClientInv
      <4> HIDE DEF had
      <4>3. QED
        BY <1>2, <1>3, <3>1, <4>1, <4>2, KeptHolds
    <3> HIDE DEF ring, new
    <3>5. QED
      BY <1>1, <1>2, <1>3, <3>1, <3>3, <3>4 DEF ClientInv
  <2>3. QED
    BY <2>1, <2>2
<1>6. ServerInv'
  BY <1>1 DEF RingInv, ServerInv
<1>7. FlightInv'
  <2>1. flight' \subseteq flight /\ sent' = sent /\ skewed' = skewed
    BY <1>1
  <2>2. \A l, h \in 1 .. sent.sequence : Fresh(l, h) => Fresh(l, h)'
    BY <1>3, <1>5 DEF Fresh
  <2>3. QED
    BY <2>1, <2>2 DEF RingInv, FlightInv, Message
<1>8. AcknowledgeInv' /\ AnswerInv'
  BY <1>1, <1>3, <1>5 DEF RingInv, ServerInv, AcknowledgeInv, AnswerInv
<1>9. QED
  BY <1>1, <1>5, <1>6, <1>7, <1>8 DEF RingInv

\* A number that is given is read from its own slot.
LEMMA ReadStep ==
  ASSUME RingInv, NEW n \in 1 .. received.sequence + 1, GetServerCommand(n)
  PROVE  RingInv'
<1>1. UNCHANGED ringVars
  BY DEF GetServerCommand, OutOfWindow, ReadPlain, ReadBegin, ReadMore, ReadIndexed,
    ReadModelOversized, ReadModel, ReadUnguarded, Unmoved
<1>2. (Readable(n) /\ Given(n)) \/ NotGiven
  BY DEF GetServerCommand, OutOfWindow, ReadPlain, ReadBegin, ReadMore, ReadIndexed,
    ReadModelOversized, ReadModel, ReadUnguarded
<1>3. AnswerInv'
  <2>1. CASE NotGiven
    BY <2>1 DEF NotGiven, AnswerInv
  <2>2. CASE Readable(n) /\ Given(n)
    <3>1. answer'.asked = n /\ answer'.given = received.ring[Slot(n)]
      BY <2>2 DEF Given
    <3>2. ~skewed => received.ring[Slot(n)] = n
      BY <2>2, SequenceAssumption DEF Readable, RingInv, ServerInv, ClientInv, Holds
    <3>3. QED
      BY <1>1, <3>1, <3>2 DEF AnswerInv, ringVars
  <2>3. QED
    BY <1>2, <2>1, <2>2
<1>4. QED
  BY <1>1, <1>3
  DEF RingInv, ringVars, ServerInv, ClientInv, FlightInv, Fresh, AcknowledgeInv

LEMMA RingKept == ASSUME RingInv, UNCHANGED <<ringVars, answer>> PROVE RingInv'
  BY DEF RingInv, ringVars, ServerInv, ClientInv, FlightInv, Fresh, AcknowledgeInv, AnswerInv

LEMMA LoseStep == ASSUME RingInv, NEW batch \in flight, Lose(batch) PROVE RingInv'
  BY DEF Lose, RingInv, ServerInv, ClientInv, FlightInv, Fresh, AcknowledgeInv, AnswerInv

LEMMA RingStep == ASSUME RingInv, CommandsNext PROVE RingInv'
<1>1. CASE TimePasses \/ ToggleGuard \/ DropConfigString
           \/ \E i \in Indices, length \in Lengths : SetConfigString(i, length)
  BY <1>1, RingKept DEF TimePasses, ToggleGuard, DropConfigString, SetConfigString, commandVars
<1>2. QED
  BY <1>1, QueueStep, ClaimStep, WriteStep, ReceiveStep, LoseStep, ReadStep DEF CommandsNext

\* A command is sent under its own number and read under its own number, for rings of any
\* size, however many commands there are and whatever the network does with the messages
\* (hk_write_reliable_commands, hk_get_server_command).
THEOREM ReadsAreRight == Spec => []ReadsItsCommand
<1>1. RingInv /\ [Next]_<<commandVars, lobbyVars>> => RingInv'
  <2>1. RingInv /\ UNCHANGED commandVars => RingInv'
    BY RingKept DEF commandVars
  <2>2. QED
    BY <2>1, RingStep DEF Next
<1>2. RingInv => ReadsItsCommand
  BY DEF RingInv, FlightInv, Message, AnswerInv, ReadsItsCommand
<1>3. QED
  BY RingInit, <1>1, <1>2, PTL DEF Spec

-----------------------------------------------------------------------------
(* Texts and their buffers.                                                  *)

\* BuffersHold, with lengths that are lengths.
TextInv ==
  /\ bcs \in Nat /\ bcs < BcsMax
  /\ lengths \in [Indices -> Nat] /\ Pool(lengths) <= PoolMax

\* What a config string takes in the pool.
Taken(f) == [i \in DOMAIN f |-> IF f[i] = 0 THEN 0 ELSE f[i] + 1]

\* The pool is what one string takes, and the rest.
LEMMA PoolSplit ==
  ASSUME NEW f \in [Indices -> Nat], NEW i \in Indices
  PROVE  /\ Pool(f) = 1 + Taken(f)[i] + SumFunctionOnSet(Taken(f), Indices \ {i})
         /\ SumFunctionOnSet(Taken(f), Indices \ {i}) \in Nat
<1>1. IsFiniteSet(Indices) /\ IsFiniteSet(Indices \ {i})
  BY LengthAssumption, FS_Subset
<1>2. DOMAIN Taken(f) = Indices /\ \A j \in Indices : Taken(f)[j] \in Nat
  BY DEF Taken
<1>3. Pool(f) = 1 + SumFunctionOnSet(Taken(f), Indices)
  BY <1>2 DEF Pool, SumFunction, Taken
<1>4. Numbers(Taken(f), Indices) /\ Numbers(Taken(f), Indices \ {i})
  BY <1>2 DEF Numbers
<1>5. SumFunctionOnSet(Taken(f), Indices) = Taken(f)[i] + SumFunctionOnSet(Taken(f), Indices \ {i})
  BY <1>1, <1>4, SumSplit
<1>6. SumFunctionOnSet(Taken(f), Indices \ {i}) \in Nat
  BY <1>1, <1>4, SumType
<1> QED
  BY <1>2, <1>3, <1>5, <1>6

LEMMA TextInit == CommandsInit => TextInv
<1> SUFFICES ASSUME CommandsInit PROVE TextInv
  OBVIOUS
<1>1. bcs = 0 /\ lengths = [i \in Indices |-> 0]
  BY DEF CommandsInit
<1>2. DOMAIN Taken(lengths) = Indices /\ \A i \in Indices : Taken(lengths)[i] = 0
  BY <1>1 DEF Taken
<1>3. SumFunctionOnSet(Taken(lengths), Indices) = 0
  BY <1>2, LengthAssumption, SumZero
<1>4. Pool(lengths) = 1
  BY <1>2, <1>3 DEF Pool, SumFunction, Taken
<1> QED
  BY <1>1, <1>4, LengthAssumption DEF TextInv

\* A string that is set takes at most a byte more than the test counts.
LEMMA SetStep ==
  ASSUME TextInv, NEW i \in Indices, NEW length \in Lengths, SetConfigString(i, length)
  PROVE  TextInv'
<1> DEFINE f == [lengths EXCEPT ![i] = length]
           rest == SumFunctionOnSet(Taken(lengths), Indices \ {i})
<1>1. /\ lengths' = f /\ bcs' = bcs
      /\ IF guarded THEN ~PoolOverflow(i, length) ELSE Pool(f) <= PoolMax
  BY DEF SetConfigString
<1>2. length \in Nat /\ lengths \in [Indices -> Nat] /\ PoolMax \in Nat
  BY LengthAssumption DEF TextInv
<1>3. f \in [Indices -> Nat] /\ f[i] = length /\ \A j \in Indices \ {i} : f[j] = lengths[j]
  BY <1>2
<1>4. SumFunctionOnSet(Taken(f), Indices \ {i}) = rest
  <2> HIDE DEF f
  <2>1. Same(Taken(f), Taken(lengths), Indices \ {i})
    BY <1>2, <1>3 DEF Same, Taken
  <2>2. IsFiniteSet(Indices \ {i})
    BY LengthAssumption, FS_Subset
  <2> QED
    BY <2>1, <2>2, SumSame
<1> HIDE DEF f
<1>5. Pool(lengths) = 1 + Taken(lengths)[i] + rest /\ rest \in Nat
  BY <1>2, PoolSplit
<1>6. Pool(f) = 1 + Taken(f)[i] + rest
  BY <1>3, <1>4, PoolSplit
<1>7. /\ Taken(f)[i] = IF length = 0 THEN 0 ELSE length + 1
      /\ Taken(lengths)[i] = IF lengths[i] = 0 THEN 0 ELSE lengths[i] + 1
      /\ lengths[i] \in Nat
  BY <1>2, <1>3 DEF Taken
<1>8. Pool(f) <= PoolMax
  <2>1. CASE guarded
    <3>1. ~(Pool(lengths) + length - lengths[i] >= PoolMax)
      BY <1>1, <2>1 DEF PoolOverflow
    <3> HIDE DEF rest
    <3> QED
      BY <1>2, <1>5, <1>6, <1>7, <3>1
  <2>2. CASE ~guarded
    BY <1>1, <2>2
  <2> QED
    BY <2>1, <2>2
<1> QED
  BY <1>1, <1>3, <1>8 DEF TextInv

\* What the game puts together grows by no more than fits.
LEMMA GrowStep ==
  ASSUME TextInv, NEW n \in Nat, GetServerCommand(n)
  PROVE  TextInv'
<1>1. BcsMax \in Nat /\ Pieces \subseteq Nat /\ bcs \in Nat /\ bcs < BcsMax
  BY LengthAssumption DEF TextInv
<1>2. lengths' = lengths
  BY DEF GetServerCommand, OutOfWindow, ReadPlain, ReadBegin, ReadMore, ReadIndexed,
         ReadModelOversized, ReadModel, ReadUnguarded, Unmoved
<1>3. bcs' \in Nat /\ bcs' < BcsMax
  <2>1. ASSUME ReadBegin(n) PROVE bcs' \in Nat /\ bcs' < BcsMax
    BY <1>1, <2>1 DEF ReadBegin
  <2>2. ASSUME ReadMore(n) PROVE bcs' \in Nat /\ bcs' < BcsMax
    BY <1>1, <2>2 DEF ReadMore, Fits
  <2>3. ASSUME ReadUnguarded(n) PROVE bcs' \in Nat /\ bcs' < BcsMax
    BY <1>1, <2>3 DEF ReadUnguarded
  <2>4. ASSUME OutOfWindow(n) \/ ReadPlain(n) \/ ReadIndexed(n) \/ ReadModelOversized(n) \/ ReadModel(n)
        PROVE  bcs' = bcs
    BY <2>4 DEF OutOfWindow, ReadPlain, ReadIndexed, ReadModelOversized, ReadModel
  <2> QED
    BY <1>1, <2>1, <2>2, <2>3, <2>4 DEF GetServerCommand
<1> QED
  BY <1>2, <1>3 DEF TextInv

LEMMA TextKept == ASSUME TextInv, UNCHANGED textVars PROVE TextInv'
  BY DEF TextInv, textVars

LEMMA TextStep == ASSUME TextInv, RingInv, CommandsNext PROVE TextInv'
<1>1. received.sequence \in Nat
  BY DEF RingInv, ClientInv, ServerInv
<1>2. ASSUME NEW n \in 1 .. received.sequence + 1, GetServerCommand(n) PROVE TextInv'
  <2>1. n \in Nat
    BY <1>1
  <2> QED
    BY <1>2, <2>1, GrowStep
<1>3. ASSUME NEW i \in Indices, NEW length \in Lengths, SetConfigString(i, length) PROVE TextInv'
  BY <1>3, SetStep
<1>4. ASSUME \/ QueueCommand \/ ClaimAcknowledge \/ WriteReliableCommands
             \/ \E batch \in flight : Lose(batch) \/ Receive(batch)
             \/ TimePasses \/ ToggleGuard \/ DropConfigString
      PROVE  UNCHANGED textVars
  BY <1>4 DEF QueueCommand, ClaimAcknowledge, WriteReliableCommands, Lose, Receive, TimePasses,
              ToggleGuard, DropConfigString, commandVars
<1> QED
  BY <1>2, <1>3, <1>4, TextKept DEF CommandsNext

\* However pieces and strings of any lengths follow one another, and whenever the guard is
\* switched on and off: what the game puts together stays shorter than its buffer, and the
\* config strings fit their pool although the test leaves the zeroes out.
THEOREM BuffersStayHeld == Spec => []BuffersHold
<1>1. Init => RingInv /\ TextInv
  BY RingInit, TextInit DEF Init
<1>2. RingInv /\ TextInv /\ [Next]_<<commandVars, lobbyVars>> => (RingInv /\ TextInv)'
  <2>1. RingInv /\ TextInv /\ UNCHANGED commandVars => (RingInv /\ TextInv)'
    BY RingKept, TextKept DEF commandVars
  <2> QED
    BY <2>1, RingStep, TextStep DEF Next
<1>3. TextInv => BuffersHold
  BY DEF TextInv, BuffersHold
<1> QED
  BY <1>1, <1>2, <1>3, PTL DEF Spec

-----------------------------------------------------------------------------
(* The rate of "D" commands.                                                 *)

\* The commands that passed from a to b clock units ago.
PassedFrom(a, b) == SumFunctionOnSet(passed, a .. b)

\* How far back the window goes, among what is counted.
Newest == IF age < Span THEN age ELSE Span - 1

Lesser(a, b) == IF a <= b THEN a ELSE b

RateType ==
  /\ now \in 0 .. Turn - 1 /\ age \in 0 .. Turn
  /\ rate \in [start : 0 .. Turn - 1, count : 0 .. Most + 1]
  /\ passed \in [0 .. Span - 1 -> Nat]

\* The clock tells the window's age until it begins again; and what has passed just now
\* belongs to the window.
AgeOK ==
  /\ age < Turn => Elapsed = age
  /\ passed[0] > 0 => Elapsed < Span

\* Of the window as many have passed as were counted up to the limit; and before it no
\* more than one window lets pass, as the one before is at least a span long.
WindowOK ==
  /\ PassedFrom(0, Newest) <= Lesser(rate.count, Most)
  /\ age < Span => PassedFrom(0, Newest) = Lesser(rate.count, Most)
  /\ PassedFrom(Newest + 1, Span - 1) <= Most

DroppedOK == verdict = "dropped" => PassedFrom(0, Span - 1) >= Most \/ age >= Turn

RateInv == RateType /\ AgeOK /\ WindowOK /\ DroppedOK

\* The clock begins again, and differences of its readings with it.
LEMMA ClockIs ==
  ASSUME NEW w \in Nat \ {0}
  PROVE  /\ \A x \in 0 .. w - 1 : x % w = x
         /\ \A x \in 0 .. w - 1 : (x - w) % w = x
<1>1. ASSUME NEW y \in Int, NEW x \in 0 .. w - 1, y = x \/ y = x - w
      PROVE  y % w = x
  <2> DEFINE q == y \div w
             r == y % w
  <2>1. y = w * q + r /\ q \in Int /\ r \in 0 .. w - 1
    BY Euclid
  <2> HIDE DEF q, r
  <2>2. w * q \in Int
    BY <2>1
  <2>3. q > 0 => w * q >= w
    BY <2>1, Multiple
  <2>4. q < 0 => w * q <= 0 - w
    <3>1. q < 0 => w * (0 - q) >= w
      BY <2>1, Multiple
    <3>2. w * (0 - q) = w * 0 - w * q
      BY <2>1, Distributes
    <3> QED
      BY <2>2, <3>1, <3>2
  <2>5. q < 0 - 1 => w * q <= 0 - w - w
    <3>1. q < 0 - 1 => w * (0 - 1 - q) >= w
      BY <2>1, Multiple
    <3>2. w * (0 - 1 - q) = w * (0 - 1) - w * q
      BY <2>1, Distributes
    <3> QED
      BY <2>2, <3>1, <3>2
  <2>6. q = 0 => w * q = 0
    BY <2>1
  <2>7. q = 0 - 1 => w * q = 0 - w
    BY <2>1
  <2>8. r = x
    BY <1>1, <2>1, <2>2, <2>3, <2>4, <2>5, <2>6, <2>7
  <2> QED
    BY <2>8 DEF r
<1> QED
  BY <1>1

LEMMA ElapsedIs ==
  ASSUME NEW a \in 0 .. Turn - 1, NEW b \in 0 .. Turn - 1
  PROVE  /\ (a - b) % Turn = IF b <= a THEN a - b ELSE a - b + Turn
         /\ (a + 1) % Turn = IF a + 1 = Turn THEN 0 ELSE a + 1
<1>1. Turn \in Nat \ {0}
  BY RateAssumption
<1>2. ASSUME b <= a PROVE (a - b) % Turn = a - b
  <2>1. a - b \in 0 .. Turn - 1
    BY <1>1, <1>2
  <2> QED
    BY <1>1, <1>2, <2>1, ClockIs
<1>3. ASSUME ~(b <= a) PROVE (a - b) % Turn = a - b + Turn
  <2> DEFINE x == a - b + Turn
  <2>1. x \in 0 .. Turn - 1 /\ a - b = x - Turn
    BY <1>1, <1>3
  <2>2. (x - Turn) % Turn = x
    <3> HIDE DEF x
    <3> QED
      BY <1>1, <2>1, ClockIs
  <2> QED
    BY <1>3, <2>1, <2>2
<1>4. (a + 1) % Turn = IF a + 1 = Turn THEN 0 ELSE a + 1
  <2>1. CASE a + 1 = Turn
    <3>1. 0 \in 0 .. Turn - 1
      BY <1>1
    <3>2. Turn % Turn = 0
      BY <1>1
    <3> QED
      BY <2>1, <3>2
  <2>2. CASE a + 1 # Turn
    <3>1. a + 1 \in 0 .. Turn - 1
      BY <1>1, <2>2
    <3> QED
      BY <1>1, <2>2, <3>1, ClockIs
  <2> QED
    BY <2>1, <2>2
<1> QED
  BY <1>2, <1>3, <1>4

LEMMA RateFacts ==
  ASSUME RateInv
  PROVE  /\ now \in 0 .. Turn - 1 /\ now \in Int /\ 0 <= now /\ now < Turn
         /\ age \in Nat /\ age <= Turn
         /\ rate.start \in 0 .. Turn - 1 /\ rate.count \in Nat /\ rate.count <= Most + 1
         /\ Turn \in Nat /\ Span \in Nat /\ Span >= 1 /\ Most \in Nat /\ 2 * Span < Turn
         /\ Newest \in Nat /\ Newest <= Span - 1
         /\ Elapsed \in 0 .. Turn - 1
         /\ passed[0] \in Nat
<1>1. /\ now \in 0 .. Turn - 1 /\ age \in 0 .. Turn /\ passed \in [0 .. Span - 1 -> Nat]
      /\ rate \in [start : 0 .. Turn - 1, count : 0 .. Most + 1]
  BY DEF RateInv, RateType
<1>2. Turn \in Nat /\ Span \in Nat /\ Span >= 1 /\ Most \in Nat /\ 2 * Span < Turn
  BY RateAssumption
<1>3. rate.start \in 0 .. Turn - 1 /\ rate.count \in 0 .. Most + 1
  BY <1>1
<1>4. Newest \in Nat /\ Newest <= Span - 1
  BY <1>1, <1>2 DEF Newest
<1>5. Elapsed \in 0 .. Turn - 1
  <2>1. now - rate.start \in Int /\ Turn \in Nat \ {0}
    BY <1>1, <1>2, <1>3
  <2> QED
    BY <2>1, Euclid DEF Elapsed
<1>6. passed[0] \in Nat
  <2>1. 0 \in 0 .. Span - 1
    BY <1>2
  <2> QED
    BY <1>1, <2>1
<1> QED
  BY <1>1, <1>2, <1>3, <1>4, <1>5, <1>6

\* The window and what is before it are all there is.
LEMMA PassedParts ==
  ASSUME RateInv
  PROVE  /\ PassedFrom(0, Span - 1) = PassedFrom(0, Newest) + PassedFrom(Newest + 1, Span - 1)
         /\ PassedFrom(0, Newest) \in Nat /\ PassedFrom(Newest + 1, Span - 1) \in Nat
         /\ PassedFrom(0, Span - 1) = passed[0] + PassedFrom(1, Span - 1)
         /\ PassedFrom(1, Span - 1) \in Nat
         /\ SumFunction(passed) = PassedFrom(0, Span - 1)
<1>1. passed \in [0 .. Span - 1 -> Nat]
  BY DEF RateInv, RateType
<1>2. Span - 1 \in Int /\ 0 \in Int /\ 0 <= Newest /\ Newest <= Span - 1 /\ Newest \in Int
      /\ 0 <= Span - 1
  BY RateFacts
<1>3. Numbers(passed, 0 .. Span - 1)
  BY <1>1 DEF Numbers
<1>4. PassedFrom(0, Span - 1) = PassedFrom(0, Newest) + PassedFrom(Newest + 1, Span - 1)
  BY <1>2, <1>3, SumJoined DEF PassedFrom
<1>5. PassedFrom(0, Newest) \in Nat
  <2>1. IsFiniteSet(0 .. Newest) /\ Numbers(passed, 0 .. Newest)
    BY <1>2, <1>3, FS_Interval DEF Numbers
  <2> QED
    BY <2>1, SumType DEF PassedFrom
<1>6. PassedFrom(Newest + 1, Span - 1) \in Nat
  <2>1. IsFiniteSet(Newest + 1 .. Span - 1) /\ Numbers(passed, Newest + 1 .. Span - 1)
    <3>1. Newest + 1 \in Int
      BY <1>2
    <3> QED
      BY <1>2, <1>3, <3>1, FS_Interval DEF Numbers
  <2> QED
    BY <2>1, SumType DEF PassedFrom
<1>7. PassedFrom(0, Span - 1) = passed[0] + PassedFrom(0 + 1, Span - 1)
      /\ PassedFrom(0 + 1, Span - 1) \in Nat
  BY <1>2, <1>3, SumLast DEF PassedFrom
<1>8. 0 + 1 = 1
  OBVIOUS
<1>9. SumFunction(passed) = PassedFrom(0, Span - 1)
  <2>1. DOMAIN passed = 0 .. Span - 1
    BY <1>1
  <2> QED
    BY <2>1 DEF SumFunction, PassedFrom
<1> QED
  BY <1>4, <1>5, <1>6, <1>7, <1>8, <1>9

LEMMA RateInitially == CommandsInit => RateInv
<1> SUFFICES ASSUME CommandsInit PROVE RateInv
  OBVIOUS
<1>1. /\ now \in 0 .. Turn - 1 /\ rate = [start |-> 0, count |-> 0] /\ verdict = "none"
      /\ age = now /\ passed = [n \in 0 .. Span - 1 |-> 0]
  BY RateAssumption DEF CommandsInit
<1>2. RateType
  BY <1>1, RateAssumption DEF RateType
<1>3. Span - 1 \in Int /\ 0 \in 0 .. Span - 1 /\ Newest \in Int /\ Newest <= Span - 1 /\ 0 <= Newest
      /\ Most \in Nat
  BY <1>1, RateAssumption DEF Newest
<1>4. Elapsed = age
  BY <1>1, ElapsedIs, RateAssumption DEF Elapsed
<1>5. AgeOK
  BY <1>1, <1>3, <1>4 DEF AgeOK
<1>6. PassedFrom(0, Newest) = 0 /\ PassedFrom(Newest + 1, Span - 1) = 0
  <2>1. IsFiniteSet(0 .. Newest) /\ \A n \in 0 .. Newest : passed[n] = 0
    BY <1>1, <1>3, FS_Interval
  <2>2. IsFiniteSet(Newest + 1 .. Span - 1) /\ \A n \in Newest + 1 .. Span - 1 : passed[n] = 0
    <3>1. Newest + 1 \in Int
      BY <1>3
    <3> QED
      BY <1>1, <1>3, <3>1, FS_Interval
  <2> QED
    BY <2>1, <2>2, SumZero DEF PassedFrom
<1>7. WindowOK
  BY <1>1, <1>3, <1>6 DEF WindowOK, Lesser
<1>8. DroppedOK
  BY <1>1 DEF DroppedOK
<1> QED
  BY <1>2, <1>5, <1>7, <1>8 DEF RateInv

\* A clock unit on: everything that passed is one unit older.
LEMMA TimeStep ==
  ASSUME RateInv, TimePasses
  PROVE  RateInv'
<1>1. /\ now' = (now + 1) % Turn /\ age' = (IF age < Turn THEN age + 1 ELSE age)
      /\ passed' = [n \in 0 .. Span - 1 |-> IF n = 0 THEN 0 ELSE passed[n - 1]]
      /\ verdict' = "none" /\ rate' = rate
  BY DEF TimePasses
<1>2. passed \in [0 .. Span - 1 -> Nat]
  BY DEF RateInv, RateType
<1>0. Turn \in Nat /\ Span \in Nat /\ Span >= 1 /\ Most \in Nat /\ 2 * Span < Turn
  BY RateFacts
<1>3. now' = (IF now + 1 = Turn THEN 0 ELSE now + 1) /\ now' \in 0 .. Turn - 1
  <2>1. now \in 0 .. Turn - 1
    BY RateFacts
  <2>2. (now + 1) % Turn = IF now + 1 = Turn THEN 0 ELSE now + 1
    BY <2>1, ElapsedIs
  <2> QED
    BY <1>0, <1>1, <2>1, <2>2
<1>4. passed' \in [0 .. Span - 1 -> Nat] /\ passed'[0] = 0
      /\ \A n \in 0 .. Span - 2 : passed'[n + 1] = passed[n]
  <2>1. ASSUME NEW n \in 0 .. Span - 1
        PROVE  (IF n = 0 THEN 0 ELSE passed[n - 1]) \in Nat
    BY <1>0, <1>2
  <2>2. passed' \in [0 .. Span - 1 -> Nat]
    BY <1>1, <2>1
  <2>3. 0 \in 0 .. Span - 1
    BY <1>0
  <2>4. ASSUME NEW n \in 0 .. Span - 2
        PROVE  n + 1 \in 0 .. Span - 1 /\ n + 1 # 0 /\ (n + 1) - 1 = n
    BY <1>0
  <2> QED
    BY <1>1, <2>2, <2>3, <2>4
<1>5. RateType'
  <2>1. rate' \in [start : 0 .. Turn - 1, count : 0 .. Most + 1]
    BY <1>1 DEF RateInv, RateType
  <2>2. age' \in 0 .. Turn
    <3>1. age \in Nat /\ age <= Turn
      BY RateFacts
    <3> QED
      BY <1>0, <1>1, <3>1
  <2> QED
    BY <1>3, <1>4, <2>1, <2>2 DEF RateType
<1>6. AgeOK'
  <2>1. Elapsed = (now - rate.start) % Turn /\ Elapsed' = (now' - rate.start) % Turn
    BY <1>1 DEF Elapsed
  <2>2. now' \in 0 .. Turn - 1 /\ rate.start \in 0 .. Turn - 1 /\ now \in 0 .. Turn - 1
    BY <1>3, RateFacts
  <2>3. age < Turn => Elapsed = age
    BY DEF RateInv, AgeOK
  <2>4. /\ Elapsed = IF rate.start <= now THEN now - rate.start ELSE now - rate.start + Turn
        /\ Elapsed' = IF rate.start <= now' THEN now' - rate.start ELSE now' - rate.start + Turn
    BY <2>1, <2>2, ElapsedIs
  <2>5. age' < Turn => Elapsed' = age'
    <3>1. age \in Nat /\ age <= Turn
      BY RateFacts
    <3> SUFFICES ASSUME age + 1 < Turn PROVE Elapsed' = age + 1
      BY <1>1, <3>1
    <3>2. Elapsed = age
      BY <1>0, <2>3, <3>1
    <3>3. CASE rate.start <= now
      <4>1. now - rate.start = age
        BY <2>4, <3>2, <3>3
      <4>2. CASE now + 1 = Turn
        BY <1>0, <1>3, <2>2, <2>4, <3>1, <4>1, <4>2
      <4>3. CASE now + 1 # Turn
        BY <1>0, <1>3, <2>2, <2>4, <3>1, <3>3, <4>1, <4>3
      <4> QED
        BY <4>2, <4>3
    <3>4. CASE ~(rate.start <= now)
      <4>1. now - rate.start + Turn = age
        BY <2>4, <3>2, <3>4
      <4>2. now' = now + 1 /\ ~(rate.start <= now')
        BY <1>0, <1>3, <2>2, <3>1, <3>4, <4>1
      <4> QED
        BY <1>0, <2>2, <2>4, <3>1, <4>1, <4>2
    <3> QED
      BY <3>3, <3>4
  <2> QED
    BY <1>4, <2>5 DEF AgeOK
<1>7. WindowOK'
  <2>1. Newest' = IF age' < Span THEN age' ELSE Span - 1
    BY DEF Newest
  <2>2. ASSUME NEW a \in Nat, NEW b \in Int, b <= Span - 2
        PROVE  SumFunctionOnSet(passed', (a + 1) .. (b + 1)) = PassedFrom(a, b)
    <3>1. Numbers(passed, a .. b) /\ \A n \in a .. b : passed'[n + 1] = passed[n]
      <4>1. ASSUME NEW n \in a .. b PROVE n \in 0 .. Span - 1 /\ n \in 0 .. Span - 2
        BY <1>0, <2>2
      <4> QED
        BY <1>2, <1>4, <4>1 DEF Numbers
    <3> QED
      BY <2>2, <3>1, SumShifted DEF PassedFrom
  <2>3. ASSUME NEW b \in Nat, b <= Span - 2
        PROVE  SumFunctionOnSet(passed', 0 .. (b + 1)) = PassedFrom(0, b)
    <3>1. Numbers(passed', 0 .. (b + 1))
      <4>1. ASSUME NEW n \in 0 .. (b + 1) PROVE n \in 0 .. Span - 1
        BY <1>0, <2>3
      <4> QED
        BY <1>4, <4>1 DEF Numbers
    <3>2. SumFunctionOnSet(passed', 0 .. (b + 1)) =
            passed'[0] + SumFunctionOnSet(passed', (0 + 1) .. (b + 1))
          /\ SumFunctionOnSet(passed', (0 + 1) .. (b + 1)) \in Nat
      <4>1. b + 1 \in Int /\ 0 <= b + 1 /\ 0 \in Int
        OBVIOUS
      <4> QED
        BY <3>1, <4>1, SumLast
    <3>3. SumFunctionOnSet(passed', (0 + 1) .. (b + 1)) = PassedFrom(0, b)
      BY <2>2, <2>3
    <3> QED
      BY <1>4, <3>2, <3>3
  <2>4. /\ PassedFrom(0, Newest) <= Lesser(rate.count, Most)
        /\ age < Span => PassedFrom(0, Newest) = Lesser(rate.count, Most)
        /\ PassedFrom(Newest + 1, Span - 1) <= Most
    BY DEF RateInv, WindowOK
  <2>5. Lesser(rate.count, Most) \in Nat /\ Lesser(rate.count, Most)' = Lesser(rate.count, Most)
    BY <1>1, RateFacts DEF Lesser
  <2>6. CASE age < Span - 1
    <3>1. Newest = age /\ Newest' = age + 1 /\ age' = age + 1 /\ age \in Nat /\ age <= Span - 2
      <4>1. age \in Nat
        BY RateFacts
      <4>2. age < Span /\ age < Turn /\ age + 1 < Span /\ age <= Span - 2
        BY <1>0, <2>6, <4>1
      <4> QED
        BY <1>1, <2>1, <4>1, <4>2 DEF Newest
    <3>2. PassedFrom(0, Newest)' = PassedFrom(0, Newest)
      <4>1. SumFunctionOnSet(passed', 0 .. (age + 1)) = PassedFrom(0, age)
        BY <2>3, <3>1
      <4> QED
        BY <3>1, <4>1 DEF PassedFrom
    <3>3. PassedFrom(Newest + 1, Span - 1)' <= PassedFrom(Newest + 1, Span - 1)
      <4> DEFINE a == age + 1
      <4>1. a \in Nat /\ Span - 2 \in Int /\ a <= Span - 1 /\ (Span - 2) + 1 = Span - 1
            /\ (Span - 1) - 1 = Span - 2
        BY <3>1, RateFacts
      <4>2. SumFunctionOnSet(passed', (a + 1) .. ((Span - 2) + 1)) = PassedFrom(a, Span - 2)
        <5> HIDE DEF a
        <5> QED
          BY <2>2, <4>1
      <4>3. PassedFrom(a, Span - 1) = PassedFrom(a, Span - 2) + passed[Span - 1]
            /\ PassedFrom(a, Span - 2) \in Nat /\ passed[Span - 1] \in Nat
        <5>1. Numbers(passed, a .. Span - 1) /\ passed[Span - 1] \in Nat
          BY <1>2, <4>1 DEF Numbers
        <5> HIDE DEF a
        <5>2. SumFunctionOnSet(passed, a .. (Span - 1)) =
                SumFunctionOnSet(passed, a .. ((Span - 1) - 1)) + passed[Span - 1]
              /\ SumFunctionOnSet(passed, a .. ((Span - 1) - 1)) \in Nat
          <6>1. a \in Int /\ Span - 1 \in Int /\ a <= Span - 1
            BY <4>1
          <6> QED
            BY <5>1, <6>1, SumLast
        <5> QED
          BY <4>1, <5>1, <5>2 DEF PassedFrom
      <4>4. PassedFrom(Newest + 1, Span - 1)' = PassedFrom(a, Span - 2)
        BY <3>1, <4>1, <4>2 DEF PassedFrom
      <4>5. PassedFrom(Newest + 1, Span - 1) = PassedFrom(a, Span - 1)
        BY <3>1
      <4> HIDE DEF a
      <4> QED
        BY <4>3, <4>4, <4>5
    <3>4. PassedFrom(Newest + 1, Span - 1)' \in Int /\ PassedFrom(Newest + 1, Span - 1)' <= Most
      <4>1. PassedFrom(Newest + 1, Span - 1)' \in Nat
        <5>1. IsFiniteSet(Newest' + 1 .. Span - 1) /\ Numbers(passed', Newest' + 1 .. Span - 1)
          <6>1. Newest' + 1 \in Int /\ Span - 1 \in Int /\ Newest' + 1 >= 0
            BY <3>1, RateFacts
          <6>2. ASSUME NEW n \in Newest' + 1 .. Span - 1 PROVE n \in 0 .. Span - 1
            BY <6>1
          <6>3. Numbers(passed', Newest' + 1 .. Span - 1)
            BY <1>4, <6>2 DEF Numbers
          <6> QED
            BY <6>1, <6>3, FS_Interval
        <5> QED
          BY <5>1, SumType DEF PassedFrom
      <4> QED
        BY <2>4, <3>3, <4>1, PassedParts, RateFacts
    <3>5. age < Span
      BY <2>6, RateFacts
    <3> QED
      BY <2>4, <2>5, <3>2, <3>4, <3>5 DEF WindowOK
  <2>7. CASE ~(age < Span - 1)
    <3>1. Newest = Span - 1 /\ Newest' = Span - 1 /\ ~(age' < Span)
      <4>1. age \in Nat /\ age >= Span - 1
        <5>1. age \in Nat
          BY RateFacts
        <5> QED
          BY <1>0, <2>7, <5>1
      <4>2. ~(age' < Span)
        BY <1>0, <1>1, <4>1
      <4>3. Newest = Span - 1
        BY <1>0, <4>1 DEF Newest
      <4> QED
        BY <2>1, <4>2, <4>3
    <3>2. PassedFrom(Newest + 1, Span - 1)' = 0
      <4>1. Span - 1 \in Int /\ (Span - 1) + 1 \in Int /\ Span - 1 < (Span - 1) + 1
        BY RateFacts
      <4>2. SumFunctionOnSet(passed', ((Span - 1) + 1) .. (Span - 1)) = 0
        BY <4>1, SumNone
      <4> QED
        BY <3>1, <4>2 DEF PassedFrom
    <3>3. PassedFrom(0, Newest)' <= PassedFrom(0, Newest) /\ PassedFrom(0, Newest)' \in Nat
      <4>1. Numbers(passed, 0 .. Span - 1) /\ Numbers(passed', 0 .. Span - 1)
        BY <1>2, <1>4 DEF Numbers
      <4>2. /\ SumFunctionOnSet(passed, 0 .. (Span - 1)) =
                 SumFunctionOnSet(passed, 0 .. ((Span - 1) - 1)) + passed[Span - 1]
            /\ SumFunctionOnSet(passed, 0 .. ((Span - 1) - 1)) \in Nat
            /\ SumFunctionOnSet(passed', 0 .. (Span - 1)) =
                 passed'[0] + SumFunctionOnSet(passed', (0 + 1) .. (Span - 1))
            /\ SumFunctionOnSet(passed', (0 + 1) .. (Span - 1)) \in Nat
        <5>1. 0 \in Int /\ Span - 1 \in Int /\ 0 <= Span - 1
          BY RateFacts
        <5> QED
          BY <4>1, <5>1, SumLast
      <4>3. SumFunctionOnSet(passed', (0 + 1) .. (Span - 1)) = SumFunctionOnSet(passed, 0 .. ((Span - 1) - 1))
        <5>1. Span - 2 \in Int /\ Span - 2 <= Span - 2 /\ (Span - 2) + 1 = Span - 1
              /\ (Span - 1) - 1 = Span - 2 /\ 0 \in Nat
          BY RateFacts
        <5>2. SumFunctionOnSet(passed', (0 + 1) .. ((Span - 2) + 1)) = PassedFrom(0, Span - 2)
          BY <2>2, <5>1
        <5> QED
          BY <5>1, <5>2 DEF PassedFrom
      <4>4. passed[Span - 1] \in Nat
        BY <1>2, RateFacts
      <4>5. SumFunctionOnSet(passed', 0 .. (Span - 1)) <= SumFunctionOnSet(passed, 0 .. (Span - 1))
            /\ SumFunctionOnSet(passed', 0 .. (Span - 1)) \in Nat
        BY <1>4, <4>2, <4>3, <4>4
      <4> QED
        BY <3>1, <4>5 DEF PassedFrom
    <3>4. PassedFrom(0, Newest)' <= Lesser(rate.count, Most)
      BY <2>4, <2>5, <3>3, PassedParts
    <3> QED
      BY <2>5, <3>1, <3>2, <3>4, RateFacts DEF WindowOK
  <2> QED
    BY <2>6, <2>7
<1>8. DroppedOK'
  BY <1>1 DEF DroppedOK
<1> QED
  BY <1>5, <1>6, <1>7, <1>8 DEF RateInv

\* A command is let through or dropped.
LEMMA ModelStep ==
  ASSUME RateInv, NEW n, ReadModel(n)
  PROVE  RateInv'
<1>0. Turn \in Nat /\ Span \in Nat /\ Span >= 1 /\ Most \in Nat /\ 2 * Span < Turn
  BY RateFacts
<1>1. /\ rate' = Counted /\ age' = (IF Elapsed < Span THEN age ELSE 0)
      /\ now' = now
      /\ IF Windowed.count > Most THEN verdict' = "dropped" /\ passed' = passed
         ELSE verdict' = "passed" /\ passed' = [passed EXCEPT ![0] = @ + 1]
  BY DEF ReadModel
<1>2. passed \in [0 .. Span - 1 -> Nat] /\ rate \in [start : 0 .. Turn - 1, count : 0 .. Most + 1]
  BY DEF RateInv, RateType
<1>3. 0 \in 0 .. Span - 1 /\ passed[0] \in Nat /\ Span - 1 \in Int /\ 0 <= Span - 1
  BY <1>0, RateFacts
<1>4. /\ PassedFrom(0, Newest) <= Lesser(rate.count, Most)
      /\ age < Span => PassedFrom(0, Newest) = Lesser(rate.count, Most)
      /\ PassedFrom(Newest + 1, Span - 1) <= Most
  BY DEF RateInv, WindowOK
<1>5. /\ age < Turn => Elapsed = age
      /\ passed[0] > 0 => Elapsed < Span
  BY DEF RateInv, AgeOK
<1>6. age \in Nat /\ age <= Turn /\ Elapsed \in 0 .. Turn - 1 /\ now \in 0 .. Turn - 1
      /\ rate.count \in Nat /\ rate.count <= Most + 1 /\ rate.start \in 0 .. Turn - 1
  BY RateFacts
<1>7. /\ PassedFrom(0, Span - 1) = PassedFrom(0, Newest) + PassedFrom(Newest + 1, Span - 1)
      /\ PassedFrom(0, Newest) \in Nat /\ PassedFrom(Newest + 1, Span - 1) \in Nat
      /\ PassedFrom(0, Span - 1) = passed[0] + PassedFrom(1, Span - 1)
      /\ PassedFrom(1, Span - 1) \in Nat
  BY PassedParts
\* What passing does to the sums.
<1>8. ASSUME passed' = [passed EXCEPT ![0] = @ + 1]
      PROVE  /\ passed' \in [0 .. Span - 1 -> Nat] /\ passed'[0] = passed[0] + 1
             /\ \A m \in 1 .. Span - 1 : passed'[m] = passed[m]
  <2>1. passed' \in [0 .. Span - 1 -> Nat]
    BY <1>2, <1>3, <1>8
  <2>2. passed'[0] = passed[0] + 1
    BY <1>2, <1>3, <1>8
  <2>3. ASSUME NEW m \in 1 .. Span - 1 PROVE passed'[m] = passed[m]
    <3>1. m # 0 /\ m \in 0 .. Span - 1
      BY <1>0
    <3> QED
      BY <1>2, <1>8, <3>1
  <2> QED
    BY <2>1, <2>2, <2>3
<1>9. ASSUME NEW a \in Int, NEW b \in Int, 1 <= a, b <= Span - 1,
             passed' = passed \/ passed' = [passed EXCEPT ![0] = @ + 1]
      PROVE  SumFunctionOnSet(passed', a .. b) = PassedFrom(a, b)
  <2>1. IsFiniteSet(a .. b)
    BY FS_Interval
  <2>2. Same(passed', passed, a .. b)
    <3>1. ASSUME NEW m \in a .. b PROVE m \in 1 .. Span - 1
      BY <1>9, <1>0
    <3> QED
      BY <1>8, <1>9, <3>1 DEF Same
  <2> QED
    BY <2>1, <2>2, SumSame DEF PassedFrom
<1>10. ASSUME NEW b \in Nat, b <= Span - 1, passed' = [passed EXCEPT ![0] = @ + 1]
       PROVE  SumFunctionOnSet(passed', 0 .. b) = PassedFrom(0, b) + 1
  <2>1. Numbers(passed, 0 .. b) /\ Numbers(passed', 0 .. b)
    <3>1. ASSUME NEW m \in 0 .. b PROVE m \in 0 .. Span - 1
      BY <1>0, <1>10
    <3> QED
      BY <1>2, <1>8, <1>10, <3>1 DEF Numbers
  <2>2. 0 \in Int /\ b \in Int /\ 0 <= b /\ 1 \in Int /\ 0 + 1 = 1
    OBVIOUS
  <2>3. /\ SumFunctionOnSet(passed, 0 .. b) = passed[0] + SumFunctionOnSet(passed, (0 + 1) .. b)
        /\ SumFunctionOnSet(passed, (0 + 1) .. b) \in Nat
    BY <2>1, <2>2, SumLast
  <2>4. SumFunctionOnSet(passed', 0 .. b) = passed'[0] + SumFunctionOnSet(passed', (0 + 1) .. b)
    BY <2>1, <2>2, SumLast
  <2>5. SumFunctionOnSet(passed', 1 .. b) = PassedFrom(1, b)
    <3>1. 1 <= 1 /\ b \in Int /\ 1 \in Int
      OBVIOUS
    <3> QED
      BY <1>9, <1>10, <3>1
  <2> QED
    BY <1>3, <1>8, <1>10, <2>2, <2>3, <2>4, <2>5 DEF PassedFrom
<1>11. ASSUME Elapsed >= Span PROVE RateInv'
  <2>1. Windowed = [start |-> now, count |-> 1]
    BY <1>11 DEF Windowed
  <2>2. age >= Span /\ Newest = Span - 1 /\ passed[0] = 0 /\ age' = 0
    <3>1. age >= Span
      BY <1>0, <1>5, <1>6, <1>11
    <3>2. ~(passed[0] > 0) /\ ~(Elapsed < Span)
      BY <1>0, <1>5, <1>6, <1>11
    <3> QED
      BY <1>0, <1>1, <1>3, <1>6, <3>1, <3>2 DEF Newest
  <2>3. PassedFrom(1, Span - 1) <= Most
    <3>1. Lesser(rate.count, Most) <= Most
      BY <1>0, <1>6 DEF Lesser
    <3>2. Lesser(rate.count, Most) \in Nat
      BY <1>0, <1>6 DEF Lesser
    <3> QED
      BY <1>0, <1>4, <1>7, <2>2, <3>1, <3>2
  <2>4. rate'.start = now /\ rate'.count = 1 /\ rate' \in [start : 0 .. Turn - 1, count : 0 .. Most + 1]
    <3>1. CASE 1 > Most
      <4>1. Most = 0
        BY <1>0, <3>1
      <4>2. rate' = [start |-> now, count |-> 1]
        BY <1>1, <2>1, <3>1, <4>1 DEF Counted
      <4> QED
        BY <1>0, <1>6, <4>1, <4>2
    <3>2. CASE ~(1 > Most)
      <4>1. rate' = [start |-> now, count |-> 1]
        BY <1>1, <2>1, <3>2 DEF Counted
      <4>2. 1 \in 0 .. Most + 1
        BY <1>0
      <4> QED
        BY <1>6, <4>1, <4>2
    <3> QED
      BY <3>1, <3>2
  <2>5. Elapsed' = 0
    <3>1. Elapsed' = (now' - rate'.start) % Turn
      BY DEF Elapsed
    <3>2. (now - now) % Turn = now - now
      BY <1>6, ElapsedIs
    <3> QED
      BY <1>1, <1>6, <2>4, <3>1, <3>2
  <2>6. AgeOK'
    BY <1>0, <2>2, <2>5 DEF AgeOK
  <2>7. Newest' = 0
    BY <1>0, <2>2 DEF Newest
  <2>8. passed' \in [0 .. Span - 1 -> Nat]
    BY <1>1, <1>2, <1>8
  <2>9. RateType'
    BY <1>1, <1>6, <2>2, <2>4, <2>8, <1>0 DEF RateType
  <2>10. PassedFrom(1, Span - 1)' <= Most /\ PassedFrom(1, Span - 1)' = PassedFrom(1, Span - 1)
    <3>1. SumFunctionOnSet(passed', 1 .. (Span - 1)) = PassedFrom(1, Span - 1)
      BY <1>1, <1>3, <1>9
    <3> QED
      BY <2>3, <3>1 DEF PassedFrom
  <2>11. Lesser(rate.count, Most)' = IF Most = 0 THEN 0 ELSE 1
    BY <1>0, <2>4 DEF Lesser
  <2>12. PassedFrom(0, Newest)' = IF Most = 0 THEN 0 ELSE 1
    <3>1. /\ 0 \in Int /\ 0 <= 0 /\ 0 + 1 = 1 /\ 0 - 1 < 0 /\ 0 \in Nat
      OBVIOUS
    <3>2. Numbers(passed, 0 .. 0)
      BY <1>3 DEF Numbers
    <3>3. SumFunctionOnSet(passed, 0 .. 0) = passed[0] + SumFunctionOnSet(passed, (0 + 1) .. 0)
      BY <3>1, <3>2, SumLast
    <3>4. SumFunctionOnSet(passed, (0 + 1) .. 0) = 0
      <4>1. 0 + 1 \in Int /\ 0 < 0 + 1
        OBVIOUS
      <4> QED
        BY <4>1, SumNone
    <3>5. PassedFrom(0, 0) = 0
      BY <2>2, <3>3, <3>4 DEF PassedFrom
    <3>6. CASE Most = 0
      <4>1. passed' = passed
        BY <1>1, <2>1, <3>6
      <4> QED
        BY <2>7, <3>5, <3>6, <4>1 DEF PassedFrom
    <3>7. CASE Most # 0
      <4>1. passed' = [passed EXCEPT ![0] = @ + 1]
        BY <1>0, <1>1, <2>1, <3>7
      <4>2. SumFunctionOnSet(passed', 0 .. 0) = PassedFrom(0, 0) + 1
        BY <1>3, <1>10, <3>1, <4>1
      <4> QED
        BY <2>7, <3>5, <3>7, <4>2 DEF PassedFrom
    <3> QED
      BY <3>6, <3>7
  <2>13. WindowOK'
    <3>1. PassedFrom(Newest + 1, Span - 1)' <= Most
      <4>1. Newest' + 1 = 1
        BY <2>7
      <4> QED
        BY <2>10, <4>1 DEF PassedFrom
    <3>2. PassedFrom(0, Newest)' = Lesser(rate.count, Most)' /\ PassedFrom(0, Newest)' \in Nat
      BY <2>11, <2>12
    <3>3. PassedFrom(0, Newest)' <= Lesser(rate.count, Most)'
      BY <3>2
    <3> QED
      BY <3>1, <3>2, <3>3 DEF WindowOK
  <2>14. DroppedOK'
    <3>1. verdict' = "dropped" => Most = 0
      BY <1>0, <1>1, <2>1
    <3>2. PassedFrom(0, Span - 1)' \in Nat
      <4>1. IsFiniteSet(0 .. Span - 1) /\ Numbers(passed', 0 .. Span - 1)
        <5>1. IsFiniteSet(0 .. Span - 1)
          BY <1>3, FS_Interval
        <5> QED
          BY <2>8, <5>1 DEF Numbers
      <4> QED
        BY <4>1, SumType DEF PassedFrom
    <3> QED
      BY <3>1, <3>2 DEF DroppedOK
  <2> QED
    BY <2>6, <2>9, <2>13, <2>14 DEF RateInv
<1>12. ASSUME ~(Elapsed >= Span) PROVE RateInv'
  <2>1. Windowed = [rate EXCEPT !.count = @ + 1] /\ age' = age /\ Elapsed < Span
    BY <1>0, <1>1, <1>6, <1>12 DEF Windowed
  <2>2. Windowed.start = rate.start /\ Windowed.count = rate.count + 1
    BY <1>2, <2>1
  <2>3. Newest' = Newest
    BY <2>1 DEF Newest
  <2>4. Newest \in Nat /\ Newest <= Span - 1
    BY RateFacts
  <2>5. CASE rate.count + 1 > Most
    <3>1. passed' = passed /\ verdict' = "dropped"
      BY <1>1, <2>2, <2>5
    <3>2. rate' = [Windowed EXCEPT !.count = Most + 1]
      BY <1>1, <2>2, <2>5 DEF Counted
    <3>3. rate' = [[rate EXCEPT !.count = @ + 1] EXCEPT !.count = Most + 1]
      BY <2>1, <3>2
    <3>4. rate'.start = rate.start /\ rate'.count = Most + 1
          /\ rate' \in [start : 0 .. Turn - 1, count : 0 .. Most + 1]
      <4>1. Most + 1 \in 0 .. Most + 1
        BY <1>0
      <4>2. rate' = [start |-> rate.start, count |-> Most + 1]
        BY <1>2, <3>3
      <4> QED
        BY <1>6, <4>1, <4>2
    <3>5. RateType'
      BY <1>1, <1>2, <1>6, <1>0, <2>1, <3>1, <3>4 DEF RateType
    <3>6. Elapsed' = Elapsed
      BY <1>1, <3>4 DEF Elapsed
    <3>7. AgeOK'
      BY <1>5, <2>1, <3>1, <3>6 DEF AgeOK
    <3>8. Lesser(rate.count, Most) = Most /\ Lesser(rate.count, Most)' = Most
      BY <1>0, <1>6, <2>5, <3>4 DEF Lesser
    <3>9. WindowOK'
      BY <1>4, <2>1, <2>3, <3>1, <3>8 DEF WindowOK, PassedFrom
    <3>10. age < Turn => age < Span
      BY <1>5, <2>1
    <3>11. age < Turn => PassedFrom(0, Span - 1) >= Most
      BY <1>0, <1>4, <1>7, <3>8, <3>10
    <3>12. DroppedOK'
      BY <1>0, <1>6, <2>1, <3>1, <3>11 DEF DroppedOK, PassedFrom
    <3> QED
      BY <3>5, <3>7, <3>9, <3>12 DEF RateInv
  <2>6. CASE ~(rate.count + 1 > Most)
    <3>1. passed' = [passed EXCEPT ![0] = @ + 1] /\ verdict' = "passed"
      BY <1>1, <2>2, <2>6
    <3>2. rate' = [rate EXCEPT !.count = @ + 1]
      BY <1>1, <2>1, <2>2, <2>6 DEF Counted
    <3>3. rate'.start = rate.start /\ rate'.count = rate.count + 1
          /\ rate' \in [start : 0 .. Turn - 1, count : 0 .. Most + 1]
      <4>1. rate.count + 1 \in 0 .. Most + 1
        <5>1. rate.count \in Nat /\ Most \in Nat
          BY <1>0, <1>6
        <5> QED
          BY <2>6, <5>1
      <4>2. rate' = [start |-> rate.start, count |-> rate.count + 1]
        BY <1>2, <3>2
      <4> QED
        BY <1>6, <4>1, <4>2
    <3>4. passed' \in [0 .. Span - 1 -> Nat]
      BY <1>8, <3>1
    <3>5. RateType'
      BY <1>1, <1>6, <1>0, <2>1, <3>3, <3>4 DEF RateType
    <3>6. Elapsed' = Elapsed
      BY <1>1, <3>3 DEF Elapsed
    <3>7. AgeOK'
      BY <1>5, <2>1, <3>6 DEF AgeOK
    <3>8. Lesser(rate.count, Most) = rate.count /\ Lesser(rate.count, Most)' = rate.count + 1
      BY <1>0, <1>6, <2>6, <3>3 DEF Lesser
    <3>9. PassedFrom(0, Newest)' = PassedFrom(0, Newest) + 1
      <4>1. SumFunctionOnSet(passed', 0 .. Newest) = PassedFrom(0, Newest) + 1
        BY <1>10, <2>4, <3>1
      <4> QED
        BY <2>3, <4>1 DEF PassedFrom
    <3>10. PassedFrom(Newest + 1, Span - 1)' = PassedFrom(Newest + 1, Span - 1)
      <4> DEFINE a == Newest + 1
      <4>1. a \in Int /\ 1 <= a
        BY <2>4
      <4> HIDE DEF a
      <4>2. SumFunctionOnSet(passed', a .. (Span - 1)) = PassedFrom(a, Span - 1)
        <5> DEFINE b == Span - 1
        <5>1. b \in Int /\ b <= Span - 1
          BY <1>3
        <5> HIDE DEF b
        <5>2. SumFunctionOnSet(passed', a .. b) = PassedFrom(a, b)
          BY <1>9, <3>1, <4>1, <5>1
        <5> QED
          BY <5>2 DEF b
      <4> QED
        BY <2>3, <4>2 DEF PassedFrom, a
    <3>11. WindowOK'
      <4>1. PassedFrom(0, Newest)' <= Lesser(rate.count, Most)'
        BY <1>4, <1>6, <1>7, <3>8, <3>9
      <4>2. age' < Span => PassedFrom(0, Newest)' = Lesser(rate.count, Most)'
        BY <1>4, <2>1, <3>8, <3>9
      <4>3. PassedFrom(Newest + 1, Span - 1)' <= Most
        BY <1>4, <3>10
      <4> QED
        BY <4>1, <4>2, <4>3 DEF WindowOK
    <3>12. DroppedOK'
      BY <3>1 DEF DroppedOK
    <3> QED
      BY <3>5, <3>7, <3>11, <3>12 DEF RateInv
  <2> QED
    BY <2>5, <2>6
<1> QED
  BY <1>11, <1>12

LEMMA RateKept ==
  ASSUME RateInv, UNCHANGED <<now, rateVars>>
  PROVE  RateInv'
<1>1. now' = now /\ rate' = rate /\ passed' = passed /\ age' = age /\ verdict' = verdict
  BY DEF rateVars
<1> QED
  BY <1>1 DEF RateInv, RateType, AgeOK, WindowOK, DroppedOK, Elapsed, Newest, Lesser, PassedFrom

LEMMA RateStep ==
  ASSUME RateInv, [Next]_<<commandVars, lobbyVars>>
  PROVE  RateInv'
<1>1. CASE UNCHANGED commandVars
  <2>1. UNCHANGED <<now, rateVars>>
    BY <1>1 DEF commandVars
  <2> QED
    BY <2>1, RateKept
<1>2. CASE CommandsNext
  <2>1. CASE TimePasses
    BY <2>1, TimeStep
  <2>2. CASE \E n \in 1 .. received.sequence + 1 : ReadModel(n)
    BY <2>2, ModelStep
  <2>3. CASE UNCHANGED <<now, rateVars>>
    BY <2>3, RateKept
  <2>4. ASSUME NEW n, GetServerCommand(n)
        PROVE  ReadModel(n) \/ UNCHANGED <<now, rateVars>>
    BY <2>4 DEF GetServerCommand, OutOfWindow, ReadPlain, ReadBegin, ReadMore, ReadIndexed,
                ReadModelOversized, ReadUnguarded
  <2>5. ASSUME NEW batch, Lose(batch) \/ Receive(batch) PROVE UNCHANGED <<now, rateVars>>
    BY <2>5 DEF Lose, Receive
  <2>6. ASSUME NEW i, NEW length, SetConfigString(i, length) PROVE UNCHANGED <<now, rateVars>>
    BY <2>6 DEF SetConfigString
  <2>7. ASSUME QueueCommand \/ ClaimAcknowledge \/ WriteReliableCommands \/ ToggleGuard
               \/ DropConfigString
        PROVE  UNCHANGED <<now, rateVars>>
    BY <2>7 DEF QueueCommand, ClaimAcknowledge, WriteReliableCommands, ToggleGuard,
                DropConfigString, commandVars
  <2> QED
    BY <1>2, <2>1, <2>2, <2>3, <2>4, <2>5, <2>6, <2>7 DEF CommandsNext
<1> QED
  BY <1>1, <1>2 DEF Next

\* "D" commands pass at most twice as fast as the window says, and one is dropped only
\* when as many as are allowed have passed within its span, or the window is left from a
\* whole turn of the clock ago (the window of hk_get_server_command).
THEOREM RateStaysFair == Spec => []FairRate
<1>1. Init => RateInv
  BY RateInitially DEF Init
<1>2. RateInv /\ [Next]_<<commandVars, lobbyVars>> => RateInv'
  BY RateStep
<1>3. RateInv => FairRate
  <2> SUFFICES ASSUME RateInv PROVE FairRate
    OBVIOUS
  <2>1. /\ PassedFrom(0, Newest) <= Lesser(rate.count, Most)
        /\ PassedFrom(Newest + 1, Span - 1) <= Most
    BY DEF RateInv, WindowOK
  <2>2. Most \in Nat /\ rate.count \in Nat
    BY RateFacts
  <2>3. Lesser(rate.count, Most) <= Most /\ Lesser(rate.count, Most) \in Nat
    BY <2>2 DEF Lesser
  <2>4. SumFunction(passed) <= 2 * Most
    BY <2>1, <2>2, <2>3, PassedParts
  <2> QED
    BY <2>4, PassedParts DEF RateInv, DroppedOK, FairRate
<1> QED
  BY <1>1, <1>2, <1>3, PTL DEF Spec

-----------------------------------------------------------------------------
(* What the rows of arrays become.                                           *)

Item == Array \cup {Unfollowed}

\* Nothing is followed in a row that is forgotten.
LEMMA ForgottenType ==
  ASSUME NEW s \in Seq(Item)
  PROVE  /\ Forgotten(s) \in Seq(Item) /\ Len(Forgotten(s)) = Len(s)
         /\ \A i \in 1 .. Len(s) : Forgotten(s)[i] = Unfollowed
<1>1. DOMAIN s = 1 .. Len(s) /\ Len(s) \in Nat
  OBVIOUS
<1>2. Forgotten(s) \in [1 .. Len(s) -> Item]
  BY <1>1 DEF Forgotten, Item
<1>3. QED
  BY <1>1, <1>2 DEF Forgotten

\* All but the last, and the last replaced.
LEMMA FrontType ==
  ASSUME NEW s \in Seq(Item), s # <<>>
  PROVE  /\ Len(s) \in Nat \ {0}
         /\ Front(s) \in Seq(Item) /\ Len(Front(s)) = Len(s) - 1
         /\ \A i \in 1 .. Len(s) - 1 : Front(s)[i] = s[i]
         /\ Last(s) = s[Len(s)] /\ Last(s) \in Item
<1>1. Len(s) \in Nat \ {0}
  OBVIOUS
<1>2. \A i \in 1 .. Len(s) - 1 : s[i] \in Item
  BY <1>1
<1>3. /\ Front(s) \in Seq(Item) /\ Len(Front(s)) = Len(s) - 1
      /\ \A i \in 1 .. Len(s) - 1 : Front(s)[i] = s[i]
  <2>1. 1 \in Int /\ Len(s) - 1 \in Int
    BY <1>1
  <2>2. /\ SubSeq(s, 1, Len(s) - 1) \in Seq(Item)
        /\ Len(SubSeq(s, 1, Len(s) - 1)) = IF 1 <= Len(s) - 1 THEN Len(s) - 1 - 1 + 1 ELSE 0
        /\ \A i \in 1 .. Len(s) - 1 - 1 + 1 : SubSeq(s, 1, Len(s) - 1)[i] = s[1 + i - 1]
    BY <1>2, <2>1, SubSeqProperties
  <2>3. \A n \in Nat \ {0} : n - 1 - 1 + 1 = n - 1 /\ (1 <= n - 1 \/ n - 1 = 0)
    OBVIOUS
  <2>4. \A i \in 1 .. Len(s) - 1 : 1 + i - 1 = i
    BY <1>1
  <2>5. QED
    BY <1>1, <2>2, <2>3, <2>4 DEF Front
<1>4. Last(s) = s[Len(s)] /\ Last(s) \in Item
  BY <1>1 DEF Last
<1>5. QED
  BY <1>1, <1>3, <1>4

LEMMA ReplacedType ==
  ASSUME NEW s \in Seq(Item), s # <<>>, NEW e \in Item
  PROVE  LET r == Front(s) \o <<e>> IN
         /\ r \in Seq(Item) /\ Len(r) = Len(s)
         /\ \A i \in 1 .. Len(s) - 1 : r[i] = s[i]
         /\ r[Len(s)] = e
<1>1. Front(s) \in Seq(Item) /\ Len(Front(s)) = Len(s) - 1 /\ Len(s) \in Nat \ {0}
  BY FrontType
<1>2. <<e>> \in Seq(Item) /\ Len(<<e>>) = 1
  OBVIOUS
<1>3. QED
  BY <1>1, <1>2, FrontType

LEMMA AppendedType ==
  ASSUME NEW s \in Seq(Item), NEW e \in Item
  PROVE  /\ Append(s, e) \in Seq(Item) /\ Len(Append(s, e)) = Len(s) + 1
         /\ \A i \in 1 .. Len(s) : Append(s, e)[i] = s[i]
         /\ Append(s, e)[Len(s) + 1] = e
  OBVIOUS

\* One element more, or one refused.
LEMMA ArrayUpdates ==
  ASSUME NEW a \in Array
  PROVE  LET r == [a EXCEPT !.refused = 1]
             m == [a EXCEPT !.taken = @ + 1] IN
         /\ r \in Array /\ r.name = a.name /\ r.taken = a.taken /\ r.refused = 1
         /\ m \in Array /\ m.name = a.name /\ m.taken = a.taken + 1 /\ m.refused = a.refused
  BY DEF Array

-----------------------------------------------------------------------------
(* Printing.                                                                 *)

\* The depth that a thread keeps is the true one from the outermost call on, and outside
\* of printing nothing is nested.
Printing ==
  /\ job \in [Threads -> {"idle", "reading", "writing", "printing"}]
  /\ depth \in [Threads -> Int] /\ nested \in [Threads -> Nat] /\ unwatched \subseteq Threads
  /\ \A t \in Threads :
       /\ job[t] # "printing" => nested[t] = 0
       /\ job[t] = "printing" => depth[t] = nested[t]
       /\ nested[t] > MaxPrint => t \in unwatched

LEMMA PrintingStep == ASSUME Printing, LobbyNext PROVE Printing'
<1> USE LimitAssumption DEF Printing
<1>1. CASE ToggleWatch
  BY <1>1 DEF ToggleWatch
<1>2. ASSUME NEW t \in Threads, HandlePacket(t)
      PROVE  Printing'
  BY <1>2 DEF HandlePacket, DropPacket, ReadForBrowser, HandToGame, lobbyVars, counts
<1>3. ASSUME NEW t \in Threads, WritePacket(t) \/ EndPacket(t)
      PROVE  Printing'
  BY <1>3 DEF WritePacket, EndPacket, counts
<1>4. ASSUME NEW t \in Threads,
             \/ \E name \in Names : ArrayStart(t, name)
             \/ ArrayElement(t) \/ ArrayElementFree(t) \/ ArrayEnd(t)
      PROVE  Printing'
  BY <1>4 DEF ArrayStart, ArrayElement, ArrayElementFree, ArrayEnd
<1>5. ASSUME NEW t \in Threads, PrintMessage(t)
      PROVE  Printing'
  BY <1>5 DEF PrintMessage, DepthReset
<1>6. ASSUME NEW t \in Threads, PrintNested(t)
      PROVE  Printing'
  BY <1>6 DEF PrintNested
<1>7. ASSUME NEW t \in Threads, PrintTooDeep(t) \/ PrintEnd(t)
      PROVE  Printing'
  BY <1>7 DEF PrintTooDeep, PrintEnd, lobbyVars, counts
<1>8. ASSUME NEW t \in Threads, PrintReturn(t)
      PROVE  Printing'
  BY <1>8 DEF PrintReturn
<1>9. QED
  BY <1>1, <1>2, <1>3, <1>4, <1>5, <1>6, <1>7, <1>8 DEF LobbyNext

\* Printing nests as deep as allowed and no deeper, on any number of threads that print at
\* the same time (hk_lobby_print_message, hk_lobby_print_debug, hk_lobby_print_array).
THEOREM NestingStaysHeld == Spec => []NestingHeld
<1>1. Init => Printing
  BY LimitAssumption DEF Init, LobbyInit, Printing
<1>2. Printing /\ [Next]_<<commandVars, lobbyVars>> => Printing'
  BY PrintingStep DEF Next, lobbyVars, Printing
<1>3. Printing => NestingHeld
  BY DEF Printing, NestingHeld
<1>4. QED
  BY <1>1, <1>2, <1>3, PTL DEF Spec

-----------------------------------------------------------------------------
(* Arrays.                                                                   *)

\* While an array is followed the count that its thread keeps is the array's own: an array
\* that begins in it takes the count over, and with it the right to be followed.
Counts(c, a) ==
  /\ a.taken \in Nat /\ c.limit = Limit[a.name]
  /\ IF a.refused = 1 THEN a.taken = Limit[a.name] /\ c.count > Limit[a.name]
                  ELSE a.taken = c.count /\ a.taken <= Limit[a.name]

ArraysCounted ==
  /\ job \in [Threads -> {"idle", "reading", "writing", "printing"}]
  /\ cap \in [Threads -> [count : Nat, limit : Nat]]
  /\ arrays \in [Threads -> Seq(Item)]
  /\ \A t \in Threads : \A i \in 1 .. Len(arrays[t]) :
       arrays[t][i] # Unfollowed => i = Len(arrays[t]) /\ Counts(cap[t], arrays[t][i])

\* A step is one of at most one thread's row of arrays, and of its count.
LEMMA OneThread ==
  ASSUME ArraysCounted, NEW t \in Threads, NEW c, NEW r \in Seq(Item),
         c \in [count : Nat, limit : Nat],
         cap' = [cap EXCEPT ![t] = c], arrays' = [arrays EXCEPT ![t] = r], job' = job,
         \A i \in 1 .. Len(r) : r[i] # Unfollowed => i = Len(r) /\ Counts(c, r[i])
  PROVE  ArraysCounted'
<1>1. /\ job' \in [Threads -> {"idle", "reading", "writing", "printing"}]
      /\ cap' \in [Threads -> [count : Nat, limit : Nat]]
      /\ arrays' \in [Threads -> Seq(Item)]
  BY DEF ArraysCounted
<1>2. ASSUME NEW u \in Threads, NEW i \in 1 .. Len(arrays'[u]), arrays'[u][i] # Unfollowed
      PROVE  i = Len(arrays'[u]) /\ Counts(cap'[u], arrays'[u][i])
  <2>1. CASE u = t
    <3>1. arrays'[u] = r /\ cap'[u] = c
      BY <2>1 DEF ArraysCounted
    <3>2. QED
      BY <1>2, <2>1, <3>1
  <2>2. CASE u # t
    <3>1. arrays'[u] = arrays[u] /\ cap'[u] = cap[u]
      BY <2>2 DEF ArraysCounted
    <3>2. QED
      BY <1>2, <3>1 DEF ArraysCounted, Counts
  <2>3. QED
    BY <2>1, <2>2
<1>3. QED
  BY <1>1, <1>2 DEF ArraysCounted

LEMMA StartKeepsCount ==
  ASSUME ArraysCounted, NEW t \in Threads, NEW name \in Names, ArrayStart(t, name)
  PROVE  ArraysCounted'
<1> DEFINE e == IF name # Nameless /\ watched /\ job[t] = "reading"
                THEN [name |-> name, taken |-> 0, refused |-> 0] ELSE Unfollowed
           old == Forgotten(arrays[t])
           r == Append(old, e)
           c == IF name = Nameless THEN cap[t] ELSE [count |-> 0, limit |-> Limit[name]]
<1>1. arrays[t] \in Seq(Item) /\ cap[t] \in [count : Nat, limit : Nat]
  BY DEF ArraysCounted
<1>2. e \in Item
  BY DEF Item, Array, Names
<1>3. old \in Seq(Item) /\ Len(old) \in Nat /\ \A i \in 1 .. Len(old) : old[i] = Unfollowed
  BY <1>1, ForgottenType
<1>4. /\ r \in Seq(Item) /\ Len(r) = Len(old) + 1
      /\ \A i \in 1 .. Len(old) : r[i] = old[i]
      /\ r[Len(old) + 1] = e
  BY <1>2, <1>3, AppendedType
<1>5. c \in [count : Nat, limit : Nat]
  BY <1>1, LimitAssumption DEF Names
<1>6. cap' = [cap EXCEPT ![t] = c]
  BY DEF ArrayStart, CapSet, ArraysCounted
<1>7. arrays' = [arrays EXCEPT ![t] = r] /\ job' = job
  BY DEF ArrayStart
<1>8. e # Unfollowed => Counts(c, e)
  <2>1. SUFFICES ASSUME e # Unfollowed PROVE Counts(c, e)
    OBVIOUS
  <2>2. name # Nameless /\ e = [name |-> name, taken |-> 0, refused |-> 0]
    BY <2>1
  <2>3. c = [count |-> 0, limit |-> Limit[name]]
    BY <2>2
  <2>4. Limit[name] \in Nat
    BY <2>2, LimitAssumption DEF Names
  <2>5. QED
    BY <2>2, <2>3, <2>4 DEF Counts
<1>9. \A i \in 1 .. Len(r) : r[i] # Unfollowed => i = Len(r) /\ Counts(c, r[i])
  BY <1>3, <1>4, <1>8
<1> HIDE DEF e, old, r, c
<1>10. QED
  BY <1>4, <1>5, <1>6, <1>7, <1>9, OneThread

LEMMA ElementKeepsCount ==
  ASSUME ArraysCounted, NEW t \in Threads, ArrayElement(t)
  PROVE  ArraysCounted'
<1> DEFINE over == cap[t].count + 1 > cap[t].limit
           e == IF over THEN [Inner(t) EXCEPT !.refused = 1]
                ELSE [Inner(t) EXCEPT !.taken = @ + 1]
           c == IF cap[t].count > cap[t].limit THEN cap[t] ELSE [cap[t] EXCEPT !.count = @ + 1]
           r == IF Followed(t) THEN Front(arrays[t]) \o <<e>> ELSE arrays[t]
           n == Len(arrays[t])
<1>1. arrays[t] \in Seq(Item) /\ arrays[t] # <<>> /\ cap[t] \in [count : Nat, limit : Nat]
  BY DEF ArraysCounted, ArrayElement
<1>2. n \in Nat \ {0} /\ Inner(t) = arrays[t][n] /\ Inner(t) \in Item
  BY <1>1, FrontType DEF Inner
<1>3. c \in [count : Nat, limit : Nat]
  BY <1>1
<1>4. cap' = [cap EXCEPT ![t] = c] /\ job' = job
  BY DEF ArrayElement, ArraysCounted
<1>5. arrays' = [arrays EXCEPT ![t] = r]
  BY DEF ArrayElement, ArraysCounted
<1>6. CASE ~Followed(t)
  <2>1. r = arrays[t]
    BY <1>6
  <2> HIDE DEF c, r
  <2>2. \A i \in 1 .. n : arrays[t][i] = Unfollowed
    BY <1>2, <1>6 DEF ArraysCounted, Followed
  <2>3. \A i \in 1 .. Len(r) : r[i] # Unfollowed => i = Len(r) /\ Counts(c, r[i])
    BY <2>1, <2>2
  <2>4. QED
    BY <1>1, <1>3, <1>4, <1>5, <2>1, <2>3, OneThread
<1>7. CASE Followed(t)
  <2>1. Inner(t) \in Array /\ Counts(cap[t], Inner(t))
    BY <1>2, <1>7 DEF Followed, Item, ArraysCounted
  <2>2. /\ Limit[Inner(t).name] \in Nat /\ cap[t].limit = Limit[Inner(t).name]
        /\ Inner(t).name \in DOMAIN Limit /\ Inner(t).taken \in Nat
    BY <2>1, LimitAssumption DEF Counts, Array
  <2>3. /\ e \in Array /\ e.name = Inner(t).name
        /\ over => e.refused = 1 /\ e.taken = Inner(t).taken
        /\ ~over => e.refused = Inner(t).refused /\ e.taken = Inner(t).taken + 1
    <3> HIDE DEF over
    <3>1. CASE over BY <2>1, <3>1, ArrayUpdates
    <3>2. CASE ~over BY <2>1, <3>2, ArrayUpdates
    <3>3. QED BY <3>1, <3>2
  <2>5. c.limit = cap[t].limit
    BY <1>1
  <2>6. ASSUME over PROVE Counts(c, e)
    <3>1. e.refused = 1 /\ e.taken = Inner(t).taken
      BY <2>3, <2>6
    <3>2. Inner(t).taken = Limit[Inner(t).name]
      BY <1>1, <2>1, <2>2, <2>6 DEF Counts
    <3>3. c.count > Limit[Inner(t).name]
      BY <1>1, <2>2, <2>6
    <3> HIDE DEF e, c
    <3>4. QED
      BY <2>2, <2>3, <2>5, <3>1, <3>2, <3>3 DEF Counts
  <2>7. ASSUME ~over PROVE Counts(c, e)
    <3>1. Inner(t).refused # 1 /\ Inner(t).taken = cap[t].count
      BY <1>1, <2>1, <2>2, <2>7 DEF Counts
    <3>2. e.refused # 1 /\ e.taken = cap[t].count + 1
      BY <2>3, <2>7, <3>1
    <3>3. c.count = cap[t].count + 1 /\ cap[t].count + 1 <= Limit[Inner(t).name]
      BY <1>1, <2>2, <2>7
    <3> HIDE DEF e, c
    <3>4. QED
      BY <1>1, <2>2, <2>3, <2>5, <3>2, <3>3 DEF Counts
  <2>8. Counts(c, e)
    BY <2>6, <2>7
  <2>9. e \in Item
    BY <2>3 DEF Item
  <2> HIDE DEF c, e
  <2>10. /\ r \in Seq(Item) /\ Len(r) = n
         /\ \A i \in 1 .. n - 1 : r[i] = arrays[t][i]
         /\ r[n] = e
    BY <1>1, <1>7, <2>9, ReplacedType
  <2> HIDE DEF r
  <2>11. \A i \in 1 .. n - 1 : arrays[t][i] = Unfollowed
    BY <1>2 DEF ArraysCounted
  <2>12. \A i \in 1 .. Len(r) : r[i] # Unfollowed => i = Len(r) /\ Counts(c, r[i])
    BY <1>2, <2>8, <2>10, <2>11
  <2>13. QED
    BY <1>3, <1>4, <1>5, <2>10, <2>12, OneThread
<1>8. QED
  BY <1>6, <1>7

\* Rows of which nothing is followed satisfy the invariant, whatever the count is.
LEMMA UnfollowedCounts ==
  ASSUME ArraysCounted, NEW t \in Threads, NEW r \in Seq(Item), cap' = cap, job' = job,
         arrays' = [arrays EXCEPT ![t] = r],
         \A i \in 1 .. Len(r) : r[i] = Unfollowed
  PROVE  ArraysCounted'
<1>1. cap' = [cap EXCEPT ![t] = cap[t]] /\ cap[t] \in [count : Nat, limit : Nat]
  BY DEF ArraysCounted
<1>2. QED
  BY <1>1, OneThread

LEMMA CountStep == ASSUME ArraysCounted, LobbyNext PROVE ArraysCounted'
<1>1. CASE ToggleWatch
  <2>1. arrays' = [t \in Threads |-> Forgotten(arrays[t])] /\ cap' = cap /\ job' = job
    BY <1>1 DEF ToggleWatch
  <2>2. \A t \in Threads : /\ Forgotten(arrays[t]) \in Seq(Item)
                           /\ \A i \in 1 .. Len(Forgotten(arrays[t])) :
                                Forgotten(arrays[t])[i] = Unfollowed
    BY ForgottenType DEF ArraysCounted
  <2>3. QED
    BY <2>1, <2>2 DEF ArraysCounted
<1>2. ASSUME NEW t \in Threads,
             \/ HandlePacket(t) \/ WritePacket(t)
             \/ PrintMessage(t) \/ PrintNested(t) \/ PrintTooDeep(t) \/ PrintReturn(t) \/ PrintEnd(t)
      PROVE  ArraysCounted'
  <2>1. UNCHANGED <<cap, arrays>>
        /\ job' \in [Threads -> {"idle", "reading", "writing", "printing"}]
    BY <1>2 DEF HandlePacket, DropPacket, ReadForBrowser, HandToGame, WritePacket, PrintMessage,
      PrintNested, PrintTooDeep, PrintReturn, PrintEnd, lobbyVars, counts, ArraysCounted
  <2>2. QED
    BY <2>1 DEF ArraysCounted, Counts
<1>3. ASSUME NEW t \in Threads, EndPacket(t)
      PROVE  ArraysCounted'
  <2>1. /\ cap' = cap /\ arrays' = [arrays EXCEPT ![t] = <<>>]
        /\ job' \in [Threads -> {"idle", "reading", "writing", "printing"}]
    BY <1>3 DEF EndPacket, ArraysCounted
  <2>2. <<>> \in Seq(Item) /\ Len(<<>>) = 0
    OBVIOUS
  <2>3. QED
    BY <2>1, <2>2 DEF ArraysCounted, Counts
<1>4. ASSUME NEW t \in Threads, NEW name \in Names, ArrayStart(t, name)
      PROVE  ArraysCounted'
  BY <1>4, StartKeepsCount
<1>5. ASSUME NEW t \in Threads, ArrayElement(t)
      PROVE  ArraysCounted'
  BY <1>5, ElementKeepsCount
<1>6. ASSUME NEW t \in Threads, ArrayElementFree(t)
      PROVE  ArraysCounted'
  <2>1. arrays[t] \in Seq(Item) /\ arrays' = [arrays EXCEPT ![t] = Forgotten(arrays[t])]
        /\ cap' = cap /\ job' = job
    BY <1>6 DEF ArrayElementFree, ArraysCounted
  <2>2. Forgotten(arrays[t]) \in Seq(Item)
        /\ \A i \in 1 .. Len(Forgotten(arrays[t])) : Forgotten(arrays[t])[i] = Unfollowed
    BY <2>1, ForgottenType
  <2>3. QED
    BY <2>1, <2>2, UnfollowedCounts
<1>7. ASSUME NEW t \in Threads, ArrayEnd(t)
      PROVE  ArraysCounted'
  <2>1. arrays[t] \in Seq(Item) /\ arrays[t] # <<>> /\ cap' = cap /\ job' = job
        /\ arrays' = [arrays EXCEPT ![t] = Front(arrays[t])]
    BY <1>7 DEF ArrayEnd, ArraysCounted
  <2>2. /\ Front(arrays[t]) \in Seq(Item) /\ Len(Front(arrays[t])) = Len(arrays[t]) - 1
        /\ \A i \in 1 .. Len(arrays[t]) - 1 : Front(arrays[t])[i] = arrays[t][i]
        /\ Len(arrays[t]) \in Nat
    BY <2>1, FrontType
  <2>3. \A i \in 1 .. Len(Front(arrays[t])) : Front(arrays[t])[i] = Unfollowed
    BY <2>2 DEF ArraysCounted
  <2>4. QED
    BY <2>1, <2>2, <2>3, UnfollowedCounts
<1>8. QED
  BY <1>1, <1>2, <1>3, <1>4, <1>5, <1>6, <1>7 DEF LobbyNext

\* An array with a name gives up to its limit of elements, and never fewer on account of
\* it, however many threads read packets and in whatever order (hk_array_start,
\* hk_array_element).
THEOREM ElementsStayCapped == Spec => []ElementsCapped
<1>1. Init => ArraysCounted
  BY DEF Init, LobbyInit, ArraysCounted
<1>2. ArraysCounted /\ [Next]_<<commandVars, lobbyVars>> => ArraysCounted'
  <2>1. ArraysCounted /\ UNCHANGED lobbyVars => ArraysCounted'
    BY DEF lobbyVars, ArraysCounted, Counts
  <2>2. QED
    BY <2>1, CountStep DEF Next
<1>3. ArraysCounted => ElementsCapped
  <2> SUFFICES ASSUME ArraysCounted, NEW t \in Threads, NEW i \in DOMAIN arrays[t],
                      arrays[t][i] # Unfollowed
               PROVE  LET a == arrays[t][i] IN
                      a.taken <= Limit[a.name] /\ (a.refused = 1 => a.taken = Limit[a.name])
    BY DEF ElementsCapped
  <2>1. i \in 1 .. Len(arrays[t]) /\ arrays[t][i] \in Array
    BY DEF ArraysCounted, Item
  <2>2. Counts(cap[t], arrays[t][i]) /\ Limit[arrays[t][i].name] \in Nat
    BY <2>1, LimitAssumption DEF ArraysCounted, Array
  <2>3. QED
    BY <2>1, <2>2 DEF Counts
<1>4. QED
  BY <1>1, <1>2, <1>3, PTL DEF Spec
=============================================================================
