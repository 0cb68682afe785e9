----------------------------- MODULE OverlayProofs -----------------------------
(* Theorems about Overlay, for any threads, notices, limits and lags. *)
EXTENDS Overlay, Counting

-----------------------------------------------------------------------------
(* The lists the mutex guards.                                              *)

\* No text is in a list twice (DistinctTexts, of any list).
OnceIn(list) == \A i, j \in DOMAIN list : list[i].text = list[j].text => i = j

\* A list that notify and draw_toasts may leave behind.
ListOK(list) == list \in Seq(Toast) /\ Len(list) <= MaxToasts /\ OnceIn(list)

LEMMA AgeType == MaxAge \in Nat /\ 0 \in 0..MaxAge
  BY SizeAssumption DEF MaxAge

\* Starting a toast anew leaves the others and every text where they are.
LEMMA RenewedOK ==
  ASSUME NEW list, ListOK(list), NEW x \in Texts
  PROVE  ListOK(Renewed(list, x))
<1> DEFINE new == Renewed(list, x)
<1>1. list \in Seq(Toast) /\ Len(list) \in Nat /\ DOMAIN list = 1..Len(list)
  BY LenProperties DEF ListOK
<1>2. \A i \in 1..Len(list) : list[i] \in Toast
  BY <1>1
<1>3. \A i \in 1..Len(list) : new[i] \in Toast /\ new[i].text = list[i].text
  BY <1>1, <1>2, AgeType DEF Renewed, Toast
<1>4. new \in [1..Len(list) -> Toast]
  BY <1>1, <1>3 DEF Renewed
<1>5. new \in Seq(Toast) /\ Len(new) = Len(list) /\ DOMAIN new = 1..Len(list)
  BY <1>1, <1>4, FunctionIsSeq
<1> HIDE DEF new
<1>6. OnceIn(new)
  BY <1>1, <1>3, <1>5 DEF ListOK, OnceIn
<1> QED
  BY <1>5, <1>6 DEF ListOK, new

\* A notice that is not up goes in front, and max_toasts stay.
LEMMA NewNoticeOK ==
  ASSUME NEW list, ListOK(list), NEW x \in Texts, ~Shows(list, x)
  PROVE  ListOK(Noticed(list, x))
<1> DEFINE r == [text |-> x, age |-> 0]
           longer == <<r>> \o list
<1>1. list \in Seq(Toast) /\ Len(list) \in Nat /\ DOMAIN list = 1..Len(list)
  BY LenProperties DEF ListOK
<1>2. r \in Toast /\ r.text = x
  BY AgeType DEF Toast
<1>3. <<r>> \in Seq(Toast) /\ Len(<<r>>) = 1 /\ <<r>>[1] = r
  BY <1>2
<1> HIDE DEF r
<1>4. /\ longer \in Seq(Toast) /\ Len(longer) = 1 + Len(list)
      /\ \A i \in 1..(1 + Len(list)) : longer[i] = IF i <= 1 THEN <<r>>[i] ELSE list[i - 1]
  BY <1>1, <1>3, ConcatProperties
<1>5. DOMAIN longer = 1..(1 + Len(list))
  BY <1>1, <1>4, LenProperties
<1>6. longer[1] = r /\ \A i \in 2..(1 + Len(list)) : longer[i] = list[i - 1]
  BY <1>1, <1>3, <1>4
<1> HIDE DEF longer
<1>7. OnceIn(longer)
  <2> SUFFICES ASSUME NEW i \in 1..(1 + Len(list)), NEW j \in 1..(1 + Len(list)),
                      longer[i].text = longer[j].text, i < j
               PROVE  FALSE
    BY <1>1, <1>5 DEF OnceIn
  <2>1. j \in 2..(1 + Len(list)) /\ j - 1 \in DOMAIN list /\ longer[j] = list[j - 1]
    BY <1>1, <1>6
  <2>2. CASE i = 1
    BY <1>2, <1>6, <2>1, <2>2 DEF Shows
  <2>3. CASE i # 1
    <3>1. i \in 2..(1 + Len(list)) /\ i - 1 \in DOMAIN list /\ longer[i] = list[i - 1]
      BY <1>1, <1>6, <2>3
    <3>2. i - 1 = j - 1
      BY <2>1, <3>1 DEF ListOK, OnceIn
    <3> QED
      BY <3>2
  <2> QED
    BY <2>2, <2>3
<1>8. CASE Len(longer) <= MaxToasts
  <2>1. Noticed(list, x) = longer
    BY <1>1, <1>4, <1>8, SizeAssumption DEF Noticed, longer, r
  <2> QED
    BY <1>4, <1>7, <1>8, <2>1 DEF ListOK
<1>9. CASE Len(longer) > MaxToasts
  <2>1. Noticed(list, x) = SubSeq(longer, 1, Len(list))
    BY <1>1, <1>4, <1>9 DEF Noticed, longer, r, Front
  <2> DEFINE short == SubSeq(longer, 1, Len(list))
  <2>2. \A i \in 1..Len(list) : longer[i] \in Toast
    BY <1>1, <1>4
  <2>3. /\ short \in Seq(Toast) /\ Len(short) = Len(list)
        /\ \A i \in 1..Len(list) : short[i] = longer[i]
    BY <1>1, <2>2, SubSeqProperties
  <2>4. DOMAIN short = 1..Len(list)
    BY <2>3, LenProperties
  <2> HIDE DEF short
  <2>5. OnceIn(short)
    BY <1>1, <1>5, <1>7, <2>3, <2>4 DEF OnceIn
  <2> QED
    BY <2>1, <2>3, <2>5 DEF ListOK, short
<1> QED
  BY <1>1, <1>4, <1>8, <1>9, SizeAssumption

LEMMA NoticedOK ==
  ASSUME NEW list, ListOK(list), NEW x \in Texts
  PROVE  ListOK(Noticed(list, x))
<1>1. CASE Shows(list, x)
  BY <1>1, RenewedOK DEF Noticed
<1>2. CASE ~Shows(list, x)
  BY <1>2, NewNoticeOK
<1> QED
  BY <1>1, <1>2

\* Posting a notice leaves the other toasts that stay as they are.
LEMMA OthersStay ==
  ASSUME NEW list, ListOK(list), NEW x \in Texts,
         NEW k \in DOMAIN Noticed(list, x), Noticed(list, x)[k].text # x
  PROVE  \E i \in DOMAIN list : Noticed(list, x)[k] = list[i]
<1>1. list \in Seq(Toast) /\ Len(list) \in Nat /\ DOMAIN list = 1..Len(list)
  BY LenProperties DEF ListOK
<1>2. CASE Shows(list, x)
  <2>1. \A i \in DOMAIN list : list[i].text = x => Renewed(list, x)[i].text = x
    <3> SUFFICES ASSUME NEW i \in DOMAIN list, list[i].text = x
                 PROVE  Renewed(list, x)[i].text = x
      OBVIOUS
    <3>1. list[i] \in Toast /\ Renewed(list, x)[i] = [list[i] EXCEPT !.age = 0]
      BY <1>1 DEF Renewed
    <3> QED
      BY <3>1 DEF Toast
  <2>2. DOMAIN Renewed(list, x) = DOMAIN list
    BY DEF Renewed
  <2>3. k \in DOMAIN list /\ list[k].text # x
    BY <1>2, <2>1, <2>2 DEF Noticed
  <2>4. Renewed(list, x)[k] = list[k]
    BY <2>3 DEF Renewed
  <2> QED
    BY <1>2, <2>3, <2>4 DEF Noticed
<1>3. CASE ~Shows(list, x)
  <2> DEFINE r == [text |-> x, age |-> 0]
             longer == <<r>> \o list
  <2>1. r \in Toast /\ r.text = x
    BY AgeType DEF Toast
  <2>2. <<r>> \in Seq(Toast) /\ Len(<<r>>) = 1 /\ <<r>>[1] = r
    BY <2>1
  <2> HIDE DEF r
  <2>3. /\ longer \in Seq(Toast) /\ Len(longer) = 1 + Len(list)
        /\ \A i \in 1..(1 + Len(list)) : longer[i] = IF i <= 1 THEN <<r>>[i] ELSE list[i - 1]
    BY <1>1, <2>2, ConcatProperties
  <2>4. \A i \in 1..(1 + Len(list)) : longer[i] \in Toast
    BY <1>1, <2>3
  <2>5. k \in 1..(1 + Len(list)) /\ Noticed(list, x)[k] = longer[k]
    <3>1. CASE Len(longer) > MaxToasts
      <4>1. Noticed(list, x) = SubSeq(longer, 1, Len(list))
        BY <1>1, <1>3, <2>3, <3>1 DEF Noticed, longer, r, Front
      <4> DEFINE short == SubSeq(longer, 1, Len(list))
      <4> HIDE DEF longer
      <4>2. \A i \in 1..Len(list) : longer[i] \in Toast
        BY <1>1, <2>4
      <4>3. /\ short \in Seq(Toast) /\ Len(short) = Len(list)
            /\ \A i \in 1..Len(list) : short[i] = longer[i]
        BY <1>1, <4>2, SubSeqProperties
      <4>4. DOMAIN short = 1..Len(list)
        BY <4>3, LenProperties
      <4> HIDE DEF short
      <4> QED
        BY <1>1, <4>1, <4>3, <4>4 DEF short
    <3>2. CASE ~(Len(longer) > MaxToasts)
      <4>1. Noticed(list, x) = longer
        BY <1>3, <3>2 DEF Noticed, longer, r
      <4>2. DOMAIN longer = 1..(1 + Len(list))
        BY <1>1, <2>3, LenProperties
      <4> QED
        BY <4>1, <4>2
    <3> QED
      BY <3>1, <3>2
  <2>6. k # 1
    BY <1>1, <2>1, <2>2, <2>3, <2>5
  <2> HIDE DEF longer
  <2>7. k - 1 \in DOMAIN list /\ longer[k] = list[k - 1]
    BY <1>1, <2>3, <2>5, <2>6
  <2> QED
    BY <2>5, <2>7
<1> QED
  BY <1>2, <1>3

\* Time changes no text.
LEMMA OlderOK ==
  ASSUME NEW list, ListOK(list)
  PROVE  ListOK(Older(list))
<1> DEFINE new == Older(list)
<1>1. list \in Seq(Toast) /\ Len(list) \in Nat /\ DOMAIN list = 1..Len(list)
  BY LenProperties DEF ListOK
<1>2. \A i \in 1..Len(list) : list[i] \in Toast
  BY <1>1
<1>3. \A i \in 1..Len(list) : new[i] \in Toast /\ new[i].text = list[i].text
  BY <1>1, <1>2, AgeType DEF Older, Toast
<1>4. new \in [1..Len(list) -> Toast]
  BY <1>1, <1>3 DEF Older
<1>5. new \in Seq(Toast) /\ Len(new) = Len(list) /\ DOMAIN new = 1..Len(list)
  BY <1>1, <1>4, FunctionIsSeq
<1> HIDE DEF new
<1>6. OnceIn(new)
  BY <1>1, <1>3, <1>5 DEF ListOK, OnceIn
<1> QED
  BY <1>5, <1>6 DEF ListOK, new

\* The entries of a list at the positions of S, in their order.
KeptOf(list, S) ==
  [k \in 1..Cardinality(S) |->
     list[CHOOSE i \in S : Cardinality({j \in S : j <= i}) = k]]

\* Each entry that is kept stands at one place.
LEMMA KeptOK ==
  ASSUME NEW list, ListOK(list), NEW S \in SUBSET DOMAIN list
  PROVE  /\ ListOK(KeptOf(list, S))
         /\ \A k \in DOMAIN KeptOf(list, S) : \E i \in S : KeptOf(list, S)[k] = list[i]
<1> DEFINE n == Cardinality(S)
           Rank(i) == Cardinality({j \in S : j <= i})
           At(k) == CHOOSE i \in S : Rank(i) = k
           new == KeptOf(list, S)
<1>1. list \in Seq(Toast) /\ Len(list) \in Nat /\ DOMAIN list = 1..Len(list)
  BY LenProperties DEF ListOK
<1>2. n \in Nat /\ n <= Len(list) /\ \A k \in 1..n : \E i \in S : Rank(i) = k
  BY <1>1, PositionsTaken
<1>3. \A k \in 1..n : At(k) \in S /\ Rank(At(k)) = k
  <2> SUFFICES ASSUME NEW k \in 1..n
               PROVE  At(k) \in S /\ Rank(At(k)) = k
    OBVIOUS
  <2>1. \E i \in S : Rank(i) = k
    BY <1>2
  <2> HIDE DEF Rank
  <2> QED
    BY <2>1
<1>4. \A k \in 1..n : new[k] = list[At(k)]
  BY DEF KeptOf
<1>5. \A i \in S : i \in 1..Len(list) /\ list[i] \in Toast
  BY <1>1
<1>6. new \in [1..n -> Toast]
  <2>1. new = [k \in 1..n |-> list[At(k)]]
    BY DEF KeptOf
  <2> HIDE DEF new, At, n
  <2> QED
    BY <1>3, <1>5, <2>1
<1> HIDE DEF new, At, Rank, n
<1>7. new \in Seq(Toast) /\ Len(new) = n /\ DOMAIN new = 1..n
  BY <1>2, <1>6, FunctionIsSeq
<1>8. OnceIn(new)
  <2> SUFFICES ASSUME NEW i \in 1..n, NEW j \in 1..n, new[i].text = new[j].text
               PROVE  i = j
    BY <1>7 DEF OnceIn
  <2>1. At(i) = At(j)
    BY <1>1, <1>3, <1>4, <1>5 DEF ListOK, OnceIn
  <2> QED
    BY <1>3, <2>1
<1>9. Len(new) <= MaxToasts
  BY <1>1, <1>2, <1>7, SizeAssumption DEF ListOK
<1>10. \A k \in DOMAIN new : \E i \in S : new[k] = list[i]
  BY <1>3, <1>4, <1>7
<1> QED
  BY <1>7, <1>8, <1>9, <1>10 DEF ListOK, new

\* None that is kept is left out.
LEMMA KeptStay ==
  ASSUME NEW list, ListOK(list), NEW S \in SUBSET DOMAIN list, NEW i \in S
  PROVE  \E k \in DOMAIN KeptOf(list, S) : KeptOf(list, S)[k] = list[i]
<1> DEFINE Rank(m) == Cardinality({j \in S : j <= m})
           At == CHOOSE m \in S : Rank(m) = Rank(i)
<1>1. DOMAIN list = 1..Len(list) /\ Len(list) \in Nat
  BY LenProperties DEF ListOK
<1>2. IsFiniteSet(S) /\ Rank(i) \in 1..Cardinality(S)
  BY <1>1, PositionsTaken
<1>3. ASSUME NEW m \in S, NEW o \in S, m < o
      PROVE  Rank(m) # Rank(o)
  <2> DEFINE A == {j \in S : j <= m}
             B == {j \in S : j <= o}
  <2>1. A \in SUBSET S /\ B \in SUBSET S /\ A \subseteq B /\ o \in B /\ o \notin A
    BY <1>1, <1>3
  <2>2. IsFiniteSet(A) /\ IsFiniteSet(B)
    BY <1>2, <2>1, FS_Subset
  <2>3. Cardinality(A) \in Nat /\ Cardinality(B) \in Nat
    BY <2>2, FS_CardinalityType
  <2> HIDE DEF A, B
  <2>4. Cardinality(A) < Cardinality(B)
    BY <1>2, <2>1, StrictlyMore
  <2> QED
    BY <2>3, <2>4 DEF A, B
<1>4. \A m, o \in S : m # o => m < o \/ o < m
  BY <1>1
<1>5. KeptOf(list, S)[Rank(i)] = list[At] /\ Rank(i) \in DOMAIN KeptOf(list, S)
  BY <1>2 DEF KeptOf
<1> HIDE DEF Rank
<1>6. At \in S /\ Rank(At) = Rank(i)
  OBVIOUS
<1>7. At = i
  BY <1>3, <1>4, <1>6
<1> QED
  BY <1>5, <1>7

-----------------------------------------------------------------------------
(* The inductive invariant.                                                  *)

\* A target that is there is one of the game's buffers and holds a reference on it
\* (hk_resize_buffers lets go of both at once), and render() is not past
\* ensure_target without one.
TargetHeld ==
  /\ target # "dangling"
  /\ target = "current" => held
  /\ frame # "idle" => target = "current"

\* A notice that is due has kept its place since the frame read the clock: it was in
\* time then, and is as much older now as that was ago.
DueInTime ==
  /\ frame # "clock" => due = {}
  /\ \A x \in due : \E i \in DOMAIN toasts :
       toasts[i].text = x /\ toasts[i].age >= lag /\ toasts[i].age < lag + Lifetime

\* What keeps the overlay's properties from one step to the next.
OverlayInv == TypeOK /\ DistinctTexts /\ DrawnInTime /\ TargetHeld /\ DueInTime

LEMMA InvList == OverlayInv => ListOK(toasts)
  BY DEF OverlayInv, TypeOK, DistinctTexts, ListOK, OnceIn

LEMMA InvInit == Init => OverlayInv
<1> SUFFICES ASSUME Init PROVE OverlayInv
  OBVIOUS
<1>1. << >> \in Seq(Toast) /\ Len(<< >>) = 0 /\ DOMAIN << >> = {}
  BY EmptySeq
<1>2. TypeOK
  <2>1. toasts \in Seq(Toast) /\ Len(toasts) <= MaxToasts /\ snapshot \in Seq(Toast)
    BY <1>1, SizeAssumption DEF Init
  <2>2. lag \in 0..MaxLag
    BY SizeAssumption DEF Init
  <2> QED
    BY <2>1, <2>2 DEF Init, TypeOK
<1>3. DistinctTexts /\ DrawnInTime /\ TargetHeld /\ DueInTime
  BY <1>1 DEF Init, DistinctTexts, DrawnInTime, TargetHeld, DueInTime
<1> QED
  BY <1>2, <1>3 DEF OverlayInv

\* The steps that leave the list and the frame's copy alone.
LEMMA InvDevice ==
  ASSUME OverlayInv,
         \/ ToggleNotifications \/ HookPresent \/ HookResize
         \/ \E outcome \in {"failed", "ready"} : FirstFrame(outcome)
         \/ \E t \in Threads, x \in Texts : NotifyEnters(t, x)
         \/ EnsureTarget \/ ReadClock \/ Resize
         \/ UNCHANGED vars
  PROVE  OverlayInv'
<1> USE DEF noticeVars, targetVars, frameVars, OverlayInv, TypeOK, DistinctTexts, DrawnInTime,
            TargetHeld, DueInTime
<1>1. CASE ToggleNotifications BY <1>1 DEF ToggleNotifications
<1>2. CASE HookPresent BY <1>2 DEF HookPresent
<1>3. CASE HookResize BY <1>3 DEF HookResize
<1>4. CASE \E outcome \in {"failed", "ready"} : FirstFrame(outcome) BY <1>4 DEF FirstFrame
<1>5. CASE \E t \in Threads, x \in Texts : NotifyEnters(t, x) BY <1>5 DEF NotifyEnters
<1>6. CASE EnsureTarget BY <1>6 DEF EnsureTarget
<1>7. CASE ReadClock
  <2>1. /\ UNCHANGED <<enabled, posting, toasts, unshown, hooks, device, target, held, snapshot>>
        /\ frame = "target" /\ frame' = "clock" /\ lag' = 0 /\ due' \subseteq Texts
    BY <1>7 DEF ReadClock
  <2>2. DueInTime'
    <3> SUFFICES ASSUME NEW x \in due'
                 PROVE  \E i \in DOMAIN toasts : /\ toasts[i].text = x
                                                /\ toasts[i].age >= 0 /\ toasts[i].age < 0 + Lifetime
      BY <2>1
    <3>1. PICK i \in DOMAIN toasts : toasts[i].text = x /\ toasts[i].age < Lifetime
      BY <1>7 DEF ReadClock
    <3>2. toasts[i] \in Toast
      OBVIOUS
    <3>3. toasts[i].age \in Nat
      BY <3>2, AgeType DEF Toast
    <3> QED
      BY <3>1, <3>3, SizeAssumption
  <2> QED
    BY <2>1, <2>2, SizeAssumption
<1>8. CASE Resize BY <1>8 DEF Resize, Released, AfterResize
<1>9. CASE UNCHANGED vars BY <1>9 DEF vars
<1> QED
  BY <1>1, <1>2, <1>3, <1>4, <1>5, <1>6, <1>7, <1>8, <1>9

\* A thread posts under the mutex.
LEMMA InvPosts ==
  ASSUME OverlayInv, NEW t \in Threads, NotifyPosts(t)
  PROVE  OverlayInv'
<1>1. posting[t] \in Texts
  BY DEF OverlayInv, TypeOK, NotifyPosts
<1>2. ListOK(toasts')
  BY <1>1, InvList, NoticedOK DEF NotifyPosts
<1>3. /\ posting' \in [Threads -> Texts \cup {NoText}]
      /\ unshown' \subseteq Texts /\ due' \subseteq due
      /\ UNCHANGED <<enabled, hooks, device, target, held, frame, lag, snapshot>>
  BY <1>1 DEF NotifyPosts, targetVars, frameVars, OverlayInv, TypeOK
<1>4. TypeOK'
  BY <1>2, <1>3 DEF OverlayInv, TypeOK, ListOK
<1>5. DistinctTexts'
  BY <1>2 DEF DistinctTexts, ListOK, OnceIn
<1>6. DrawnInTime' /\ TargetHeld'
  BY <1>3 DEF OverlayInv, DrawnInTime, TargetHeld
<1>7. DueInTime'
  <2>1. frame' # "clock" => due' = {}
    BY <1>3 DEF OverlayInv, DueInTime
  <2> SUFFICES ASSUME NEW x \in due'
               PROVE  \E k \in DOMAIN toasts' : /\ toasts'[k].text = x /\ toasts'[k].age >= lag
                                               /\ toasts'[k].age < lag + Lifetime
    BY <1>3, <2>1 DEF DueInTime
  <2>2. x \in due /\ x # posting[t] /\ Shows(toasts', x)
    BY DEF NotifyPosts
  <2>3. PICK i \in DOMAIN toasts :
          toasts[i].text = x /\ toasts[i].age >= lag /\ toasts[i].age < lag + Lifetime
    BY <2>2 DEF OverlayInv, DueInTime
  <2>4. PICK k \in DOMAIN toasts' : toasts'[k].text = x
    BY <2>2 DEF Shows
  <2>5. PICK j \in DOMAIN toasts : toasts'[k] = toasts[j]
    <3>1. toasts' = Noticed(toasts, posting[t])
      BY DEF NotifyPosts
    <3> QED
      BY <1>1, <2>2, <2>4, <3>1, InvList, OthersStay
  <2>6. j = i
    BY <2>3, <2>4, <2>5 DEF OverlayInv, DistinctTexts
  <2> QED
    BY <2>3, <2>5, <2>6
<1> QED
  BY <1>4, <1>5, <1>6, <1>7 DEF OverlayInv

\* draw_toasts sweeps and copies: what it copies was not older than the lifetime
\* when it read the clock, and not posted since.
LEMMA InvSweep ==
  ASSUME OverlayInv, Sweep
  PROVE  OverlayInv'
<1>1. Swept \in SUBSET DOMAIN toasts /\ \A i \in Swept : ~Expired(toasts[i])
  BY DEF Swept
<1>2. toasts' = KeptOf(toasts, Swept)
  BY DEF Sweep, KeptOf
<1>3. ListOK(toasts') /\ \A k \in DOMAIN toasts' : \E i \in Swept : toasts'[k] = toasts[i]
  BY <1>1, <1>2, InvList, KeptOK
<1>4. toasts' \in Seq(Toast) /\ Len(toasts') \in Nat /\ DOMAIN toasts' = 1..Len(toasts')
  BY <1>3, LenProperties DEF ListOK
<1>5. \A k \in DOMAIN toasts' :
        /\ toasts'[k] \in Toast
        /\ snapshot'[k] = [toasts'[k] EXCEPT !.age = @ - lag]
        /\ ~Expired(toasts'[k])
  <2> SUFFICES ASSUME NEW k \in DOMAIN toasts'
               PROVE  /\ toasts'[k] \in Toast
                      /\ snapshot'[k] = [toasts'[k] EXCEPT !.age = @ - lag]
                      /\ ~Expired(toasts'[k])
    OBVIOUS
  <2>1. toasts'[k] \in Toast
    BY <1>4
  <2>2. PICK i \in Swept : toasts'[k] = toasts[i]
    BY <1>3
  <2>3. ~Expired(toasts'[k])
    <3>1. ~Expired(toasts[i])
      BY <1>1
    <3> QED
      BY <2>2, <3>1
  <2>4. snapshot'[k] = [toasts'[k] EXCEPT !.age = @ - lag]
    BY DEF Sweep
  <2> QED
    BY <2>1, <2>3, <2>4
<1>6. \A k \in DOMAIN toasts' : snapshot'[k] \in Toast /\ snapshot'[k].age < Lifetime
  <2> SUFFICES ASSUME NEW r \in Toast, ~Expired(r)
               PROVE  /\ [r EXCEPT !.age = @ - lag] \in Toast
                      /\ [r EXCEPT !.age = @ - lag].age < Lifetime
    BY <1>5
  <2>1. lag \in 0..MaxLag
    BY DEF OverlayInv, TypeOK
  <2>2. r.age \in 0..MaxAge /\ r.age >= lag /\ r.age - lag < Lifetime
    BY <2>1, SizeAssumption DEF Expired, Toast, MaxAge
  <2>3. r.age - lag \in 0..MaxAge
    BY <2>1, <2>2, SizeAssumption DEF MaxAge
  <2> QED
    BY <2>2, <2>3 DEF Toast
<1>7. snapshot' \in Seq(Toast) /\ DOMAIN snapshot' = DOMAIN toasts'
  <2>1. snapshot' \in [1..Len(toasts') -> Toast]
    BY <1>4, <1>6 DEF Sweep
  <2> QED
    BY <1>4, <2>1, FunctionIsSeq
<1>8. /\ unshown' = {} /\ due' = {} /\ frame' = "draw" /\ frame = "clock"
      /\ UNCHANGED <<enabled, posting, hooks, device, target, held, lag>>
  BY DEF Sweep, targetVars
<1>9. TypeOK'
  BY <1>3, <1>7, <1>8 DEF OverlayInv, TypeOK, ListOK
<1>10. DistinctTexts'
  BY <1>3 DEF DistinctTexts, ListOK, OnceIn
<1>11. DrawnInTime' /\ TargetHeld' /\ DueInTime'
  BY <1>6, <1>7, <1>8 DEF OverlayInv, DrawnInTime, TargetHeld, DueInTime
<1> QED
  BY <1>9, <1>10, <1>11 DEF OverlayInv

\* The frame is done, or the clock moves on.
LEMMA InvPresent ==
  ASSUME OverlayInv, Present
  PROVE  OverlayInv'
<1>1. << >> \in Seq(Toast) /\ DOMAIN << >> = {}
  BY EmptySeq
<1> QED
  BY <1>1, SizeAssumption
  DEF Present, noticeVars, targetVars, OverlayInv, TypeOK, DistinctTexts, DrawnInTime, TargetHeld,
      DueInTime

LEMMA InvTime ==
  ASSUME OverlayInv, TimePasses
  PROVE  OverlayInv'
<1>1. ListOK(toasts')
  BY InvList, OlderOK DEF TimePasses
<1>2. /\ lag' \in 0..MaxLag
      /\ UNCHANGED <<enabled, posting, unshown, due, hooks, device, target, held, frame, snapshot>>
  BY SizeAssumption DEF TimePasses, targetVars, OverlayInv, TypeOK
<1>3. TypeOK'
  BY <1>1, <1>2 DEF OverlayInv, TypeOK, ListOK
<1>4. DistinctTexts'
  BY <1>1 DEF DistinctTexts, ListOK, OnceIn
<1>5. DrawnInTime' /\ TargetHeld'
  BY <1>2 DEF OverlayInv, DrawnInTime, TargetHeld
<1>6. DueInTime'
  <2>1. frame' # "clock" => due' = {}
    BY <1>2 DEF OverlayInv, DueInTime
  <2> SUFFICES ASSUME NEW x \in due
               PROVE  \E i \in DOMAIN toasts' : /\ toasts'[i].text = x /\ toasts'[i].age >= lag'
                                               /\ toasts'[i].age < lag' + Lifetime
    BY <1>2, <2>1 DEF DueInTime
  <2>2. PICK i \in DOMAIN toasts :
          toasts[i].text = x /\ toasts[i].age >= lag /\ toasts[i].age < lag + Lifetime
    BY DEF OverlayInv, DueInTime
  <2>3. frame = "clock" /\ lag < MaxLag /\ lag' = lag + 1 /\ lag \in Nat
    BY SizeAssumption DEF OverlayInv, DueInTime, TypeOK, TimePasses
  <2>4. toasts[i] \in Toast
    BY DEF OverlayInv, TypeOK
  <2>5. toasts[i].age \in Nat /\ toasts[i].age < MaxAge
    BY <2>2, <2>3, <2>4, SizeAssumption DEF Toast, MaxAge
  <2>6. i \in DOMAIN toasts' /\ toasts'[i] = [toasts[i] EXCEPT !.age = toasts[i].age + 1]
    BY <2>5 DEF TimePasses, Older
  <2>7. toasts'[i].text = x /\ toasts'[i].age = toasts[i].age + 1
    BY <2>2, <2>4, <2>6 DEF Toast
  <2>8. toasts[i].age + 1 >= lag' /\ toasts[i].age + 1 < lag' + Lifetime
    BY <2>2, <2>3, <2>5, SizeAssumption
  <2>9. toasts'[i].age >= lag' /\ toasts'[i].age < lag' + Lifetime
    BY <2>7, <2>8
  <2> QED
    BY <2>6, <2>7, <2>9
<1> QED
  BY <1>3, <1>4, <1>5, <1>6 DEF OverlayInv

\* OverlayInv holds in every state.
THEOREM OverlayInvariant == Spec => []OverlayInv
<1>1. OverlayInv /\ [Next]_vars => OverlayInv'
  BY InvDevice, InvPosts, InvSweep, InvPresent, InvTime DEF Next
<1> QED
  BY InvInit, <1>1, PTL DEF Spec

-----------------------------------------------------------------------------
(* The theorems.                                                             *)

\* The state is well typed, and the list never outgrows max_toasts.
THEOREM OverlayTypeCorrect == Spec => []TypeOK
<1>1. OverlayInv => TypeOK
  BY DEF OverlayInv
<1> QED
  BY <1>1, OverlayInvariant, PTL

\* However many threads post a notice at the same time, it is up once at most:
\* notify compares and inserts under one lock, and the sweep moves toasts without
\* doubling any.
THEOREM NoticesAreUpOnce == Spec => []DistinctTexts
<1>1. OverlayInv => DistinctTexts
  BY DEF OverlayInv
<1> QED
  BY <1>1, OverlayInvariant, PTL

\* Every toast a frame draws is younger than toast_lifetime by the clock that frame
\* has read, however long it then waits for the lock: one posted in between counts
\* as expired, by the unsigned difference.
THEOREM FramesDrawInTime == Spec => []DrawnInTime
<1>1. OverlayInv => DrawnInTime
  BY DEF OverlayInv
<1> QED
  BY <1>1, OverlayInvariant, PTL

\* A frame is only drawn on a target of the buffers the game has, wherever the
\* frames and the resizes fall between the two hooks.
THEOREM TargetsAreLive == Spec => []LiveTarget
<1>1. OverlayInv => LiveTarget
  BY DEF OverlayInv, TargetHeld, LiveTarget
<1> QED
  BY <1>1, OverlayInvariant, PTL

\* Only the sweep takes a frame from the clock to the drawing.
LEMMA OnlySweepDraws ==
  ASSUME [Next]_vars, frame = "clock", frame' = "draw"
  PROVE  Sweep
<1>1. CASE UNCHANGED vars
  BY <1>1 DEF vars
<1>2. CASE Next
  BY <1>2 DEF Next, ToggleNotifications, NotifyPosts, NotifyEnters, HookPresent, HookResize, FirstFrame,
              EnsureTarget, ReadClock, Present, Resize, TimePasses, frameVars
<1> QED
  BY <1>1, <1>2

\* What the sweep does not drop it draws.
LEMMA SweepShows ==
  ASSUME OverlayInv, Sweep, NEW i \in DOMAIN toasts, ~Expired(toasts[i])
  PROVE  Shows(snapshot', toasts[i].text)
<1>1. Swept \in SUBSET DOMAIN toasts /\ i \in Swept
  BY DEF Swept
<1>2. toasts' = KeptOf(toasts, Swept)
  BY DEF Sweep, KeptOf
<1>3. PICK k \in DOMAIN toasts' : toasts'[k] = toasts[i]
  BY <1>1, <1>2, InvList, KeptStay
<1>4. k \in DOMAIN snapshot' /\ snapshot'[k] = [toasts'[k] EXCEPT !.age = @ - lag]
  BY DEF Sweep
<1>5. toasts[i] \in Toast
  BY DEF OverlayInv, TypeOK
<1>6. snapshot'[k].text = toasts[i].text
  BY <1>3, <1>4, <1>5 DEF Toast
<1> QED
  BY <1>4, <1>6 DEF Shows

\* A notice that is up and in time when a frame reads the clock is drawn on it unless it is
\* posted again or pushed out while draw_toasts waits for the lock: however long the wait,
\* whatever else is posted meanwhile and wherever in the list the notice ends up.
THEOREM DueNoticesShow == Spec => DueShown
<1> DEFINE A == frame = "clock" /\ frame' = "draw" => \A x \in due : Shows(snapshot', x)
<1>1. OverlayInv /\ [Next]_vars => [A]_vars
  <2> SUFFICES ASSUME OverlayInv, [Next]_vars, frame = "clock", frame' = "draw", NEW x \in due
               PROVE  Shows(snapshot', x)
    OBVIOUS
  <2>1. PICK i \in DOMAIN toasts :
          toasts[i].text = x /\ toasts[i].age >= lag /\ toasts[i].age < lag + Lifetime
    BY DEF OverlayInv, DueInTime
  <2>2. lag \in Nat /\ toasts[i].age \in Nat
    <3>1. toasts[i] \in Toast /\ lag \in 0..MaxLag
      BY DEF OverlayInv, TypeOK
    <3> QED
      BY <3>1, SizeAssumption DEF Toast, MaxAge
  <2>3. ~Expired(toasts[i])
    BY <2>1, <2>2, SizeAssumption DEF Expired
  <2> QED
    BY <2>1, <2>3, OnlySweepDraws, SweepShows
<1>2. DueShown <=> [][A]_vars
  BY DEF DueShown
<1> HIDE DEF A
<1> QED
  BY <1>1, <1>2, OverlayInvariant, PTL DEF Spec
=============================================================================
