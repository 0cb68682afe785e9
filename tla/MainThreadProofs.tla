---------------------------- MODULE MainThreadProofs ----------------------------
(* Theorems about Banner, HookEngine and StartUp in every behaviour of MainThread: *)
(* for any images and frames, and any functions, instructions and threads.       *)
EXTENDS MainThread, Counting

-----------------------------------------------------------------------------
(* Banner: who shows what.                                                   *)

\* What ShownAlive speaks of.
Drawn(s) == slots[s] # "free" /\ s \notin raced

\* The main thread holds the image that was given the banner, or there is none while it
\* makes views.
WorkOK ==
  /\ work.at # "idle" => work.image \in Slots
  /\ work.at = "upload" => g_image = NoSlot /\ work.next >= 1
  /\ work.at = "switch" => g_image = work.image /\ views # <<>>

OneFrontend == \A s, o \in Slots : slots[s] = "frontend" /\ slots[o] = "frontend" => s = o

\* A view of the banner is one of g_views, in the image that was given them, which is
\* still the front end's.
ShownOK ==
  \A s \in Slots : Drawn(s) =>
    /\ srv[s] # Gone
    /\ srv[s] # Own => slots[s] = "frontend" /\ s = g_image /\ srv[s] \in Range(views)

\* So is the image the main thread is about to write to.
HeldOK == \A s \in Slots : Drawn(s) /\ work.image = s => slots[s] = "frontend"

BannerInv == BannerTypeOK /\ WorkOK /\ OneFrontend /\ ShownOK /\ HeldOK

\* The type of a row of views, and of the row with one more.
LEMMA ViewsType ==
  ASSUME NEW n \in Nat, NEW v \in Seq(1 .. n)
  PROVE  /\ Len(v) \in Nat /\ Range(v) \subseteq 1 .. n
         /\ v # <<>> => Len(v) >= 1 /\ \A i \in 1 .. Len(v) : v[i] \in Range(v)
         /\ \A x \in 1 .. n : /\ Append(v, x) \in Seq(1 .. n) /\ Append(v, x) # <<>>
                              /\ Range(v) \subseteq Range(Append(v, x))
<1>1. Len(v) \in Nat /\ DOMAIN v = 1 .. Len(v) /\ \A i \in 1 .. Len(v) : v[i] \in 1 .. n
  OBVIOUS
<1>2. Range(v) \subseteq 1 .. n /\ \A i \in 1 .. Len(v) : v[i] \in Range(v)
  BY <1>1 DEF Range
<1>3. v # <<>> => Len(v) >= 1
  OBVIOUS
<1>4. ASSUME NEW x \in 1 .. n
      PROVE  /\ Append(v, x) \in Seq(1 .. n) /\ Append(v, x) # <<>>
             /\ Range(v) \subseteq Range(Append(v, x))
  <2>1. Append(v, x) \in Seq(1 .. n) /\ DOMAIN Append(v, x) = 1 .. Len(v) + 1
        /\ \A i \in 1 .. Len(v) : Append(v, x)[i] = v[i]
    OBVIOUS
  <2>2. Append(v, x) # <<>>
    BY <1>1, <2>1
  <2>3. Range(v) \subseteq Range(Append(v, x))
    BY <1>1, <2>1 DEF Range
  <2> QED
    BY <2>1, <2>2, <2>3
<1> QED
  BY <1>1, <1>2, <1>3, <1>4

LEMMA BannerInitially == BannerInit => BannerInv
<1> SUFFICES ASSUME BannerInit PROVE BannerInv
  OBVIOUS
<1> USE BannerAssumption DEF BannerInit
<1>1. slots \in [Slots -> {"free", "frontend", "other"}] /\ srv \in [Slots -> Gone .. MostRaw]
  BY DEF Own, Gone
<1>2. raw \in 0 .. MostRaw /\ views \in Seq(1 .. raw)
  BY DEF Decoded
<1>3. work \in [at : {"idle", "upload", "switch"}, image : Slots \cup {NoSlot}, next : 0 .. raw + 1]
  BY <1>2 DEF Idle
<1>4. BannerTypeOK
  BY <1>1, <1>2, <1>3 DEF BannerTypeOK
<1>5. WorkOK
  BY DEF WorkOK, Idle
<1>6. OneFrontend /\ ShownOK /\ HeldOK
  BY DEF OneFrontend, ShownOK, HeldOK, Drawn
<1> QED
  BY <1>4, <1>5, <1>6 DEF BannerInv

LEMMA LoadKeeps ==
  ASSUME BannerInv, NEW s \in Slots, NEW what \in {"frontend", "other"}, Load(s, what)
  PROVE  BannerInv'
<1> USE BannerAssumption DEF Load
<1>1. slots \in [Slots -> {"free", "frontend", "other"}] /\ srv \in [Slots -> Gone .. MostRaw]
      /\ raced \subseteq Slots
  BY DEF BannerInv, BannerTypeOK
<1>2. Own \in Gone .. MostRaw
  BY DEF Own, Gone
<1>3. BannerTypeOK'
  BY <1>1, <1>2 DEF BannerInv, BannerTypeOK
<1>4. WorkOK'
  BY DEF BannerInv, WorkOK
<1>5. OneFrontend'
  BY <1>1 DEF BannerInv, OneFrontend
<1>6. ASSUME NEW o \in Slots, Drawn(o)', o # s
      PROVE  Drawn(o) /\ slots'[o] = slots[o] /\ srv'[o] = srv[o]
  BY <1>1, <1>6 DEF Drawn
<1>7. ShownOK'
  <2>1. slots'[s] = what /\ srv'[s] = Own /\ Own # Gone
    BY <1>1 DEF Own, Gone
  <2>2. \A o \in Slots : o # s /\ Drawn(o)' =>
          /\ srv'[o] # Gone
          /\ srv'[o] # Own => slots'[o] = "frontend" /\ o = g_image /\ srv'[o] \in Range(views)
    BY <1>6 DEF BannerInv, ShownOK
  <2> QED
    BY <2>1, <2>2 DEF ShownOK
<1>8. HeldOK'
  BY <1>1, <1>6 DEF BannerInv, HeldOK, Drawn
<1> QED
  BY <1>3, <1>4, <1>5, <1>7, <1>8 DEF BannerInv

LEMMA UnloadKeeps ==
  ASSUME BannerInv, NEW s \in Slots, Unload(s)
  PROVE  BannerInv'
<1> USE DEF Unload
<1>1. slots \in [Slots -> {"free", "frontend", "other"}] /\ raced \subseteq Slots
  BY DEF BannerInv, BannerTypeOK
<1>2. BannerTypeOK'
  BY <1>1 DEF BannerInv, BannerTypeOK
<1>3. WorkOK'
  BY DEF BannerInv, WorkOK
<1>4. OneFrontend'
  BY <1>1 DEF BannerInv, OneFrontend
<1>5. ASSUME NEW o \in Slots, Drawn(o)'
      PROVE  Drawn(o) /\ slots'[o] = slots[o]
  BY <1>1, <1>5 DEF Drawn
<1>6. ShownOK' /\ HeldOK'
  BY <1>5 DEF BannerInv, ShownOK, HeldOK
<1> QED
  BY <1>2, <1>3, <1>4, <1>6 DEF BannerInv

\* What the actions below use of the invariant.
LEMMA BannerTypes ==
  ASSUME BannerInv
  PROVE  /\ slots \in [Slots -> {"free", "frontend", "other"}]
         /\ srv \in [Slots -> Gone .. MostRaw] /\ MostRaw \in Nat
         /\ raw \in 0 .. MostRaw /\ views \in Seq(1 .. raw)
         /\ g_image \in Slots \cup {NoSlot}
         /\ work \in [at : {"idle", "upload", "switch"}, image : Slots \cup {NoSlot},
                      next : 0 .. raw + 1]
         /\ raced \subseteq Slots
  BY BannerAssumption DEF BannerInv, BannerTypeOK

\* An action that changes no slot leaves alone which are drawn and which is the front
\* end's.
LEMMA SlotsKept ==
  ASSUME BannerInv, UNCHANGED <<slots, raced>>
  PROVE  OneFrontend' /\ (\A o \in Slots : Drawn(o)' = Drawn(o))
  BY DEF BannerInv, OneFrontend, Drawn

LEMMA ReconcileKeeps ==
  ASSUME BannerInv, NEW s \in Slots, Reconcile(s)
  PROVE  BannerInv'
<1> USE DEF Reconcile
<1>1. /\ srv' = Released /\ views' = <<>> /\ g_image' = NoSlot
      /\ work' = [at |-> "upload", image |-> s, next |-> 1]
      /\ UNCHANGED <<slots, raw, current, raced>> /\ Found(s) /\ ~HasBanner(s)
  OBVIOUS
<1> HIDE DEF Reconcile
<1>2. BannerTypeOK'
  <2>1. srv' \in [Slots -> Gone .. MostRaw]
    BY <1>1, BannerTypes DEF Released, Gone
  <2>2. views' \in Seq(1 .. raw')
    BY <1>1
  <2>3. work' \in [at : {"idle", "upload", "switch"}, image : Slots \cup {NoSlot}, next : 0 .. raw' + 1]
    BY <1>1, BannerTypes
  <2> QED
    BY <1>1, <2>1, <2>2, <2>3, BannerTypes DEF BannerTypeOK
<1>3. WorkOK'
  BY <1>1 DEF WorkOK
<1>4. OneFrontend' /\ (\A o \in Slots : Drawn(o)' = Drawn(o))
  BY <1>1, SlotsKept
<1>5. ShownOK'
  <2>1. ASSUME NEW o \in Slots, Drawn(o)
        PROVE  srv'[o] = Own
    <3>1. srv[o] # Gone /\ (srv[o] # Own => slots[o] = "frontend" /\ o = g_image /\ srv[o] \in Range(views))
      BY <2>1 DEF BannerInv, ShownOK
    <3>2. CASE srv[o] = Own
      <4>1. srv[o] \notin Range(views)
        BY <3>2, BannerTypes, ViewsType DEF Own
      <4> QED
        BY <1>1, <3>2, <4>1 DEF Released
    <3>3. CASE srv[o] # Own
      <4>1. o = s
        BY <1>1, <3>1, <3>3 DEF BannerInv, OneFrontend, Found
      <4>2. views # <<>>
        BY <3>1, <3>3 DEF Range
      <4> QED
        BY <1>1, <3>1, <3>3, <4>1, <4>2 DEF HasBanner
    <3> QED
      BY <3>2, <3>3
  <2>2. Own # Gone
    BY DEF Own, Gone
  <2> QED
    BY <1>4, <2>1, <2>2 DEF ShownOK
<1>6. HeldOK'
  BY <1>1, <1>4 DEF HeldOK, Found
<1> QED
  BY <1>2, <1>3, <1>4, <1>5, <1>6 DEF BannerInv

LEMMA CreateSrvKeeps ==
  ASSUME BannerInv, CreateSrv
  PROVE  BannerInv'
<1>1. /\ work.at = "upload" /\ work.next <= raw
      /\ views' = Append(views, work.next) \/ views' = views
      /\ work' = [work EXCEPT !.next = @ + 1]
      /\ UNCHANGED <<slots, srv, raw, g_image, current, raced>>
  BY DEF CreateSrv
<1>2. work.image \in Slots /\ g_image = NoSlot /\ work.next \in 1 .. raw
  BY <1>1, BannerTypes DEF BannerInv, WorkOK
<1>3. work'.at = "upload" /\ work'.image = work.image /\ work'.next = work.next + 1
      /\ work' \in [at : {"idle", "upload", "switch"}, image : Slots \cup {NoSlot}, next : 0 .. raw + 1]
  <2>1. raw \in Nat /\ work.next \in Nat /\ work.next + 1 \in 0 .. raw + 1
    BY <1>2, BannerTypes
  <2>2. work \in [at : {"idle", "upload", "switch"}, image : Slots \cup {NoSlot}, next : 0 .. raw + 1]
    BY BannerTypes
  <2> QED
    BY <1>1, <2>1, <2>2
<1>4. views' \in Seq(1 .. raw) /\ Range(views) \subseteq Range(views')
  <2>1. raw \in Nat /\ views \in Seq(1 .. raw)
    BY BannerTypes
  <2>2. Append(views, work.next) \in Seq(1 .. raw)
        /\ Range(views) \subseteq Range(Append(views, work.next))
    BY <1>2, <2>1, ViewsType
  <2> QED
    BY <1>1, <2>1, <2>2
<1>5. BannerTypeOK'
  BY <1>1, <1>3, <1>4, BannerTypes DEF BannerTypeOK
<1>6. WorkOK'
  BY <1>1, <1>2, <1>3, BannerTypes DEF WorkOK
<1>7. OneFrontend' /\ (\A o \in Slots : Drawn(o)' = Drawn(o))
  BY <1>1, SlotsKept
<1>8. ShownOK'
  BY <1>1, <1>4, <1>7 DEF BannerInv, ShownOK
<1>9. HeldOK'
  BY <1>1, <1>3, <1>7 DEF BannerInv, HeldOK
<1> QED
  BY <1>5, <1>6, <1>7, <1>8, <1>9 DEF BannerInv

LEMMA UploadFailsKeeps ==
  ASSUME BannerInv, UploadFails
  PROVE  BannerInv'
<1>1. views = <<>> /\ work' = Idle /\ UNCHANGED <<slots, srv, raw, views, g_image, current, raced>>
  BY DEF UploadFails
<1>2. BannerTypeOK'
  BY <1>1, BannerTypes DEF BannerTypeOK, Idle
<1>3. WorkOK'
  BY <1>1 DEF WorkOK, Idle
<1>4. OneFrontend' /\ (\A o \in Slots : Drawn(o)' = Drawn(o))
  BY <1>1, SlotsKept
<1>5. ShownOK'
  BY <1>1, <1>4 DEF BannerInv, ShownOK
<1>6. HeldOK'
  BY <1>1, BannerAssumption DEF HeldOK, Idle
<1> QED
  BY <1>2, <1>3, <1>4, <1>5, <1>6 DEF BannerInv

\* A frame of the banner is put into the image the main thread holds.
LEMMA Shows ==
  ASSUME BannerInv, NEW n \in 1 .. Len(views), work.image \in Slots,
         srv' = [srv EXCEPT ![work.image] = views[n]], views # <<>>,
         g_image' = work.image, g_image = NoSlot \/ g_image = work.image,
         UNCHANGED <<slots, raw, views, raced>>
  PROVE  srv' \in [Slots -> Gone .. MostRaw] /\ ShownOK'
<1>1. views[n] \in Range(views) /\ views[n] \in 1 .. raw
  BY BannerTypes, ViewsType
<1>2. srv' \in [Slots -> Gone .. MostRaw]
  BY <1>1, BannerTypes DEF Gone
<1>3. \A o \in Slots : Drawn(o)' = Drawn(o)
  BY SlotsKept
<1>4. srv'[work.image] = views[n] /\ \A o \in Slots : o # work.image => srv'[o] = srv[o]
  BY BannerTypes
<1>5. views[n] # Gone
  BY <1>1, BannerTypes DEF Gone
<1>6. ASSUME NEW o \in Slots, Drawn(o), o # work.image
      PROVE  srv'[o] # Gone /\ srv'[o] = Own
  BY <1>4, <1>6, BannerAssumption DEF BannerInv, ShownOK
<1>7. Drawn(work.image) => slots[work.image] = "frontend"
  BY DEF BannerInv, HeldOK
<1> QED
  BY <1>1, <1>2, <1>3, <1>4, <1>5, <1>6, <1>7 DEF ShownOK

LEMMA UploadedKeeps ==
  ASSUME BannerInv, Uploaded
  PROVE  BannerInv'
<1>1. /\ work.at = "upload" /\ views # <<>> /\ g_image' = work.image /\ current' = 1
      /\ srv' = [srv EXCEPT ![work.image] = views[1]] /\ work' = Idle
      /\ UNCHANGED <<slots, raw, views, raced>>
  BY DEF Uploaded
<1>2. work.image \in Slots /\ g_image = NoSlot
  BY <1>1 DEF BannerInv, WorkOK
<1>3. Len(views) \in Nat /\ 1 \in 1 .. Len(views)
  BY <1>1, BannerTypes, ViewsType
<1>4. srv' \in [Slots -> Gone .. MostRaw] /\ ShownOK'
  BY <1>1, <1>2, <1>3, Shows
<1>5. BannerTypeOK'
  BY <1>1, <1>2, <1>3, <1>4, BannerTypes DEF BannerTypeOK, Idle
<1>6. WorkOK'
  BY <1>1 DEF WorkOK, Idle
<1>7. OneFrontend'
  BY <1>1, SlotsKept
<1>8. HeldOK'
  BY <1>1, BannerAssumption DEF HeldOK, Idle
<1> QED
  BY <1>4, <1>5, <1>6, <1>7, <1>8 DEF BannerInv

LEMMA SwitchFindsKeeps ==
  ASSUME BannerInv, NEW s \in Slots, SwitchFinds(s)
  PROVE  BannerInv'
<1>1. /\ Len(views) >= 2 /\ g_image = s /\ Found(s)
      /\ work' = [at |-> "switch", image |-> s, next |-> 0] /\ work.at = "idle"
      /\ UNCHANGED <<slots, srv, raw, views, g_image, current, raced>>
  BY DEF SwitchFinds
<1>2. BannerTypeOK'
  BY <1>1, BannerTypes DEF BannerInv, BannerTypeOK
<1>3. WorkOK'
  BY <1>1, BannerTypes DEF WorkOK
<1>4. OneFrontend' /\ (\A o \in Slots : Drawn(o)' = Drawn(o))
  BY <1>1, SlotsKept
<1>5. ShownOK' /\ HeldOK'
  BY <1>1, <1>4 DEF BannerInv, ShownOK, HeldOK, Found
<1> QED
  BY <1>2, <1>3, <1>4, <1>5 DEF BannerInv

LEMMA SwitchShowsKeeps ==
  ASSUME BannerInv, SwitchShows
  PROVE  BannerInv'
<1>1. /\ work.at = "switch" /\ current' = (current % Len(views)) + 1
      /\ srv' = [srv EXCEPT ![work.image] = views[current']] /\ work' = Idle
      /\ UNCHANGED <<slots, raw, views, g_image, raced>>
  BY DEF SwitchShows
<1>2. work.image \in Slots /\ g_image = work.image /\ views # <<>>
  BY <1>1 DEF BannerInv, WorkOK
<1>3. Len(views) \in Nat /\ Len(views) >= 1
  BY <1>2, BannerTypes, ViewsType
<1>4. current \in 1 .. Len(views)
  BY <1>1, <1>2 DEF BannerInv, BannerTypeOK
<1>5. current' \in 1 .. Len(views)
  BY <1>1, <1>3, <1>4
<1>6. srv' \in [Slots -> Gone .. MostRaw] /\ ShownOK'
  <2> DEFINE n == current'
  <2>1. n \in 1 .. Len(views) /\ srv' = [srv EXCEPT ![work.image] = views[n]]
        /\ g_image' = work.image
    BY <1>1, <1>2, <1>5
  <2> HIDE DEF n
  <2> QED
    BY <1>1, <1>2, <2>1, Shows
<1>7. BannerTypeOK'
  BY <1>1, <1>2, <1>5, <1>6, BannerTypes DEF BannerTypeOK, Idle
<1>8. WorkOK'
  BY <1>1 DEF WorkOK, Idle
<1>9. OneFrontend'
  BY <1>1, SlotsKept
<1>10. HeldOK'
  BY <1>1, BannerAssumption DEF HeldOK, Idle
<1> QED
  BY <1>6, <1>7, <1>8, <1>9, <1>10 DEF BannerInv

LEMMA BannerStep == BannerInv /\ BannerNext => BannerInv'
  BY LoadKeeps, UnloadKeeps, ReconcileKeeps, SwitchFindsKeeps, CreateSrvKeeps, UploadFailsKeeps,
     UploadedKeeps, SwitchShowsKeeps DEF BannerNext

LEMMA BannerStutter == BannerInv /\ UNCHANGED bannerVars => BannerInv'
  BY DEF bannerVars, BannerInv, BannerTypeOK, WorkOK, OneFrontend, ShownOK, HeldOK, Drawn

\* Whatever the game does with its images, and however many there are, what it draws
\* points at no released view, and no image but the front end's shows the banner; but for
\* the one that got into the slot the main thread held on to.
THEOREM BannersAreAlive == MainSpec => []ShownAlive
<1>1. MainInit => BannerInv
  BY BannerInitially DEF MainInit
<1>2. BannerInv /\ [MainNext]_mainVars => BannerInv'
  <2>1. MainNext => BannerNext \/ UNCHANGED bannerVars
    BY DEF MainNext
  <2>2. UNCHANGED mainVars => UNCHANGED bannerVars
    BY DEF mainVars
  <2> QED
    BY <2>1, <2>2, BannerStep, BannerStutter
<1>3. BannerInv => ShownAlive
  BY DEF BannerInv, ShownOK, Drawn, ShownAlive
<1> QED
  BY <1>1, <1>2, <1>3, PTL DEF MainSpec

-----------------------------------------------------------------------------
(* HookEngine: where a call can be.                                          *)

\* Some of the jump has been written, and it will be written in full.
Patched == {"copying", "jump", "hooked"}

\* attach is done.
Settled == {"hooked", "failed"}

\* The instructions before the n-th, in their order.
Before(n) == [i \in 1 .. n - 1 |-> i]

\* The trampoline is known once attach has succeeded.
OriginalOK == \A f \in Functions : original[f] = "trampoline" <=> stage[f] = "hooked"

\* A call has run what is before the instruction it is at, and it is in the trampoline for
\* what was moved there.
RunOK(c) ==
  /\ c.at \in {"game", "trampoline"} =>
       c.n \in Instructions(c.f) /\ c.ran = Before(c.n)
  /\ c.at = "trampoline" => c.n \in Moved(c.f)
  /\ c.at = "done" => c.ran = [i \in Instructions(c.f) |-> i]

\* Through the jump, or lost in it, only where there is one.
PatchedOK(c) ==
  /\ c.at \in {"detour", "trampoline", "lost"} => stage[c.f] \in Patched
  /\ c.at = "trampoline" => stage[c.f] = "hooked"

\* A call begun after attach was done enters the detour once, before what was moved; or
\* never, if attach failed.
FreshOK(c) ==
  c.fresh =>
    /\ stage[c.f] \in Settled /\ c.at # "lost"
    /\ stage[c.f] = "failed" => c.detours = 0
    /\ stage[c.f] = "hooked" =>
         IF c.at = "game" /\ c.n \in Moved(c.f) THEN c.n = 1 /\ c.detours = 0
         ELSE c.detours = 1

CallOK(c) == c.at # "nowhere" => c.f \in Functions /\ RunOK(c) /\ PatchedOK(c) /\ FreshOK(c)

HookInv == HookTypeOK /\ OriginalOK /\ \A t \in Threads : CallOK(call[t])

-----------------------------------------------------------------------------
(* HookEngine: what is moved.                                                *)

LEMMA CodeType ==
  ASSUME NEW f \in Functions
  PROVE  /\ Len(Code[f]) \in Nat /\ Len(Code[f]) > 0
         /\ \A n \in Instructions(f) : Code[f][n].length \in Nat
<1>1. Code[f] \in Seq([length : Nat \ {0}, kind : Kinds])
  BY CodeAssumption
<1>2. \A n \in 1 .. Len(Code[f]) : Code[f][n] \in [length : Nat \ {0}, kind : Kinds]
  BY <1>1, ElementOfSeq
<1>3. \A r \in [length : Nat \ {0}, kind : Kinds] : r.length \in Nat
  OBVIOUS
<1> QED
  BY <1>1, <1>2, <1>3, LengthAssumption DEF Instructions

\* Each instruction begins where the one before it ends.
LEMMA OffsetFacts ==
  ASSUME NEW f \in Functions
  PROVE  /\ Offset(f, 1) = 0
         /\ \A n \in Instructions(f) :
              /\ Offset(f, n) \in Nat
              /\ Offset(f, n + 1) = Offset(f, n) + Code[f][n].length
<1> DEFINE step == [k \in Nat |-> Code[f][k].length]
           at == CHOOSE g : g = [k \in Nat |-> IF k <= 1 THEN 0 ELSE g[k - 1] + Code[f][k - 1].length]
<1>1. at = [k \in Nat |-> IF k <= 1 THEN 0 ELSE at[k - 1] + Code[f][k - 1].length]
  <2>1. PICK g : g = [k \in Nat |-> IF k <= 1 THEN 0 ELSE g[k - 1] + step[k - 1]]
    BY SumsExist
  <2>2. \A k \in Nat : ~(k <= 1) => step[k - 1] = Code[f][k - 1].length
    OBVIOUS
  <2>3. g = [k \in Nat |-> IF k <= 1 THEN 0 ELSE g[k - 1] + Code[f][k - 1].length]
    <3> HIDE DEF step
    <3> QED
      BY <2>1, <2>2
  <2> QED
    BY <2>3
<1>2. \A n : Offset(f, n) = at[n]
  BY DEF Offset
<1> HIDE DEF at
<1>3. \A k \in Nat : at[k] = IF k <= 1 THEN 0 ELSE at[k - 1] + step[k - 1]
  BY <1>1
<1>5. Len(Code[f]) \in Nat /\ \A n \in Instructions(f) : Code[f][n].length \in Nat
  BY CodeType
<1>6. \A k \in 0 .. Len(Code[f]) : at[k] \in Nat
  <2>1. \A k \in 1 .. (Len(Code[f]) - 1) : step[k] \in Nat
    BY <1>5 DEF Instructions
  <2> HIDE DEF step
  <2> QED
    BY <1>3, <1>5, <2>1, SumsType
<1>7. ASSUME NEW n \in Instructions(f)
      PROVE  Offset(f, n) \in Nat /\ Offset(f, n + 1) = Offset(f, n) + Code[f][n].length
  <2>1. n \in 0 .. Len(Code[f]) /\ n + 1 \in Nat /\ ~(n + 1 <= 1) /\ (n + 1) - 1 = n
    BY <1>5 DEF Instructions
  <2>2. at[n + 1] = at[n] + step[n]
    BY <1>3, <2>1
  <2> QED
    BY <1>2, <1>6, <2>1, <2>2
<1>8. Offset(f, 1) = 0
  <2>1. 1 \in Nat /\ 1 <= 1
    OBVIOUS
  <2>2. at[1] = 0
    BY <1>3, <2>1
  <2> QED
    BY <1>2, <2>2
<1> QED
  BY <1>7, <1>8

\* What is moved is the first instruction and others up to some one.
LEMMA MovedFirst ==
  ASSUME NEW f \in Functions
  PROVE  /\ 1 \in Moved(f) /\ 1 \in Instructions(f) /\ Len(Code[f]) \in Nat
         /\ \A n \in Instructions(f) : Overwritten(f, n) <=> stage[f] \in Patched /\ n \in Moved(f)
         /\ \A n \in Instructions(f) : n + 1 \in Moved(f) => n \in Moved(f)
<1>1. JumpBytes \in Nat \ {0}
  BY CodeAssumption
<1>2. Len(Code[f]) \in Nat /\ 1 \in Instructions(f)
      /\ \A n \in Instructions(f) : Code[f][n].length \in Nat
  BY CodeType DEF Instructions
<1>3. 1 \in Moved(f)
  BY <1>1, <1>2, OffsetFacts DEF Moved
<1>4. \A n \in Instructions(f) : Overwritten(f, n) <=> stage[f] \in Patched /\ n \in Moved(f)
  BY DEF Overwritten, Moved, Patched
<1>5. \A n \in Instructions(f) : n + 1 \in Moved(f) => n \in Moved(f)
  <2> SUFFICES ASSUME NEW n \in Instructions(f), n + 1 \in Moved(f) PROVE n \in Moved(f)
    OBVIOUS
  <2>1. Offset(f, n + 1) < JumpBytes /\ Offset(f, n + 1) = Offset(f, n) + Code[f][n].length
        /\ Offset(f, n) \in Nat /\ Code[f][n].length \in Nat
    BY <1>2, OffsetFacts DEF Moved
  <2> QED
    BY <1>1, <2>1 DEF Moved
<1> QED
  BY <1>2, <1>3, <1>4, <1>5

-----------------------------------------------------------------------------
(* HookEngine: the calls.                                                    *)

CallRecord ==
  [f : Functions \cup {NoFunction}, at : Places, n : Nat, ran : Seq(Nat),
   detours : 0 .. MostDetours, fresh : BOOLEAN]

LEMMA HookTypes ==
  ASSUME HookInv
  PROVE  /\ stage \in [Functions -> Stages] /\ original \in [Functions -> {"game", "trampoline"}]
         /\ call \in [Threads -> CallRecord]
         /\ MostDetours \in Nat /\ MostDetours >= 1
  BY CodeAssumption DEF HookInv, HookTypeOK, CallRecord

LEMMA BeforeIs ==
  /\ Before(1) = <<>>
  /\ \A n \in Nat : n >= 1 => Before(n) \in Seq(Nat) /\ Append(Before(n), n) = Before(n + 1)
<1>1. Before(1) = <<>>
  BY DEF Before
<1>2. ASSUME NEW n \in Nat, n >= 1
      PROVE  Before(n) \in Seq(Nat) /\ Append(Before(n), n) = Before(n + 1)
  <2>1. Before(n) \in [1 .. n - 1 -> Nat] /\ n - 1 \in Nat
    BY <1>2 DEF Before
  <2>2. Before(n) \in Seq(Nat) /\ Len(Before(n)) = n - 1
    BY <2>1, FunctionIsSeq
  <2>3. Append(Before(n), n) = [i \in 1 .. n |-> i]
    BY <1>2, <2>2 DEF Before
  <2>4. Before(n + 1) = [i \in 1 .. n |-> i]
    BY <1>2 DEF Before
  <2> QED
    BY <2>2, <2>3, <2>4
<1> QED
  BY <1>1, <1>2

\* A thread is elsewhere, and the functions are as they were.
LEMMA CallsKeep ==
  ASSUME HookInv, NEW t \in Threads, NEW c \in CallRecord, CallOK(c), Calls(t, c)
  PROVE  HookInv'
<1>1. call' = [call EXCEPT ![t] = c] /\ stage' = stage /\ original' = original
  BY DEF Calls
<1>2. call' \in [Threads -> CallRecord]
  BY <1>1, HookTypes
<1>3. HookTypeOK'
  BY <1>1, <1>2, HookTypes DEF HookTypeOK, CallRecord
<1>4. OriginalOK'
  BY <1>1 DEF HookInv, OriginalOK
<1>5. ASSUME NEW u \in Threads
      PROVE  CallOK(call'[u])
  BY <1>1, HookTypes DEF HookInv
<1>6. \A u \in Threads : CallOK(call[u])'
  BY <1>1, <1>5 DEF CallOK, RunOK, PatchedOK, FreshOK
<1> QED
  BY <1>3, <1>4, <1>6 DEF HookInv

\* attach is one step further with a function it was not done with.
LEMMA AttachKeeps ==
  ASSUME HookInv, NEW f \in Functions, NEW st \in Stages, UNCHANGED call,
         stage' = [stage EXCEPT ![f] = st], stage[f] \notin Settled,
         stage[f] \in Patched => st \in Patched,
         original' = IF st = "hooked" THEN [original EXCEPT ![f] = "trampoline"] ELSE original
  PROVE  HookInv'
<1>1. stage' \in [Functions -> Stages] /\ original' \in [Functions -> {"game", "trampoline"}]
  BY HookTypes
<1>2. HookTypeOK'
  BY <1>1, HookTypes DEF HookTypeOK, CallRecord
<1>3. /\ \A g \in Functions : g # f => stage'[g] = stage[g] /\ original'[g] = original[g]
      /\ stage'[f] = st
      /\ original'[f] = IF st = "hooked" THEN "trampoline" ELSE original[f]
  BY HookTypes
<1>4. OriginalOK'
  BY <1>3 DEF HookInv, OriginalOK, Settled
<1>5. \A g \in Functions : /\ stage[g] \in Patched => stage'[g] \in Patched
                           /\ stage[g] \in Settled => stage'[g] = stage[g]
  BY <1>3
<1>6. ASSUME NEW c \in CallRecord, CallOK(c)
      PROVE  CallOK(c)'
  <2> SUFFICES ASSUME c.at # "nowhere"
               PROVE  c.f \in Functions /\ RunOK(c) /\ PatchedOK(c)' /\ FreshOK(c)'
    BY DEF CallOK, RunOK
  <2>1. c.f \in Functions /\ RunOK(c) /\ PatchedOK(c) /\ FreshOK(c)
    BY <1>6 DEF CallOK
  <2>2. PatchedOK(c)'
    BY <1>5, <2>1 DEF PatchedOK, Settled
  <2>3. FreshOK(c)'
    BY <1>5, <2>1 DEF FreshOK
  <2> QED
    BY <2>1, <2>2, <2>3
<1>7. \A u \in Threads : CallOK(call[u])'
  BY <1>6, HookTypes DEF HookInv
<1> QED
  BY <1>2, <1>4, <1>7 DEF HookInv

LEMMA AttachStep ==
  ASSUME HookInv, NEW f \in Functions,
         Prepare(f) \/ Unwritable(f) \/ CopySome(f) \/ CopyRest(f) \/ Finish(f)
  PROVE  HookInv'
<1> USE DEF Stages, Settled, Patched
<1>1. ASSUME Prepare(f) PROVE HookInv'
  <2>1. PICK st \in {"ready", "failed"} :
          stage' = [stage EXCEPT ![f] = st] /\ UNCHANGED <<original, call>> /\ stage[f] = "not"
    BY <1>1 DEF Prepare
  <2> QED
    BY <2>1, AttachKeeps
<1>2. ASSUME Unwritable(f) PROVE HookInv'
  BY <1>2, AttachKeeps DEF Unwritable
<1>3. ASSUME CopySome(f) PROVE HookInv'
  BY <1>3, AttachKeeps DEF CopySome
<1>4. ASSUME CopyRest(f) PROVE HookInv'
  BY <1>4, AttachKeeps DEF CopyRest
<1>5. ASSUME Finish(f) PROVE HookInv'
  BY <1>5, AttachKeeps DEF Finish
<1> QED
  BY <1>1, <1>2, <1>3, <1>4, <1>5

\* A call with its place, its instruction and what it has run changed.
Changed(c, at, n, ran, detours) ==
  [c EXCEPT !.at = at, !.n = n, !.ran = ran, !.detours = detours]

LEMMA ChangedType ==
  ASSUME NEW c \in CallRecord, NEW at \in Places, NEW n \in Nat, NEW ran \in Seq(Nat),
         NEW detours \in 0 .. MostDetours
  PROVE  LET d == Changed(c, at, n, ran, detours) IN
         /\ d \in CallRecord /\ d.f = c.f /\ d.at = at /\ d.n = n /\ d.ran = ran
         /\ d.detours = detours /\ d.fresh = c.fresh
  BY DEF CallRecord, Changed

\* An instruction runs, its own bytes or half a jump that is the old one.
LEMMA RanKeeps ==
  ASSUME HookInv, NEW c \in CallRecord, CallOK(c), c.at \in {"game", "trampoline"},
         c.at = "game" => ~Overwritten(c.f, c.n) \/ stage[c.f] = "copying"
  PROVE  Ran(c) \in CallRecord /\ CallOK(Ran(c))
<1> DEFINE d == Ran(c)
           f == c.f
           n == c.n
<1>1. f \in Functions /\ RunOK(c) /\ PatchedOK(c) /\ FreshOK(c)
  BY DEF CallOK
<1>2. n \in Instructions(f) /\ c.ran = Before(n) /\ n \in Nat /\ n >= 1
  BY <1>1 DEF RunOK, Instructions
<1>3. Append(c.ran, n) = Before(n + 1) /\ Before(n + 1) \in Seq(Nat)
  <2>1. n + 1 \in Nat /\ n + 1 >= 1
    BY <1>2
  <2> HIDE DEF n
  <2> QED
    BY <1>2, <2>1, BeforeIs
<1>4. c.at = "game" => n \notin Moved(f) \/ stage[f] \notin Settled \/ stage[f] = "failed"
  BY <1>1, <1>2, MovedFirst DEF Settled, Patched
<1>5. c.detours \in 0 .. MostDetours
  BY DEF CallRecord
<1>6. CASE n = Len(Code[f])
  <2>1. d = Changed(c, "done", 0, Before(n + 1), c.detours)
    BY <1>3, <1>6 DEF Changed, Ran, CallRecord
  <2>2. /\ d \in CallRecord /\ d.f = f /\ d.at = "done" /\ d.ran = Before(n + 1)
        /\ d.detours = c.detours /\ d.fresh = c.fresh
    <3>1. "done" \in Places /\ 0 \in Nat
      BY DEF Places
    <3> HIDE DEF d
    <3> QED
      BY <1>3, <1>5, <2>1, <3>1, ChangedType
  <2>3. Before(n + 1) = [i \in Instructions(f) |-> i]
    BY <1>2, <1>6 DEF Before, Instructions
  <2> HIDE DEF d
  <2>4. RunOK(d)
    BY <2>2, <2>3 DEF RunOK
  <2>5. PatchedOK(d)
    BY <2>2 DEF PatchedOK
  <2>6. FreshOK(d)
    BY <1>1, <1>4, <2>2 DEF FreshOK, Settled
  <2> QED
    BY <1>1, <2>2, <2>4, <2>5, <2>6 DEF CallOK, d
<1>7. CASE n # Len(Code[f])
  <2> DEFINE next == IF c.at = "trampoline" /\ n + 1 \notin Moved(f) THEN "game" ELSE c.at
  <2>1. d = Changed(c, next, n + 1, Before(n + 1), c.detours)
    BY <1>3, <1>7 DEF Changed, Ran, CallRecord
  <2>2. next \in {"game", "trampoline"} /\ n + 1 \in Nat
    BY <1>2
  <2>3. /\ d \in CallRecord /\ d.f = f /\ d.at = next /\ d.n = n + 1 /\ d.ran = Before(n + 1)
        /\ d.detours = c.detours /\ d.fresh = c.fresh
    <3>1. next \in Places
      BY <2>2 DEF Places
    <3> HIDE DEF d, next
    <3> QED
      BY <1>3, <1>5, <2>1, <2>2, <3>1, ChangedType
  <2>4. n + 1 \in Instructions(f)
    BY <1>1, <1>2, <1>7, CodeType DEF Instructions
  <2>5. /\ next = "trampoline" => c.at = "trampoline" /\ n + 1 \in Moved(f)
        /\ next = "game" => (c.at = "trampoline" /\ n + 1 \notin Moved(f)) \/ c.at = "game"
    OBVIOUS
  <2> HIDE DEF d, next
  <2>6. RunOK(d)
    BY <2>2, <2>3, <2>4, <2>5 DEF RunOK
  <2>7. PatchedOK(d)
    BY <1>1, <2>2, <2>3, <2>5 DEF PatchedOK
  <2>8. FreshOK(d)
    <3> SUFFICES ASSUME c.fresh
                 PROVE  /\ stage[f] = "failed" => c.detours = 0
                        /\ stage[f] = "hooked" =>
                             c.detours = 1 /\ ~(next = "game" /\ n + 1 \in Moved(f))
      BY <1>1, <2>2, <2>3 DEF FreshOK
    <3>1. stage[f] = "failed" => c.detours = 0
      BY <1>1 DEF FreshOK
    <3>2. stage[f] = "hooked" => ~(c.at = "game" /\ n \in Moved(f))
      BY <1>4 DEF Settled
    <3>3. stage[f] = "hooked" => c.detours = 1
      BY <1>1, <3>2 DEF FreshOK
    <3>4. n + 1 \in Moved(f) => n \in Moved(f)
      BY <1>1, <1>2, MovedFirst
    <3> QED
      BY <2>5, <3>1, <3>2, <3>3, <3>4
  <2> QED
    BY <1>1, <2>2, <2>3, <2>6, <2>7, <2>8 DEF CallOK, d
<1> QED
  BY <1>6, <1>7

\* A call comes through the jump into the detour, or has no stack left for it.
LEMMA DetourKeeps ==
  ASSUME HookInv, NEW c \in CallRecord, CallOK(c), c.at = "game", c.n = 1,
         stage[c.f] \in Patched
  PROVE  EnterDetour(c) \in CallRecord /\ CallOK(EnterDetour(c))
<1> DEFINE d == EnterDetour(c)
           f == c.f
<1>1. f \in Functions /\ FreshOK(c) /\ 1 \in Moved(f)
  BY MovedFirst DEF CallOK
<1>2. c.fresh => c.detours = 0 /\ stage[f] = "hooked"
  BY <1>1 DEF FreshOK, Settled, Patched
<1>3. c.detours \in 0 .. MostDetours /\ MostDetours \in Nat /\ MostDetours >= 1 /\ c.ran \in Seq(Nat)
      /\ c.n \in Nat
  BY HookTypes DEF CallRecord
<1>4. CASE c.detours < MostDetours
  <2> DEFINE more == c.detours + 1
  <2>1. d = Changed(c, "detour", 0, c.ran, more)
    BY <1>4 DEF Changed, EnterDetour, CallRecord
  <2>2. /\ d \in CallRecord /\ d.f = f /\ d.at = "detour" /\ d.detours = more
        /\ d.fresh = c.fresh
    <3>1. more \in 0 .. MostDetours
      BY <1>3, <1>4
    <3>2. "detour" \in Places /\ 0 \in Nat /\ c.ran \in Seq(Nat)
      BY <1>3 DEF Places
    <3> HIDE DEF d, more
    <3> QED
      BY <2>1, <3>1, <3>2, ChangedType
  <2> HIDE DEF d
  <2>3. RunOK(d) /\ PatchedOK(d)
    BY <2>2 DEF RunOK, PatchedOK
  <2>4. FreshOK(d)
    BY <1>2, <2>2 DEF FreshOK, Settled
  <2> QED
    BY <1>1, <2>2, <2>3, <2>4 DEF CallOK, d
<1>5. CASE ~(c.detours < MostDetours)
  <2>1. d = Changed(c, "lost", c.n, c.ran, c.detours)
    BY <1>5 DEF Changed, EnterDetour, CallRecord
  <2>2. /\ d \in CallRecord /\ d.f = f /\ d.at = "lost" /\ d.fresh = c.fresh
    <3>1. "lost" \in Places
      BY DEF Places
    <3> HIDE DEF d
    <3> QED
      BY <1>3, <2>1, <3>1, ChangedType
  <2>3. ~c.fresh
    BY <1>2, <1>3, <1>5
  <2> HIDE DEF d
  <2>4. RunOK(d) /\ PatchedOK(d) /\ FreshOK(d)
    BY <2>2, <2>3 DEF RunOK, PatchedOK, FreshOK
  <2> QED
    BY <1>1, <2>2, <2>4 DEF CallOK, d
<1> QED
  BY <1>4, <1>5

\* A call is lost in a jump that it was not meant to meet.
LEMMA LostKeeps ==
  ASSUME HookInv, NEW c \in CallRecord, CallOK(c), c.at = "game", stage[c.f] \in Patched, ~c.fresh
  PROVE  [c EXCEPT !.at = "lost"] \in CallRecord /\ CallOK([c EXCEPT !.at = "lost"])
<1> DEFINE d == [c EXCEPT !.at = "lost"]
<1>1. d \in CallRecord /\ d.f = c.f /\ d.at = "lost" /\ d.fresh = c.fresh
  BY DEF CallRecord, Places
<1> HIDE DEF d
<1>2. c.f \in Functions
  BY DEF CallOK
<1>3. RunOK(d) /\ PatchedOK(d) /\ FreshOK(d)
  BY <1>1 DEF RunOK, PatchedOK, FreshOK
<1> QED
  BY <1>1, <1>2, <1>3 DEF CallOK, d

LEMMA NoCallType ==
  NoCall \in CallRecord /\ NoCall.at = "nowhere" /\ NoCall.ran = <<>> /\ NoCall.detours = 0
  BY CodeAssumption DEF NoCall, CallRecord, Places

\* A call as it begins.
Begun(c, f, b) == [c EXCEPT !.f = f, !.at = "game", !.n = 1, !.fresh = b]

LEMMA BegunType ==
  ASSUME NEW c \in CallRecord, NEW f \in Functions, NEW b \in BOOLEAN
  PROVE  /\ Begun(c, f, b) \in CallRecord /\ Begun(c, f, b).f = f /\ Begun(c, f, b).at = "game"
         /\ Begun(c, f, b).n = 1 /\ Begun(c, f, b).ran = c.ran
         /\ Begun(c, f, b).detours = c.detours /\ Begun(c, f, b).fresh = b
  BY DEF CallRecord, Places, Begun

LEMMA BeginKeeps ==
  ASSUME HookInv, NEW t \in Threads, NEW f \in Functions, Begin(t, f)
  PROVE  HookInv'
<1> DEFINE d == Begun(NoCall, f, stage[f] \in {"hooked", "failed"})
<1>1. Calls(t, d)
  BY Zenon DEF Begin, Begun
<1>2. /\ d \in CallRecord /\ d.f = f /\ d.at = "game" /\ d.n = 1 /\ d.ran = NoCall.ran
      /\ d.detours = NoCall.detours /\ d.fresh = (stage[f] \in {"hooked", "failed"})
  <2>1. (stage[f] \in {"hooked", "failed"}) \in BOOLEAN
    OBVIOUS
  <2>2. \A b \in BOOLEAN :
          LET e == Begun(NoCall, f, b) IN
          /\ e \in CallRecord /\ e.f = f /\ e.at = "game" /\ e.n = 1 /\ e.ran = NoCall.ran
          /\ e.detours = NoCall.detours /\ e.fresh = b
    BY NoCallType, BegunType
  <2> QED
    BY <2>1, <2>2, Zenon
<1>3. /\ d \in CallRecord /\ d.f = f /\ d.at = "game" /\ d.n = 1 /\ d.ran = <<>>
      /\ d.detours = 0 /\ d.fresh = (stage[f] \in {"hooked", "failed"})
  BY <1>2, NoCallType, Zenon
<1> HIDE DEF d
<1>4. 1 \in Instructions(f) /\ 1 \in Moved(f)
  BY MovedFirst
<1>5. RunOK(d)
  BY <1>3, <1>4, BeforeIs DEF RunOK
<1>6. PatchedOK(d)
  BY <1>3 DEF PatchedOK
<1>7. FreshOK(d)
  <2>1. d.fresh => stage[f] \in {"hooked", "failed"}
    BY <1>3, Zenon
  <2> QED
    BY <1>3, <1>4, <2>1 DEF FreshOK, Settled
<1>8. CallOK(d)
  BY <1>3, <1>5, <1>6, <1>7 DEF CallOK
<1> QED
  BY <1>1, <1>3, <1>8, CallsKeep

LEMMA CallOriginalKeeps ==
  ASSUME HookInv, NEW t \in Threads, CallOriginal(t)
  PROVE  HookInv'
<1> DEFINE c == call[t]
           d == [c EXCEPT !.at = original[c.f], !.n = 1, !.ran = <<>>]
<1>1. c.at = "detour" /\ Calls(t, d)
  BY DEF CallOriginal
<1>2. c \in CallRecord /\ CallOK(c)
  BY HookTypes DEF HookInv
<1>3. c.f \in Functions /\ PatchedOK(c) /\ FreshOK(c)
  BY <1>1, <1>2 DEF CallOK
<1>4. original[c.f] \in {"game", "trampoline"} /\ (original[c.f] = "trampoline" <=> stage[c.f] = "hooked")
  BY <1>3, HookTypes DEF HookInv, OriginalOK
<1>5. /\ d \in CallRecord /\ d.f = c.f /\ d.at = original[c.f] /\ d.n = 1 /\ d.ran = <<>>
      /\ d.detours = c.detours /\ d.fresh = c.fresh
  <2>1. original[c.f] \in Places /\ 1 \in Nat /\ <<>> \in Seq(Nat)
    BY <1>4 DEF Places
  <2>2. c.detours \in 0 .. MostDetours
    BY <1>2 DEF CallRecord
  <2>3. d = Changed(c, original[c.f], 1, <<>>, c.detours)
    <3> HIDE DEF c
    <3> QED
      BY <1>2 DEF Changed, CallRecord
  <2> DEFINE o == original[c.f]
             nothing == <<>>
  <2> HIDE DEF c, d, o, nothing
  <2>4. o \in Places /\ nothing \in Seq(Nat) /\ d = Changed(c, o, 1, nothing, c.detours)
    BY <2>1, <2>3 DEF o, nothing
  <2>5. /\ d \in CallRecord /\ d.f = c.f /\ d.at = o /\ d.n = 1 /\ d.ran = nothing
        /\ d.detours = c.detours /\ d.fresh = c.fresh
    BY <1>2, <2>2, <2>4, ChangedType
  <2> QED
    BY <2>5 DEF o, nothing
<1>6. 1 \in Instructions(c.f) /\ 1 \in Moved(c.f)
  BY <1>3, MovedFirst
<1>7. c.fresh => stage[c.f] = "hooked" /\ c.detours = 1
  BY <1>1, <1>3 DEF PatchedOK, FreshOK, Settled, Patched
<1> HIDE DEF c, d
<1>8. RunOK(d)
  BY <1>4, <1>5, <1>6, BeforeIs DEF RunOK
<1>9. PatchedOK(d)
  BY <1>4, <1>5 DEF PatchedOK, Patched
<1>10. FreshOK(d)
  BY <1>4, <1>5, <1>7 DEF FreshOK, Settled
<1>11. CallOK(d)
  BY <1>3, <1>5, <1>8, <1>9, <1>10 DEF CallOK
<1> QED
  BY <1>1, <1>5, <1>11, CallsKeep DEF d, c

LEMMA CallStep ==
  ASSUME HookInv, NEW t \in Threads,
         Run(t) \/ RunJump(t) \/ RunHalf(t) \/ RunRubble(t) \/ CallOriginal(t)
  PROVE  HookInv'
<1> DEFINE c == call[t]
<1>1. c \in CallRecord /\ CallOK(c)
  BY HookTypes DEF HookInv
<1>2. c.at = "game" => c.f \in Functions /\ RunOK(c) /\ FreshOK(c) /\ c.n \in Instructions(c.f)
  BY <1>1 DEF CallOK, RunOK
<1>3. c.at = "game" /\ Overwritten(c.f, c.n) => stage[c.f] \in Patched /\ c.n \in Moved(c.f)
  BY <1>2, MovedFirst
<1>4. ASSUME Run(t) PROVE HookInv'
  <2>1. /\ c.at \in {"game", "trampoline"} /\ (c.at = "game" => ~Overwritten(c.f, c.n))
        /\ Calls(t, Ran(c))
    BY <1>4 DEF Run
  <2> HIDE DEF c
  <2>2. Ran(c) \in CallRecord /\ CallOK(Ran(c))
    BY <1>1, <2>1, RanKeeps
  <2> QED
    BY <2>1, <2>2, CallsKeep
<1>5. ASSUME RunJump(t) PROVE HookInv'
  <2>1. c.at = "game" /\ c.n = 1 /\ stage[c.f] \in Patched /\ Calls(t, EnterDetour(c))
    BY <1>5 DEF RunJump, Patched
  <2> HIDE DEF c
  <2>2. EnterDetour(c) \in CallRecord /\ CallOK(EnterDetour(c))
    BY <1>1, <2>1, DetourKeeps
  <2> QED
    BY <2>1, <2>2, CallsKeep
<1>6. ASSUME RunHalf(t) PROVE HookInv'
  <2>1. /\ c.at = "game" /\ stage[c.f] = "copying"
        /\ \/ Calls(t, Ran(c))
           \/ c.n = 1 /\ Calls(t, EnterDetour(c))
           \/ Calls(t, [c EXCEPT !.at = "lost"])
    BY <1>6 DEF RunHalf
  <2>2. stage[c.f] \in Patched /\ ~c.fresh
    BY <1>2, <2>1 DEF Patched, FreshOK, Settled
  <2> HIDE DEF c
  <2>3. Ran(c) \in CallRecord /\ CallOK(Ran(c))
    BY <1>1, <2>1, RanKeeps
  <2>4. c.n = 1 => EnterDetour(c) \in CallRecord /\ CallOK(EnterDetour(c))
    BY <1>1, <2>1, <2>2, DetourKeeps
  <2>5. [c EXCEPT !.at = "lost"] \in CallRecord /\ CallOK([c EXCEPT !.at = "lost"])
    BY <1>1, <2>1, <2>2, LostKeeps
  <2>6. ASSUME NEW e \in CallRecord, CallOK(e), Calls(t, e) PROVE HookInv'
    BY <2>6, CallsKeep
  <2> QED
    BY <2>1, <2>3, <2>4, <2>5, <2>6
<1>7. ASSUME RunRubble(t) PROVE HookInv'
  <2>1. /\ c.at = "game" /\ c.n > 1 /\ Overwritten(c.f, c.n) /\ stage[c.f] \in {"jump", "hooked"}
        /\ Calls(t, [c EXCEPT !.at = "lost"])
    BY <1>7 DEF RunRubble
  <2>2. stage[c.f] \in Patched /\ c.n \in Moved(c.f)
    BY <1>3, <2>1
  <2>3. ~c.fresh
    <3>1. c.n # 1
      BY <2>1
    <3> QED
      BY <1>2, <2>1, <2>2, <3>1 DEF FreshOK, Settled
  <2> HIDE DEF c
  <2>4. [c EXCEPT !.at = "lost"] \in CallRecord /\ CallOK([c EXCEPT !.at = "lost"])
    BY <1>1, <2>1, <2>2, <2>3, LostKeeps
  <2> QED
    BY <2>1, <2>4, CallsKeep
<1>8. ASSUME CallOriginal(t) PROVE HookInv'
  BY <1>8, CallOriginalKeeps
<1> QED
  BY <1>4, <1>5, <1>6, <1>7, <1>8

LEMMA HookInitially == HookInit => HookInv
<1> SUFFICES ASSUME HookInit PROVE HookInv
  OBVIOUS
<1>1. stage = [f \in Functions |-> "not"] /\ original = [f \in Functions |-> "game"]
      /\ call = [t \in Threads |-> NoCall]
  BY DEF HookInit
<1>2. NoCall \in CallRecord /\ NoCall.at = "nowhere"
  BY NoCallType
<1>3. HookTypeOK
  BY <1>1, <1>2 DEF HookTypeOK, CallRecord, Stages
<1>4. OriginalOK
  BY <1>1 DEF OriginalOK
<1>5. \A t \in Threads : CallOK(call[t])
  BY <1>1, <1>2 DEF CallOK
<1> QED
  BY <1>3, <1>4, <1>5 DEF HookInv

LEMMA HookStep == HookInv /\ HookNext => HookInv'
  BY AttachStep, BeginKeeps, CallStep DEF HookNext

LEMMA HookStutter == HookInv /\ UNCHANGED hookVars => HookInv'
  BY DEF hookVars, HookInv, HookTypeOK, OriginalOK, CallOK, RunOK, PatchedOK, FreshOK

\* For any functions and whatever their instructions, and any number of threads: a call
\* that comes to its end has run the game's instructions once and in order, and one begun
\* after attach() was done comes through, by way of the detour if it succeeded.
THEOREM CallsComeThrough == MainSpec => []CallsWhole
<1>1. MainInit => HookInv
  BY HookInitially DEF MainInit
<1>2. HookInv /\ [MainNext]_mainVars => HookInv'
  <2>1. MainNext => HookNext \/ UNCHANGED hookVars
    BY DEF MainNext
  <2>2. UNCHANGED mainVars => UNCHANGED hookVars
    BY DEF mainVars
  <2> QED
    BY <2>1, <2>2, HookStep, HookStutter
<1>3. HookInv => CallsWhole
  <2> SUFFICES ASSUME HookInv, NEW t \in Threads
               PROVE  /\ call[t].at = "done" =>
                           /\ call[t].ran = [i \in Instructions(call[t].f) |-> i]
                           /\ call[t].fresh =>
                                call[t].detours = IF stage[call[t].f] = "hooked" THEN 1 ELSE 0
                      /\ call[t].at = "lost" => ~call[t].fresh /\ stage[call[t].f] # "failed"
    BY DEF CallsWhole
  <2>1. CallOK(call[t])
    BY DEF HookInv
  <2> QED
    BY <2>1 DEF CallOK, RunOK, PatchedOK, FreshOK, Settled, Patched
<1> QED
  BY <1>1, <1>2, <1>3, PTL DEF MainSpec

-----------------------------------------------------------------------------
(* StartUp: rows of steps.                                                   *)

\* A sequence, of whatever it is a sequence of.
Row(s) == s \in Seq(Range(s))

LEMMA RowIs ==
  ASSUME NEW s
  PROVE  /\ Row(s) => Len(s) \in Nat /\ DOMAIN s = 1 .. Len(s)
         /\ \A n \in Nat : DOMAIN s = 1 .. n /\ s = [i \in 1 .. n |-> s[i]] => Row(s) /\ Len(s) = n
<1>1. Row(s) => Len(s) \in Nat /\ DOMAIN s = 1 .. Len(s)
  BY LenProperties DEF Row
<1>2. ASSUME NEW n \in Nat, DOMAIN s = 1 .. n, s = [i \in 1 .. n |-> s[i]]
      PROVE  Row(s) /\ Len(s) = n
  <2>1. s \in [1 .. n -> Range(s)]
    BY <1>2 DEF Range
  <2> QED
    BY <2>1, FunctionIsSeq DEF Row
<1> QED
  BY <1>1, <1>2

\* A row after a row.
LEMMA RowsJoin ==
  ASSUME NEW s, NEW t, Row(s), Row(t)
  PROVE  /\ Row(s \o t) /\ Len(s) \in Nat /\ Len(t) \in Nat /\ Len(s \o t) = Len(s) + Len(t)
         /\ \A i \in 1 .. Len(s) : (s \o t)[i] = s[i]
         /\ \A i \in 1 .. Len(t) : (s \o t)[Len(s) + i] = t[i]
<1> DEFINE S == Range(s) \cup Range(t)
<1>1. s \in Seq(S) /\ t \in Seq(S)
  <2>1. DOMAIN s = 1 .. Len(s) /\ Len(s) \in Nat /\ s \in [1 .. Len(s) -> Range(s)]
    BY LenProperties DEF Row
  <2>2. DOMAIN t = 1 .. Len(t) /\ Len(t) \in Nat /\ t \in [1 .. Len(t) -> Range(t)]
    BY LenProperties DEF Row
  <2>3. s \in [1 .. Len(s) -> S] /\ t \in [1 .. Len(t) -> S]
    BY <2>1, <2>2
  <2> QED
    BY <2>1, <2>2, <2>3, FunctionIsSeq
<1> HIDE DEF S
<1>2. /\ s \o t \in Seq(S) /\ Len(s) \in Nat /\ Len(t) \in Nat /\ Len(s \o t) = Len(s) + Len(t)
      /\ \A i \in 1 .. Len(s) : (s \o t)[i] = s[i]
      /\ \A i \in 1 .. Len(t) : (s \o t)[Len(s) + i] = t[i]
  BY <1>1
<1>3. s \o t \in [1 .. Len(s \o t) -> Range(s \o t)]
  BY <1>2, LenProperties DEF Range
<1>4. Row(s \o t)
  <2> DEFINE u == s \o t
  <2>1. u \in [1 .. Len(u) -> Range(u)] /\ Len(u) \in Nat
    BY <1>2, <1>3
  <2> HIDE DEF u
  <2>2. Row(u)
    BY <2>1, FunctionIsSeq DEF Row
  <2> QED
    BY <2>2 DEF u
<1> QED
  BY <1>2, <1>4

\* A row sets all of these ...
Gives(s, A) == \A a \in A : \E i \in 1 .. Len(s) : s[i] = Set(a)

\* ... it hooks none of these ...
HooksNone(s, B) == \A b \in B : \A i \in 1 .. Len(s) : s[i] # Hook(b)

\* ... and it has set all of A before it hooks any of B.
ReadyFor(s, A, B) ==
  \A b \in B : \A j \in 1 .. Len(s) :
    s[j] = Hook(b) => \A a \in A : \E i \in 1 .. j : s[i] = Set(a)

\* Each of its steps sets a pointer, or hooks a function whose pointer it has set before.
OwnReady(s) ==
  \A j \in 1 .. Len(s) : \E f : s[j] = Set(f) \/ (s[j] = Hook(f) /\ \E i \in 1 .. j : s[i] = Set(f))

LEMMA NoneReady == ASSUME NEW s, NEW A, NEW B, HooksNone(s, B) PROVE ReadyFor(s, A, B)
  BY DEF HooksNone, ReadyFor

\* What is true of two rows, and of the one after the other.
LEMMA Joined ==
  ASSUME NEW s, NEW t, Row(s), Row(t)
  PROVE  /\ Row(s \o t)
         /\ \A A : Gives(s, A) \/ Gives(t, A) => Gives(s \o t, A)
         /\ \A B : HooksNone(s, B) /\ HooksNone(t, B) => HooksNone(s \o t, B)
         /\ \A A, B : ReadyFor(s, A, B) /\ (Gives(s, A) \/ ReadyFor(t, A, B))
                        => ReadyFor(s \o t, A, B)
         /\ OwnReady(s) /\ OwnReady(t) => OwnReady(s \o t)
<1> DEFINE u == s \o t
<1>1. /\ Row(u) /\ Len(s) \in Nat /\ Len(t) \in Nat /\ Len(u) = Len(s) + Len(t)
      /\ \A i \in 1 .. Len(s) : u[i] = s[i]
      /\ \A i \in 1 .. Len(t) : u[Len(s) + i] = t[i]
  BY RowsJoin
<1> HIDE DEF u
<1>2. \A j \in 1 .. Len(u) : \/ j \in 1 .. Len(s) /\ u[j] = s[j]
                             \/ \E k \in 1 .. Len(t) : j = Len(s) + k /\ u[j] = t[k]
  <2> TAKE j \in 1 .. Len(u)
  <2>1. CASE j <= Len(s)
    BY <1>1, <2>1
  <2>2. CASE j > Len(s)
    <3>1. j - Len(s) \in 1 .. Len(t) /\ j = Len(s) + (j - Len(s))
      BY <1>1, <2>2
    <3> QED
      BY <1>1, <3>1
  <2> QED
    BY <1>1, <2>1, <2>2
<1>3. \A k \in 1 .. Len(t) : Len(s) + k \in 1 .. Len(u) /\ \A i \in 1 .. k : Len(s) + i \in 1 .. Len(s) + k
  BY <1>1
<1>4. \A i \in 1 .. Len(s) : i \in 1 .. Len(u) /\ \A k \in 1 .. Len(t) : i \in 1 .. Len(s) + k
  BY <1>1
<1>5. ASSUME NEW A, Gives(s, A) \/ Gives(t, A) PROVE Gives(u, A)
  <2>1. CASE Gives(s, A)
    BY <1>1, <1>4, <2>1 DEF Gives
  <2>2. CASE Gives(t, A)
    BY <1>1, <1>3, <2>2 DEF Gives
  <2> QED
    BY <1>5, <2>1, <2>2
<1>6. ASSUME NEW B, HooksNone(s, B), HooksNone(t, B) PROVE HooksNone(u, B)
  BY <1>2, <1>6 DEF HooksNone
<1>7. ASSUME NEW A, NEW B, ReadyFor(s, A, B), Gives(s, A) \/ ReadyFor(t, A, B)
      PROVE  ReadyFor(u, A, B)
  <2> SUFFICES ASSUME NEW b \in B, NEW j \in 1 .. Len(u), u[j] = Hook(b), NEW a \in A
               PROVE  \E i \in 1 .. j : u[i] = Set(a)
    BY DEF ReadyFor
  <2>1. CASE j \in 1 .. Len(s) /\ u[j] = s[j]
    <3>1. PICK i \in 1 .. j : s[i] = Set(a)
      BY <1>7, <2>1 DEF ReadyFor
    <3>2. i \in 1 .. Len(s)
      BY <1>1, <2>1
    <3> QED
      BY <1>1, <3>1, <3>2
  <2>2. ASSUME NEW k \in 1 .. Len(t), j = Len(s) + k, u[j] = t[k]
        PROVE  \E i \in 1 .. j : u[i] = Set(a)
    <3>1. CASE Gives(s, A)
      BY <1>1, <1>4, <2>2, <3>1 DEF Gives
    <3>2. CASE ReadyFor(t, A, B)
      <4>1. PICK i \in 1 .. k : t[i] = Set(a)
        BY <2>2, <3>2 DEF ReadyFor
      <4>2. i \in 1 .. Len(t) /\ Len(s) + i \in 1 .. j
        BY <1>1, <1>3, <2>2
      <4> QED
        BY <1>1, <4>1, <4>2
    <3> QED
      BY <1>7, <3>1, <3>2
  <2> QED
    BY <1>2, <2>1, <2>2
<1>8. ASSUME OwnReady(s), OwnReady(t) PROVE OwnReady(u)
  <2> SUFFICES ASSUME NEW j \in 1 .. Len(u)
               PROVE  \E f : u[j] = Set(f) \/ (u[j] = Hook(f) /\ \E i \in 1 .. j : u[i] = Set(f))
    BY DEF OwnReady
  <2>1. CASE j \in 1 .. Len(s) /\ u[j] = s[j]
    <3>1. PICK f : s[j] = Set(f) \/ (s[j] = Hook(f) /\ \E i \in 1 .. j : s[i] = Set(f))
      BY <1>8, <2>1 DEF OwnReady
    <3>2. \A i \in 1 .. j : i \in 1 .. Len(s)
      BY <1>1, <2>1
    <3> QED
      BY <1>1, <2>1, <3>1, <3>2
  <2>2. ASSUME NEW k \in 1 .. Len(t), j = Len(s) + k, u[j] = t[k]
        PROVE  \E f : u[j] = Set(f) \/ (u[j] = Hook(f) /\ \E i \in 1 .. j : u[i] = Set(f))
    <3>1. PICK f : t[k] = Set(f) \/ (t[k] = Hook(f) /\ \E i \in 1 .. k : t[i] = Set(f))
      BY <1>8, <2>2 DEF OwnReady
    <3>2. \A i \in 1 .. k : i \in 1 .. Len(t) /\ Len(s) + i \in 1 .. j
      BY <1>1, <1>3, <2>2
    <3> QED
      BY <1>1, <2>2, <3>1, <3>2
  <2> QED
    BY <1>2, <2>1, <2>2
<1> QED
  BY <1>1, <1>5, <1>6, <1>7, <1>8 DEF u

\* Rows that only set, and rows that set and hook in turns.
LEMMA SetsRow ==
  ASSUME NEW names, Row(names)
  PROVE  /\ Row(Sets(names)) /\ OwnReady(Sets(names))
         /\ \A A : A \subseteq Range(names) => Gives(Sets(names), A)
         /\ \A B : HooksNone(Sets(names), B)
<1> DEFINE s == Sets(names)
<1>1. Len(names) \in Nat /\ DOMAIN names = 1 .. Len(names)
  BY RowIs
<1>2. DOMAIN s = 1 .. Len(names) /\ s = [i \in 1 .. Len(names) |-> s[i]]
      /\ \A i \in 1 .. Len(names) : s[i] = Set(names[i])
  BY DEF Sets
<1> HIDE DEF s
<1>3. Row(s) /\ Len(s) = Len(names)
  BY <1>1, <1>2, RowIs
<1>4. \A x, y : Set(x) # Hook(y)
  BY DEF Set, Hook
<1> QED
  BY <1>1, <1>2, <1>3, <1>4 DEF s, OwnReady, Gives, HooksNone, Range

LEMMA HooksRow ==
  ASSUME NEW names, Row(names)
  PROVE  /\ Row(Hooks(names)) /\ OwnReady(Hooks(names))
         /\ \A A : A \subseteq Range(names) => Gives(Hooks(names), A)
         /\ \A B : B \cap Range(names) = {} => HooksNone(Hooks(names), B)
<1> DEFINE s == Hooks(names)
<1>1. Len(names) \in Nat /\ DOMAIN names = 1 .. Len(names)
  BY RowIs
<1>2. /\ DOMAIN s = 1 .. 2 * Len(names) /\ s = [i \in 1 .. 2 * Len(names) |-> s[i]]
      /\ \A i \in 1 .. Len(names) : s[2 * i - 1] = Set(names[i]) /\ s[2 * i] = Hook(names[i])
  BY <1>1 DEF Hooks
<1> HIDE DEF s
<1>3. Row(s) /\ Len(s) = 2 * Len(names)
  BY <1>1, <1>2, RowIs
<1>4. \A x, y : Set(x) # Hook(y) /\ (Hook(x) = Hook(y) => x = y)
  BY DEF Set, Hook
<1>5. \A j \in 1 .. Len(s) : \E i \in 1 .. Len(names) : j = 2 * i - 1 \/ j = 2 * i
  <2> TAKE j \in 1 .. Len(s)
  <2> DEFINE half == j \div 2
             more == (j + 1) \div 2
  <2>1. half \in Int /\ more \in Int /\ (j = 2 * half \/ j = 2 * more - 1)
    OBVIOUS
  <2> HIDE DEF half, more
  <2>2. CASE j = 2 * half
    <3>1. half \in 1 .. Len(names)
      BY <1>1, <1>3, <2>1, <2>2
    <3> QED
      BY <2>2, <3>1
  <2>3. CASE j = 2 * more - 1
    <3>1. more \in 1 .. Len(names)
      BY <1>1, <1>3, <2>1, <2>3
    <3> QED
      BY <2>3, <3>1
  <2> QED
    BY <2>1, <2>2, <2>3
<1>6. \A i \in 1 .. Len(names) : 2 * i - 1 \in 1 .. 2 * i /\ 2 * i - 1 \in 1 .. Len(s) /\ 2 * i \in 1 .. Len(s)
  BY <1>1, <1>3
<1>7. \A A : A \subseteq Range(names) => Gives(s, A)
  <2> SUFFICES ASSUME NEW A, A \subseteq Range(names), NEW a \in A
               PROVE  \E i \in 1 .. Len(s) : s[i] = Set(a)
    BY DEF Gives
  <2>1. PICK i \in 1 .. Len(names) : names[i] = a
    BY <1>1 DEF Range
  <2> QED
    BY <1>2, <1>6, <2>1
<1>8. \A j \in 1 .. Len(s) : \A f : s[j] = Hook(f) =>
         \E i \in 1 .. Len(names) : j = 2 * i /\ f = names[i]
  <2> TAKE j \in 1 .. Len(s)
  <2>1. PICK i \in 1 .. Len(names) : j = 2 * i - 1 \/ j = 2 * i
    BY <1>5
  <2>2. j = 2 * i - 1 => s[j] = Set(names[i])
    BY <1>2
  <2>3. j = 2 * i => s[j] = Hook(names[i])
    BY <1>2
  <2> QED
    BY <1>4, <2>1, <2>2, <2>3
<1>9. OwnReady(s)
  <2> SUFFICES ASSUME NEW j \in 1 .. Len(s)
               PROVE  \E f : s[j] = Set(f) \/ (s[j] = Hook(f) /\ \E i \in 1 .. j : s[i] = Set(f))
    BY DEF OwnReady
  <2>1. PICK i \in 1 .. Len(names) : j = 2 * i - 1 \/ j = 2 * i
    BY <1>5
  <2>2. CASE j = 2 * i - 1
    BY <1>2, <2>2
  <2>3. CASE j = 2 * i
    BY <1>2, <1>6, <2>3
  <2> QED
    BY <2>1, <2>2, <2>3
<1>10. \A B : B \cap Range(names) = {} => HooksNone(s, B)
  BY <1>1, <1>8 DEF HooksNone, Range
<1> QED
  BY <1>3, <1>7, <1>9, <1>10 DEF s

\* A list of names is a row of its members.
LEMMA NamesRow ==
  /\ \A a : Row(<<a>>) /\ Range(<<a>>) = {a}
  /\ \A a, b : Row(<<a, b>>) /\ Range(<<a, b>>) = {a, b}
  /\ \A a, b, c : Row(<<a, b, c>>) /\ Range(<<a, b, c>>) = {a, b, c}
  /\ \A a, b, c, d : Row(<<a, b, c, d>>) /\ Range(<<a, b, c, d>>) = {a, b, c, d}
  /\ \A a, b, c, d, e : Row(<<a, b, c, d, e>>) /\ Range(<<a, b, c, d, e>>) = {a, b, c, d, e}
  /\ \A a, b, c, d, e, f :
       Row(<<a, b, c, d, e, f>>) /\ Range(<<a, b, c, d, e, f>>) = {a, b, c, d, e, f}
  /\ \A a, b, c, d, e, f, g :
       Row(<<a, b, c, d, e, f, g>>) /\ Range(<<a, b, c, d, e, f, g>>) = {a, b, c, d, e, f, g}
  /\ \A a, b, c, d, e, f, g, h :
       /\ Row(<<a, b, c, d, e, f, g, h>>)
       /\ Range(<<a, b, c, d, e, f, g, h>>)
            = {a, b, c, d, e, f, g, h}
  /\ \A a, b, c, d, e, f, g, h, i :
       /\ Row(<<a, b, c, d, e, f, g, h, i>>)
       /\ Range(<<a, b, c, d, e, f, g, h, i>>)
            = {a, b, c, d, e, f, g, h, i}
  /\ \A a, b, c, d, e, f, g, h, i, j, k, l, m, n :
       /\ Row(<<a, b, c, d, e, f, g, h, i, j, k, l, m, n>>)
       /\ Range(<<a, b, c, d, e, f, g, h, i, j, k, l, m, n>>)
            = {a, b, c, d, e, f, g, h, i, j, k, l, m, n}
<1>1. ASSUME NEW a
      PROVE  Row(<<a>>) /\ Range(<<a>>) = {a}
  <2> DEFINE row == <<a>>
  <2>1. DOMAIN row = 1 .. 1 /\ row = [p \in 1 .. 1 |-> row[p]]
    OBVIOUS
  <2>2. Range(row) = {a}
    BY DEF Range
  <2> HIDE DEF row
  <2>3. Row(row)
    BY <2>1, RowIs
  <2> QED
    BY <2>2, <2>3 DEF row
<1>2. ASSUME NEW a, NEW b
      PROVE  Row(<<a, b>>) /\ Range(<<a, b>>) = {a, b}
  <2> DEFINE row == <<a, b>>
  <2>1. DOMAIN row = 1 .. 2 /\ row = [p \in 1 .. 2 |-> row[p]]
    OBVIOUS
  <2>2. Range(row) = {a, b}
    BY DEF Range
  <2> HIDE DEF row
  <2>3. Row(row)
    BY <2>1, RowIs
  <2> QED
    BY <2>2, <2>3 DEF row
<1>3. ASSUME NEW a, NEW b, NEW c
      PROVE  Row(<<a, b, c>>) /\ Range(<<a, b, c>>) = {a, b, c}
  <2> DEFINE row == <<a, b, c>>
  <2>1. DOMAIN row = 1 .. 3 /\ row = [p \in 1 .. 3 |-> row[p]]
    OBVIOUS
  <2>2. Range(row) = {a, b, c}
    BY DEF Range
  <2> HIDE DEF row
  <2>3. Row(row)
    BY <2>1, RowIs
  <2> QED
    BY <2>2, <2>3 DEF row
<1>4. ASSUME NEW a, NEW b, NEW c, NEW d
      PROVE  Row(<<a, b, c, d>>) /\ Range(<<a, b, c, d>>) = {a, b, c, d}
  <2> DEFINE row == <<a, b, c, d>>
  <2>1. DOMAIN row = 1 .. 4 /\ row = [p \in 1 .. 4 |-> row[p]]
    OBVIOUS
  <2>2. Range(row) = {a, b, c, d}
    BY DEF Range
  <2> HIDE DEF row
  <2>3. Row(row)
    BY <2>1, RowIs
  <2> QED
    BY <2>2, <2>3 DEF row
<1>5. ASSUME NEW a, NEW b, NEW c, NEW d, NEW e
      PROVE  Row(<<a, b, c, d, e>>) /\ Range(<<a, b, c, d, e>>) = {a, b, c, d, e}
  <2> DEFINE row == <<a, b, c, d, e>>
  <2>1. DOMAIN row = 1 .. 5 /\ row = [p \in 1 .. 5 |-> row[p]]
    OBVIOUS
  <2>2. Range(row) = {a, b, c, d, e}
    BY DEF Range
  <2> HIDE DEF row
  <2>3. Row(row)
    BY <2>1, RowIs
  <2> QED
    BY <2>2, <2>3 DEF row
<1>6. ASSUME NEW a, NEW b, NEW c, NEW d, NEW e, NEW f
      PROVE  Row(<<a, b, c, d, e, f>>) /\ Range(<<a, b, c, d, e, f>>) = {a, b, c, d, e, f}
  <2> DEFINE row == <<a, b, c, d, e, f>>
  <2>1. DOMAIN row = 1 .. 6 /\ row = [p \in 1 .. 6 |-> row[p]]
    OBVIOUS
  <2>2. Range(row) = {a, b, c, d, e, f}
    BY DEF Range
  <2> HIDE DEF row
  <2>3. Row(row)
    BY <2>1, RowIs
  <2> QED
    BY <2>2, <2>3 DEF row
<1>7. ASSUME NEW a, NEW b, NEW c, NEW d, NEW e, NEW f, NEW g
      PROVE  Row(<<a, b, c, d, e, f, g>>) /\ Range(<<a, b, c, d, e, f, g>>) = {a, b, c, d, e, f, g}
  <2> DEFINE row == <<a, b, c, d, e, f, g>>
  <2>1. DOMAIN row = 1 .. 7 /\ row = [p \in 1 .. 7 |-> row[p]]
    OBVIOUS
  <2>2. Range(row) = {a, b, c, d, e, f, g}
    BY DEF Range
  <2> HIDE DEF row
  <2>3. Row(row)
    BY <2>1, RowIs
  <2> QED
    BY <2>2, <2>3 DEF row
<1>8. ASSUME NEW a, NEW b, NEW c, NEW d, NEW e, NEW f, NEW g, NEW h
      PROVE  /\ Row(<<a, b, c, d, e, f, g, h>>)
             /\ Range(<<a, b, c, d, e, f, g, h>>)
                  = {a, b, c, d, e, f, g, h}
  <2> DEFINE row == <<a, b, c, d, e, f, g, h>>
  <2>1. DOMAIN row = 1 .. 8 /\ row = [p \in 1 .. 8 |-> row[p]]
    OBVIOUS
  <2>2. Range(row) = {a, b, c, d, e, f, g, h}
    BY DEF Range
  <2> HIDE DEF row
  <2>3. Row(row)
    BY <2>1, RowIs
  <2> QED
    BY <2>2, <2>3 DEF row
<1>9. ASSUME NEW a, NEW b, NEW c, NEW d, NEW e, NEW f, NEW g, NEW h, NEW i
      PROVE  /\ Row(<<a, b, c, d, e, f, g, h, i>>)
             /\ Range(<<a, b, c, d, e, f, g, h, i>>)
                  = {a, b, c, d, e, f, g, h, i}
  <2> DEFINE row == <<a, b, c, d, e, f, g, h, i>>
  <2>1. DOMAIN row = 1 .. 9 /\ row = [p \in 1 .. 9 |-> row[p]]
    OBVIOUS
  <2>2. Range(row) = {a, b, c, d, e, f, g, h, i}
    BY DEF Range
  <2> HIDE DEF row
  <2>3. Row(row)
    BY <2>1, RowIs
  <2> QED
    BY <2>2, <2>3 DEF row
<1>10. ASSUME NEW a, NEW b, NEW c, NEW d, NEW e, NEW f, NEW g, NEW h, NEW i,
              NEW j, NEW k, NEW l, NEW m, NEW n
      PROVE  /\ Row(<<a, b, c, d, e, f, g, h, i, j, k, l, m, n>>)
             /\ Range(<<a, b, c, d, e, f, g, h, i, j, k, l, m, n>>)
                  = {a, b, c, d, e, f, g, h, i, j, k, l, m, n}
  <2> DEFINE row == <<a, b, c, d, e, f, g, h, i, j, k, l, m, n>>
  <2>1. DOMAIN row = 1 .. 14 /\ row = [p \in 1 .. 14 |-> row[p]]
    OBVIOUS
  <2>2. Range(row) = {a, b, c, d, e, f, g, h, i, j, k, l, m, n}
    BY DEF Range
  <2> HIDE DEF row
  <2>3. Row(row)
    BY <2>1, RowIs
  <2> QED
    BY <2>2, <2>3 DEF row
<1> QED
  BY <1>1, <1>2, <1>3, <1>4, <1>5, <1>6, <1>7, <1>8, <1>9, <1>10

\* What is hooked when it has been set in an earlier row.
LEMMA HookedLater ==
  ASSUME NEW s, NEW t, Row(s), Row(t), OwnReady(s), NEW A, Gives(s, A),
         \A j \in 1 .. Len(t) : \E f \in A : t[j] = Hook(f)
  PROVE  OwnReady(s \o t)
<1> DEFINE u == s \o t
<1>1. /\ Len(s) \in Nat /\ Len(t) \in Nat /\ Len(u) = Len(s) + Len(t)
      /\ \A i \in 1 .. Len(s) : u[i] = s[i]
      /\ \A i \in 1 .. Len(t) : u[Len(s) + i] = t[i]
  BY RowsJoin
<1> HIDE DEF u
<1>2. ASSUME NEW j \in 1 .. Len(u)
      PROVE  \E f : u[j] = Set(f) \/ (u[j] = Hook(f) /\ \E i \in 1 .. j : u[i] = Set(f))
  <2>1. CASE j <= Len(s)
    <3>1. j \in 1 .. Len(s) /\ \A i \in 1 .. j : i \in 1 .. Len(s)
      BY <1>1, <2>1
    <3>2. PICK f : s[j] = Set(f) \/ (s[j] = Hook(f) /\ \E i \in 1 .. j : s[i] = Set(f))
      BY <3>1 DEF OwnReady
    <3> QED
      BY <1>1, <3>1, <3>2
  <2>2. CASE j > Len(s)
    <3>1. j - Len(s) \in 1 .. Len(t) /\ j = Len(s) + (j - Len(s)) /\ \A i \in 1 .. Len(s) : i \in 1 .. j
      BY <1>1, <2>2
    <3>2. PICK f \in A : t[j - Len(s)] = Hook(f)
      BY <3>1
    <3>3. \E i \in 1 .. Len(s) : s[i] = Set(f)
      BY DEF Gives
    <3> QED
      BY <1>1, <3>1, <3>2, <3>3
  <2> QED
    BY <1>1, <2>1, <2>2
<1>3. OwnReady(u)
  BY <1>2 DEF OwnReady
<1> QED
  BY <1>3 DEF u

\* A row of two.
LEMMA PairRow ==
  ASSUME NEW x, NEW y
  PROVE  /\ Row(<<x, y>>) /\ Len(<<x, y>>) = 2 /\ <<x, y>>[1] = x /\ <<x, y>>[2] = y
         /\ \A j \in 1 .. Len(<<x, y>>) : <<x, y>>[j] \in {x, y}
BY NamesRow

\* What comes first in a row of hooks is there for all of them.
LEMMA FirstOfHooks ==
  ASSUME NEW names, Row(names), Len(names) > 0
  PROVE  \A B : ReadyFor(Hooks(names), {names[1]}, B)
<1>1. Len(names) \in Nat
  BY RowIs
<1>2. Hooks(names)[1] = Set(names[1])
  BY <1>1 DEF Hooks
<1>3. Len(Hooks(names)) \in Nat
  BY HooksRow, RowIs
<1> QED
  BY <1>2, <1>3 DEF ReadyFor

\* Larger and smaller sets.
LEMMA Unions ==
  /\ \A s, A, B, C : Gives(s, A) /\ Gives(s, B) /\ C \subseteq A \cup B => Gives(s, C)
  /\ \A s, A, B, C, D : ReadyFor(s, A, D) /\ ReadyFor(s, B, D) /\ C \subseteq A \cup B
                          => ReadyFor(s, C, D)
  /\ \A s, A, B : HooksNone(s, A) /\ B \subseteq A => HooksNone(s, B)
BY DEF Gives, ReadyFor, HooksNone

-----------------------------------------------------------------------------
(* StartUp: the script.                                                      *)

\* What detours use of other functions' and components' pointers.
OfLobby == {"prep_read", "type_name", "package_int", "package_xuid", "package_uint", "package_uchar",
            "package_ushort", "package_data", "package_string", "package_uint64", "package_short",
            "package_bool", "array_start", "array_element"}
OfHost  == {"join_package", "send_join_response", "global_channel", "host_lobby_state",
            "client_count", "add_joining_client", "package_glob", "fixed_client_info",
            "mutable_client_info"}
OfAds   == {"host_session", "qos_listener", "session_update", "create_session", "ffotd_version",
            "playlist_version", "set_matchmaking_info"}
OfFind  == {"register_sec", "common_to_netadr", "net_field_checksum", "content_packs"}

\* Detours that use pointers of others, the ones that another thread comes by, and those
\* of clients' commands.
Users == {"handle_packet", "handle_join_request", "handle_member_info", "set_matchmaking_info",
          "update_matchmaking_session", "session_id_serialize", "menu"}
Doors == {"present", "find_sessions"}
Served == {"client_command", "client_mrp"}

\* Each detour that uses others' pointers comes after them.
ScriptReady(s) ==
  /\ ReadyFor(s, OfLobby \ {"array_start", "array_element"}, {"handle_packet"})
  /\ ReadyFor(s, OfHost, {"handle_join_request"})
  /\ ReadyFor(s, OfHost \cup OfLobby, {"handle_member_info"})
  /\ ReadyFor(s, {"ffotd_version", "playlist_version"}, {"set_matchmaking_info"})
  /\ ReadyFor(s, OfAds, {"update_matchmaking_session"})
  /\ ReadyFor(s, {"write_uint32"}, {"session_id_serialize"})
  /\ ReadyFor(s, {"cmd_argv"}, Served)
  /\ HooksNone(s, {"menu"})

\* A component that keeps to itself, and one that at most has clients' commands hooked.
KeepsToItself(s) == Row(s) /\ OwnReady(s) /\ HooksNone(s, Users \cup Doors)
                 /\ ReadyFor(s, {"cmd_argv"}, Served)

\* The script, once the lobby's components are through.
Going(s) == /\ Row(s) /\ OwnReady(s) /\ HooksNone(s, Doors) /\ ScriptReady(s)
            /\ Gives(s, OfLobby \cup OfHost \cup OfAds \cup {"write_uint32"})

\* None of these is hooked by a component that keeps to itself.
Shared == Users \cup Doors \cup Served

\* How components keep to themselves, and what comes before and after them.
LEMMA HooksKeep ==
  ASSUME NEW names, Row(names), (Users \cup Doors \cup Served) \cap Range(names) = {}
  PROVE  KeepsToItself(Hooks(names))
<1> DEFINE s == Hooks(names)
<1>1. Row(s) /\ OwnReady(s) /\ \A B : B \cap Range(names) = {} => HooksNone(s, B)
  BY HooksRow
<1> HIDE DEF s
<1>2. HooksNone(s, Users \cup Doors) /\ HooksNone(s, Served)
  BY <1>1
<1>3. ReadyFor(s, {"cmd_argv"}, Served)
  BY <1>2, NoneReady
<1> QED
  BY <1>1, <1>2, <1>3 DEF KeepsToItself, s

LEMMA SetsKeep ==
  ASSUME NEW names, Row(names)
  PROVE  KeepsToItself(Sets(names))
<1> DEFINE s == Sets(names)
<1>1. Row(s) /\ OwnReady(s) /\ \A B : HooksNone(s, B)
  BY SetsRow
<1> HIDE DEF s
<1>2. ReadyFor(s, {"cmd_argv"}, Served)
  BY <1>1, NoneReady
<1> QED
  BY <1>1, <1>2 DEF KeepsToItself, s

LEMMA KeepsJoin ==
  ASSUME NEW s, NEW t, KeepsToItself(s), KeepsToItself(t)
  PROVE  KeepsToItself(s \o t)
<1> DEFINE u == s \o t
<1>1. /\ Row(s) /\ Row(t) /\ OwnReady(s) /\ OwnReady(t)
      /\ HooksNone(s, Users \cup Doors) /\ HooksNone(t, Users \cup Doors)
      /\ ReadyFor(s, {"cmd_argv"}, Served) /\ ReadyFor(t, {"cmd_argv"}, Served)
  BY DEF KeepsToItself
<1>2. /\ Row(u) /\ OwnReady(u) /\ HooksNone(u, Users \cup Doors) /\ ReadyFor(u, {"cmd_argv"}, Served)
  BY <1>1, Joined
<1> HIDE DEF u
<1>3. KeepsToItself(u)
  BY <1>2 DEF KeepsToItself
<1> QED
  BY <1>3 DEF u

LEMMA GoesOn ==
  ASSUME NEW s, NEW t, Going(s), KeepsToItself(t)
  PROVE  Going(s \o t)
<1> DEFINE u == s \o t
<1>1. /\ Row(s) /\ OwnReady(s) /\ HooksNone(s, Doors) /\ ScriptReady(s)
      /\ Gives(s, OfLobby \cup OfHost \cup OfAds \cup {"write_uint32"})
  BY DEF Going
<1>2. /\ Row(t) /\ OwnReady(t) /\ HooksNone(t, Doors) /\ ReadyFor(t, {"cmd_argv"}, Served)
      /\ HooksNone(t, {"menu"}) /\ \A A, B : B \subseteq Users => ReadyFor(t, A, B)
  <2>1. /\ Row(t) /\ OwnReady(t) /\ HooksNone(t, Users \cup Doors)
        /\ ReadyFor(t, {"cmd_argv"}, Served)
    BY DEF KeepsToItself
  <2>2. \A B : B \subseteq Users \cup Doors => HooksNone(t, B)
    BY <2>1 DEF HooksNone
  <2>3. {"menu"} \subseteq Users \cup Doors
    BY DEF Users
  <2> QED
    BY <2>1, <2>2, <2>3, NoneReady
<1>3. /\ Row(u) /\ OwnReady(u) /\ HooksNone(u, Doors)
      /\ Gives(u, OfLobby \cup OfHost \cup OfAds \cup {"write_uint32"})
      /\ \A A, B : ReadyFor(s, A, B) /\ ReadyFor(t, A, B) => ReadyFor(u, A, B)
  BY <1>1, <1>2, Joined
<1>5. HooksNone(s, {"menu"}) /\ HooksNone(t, {"menu"}) => HooksNone(u, {"menu"})
  BY <1>1, <1>2, Joined
<1> HIDE DEF u
<1>4. ScriptReady(u)
  <2>1. /\ {"handle_packet"} \subseteq Users /\ {"handle_join_request"} \subseteq Users
        /\ {"handle_member_info"} \subseteq Users /\ {"set_matchmaking_info"} \subseteq Users
        /\ {"update_matchmaking_session"} \subseteq Users /\ {"session_id_serialize"} \subseteq Users
    BY DEF Users
  <2> QED
    BY <1>1, <1>2, <1>3, <1>5, <2>1 DEF ScriptReady
<1> QED
  BY <1>3, <1>4 DEF Going, u

\* Up to five hooks of other functions.
LEMMA ListsKeep ==
  /\ \A a : {a} \cap Shared = {} => KeepsToItself(Hooks(<<a>>))
  /\ \A a, b : {a, b} \cap Shared = {} => KeepsToItself(Hooks(<<a, b>>))
  /\ \A a, b, c : {a, b, c} \cap Shared = {} => KeepsToItself(Hooks(<<a, b, c>>))
  /\ \A a, b, c, d : {a, b, c, d} \cap Shared = {} => KeepsToItself(Hooks(<<a, b, c, d>>))
  /\ \A a, b, c, d, e : {a, b, c, d, e} \cap Shared = {} => KeepsToItself(Hooks(<<a, b, c, d, e>>))
<1>1. ASSUME NEW a, {a} \cap Shared = {}
      PROVE  KeepsToItself(Hooks(<<a>>))
  <2> DEFINE names == <<a>>
  <2>1. Row(names) /\ Shared \cap Range(names) = {}
    BY <1>1, NamesRow
  <2> HIDE DEF names
  <2>2. KeepsToItself(Hooks(names))
    BY <2>1, HooksKeep DEF Shared
  <2> QED
    BY <2>2 DEF names
<1>2. ASSUME NEW a, NEW b, {a, b} \cap Shared = {}
      PROVE  KeepsToItself(Hooks(<<a, b>>))
  <2> DEFINE names == <<a, b>>
  <2>1. Row(names) /\ Shared \cap Range(names) = {}
    BY <1>2, NamesRow
  <2> HIDE DEF names
  <2>2. KeepsToItself(Hooks(names))
    BY <2>1, HooksKeep DEF Shared
  <2> QED
    BY <2>2 DEF names
<1>3. ASSUME NEW a, NEW b, NEW c, {a, b, c} \cap Shared = {}
      PROVE  KeepsToItself(Hooks(<<a, b, c>>))
  <2> DEFINE names == <<a, b, c>>
  <2>1. Row(names) /\ Shared \cap Range(names) = {}
    BY <1>3, NamesRow
  <2> HIDE DEF names
  <2>2. KeepsToItself(Hooks(names))
    BY <2>1, HooksKeep DEF Shared
  <2> QED
    BY <2>2 DEF names
<1>4. ASSUME NEW a, NEW b, NEW c, NEW d, {a, b, c, d} \cap Shared = {}
      PROVE  KeepsToItself(Hooks(<<a, b, c, d>>))
  <2> DEFINE names == <<a, b, c, d>>
  <2>1. Row(names) /\ Shared \cap Range(names) = {}
    BY <1>4, NamesRow
  <2> HIDE DEF names
  <2>2. KeepsToItself(Hooks(names))
    BY <2>1, HooksKeep DEF Shared
  <2> QED
    BY <2>2 DEF names
<1>5. ASSUME NEW a, NEW b, NEW c, NEW d, NEW e, {a, b, c, d, e} \cap Shared = {}
      PROVE  KeepsToItself(Hooks(<<a, b, c, d, e>>))
  <2> DEFINE names == <<a, b, c, d, e>>
  <2>1. Row(names) /\ Shared \cap Range(names) = {}
    BY <1>5, NamesRow
  <2> HIDE DEF names
  <2>2. KeepsToItself(Hooks(names))
    BY <2>1, HooksKeep DEF Shared
  <2> QED
    BY <2>2 DEF names
<1> QED
  BY <1>1, <1>2, <1>3, <1>4, <1>5

\* Twenty components of that kind, and two more.
LEMMA ComponentsKeep ==
  /\ KeepsToItself(Demonware) /\ KeepsToItself(Mspreload) /\ KeepsToItself(Callvote)
  /\ KeepsToItself(Presence) /\ KeepsToItself(Infoleak) /\ KeepsToItself(Inventory)
  /\ KeepsToItself(Markup) /\ KeepsToItself(Notetrack) /\ KeepsToItself(Paragon)
  /\ KeepsToItself(P2p) /\ KeepsToItself(Netchan) /\ KeepsToItself(Steamqol)
  /\ KeepsToItself(Hotkeys) /\ KeepsToItself(Workshop) /\ KeepsToItself(Servercmd)
  /\ KeepsToItself(Video) /\ KeepsToItself(Perf) /\ KeepsToItself(Lod)
  /\ KeepsToItself(Texstream) /\ KeepsToItself(Movement)
<1> USE DEF Shared, Users, Doors, Served
<1>1. KeepsToItself(Demonware) /\ KeepsToItself(Presence)
  BY ListsKeep DEF Demonware, Presence
<1>2. KeepsToItself(Mspreload) /\ KeepsToItself(Callvote) /\ KeepsToItself(Notetrack)
  BY ListsKeep DEF Mspreload, Callvote, Notetrack
<1>3. KeepsToItself(Paragon) /\ KeepsToItself(Workshop) /\ KeepsToItself(Perf)
  BY ListsKeep DEF Paragon, Workshop, Perf
<1>4. KeepsToItself(Lod) /\ KeepsToItself(Texstream) /\ KeepsToItself(Movement)
  BY ListsKeep DEF Lod, Texstream, Movement
<1>5. KeepsToItself(Inventory) /\ KeepsToItself(Markup) /\ KeepsToItself(P2p)
  BY ListsKeep DEF Inventory, Markup, P2p
<1>6. KeepsToItself(Infoleak) /\ KeepsToItself(Netchan)
  BY ListsKeep DEF Infoleak, Netchan
<1>7. \A a : KeepsToItself(Sets(<<a>>))
  BY NamesRow, SetsKeep
<1>8. /\ KeepsToItself(Hooks(<<"dlc_installed", "app_installed", "friend_list_rebuild", "dlc_progress">>))
      /\ KeepsToItself(Hooks(<<"frame_callback">>)) /\ KeepsToItself(Hooks(<<"play_video">>))
      /\ KeepsToItself(Hooks(<<"get_server_command", "message_format", "set_config_string">>))
      /\ KeepsToItself(Hooks(<<"match_bitmask">>))
  BY ListsKeep
<1>9. KeepsToItself(Steamqol) /\ KeepsToItself(Hotkeys) /\ KeepsToItself(Servercmd) /\ KeepsToItself(Video)
  BY <1>7, <1>8, KeepsJoin DEF Steamqol, Hotkeys, Servercmd, Video
<1> QED
  BY <1>1, <1>2, <1>3, <1>4, <1>5, <1>6, <1>9

LEMMA OobKeeps == KeepsToItself(Oob)
<1> DEFINE names == <<"cl_connectionless", "sv_connectionless">>
           both == {"cl_connectionless", "sv_connectionless"}
           s == Sets(names)
           t == <<Hook("cl_connectionless"), Hook("sv_connectionless")>>
           u == s \o t
<1>1. Row(s) /\ OwnReady(s) /\ Gives(s, both) /\ \A B : HooksNone(s, B)
  <2>1. Row(names) /\ both \subseteq Range(names)
    BY NamesRow
  <2> HIDE DEF names, both
  <2> QED
    BY <2>1, SetsRow
<1>2. Row(t) /\ \A j \in 1 .. Len(t) : t[j] \in {Hook("cl_connectionless"), Hook("sv_connectionless")}
  BY PairRow
<1>3. u = Oob
  BY DEF Oob
<1> HIDE DEF s, t, u, names
<1>4. \A j \in 1 .. Len(t) : \E f \in both : t[j] = Hook(f)
  BY <1>2
<1>5. HooksNone(t, Users \cup Doors) /\ HooksNone(t, Served)
  BY <1>4 DEF HooksNone, Users, Doors, Served, Hook
<1>6. Row(u) /\ HooksNone(u, Users \cup Doors) /\ HooksNone(u, Served)
  BY <1>1, <1>2, <1>5, Joined DEF u
<1>7. OwnReady(u)
  BY <1>1, <1>2, <1>4, HookedLater DEF u
<1> QED
  BY <1>3, <1>6, <1>7, NoneReady DEF KeepsToItself

LEMMA ClientcmdKeeps == KeepsToItself(Clientcmd)
<1> DEFINE n1 == <<"cmd_argv">>
           n2 == <<"client_command", "client_mrp">>
           s == Sets(n1)
           t == Hooks(n2)
           u == s \o t
<1>1. Row(n1) /\ Row(n2) /\ {"cmd_argv"} \subseteq Range(n1) /\ (Users \cup Doors) \cap Range(n2) = {}
  <2>1. Row(n1) /\ Row(n2) /\ Range(n1) = {"cmd_argv"} /\ Range(n2) = {"client_command", "client_mrp"}
    BY NamesRow
  <2> HIDE DEF n1, n2
  <2> QED
    BY <2>1 DEF Users, Doors
<1>2. u = Clientcmd
  BY DEF Clientcmd
<1> HIDE DEF n1, n2
<1>3. Row(s) /\ OwnReady(s) /\ Gives(s, {"cmd_argv"}) /\ \A B : HooksNone(s, B)
  BY <1>1, SetsRow
<1>4. Row(t) /\ OwnReady(t) /\ HooksNone(t, Users \cup Doors)
  BY <1>1, HooksRow
<1> HIDE DEF s, t
<1>5. Row(u) /\ OwnReady(u) /\ HooksNone(u, Users \cup Doors) /\ ReadyFor(u, {"cmd_argv"}, Served)
  BY <1>3, <1>4, Joined, NoneReady
<1> HIDE DEF u
<1> QED
  BY <1>2, <1>5 DEF KeepsToItself

\* The two components that set and hook much.
LEMMA LobbyRow ==
  /\ Row(Lobbymsg) /\ OwnReady(Lobbymsg) /\ Gives(Lobbymsg, OfLobby)
  /\ HooksNone(Lobbymsg, (Users \ {"handle_packet"}) \cup Doors \cup Served)
  /\ ReadyFor(Lobbymsg, OfLobby \ {"array_start", "array_element"}, {"handle_packet"})
<1> DEFINE none == (Users \ {"handle_packet"}) \cup Doors \cup Served
           n1 == <<"prep_read", "lobby_state_package", "type_name", "package_int", "package_xuid">>
           n2 == <<"array_start", "array_element">>
           n3 == <<"package_short", "package_uint", "package_uint64", "package_uchar", "package_bool",
                   "package_string", "package_ushort", "package_data">>
           n4 == <<"handle_packet", "print_debug", "print_array", "print_message">>
           g1 == {"prep_read", "type_name", "package_int", "package_xuid"}
           g2 == {"array_start", "array_element"}
           g3 == {"package_short", "package_uint", "package_uint64", "package_uchar", "package_bool",
                   "package_string", "package_ushort", "package_data"}
           s1 == Sets(n1)
           s2 == Hooks(n2)
           s3 == Sets(n3)
           s4 == Hooks(n4)
           u2 == s1 \o s2
           u3 == u2 \o s3
           u4 == u3 \o s4
<1>1. Row(n1) /\ Row(n2) /\ Row(n3) /\ Row(n4)
      /\ g1 \subseteq Range(n1) /\ g2 \subseteq Range(n2) /\ g3 \subseteq Range(n3)
  BY NamesRow
<1>2. (none \cup {"handle_packet"}) \cap Range(n2) = {} /\ none \cap Range(n4) = {}
  <2>1. Range(n2) = g2 /\ Range(n4) = {"handle_packet", "print_debug", "print_array", "print_message"}
    BY NamesRow
  <2> HIDE DEF n2, n4
  <2> QED
    BY <2>1 DEF Users, Doors, Served
<1>3. OfLobby \subseteq (g1 \cup g2) \cup g3 /\ OfLobby \ {"array_start", "array_element"} \subseteq g1 \cup g3
  BY DEF OfLobby
<1>4. u4 = Lobbymsg
  BY DEF Lobbymsg
<1> HIDE DEF none, n1, n2, n3, n4, g1, g2, g3
<1>5. /\ Row(s1) /\ OwnReady(s1) /\ Gives(s1, g1) /\ \A B : HooksNone(s1, B)
      /\ Row(s3) /\ OwnReady(s3) /\ Gives(s3, g3) /\ \A B : HooksNone(s3, B)
  BY <1>1, SetsRow
<1>6. /\ Row(s2) /\ OwnReady(s2) /\ Gives(s2, g2) /\ HooksNone(s2, none \cup {"handle_packet"})
      /\ Row(s4) /\ OwnReady(s4) /\ HooksNone(s4, none)
  BY <1>1, <1>2, HooksRow
<1> HIDE DEF s1, s2, s3, s4
<1>7. /\ Row(u2) /\ OwnReady(u2) /\ Gives(u2, g1) /\ Gives(u2, g2)
      /\ HooksNone(u2, none \cup {"handle_packet"})
  BY <1>5, <1>6, Joined
<1> HIDE DEF u2
<1>8. /\ Row(u3) /\ OwnReady(u3) /\ Gives(u3, g1) /\ Gives(u3, g2) /\ Gives(u3, g3)
      /\ HooksNone(u3, none \cup {"handle_packet"})
  BY <1>5, <1>7, Joined
<1> HIDE DEF u3
<1>9. HooksNone(u3, none) /\ HooksNone(u3, {"handle_packet"})
  BY <1>8, Unions
<1>10. /\ Row(u4) /\ OwnReady(u4) /\ Gives(u4, g1) /\ Gives(u4, g2) /\ Gives(u4, g3)
       /\ HooksNone(u4, none)
       /\ ReadyFor(u4, g1, {"handle_packet"}) /\ ReadyFor(u4, g3, {"handle_packet"})
  BY <1>6, <1>8, <1>9, Joined, NoneReady
<1> HIDE DEF u4
<1>11. Gives(u4, g1 \cup g2)
  BY <1>10, Unions
<1>12. Gives(u4, OfLobby) /\ ReadyFor(u4, OfLobby \ {"array_start", "array_element"}, {"handle_packet"})
  BY <1>3, <1>10, <1>11, Unions
<1> QED
  BY <1>4, <1>10, <1>12 DEF none

LEMMA MatchmakingRow ==
  /\ Row(Matchmaking) /\ OwnReady(Matchmaking)
  /\ Gives(Matchmaking, OfHost) /\ Gives(Matchmaking, OfAds) /\ Gives(Matchmaking, {"write_uint32"})
  /\ HooksNone(Matchmaking, {"handle_packet", "menu"} \cup Doors \cup Served)
  /\ ReadyFor(Matchmaking, OfHost, {"handle_join_request"})
  /\ ReadyFor(Matchmaking, OfHost, {"handle_member_info"})
  /\ ReadyFor(Matchmaking, {"ffotd_version", "playlist_version"}, {"set_matchmaking_info"})
  /\ ReadyFor(Matchmaking, OfAds, {"update_matchmaking_session"})
  /\ ReadyFor(Matchmaking, {"write_uint32"}, {"session_id_serialize"})
<1> DEFINE none == {"handle_packet", "menu"} \cup Doors \cup Served
           joins == {"handle_join_request", "handle_member_info"}
           ads == {"set_matchmaking_info", "update_matchmaking_session"}
           id == {"session_id_serialize"}
           own == OfAds \ {"set_matchmaking_info"}
           n1 == <<"join_package", "send_join_response", "global_channel", "host_lobby_state",
                   "client_count", "add_joining_client", "package_glob", "fixed_client_info",
                   "mutable_client_info">>
           n2 == <<"handle_join_request", "handle_member_info">>
           n3 == <<"host_session", "qos_listener", "session_update", "create_session",
                   "ffotd_version", "playlist_version">>
           n4 == <<"set_matchmaking_info", "update_matchmaking_session", "set_max_clients",
                   "task_search", "can_host_server">>
           n5 == <<"write_uint32">>
           n6 == <<"session_id_serialize">>
           s1 == Sets(n1)
           s2 == Hooks(n2)
           s3 == Sets(n3)
           s4 == Hooks(n4)
           s5 == Sets(n5)
           s6 == Hooks(n6)
           u2 == s1 \o s2
           u3 == u2 \o s3
           u4 == u3 \o s4
           u5 == u4 \o s5
           u6 == u5 \o s6
<1>1. Row(n1) /\ Row(n2) /\ Row(n3) /\ Row(n4) /\ Row(n5) /\ Row(n6)
  BY NamesRow
<1>2. OfHost \subseteq Range(n1)
  BY NamesRow DEF OfHost
<1>3. own \subseteq Range(n3)
  <2>1. Range(n3) = {"host_session", "qos_listener", "session_update", "create_session",
                   "ffotd_version", "playlist_version"}
    BY NamesRow
  <2> HIDE DEF n3
  <2> QED
    BY <2>1 DEF OfAds
<1>4. {"write_uint32"} \subseteq Range(n5)
  BY NamesRow
<1>5. {"set_matchmaking_info"} \subseteq Range(n4) /\ Len(n4) > 0 /\ n4[1] = "set_matchmaking_info"
  BY NamesRow
<1>6. (none \cup ads \cup id) \cap Range(n2) = {}
  <2>1. Range(n2) = {"handle_join_request", "handle_member_info"}
    BY NamesRow
  <2> HIDE DEF n2
  <2> QED
    BY <2>1 DEF Users, Doors, Served
<1>7. (none \cup joins \cup id) \cap Range(n4) = {}
  <2>1. Range(n4) = {"set_matchmaking_info", "update_matchmaking_session", "set_max_clients",
                   "task_search", "can_host_server"}
    BY NamesRow
  <2> HIDE DEF n4
  <2> QED
    BY <2>1 DEF Users, Doors, Served
<1>8. (none \cup joins \cup ads) \cap Range(n6) = {}
  <2>1. Range(n6) = {"session_id_serialize"}
    BY NamesRow
  <2> HIDE DEF n6
  <2> QED
    BY <2>1 DEF Users, Doors, Served
<1>9. /\ OfAds \subseteq own \cup {"set_matchmaking_info"} /\ {"ffotd_version", "playlist_version"} \subseteq own \cup own
      /\ {"handle_join_request"} \subseteq joins /\ {"handle_member_info"} \subseteq joins
      /\ {"set_matchmaking_info"} \subseteq ads /\ {"update_matchmaking_session"} \subseteq ads
  BY DEF OfAds
<1>10. u6 = Matchmaking
  BY DEF Matchmaking
<1> HIDE DEF none, joins, ads, id, own, n1, n2, n3, n4, n5, n6
<1>11. /\ Row(s1) /\ OwnReady(s1) /\ Gives(s1, OfHost) /\ (\A B : HooksNone(s1, B))
       /\ Row(s3) /\ OwnReady(s3) /\ Gives(s3, own) /\ (\A B : HooksNone(s3, B))
       /\ Row(s5) /\ OwnReady(s5) /\ Gives(s5, {"write_uint32"}) /\ (\A B : HooksNone(s5, B))
  BY <1>1, <1>2, <1>3, <1>4, SetsRow
<1>12. /\ Row(s2) /\ OwnReady(s2) /\ HooksNone(s2, none) /\ HooksNone(s2, ads) /\ HooksNone(s2, id)
  BY <1>1, <1>6, HooksRow, Unions
<1>13. /\ Row(s4) /\ OwnReady(s4) /\ HooksNone(s4, none) /\ HooksNone(s4, joins) /\ HooksNone(s4, id)
       /\ Gives(s4, {"set_matchmaking_info"}) /\ \A B : ReadyFor(s4, {"set_matchmaking_info"}, B)
  BY <1>1, <1>5, <1>7, HooksRow, FirstOfHooks, Unions
<1>14. /\ Row(s6) /\ OwnReady(s6) /\ HooksNone(s6, none) /\ HooksNone(s6, joins) /\ HooksNone(s6, ads)
  BY <1>1, <1>8, HooksRow, Unions
<1> HIDE DEF s1, s2, s3, s4, s5, s6
<1>15. /\ Row(u2) /\ OwnReady(u2) /\ HooksNone(u2, none) /\ HooksNone(u2, ads) /\ HooksNone(u2, id)
       /\ Gives(u2, OfHost) /\ ReadyFor(u2, OfHost, joins)
  BY <1>11, <1>12, Joined, NoneReady
<1> HIDE DEF u2
<1>16. /\ Row(u3) /\ OwnReady(u3) /\ HooksNone(u3, none) /\ HooksNone(u3, ads) /\ HooksNone(u3, id)
       /\ Gives(u3, OfHost) /\ Gives(u3, own) /\ ReadyFor(u3, OfHost, joins)
  BY <1>11, <1>15, Joined
<1> HIDE DEF u3
<1>17. /\ Row(u4) /\ OwnReady(u4) /\ HooksNone(u4, none) /\ HooksNone(u4, id)
       /\ Gives(u4, OfHost) /\ Gives(u4, own) /\ Gives(u4, {"set_matchmaking_info"})
       /\ ReadyFor(u4, OfHost, joins)
       /\ ReadyFor(u4, own, ads) /\ ReadyFor(u4, {"set_matchmaking_info"}, ads)
  BY <1>13, <1>16, Joined, NoneReady
<1> HIDE DEF u4
<1>18. /\ Row(u5) /\ OwnReady(u5) /\ HooksNone(u5, none) /\ HooksNone(u5, id)
       /\ Gives(u5, OfHost) /\ Gives(u5, own) /\ Gives(u5, {"set_matchmaking_info"})
       /\ Gives(u5, {"write_uint32"}) /\ ReadyFor(u5, OfHost, joins)
       /\ ReadyFor(u5, own, ads) /\ ReadyFor(u5, {"set_matchmaking_info"}, ads)
  BY <1>11, <1>17, Joined
<1> HIDE DEF u5
<1>19. /\ Row(u6) /\ OwnReady(u6) /\ HooksNone(u6, none)
       /\ Gives(u6, OfHost) /\ Gives(u6, own) /\ Gives(u6, {"set_matchmaking_info"})
       /\ Gives(u6, {"write_uint32"}) /\ ReadyFor(u6, OfHost, joins)
       /\ ReadyFor(u6, own, ads) /\ ReadyFor(u6, {"set_matchmaking_info"}, ads)
       /\ ReadyFor(u6, {"write_uint32"}, id)
  BY <1>14, <1>18, Joined, NoneReady
<1> HIDE DEF u6
<1>20. /\ Gives(u6, OfAds) /\ ReadyFor(u6, OfAds, ads) /\ ReadyFor(u6, {"ffotd_version", "playlist_version"}, ads)
  BY <1>9, <1>19, Unions
<1>21. \A A, B, C : ReadyFor(u6, A, B) /\ C \subseteq B => ReadyFor(u6, A, C)
  BY DEF ReadyFor
<1> QED
  BY <1>9, <1>10, <1>19, <1>20, <1>21 DEF none, id

\* What comes before the lobby's messages.
BeforeLobby == Demonware \o Oob \o Mspreload \o Callvote \o Presence

\* After the three of them the script is going ...
LEMMA LobbyGoing == Going(BeforeLobby \o Lobbymsg \o Matchmaking)
<1> DEFINE s == BeforeLobby
           u == s \o Lobbymsg
           v == u \o Matchmaking
           some == OfLobby \ {"array_start", "array_element"}
           others == Users \ {"handle_packet"}
<1>1. KeepsToItself(s)
  BY ComponentsKeep, OobKeeps, KeepsJoin DEF BeforeLobby
<1>2. /\ Row(s) /\ OwnReady(s) /\ HooksNone(s, Users) /\ HooksNone(s, Doors)
      /\ ReadyFor(s, {"cmd_argv"}, Served)
  BY <1>1, Unions DEF KeepsToItself
<1>3. /\ others \subseteq Users /\ {"handle_packet"} \subseteq Users /\ {"menu"} \subseteq others
      /\ OfHost \cup OfLobby \subseteq OfHost \cup OfLobby
      /\ \A x \in {"handle_join_request", "handle_member_info", "set_matchmaking_info",
                   "update_matchmaking_session", "session_id_serialize"} : {x} \subseteq others
  BY DEF Users
<1> HIDE DEF s
<1>4. /\ Row(Lobbymsg) /\ OwnReady(Lobbymsg) /\ Gives(Lobbymsg, OfLobby)
      /\ HooksNone(Lobbymsg, others) /\ HooksNone(Lobbymsg, Doors) /\ HooksNone(Lobbymsg, Served)
      /\ ReadyFor(Lobbymsg, some, {"handle_packet"})
  BY LobbyRow, Unions
<1> HIDE DEF some, others
<1>5. /\ Row(u) /\ OwnReady(u) /\ HooksNone(u, others) /\ HooksNone(u, Doors)
      /\ ReadyFor(u, {"cmd_argv"}, Served) /\ Gives(u, OfLobby)
  BY <1>2, <1>3, <1>4, Joined, NoneReady, Unions
<1>15. HooksNone(u, {"menu"})
  BY <1>3, <1>5, Unions
<1>6. ReadyFor(u, some, {"handle_packet"})
  BY <1>2, <1>3, <1>4, Joined, NoneReady, Unions
<1> HIDE DEF u
<1>7. \A A : \A x \in {"handle_join_request", "handle_member_info", "set_matchmaking_info",
                       "update_matchmaking_session", "session_id_serialize"} : ReadyFor(u, A, {x})
  BY <1>3, <1>5, NoneReady, Unions
<1>8. /\ Row(Matchmaking) /\ OwnReady(Matchmaking)
      /\ HooksNone(Matchmaking, {"handle_packet"}) /\ HooksNone(Matchmaking, Doors)
      /\ HooksNone(Matchmaking, Served) /\ HooksNone(Matchmaking, {"menu"})
  BY MatchmakingRow, Unions
<1>9. /\ Row(v) /\ OwnReady(v) /\ HooksNone(v, Doors) /\ ReadyFor(v, {"cmd_argv"}, Served)
      /\ Gives(v, OfLobby) /\ Gives(v, OfHost) /\ Gives(v, OfAds) /\ Gives(v, {"write_uint32"})
  BY <1>5, <1>8, MatchmakingRow, Joined, NoneReady
<1>10. ReadyFor(v, some, {"handle_packet"}) /\ HooksNone(v, {"menu"})
  BY <1>5, <1>6, <1>15, <1>8, Joined, NoneReady
<1>11. /\ ReadyFor(v, OfHost, {"handle_join_request"})
       /\ ReadyFor(v, OfHost, {"handle_member_info"}) /\ ReadyFor(v, OfLobby, {"handle_member_info"})
       /\ ReadyFor(v, {"ffotd_version", "playlist_version"}, {"set_matchmaking_info"})
       /\ ReadyFor(v, OfAds, {"update_matchmaking_session"})
       /\ ReadyFor(v, {"write_uint32"}, {"session_id_serialize"})
  BY <1>5, <1>7, <1>8, MatchmakingRow, Joined
<1> HIDE DEF v
<1>12. ReadyFor(v, OfHost \cup OfLobby, {"handle_member_info"})
       /\ Gives(v, OfLobby \cup OfHost \cup OfAds \cup {"write_uint32"})
  <2>1. Gives(v, OfLobby \cup OfHost) /\ Gives(v, OfAds \cup {"write_uint32"})
    BY <1>9, Unions
  <2>2. OfLobby \cup OfHost \cup OfAds \cup {"write_uint32"} \subseteq (OfLobby \cup OfHost) \cup (OfAds \cup {"write_uint32"})
    OBVIOUS
  <2> QED
    BY <1>11, <2>1, <2>2, Unions
<1>13. ScriptReady(v)
  BY <1>9, <1>10, <1>11, <1>12 DEF ScriptReady, some
<1>14. Going(v)
  BY <1>9, <1>12, <1>13 DEF Going
<1> QED
  BY <1>14 DEF s, u, v

\* What comes before the overlay.
BeforeOverlay ==
  BeforeLobby \o Lobbymsg \o Matchmaking
    \o Infoleak \o Inventory \o Markup \o Notetrack \o Paragon \o P2p \o Netchan \o Steamqol
    \o Hotkeys \o Workshop \o Servercmd \o Clientcmd \o Video \o Perf \o Lod \o Texstream
    \o Movement

\* ... and goes on until then.
LEMMA GoingToOverlay == Going(BeforeOverlay)
<1> DEFINE s1 == BeforeLobby \o Lobbymsg \o Matchmaking
           s2 == s1 \o Infoleak \o Inventory \o Markup \o Notetrack \o Paragon
           s3 == s2 \o P2p \o Netchan \o Steamqol \o Hotkeys \o Workshop \o Servercmd
           s4 == s3 \o Clientcmd \o Video \o Perf \o Lod \o Texstream \o Movement
<1>1. Going(s1)
  BY LobbyGoing
<1>2. s4 = BeforeOverlay
  BY DEF BeforeOverlay
<1> HIDE DEF s1
<1>3. Going(s2)
  BY <1>1, GoesOn, ComponentsKeep
<1> HIDE DEF s2
<1>4. Going(s3)
  BY <1>3, GoesOn, ComponentsKeep
<1> HIDE DEF s3
<1>5. Going(s4)
  BY <1>4, GoesOn, ComponentsKeep, ClientcmdKeeps
<1> QED
  BY <1>2, <1>5

\* A patched entry of a table.
LEMMA PatchedRow ==
  ASSUME NEW f
  PROVE  Row(PatchedVtable(f)) /\ OwnReady(PatchedVtable(f)) /\ \A B : f \notin B => HooksNone(PatchedVtable(f), B)
<1> DEFINE s == PatchedVtable(f)
<1>1. Row(s) /\ Len(s) = 2 /\ s[1] = Set(f) /\ s[2] = Hook(f)
  BY PairRow DEF PatchedVtable
<1> HIDE DEF s
<1>2. \A j \in 1 .. Len(s) : (j = 1 \/ j = 2) /\ 1 \in 1 .. j
  BY <1>1
<1>3. OwnReady(s)
  BY <1>1, <1>2 DEF OwnReady
<1>4. \A B : f \notin B => HooksNone(s, B)
  BY <1>1, <1>2 DEF HooksNone, Set, Hook
<1> QED
  BY <1>1, <1>3, <1>4 DEF s

\* What the browser sets, and of it what a listed host is found and probed with.
Browsing == {"g_lock", "allocate_structs", "search_session", "fetching_done", "signed_in",
             "session_get", "find_sessions", "send_join", "content_packs", "net_field_checksum",
             "register_sec", "common_to_netadr", "send_member_info", "netadr_to_common"}

LEMMA ServerlistRow ==
  /\ Row(Serverlist) /\ OwnReady(Serverlist)
  /\ HooksNone(Serverlist, Users \cup Served \cup {"present"})
  /\ ReadyFor(Serverlist, Browsing, {"find_sessions"})
<1> DEFINE none == Users \cup Served \cup {"present"}
           names == <<"g_lock", "allocate_structs", "search_session", "fetching_done", "signed_in",
                      "session_get", "find_sessions", "send_join", "content_packs", "net_field_checksum",
                      "register_sec", "common_to_netadr", "send_member_info", "netadr_to_common">>
           s == Sets(names)
           t == <<Hook("find_sessions")>>
           u == s \o t
<1>1. Row(names) /\ Browsing \subseteq Range(names)
  BY NamesRow DEF Browsing
<1>2. {"find_sessions"} \subseteq Browsing /\ "find_sessions" \notin none
  BY DEF Browsing, Users, Served
<1>3. Row(t) /\ \A j \in 1 .. Len(t) : t[j] = Hook("find_sessions")
  BY NamesRow
<1>4. u = Serverlist
  BY DEF Serverlist
<1> HIDE DEF none, names
<1>5. Row(s) /\ OwnReady(s) /\ Gives(s, Browsing) /\ \A B : HooksNone(s, B)
  BY <1>1, SetsRow
<1> HIDE DEF s, t, u
<1>6. HooksNone(t, none) /\ \A j \in 1 .. Len(t) : \E f \in Browsing : t[j] = Hook(f)
  BY <1>2, <1>3 DEF HooksNone, Hook
<1>7. OwnReady(u)
  BY <1>3, <1>5, <1>6, HookedLater DEF u
<1>8. Row(u) /\ HooksNone(u, none) /\ ReadyFor(u, Browsing, {"find_sessions"})
  BY <1>3, <1>5, <1>6, Joined, NoneReady DEF u
<1> QED
  BY <1>4, <1>7, <1>8 DEF none

\* What the frame sends with.
Sending == {"oob_print", "prep_write", "frame_send", "frame_send_addr", "channel_for",
            "package_float", "write_byte"}

LEMMA FirstFrameRow ==
  /\ Row(FirstFrame) /\ OwnReady(FirstFrame) /\ Gives(FirstFrame, Sending)
  /\ HooksNone(FirstFrame, Users \cup Doors \cup Served)
<1> DEFINE none == Users \cup Doors \cup Served
           both == {"key_event", "mouse_move"}
           n1 == <<"key_event", "mouse_move">>
           n3 == <<"oob_print", "prep_write", "frame_send", "frame_send_addr", "channel_for",
                   "package_float", "write_byte">>
           s1 == Sets(n1)
           s2 == <<Hook("key_event"), Hook("mouse_move")>>
           s3 == Sets(n3)
           u2 == s1 \o s2
           u3 == u2 \o s3
<1>1. Row(n1) /\ Row(n3) /\ both \subseteq Range(n1) /\ Sending \subseteq Range(n3)
  BY NamesRow DEF Sending
<1>2. both \cap none = {}
  BY DEF Users, Doors, Served
<1>3. Row(s2) /\ \A j \in 1 .. Len(s2) : \E f \in both : s2[j] = Hook(f)
  BY PairRow
<1>4. u3 = FirstFrame
  BY DEF FirstFrame
<1> HIDE DEF none, n1, n3
<1>5. /\ Row(s1) /\ OwnReady(s1) /\ Gives(s1, both) /\ (\A B : HooksNone(s1, B))
      /\ Row(s3) /\ OwnReady(s3) /\ Gives(s3, Sending) /\ (\A B : HooksNone(s3, B))
  BY <1>1, SetsRow
<1> HIDE DEF both, s1, s2, s3
<1>6. HooksNone(s2, none)
  <2>1. \A f, g : Hook(f) = Hook(g) => f = g
    BY DEF Hook
  <2> QED
    BY <1>2, <1>3, <2>1 DEF HooksNone
<1>7. OwnReady(u2) /\ Row(u2) /\ HooksNone(u2, none)
  BY <1>3, <1>5, <1>6, Joined, HookedLater
<1> HIDE DEF u2
<1>8. OwnReady(u3) /\ Row(u3) /\ HooksNone(u3, none) /\ Gives(u3, Sending)
  BY <1>5, <1>7, Joined
<1> HIDE DEF u3
<1> QED
  BY <1>4, <1>8 DEF none

\* The script as a whole.
LEMMA ScriptRow ==
  /\ Row(Script) /\ OwnReady(Script) /\ ScriptReady(Script)
  /\ ReadyFor(Script, OfLobby \cup OfHost \cup OfAds, Doors)
  /\ ReadyFor(Script, Browsing, {"find_sessions"})
<1> DEFINE first == OfLobby \cup OfHost \cup OfAds \cup {"write_uint32"}
           s == BeforeOverlay
           p == PatchedVtable("present")
           r == PatchedVtable("resize_buffers")
           d == PatchedVtable("dispatch_steam")
           none == Users \cup Served \cup {"find_sessions"}
           u1 == s \o Overlay
           u2 == u1 \o Serverlist
           u3 == u2 \o d
<1>1. u3 = Script
  BY DEF BeforeOverlay, BeforeLobby, Script, DemonwareTick
<1>2. /\ Row(s) /\ OwnReady(s) /\ ScriptReady(s) /\ Gives(s, first)
      /\ HooksNone(s, {"find_sessions"}) /\ HooksNone(s, {"present"})
  BY GoingToOverlay, Unions DEF Going, Doors
<1>3. Row(p) /\ Row(r) /\ Row(d) /\ OwnReady(p) /\ OwnReady(r) /\ OwnReady(d)
  BY PatchedRow
<1>4. HooksNone(p, none) /\ HooksNone(r, none) /\ HooksNone(d, none \cup {"present"})
  BY PatchedRow DEF Users, Served
<1>5. /\ Row(Overlay) /\ OwnReady(Overlay) /\ HooksNone(Overlay, none)
  BY <1>3, <1>4, Joined DEF Overlay
<1>6. /\ Row(Serverlist) /\ OwnReady(Serverlist) /\ ReadyFor(Serverlist, Browsing, {"find_sessions"})
      /\ HooksNone(Serverlist, Users \cup Served \cup {"present"})
  BY ServerlistRow
<1> HIDE DEF s, d
<1>7. \A A : A \subseteq Users \cup Served =>
        HooksNone(Overlay, A) /\ HooksNone(Serverlist, A) /\ HooksNone(d, A)
  BY <1>4, <1>5, <1>6, Unions
<1>8. \A A, B : ReadyFor(s, A, B) /\ B \subseteq Users \cup Served => ReadyFor(u3, A, B)
  BY <1>2, <1>3, <1>5, <1>6, <1>7, Joined, NoneReady
<1>9. Row(u3) /\ OwnReady(u3)
  BY <1>2, <1>3, <1>5, <1>6, Joined
<1>10. ReadyFor(u3, Browsing, {"find_sessions"})
  <2>1. HooksNone(Overlay, {"find_sessions"}) /\ HooksNone(d, {"find_sessions"})
    BY <1>4, <1>5, Unions
  <2> QED
    BY <1>2, <1>3, <1>5, <1>6, <2>1, Joined, NoneReady
<1>11. ReadyFor(u3, OfLobby \cup OfHost \cup OfAds, Doors)
  <2>1. ReadyFor(s, first, Doors)
    BY GoingToOverlay, NoneReady DEF Going, s
  <2>2. ReadyFor(u3, first, Doors)
    <3> HIDE DEF first
    <3> QED
    BY <1>2, <1>3, <1>5, <1>6, <2>1, Joined
  <2> QED
    BY <2>2 DEF ReadyFor
<1>12. ScriptReady(u3)
  <2>1. Served \subseteq Users \cup Served /\ \A x \in Users : {x} \subseteq Users \cup Served
    OBVIOUS
  <2>2. /\ "handle_packet" \in Users /\ "handle_join_request" \in Users /\ "handle_member_info" \in Users
        /\ "set_matchmaking_info" \in Users /\ "update_matchmaking_session" \in Users
        /\ "session_id_serialize" \in Users
    BY DEF Users
  <2>3. HooksNone(u3, {"menu"})
    <3>1. {"menu"} \subseteq Users \cup Served /\ HooksNone(s, {"menu"})
      BY <1>2 DEF Users, ScriptReady
    <3> QED
      BY <1>2, <1>3, <1>5, <1>6, <1>7, <3>1, Joined
  <2> HIDE DEF u3
  <2> QED
    BY <1>2, <1>8, <2>1, <2>2, <2>3 DEF ScriptReady
<1> QED
  BY <1>1, <1>9, <1>10, <1>11, <1>12

-----------------------------------------------------------------------------
(* StartUp: what is there when.                                             *)

LEMMA Lengths == Len(Script) \in Nat /\ Len(FirstFrame) \in Nat
BY ScriptRow, FirstFrameRow, RowIs

LEMMA SetIsPresent ==
  /\ \A i \in 1 .. done : \A a : Script[i] = Set(a) => a \in Present
  /\ \A i \in 1 .. frames : \A a : FirstFrame[i] = Set(a) => a \in Present
<1>1. \A a : Set(a).op = "set" /\ Set(a).what = a
  BY DEF Set
<1> QED
  BY <1>1 DEF Present, Performed

\* What is hooked has been hooked by a step, and what it is the hook of has been set.
LEMMA HookedBy ==
  ASSUME StartTypeOK, NEW f \in Hooked
  PROVE  /\ \/ \E j \in 1 .. done : j \in 1 .. Len(Script) /\ Script[j] = Hook(f)
            \/ \E j \in 1 .. frames : j \in 1 .. Len(FirstFrame) /\ FirstFrame[j] = Hook(f)
         /\ f \in Present
<1>1. /\ \A i \in 1 .. done : i \in 1 .. Len(Script) /\ \A j \in 1 .. i : j \in 1 .. done
      /\ \A i \in 1 .. frames : i \in 1 .. Len(FirstFrame) /\ \A j \in 1 .. i : j \in 1 .. frames
  BY Lengths DEF StartTypeOK
<1>2. \A x : Set(x).op = "set" /\ Hook(x).op = "hook" /\ Hook(x).what = x
  BY DEF Set, Hook
<1>3. PICK step \in Performed : step.op = "hook" /\ step.what = f
  BY DEF Hooked
<1>4. CASE \E j \in 1 .. done : step = Script[j]
  <2>1. PICK j \in 1 .. done : step = Script[j]
    BY <1>4
  <2>2. PICK g : Script[j] = Set(g) \/ (Script[j] = Hook(g) /\ \E i \in 1 .. j : Script[i] = Set(g))
    BY <1>1, ScriptRow DEF OwnReady
  <2>3. g = f /\ Script[j] = Hook(f) /\ \E i \in 1 .. done : Script[i] = Set(f)
    BY <1>1, <1>2, <1>3, <2>1, <2>2
  <2> QED
    BY <1>1, <2>3, SetIsPresent
<1>5. CASE \E j \in 1 .. frames : step = FirstFrame[j]
  <2>1. PICK j \in 1 .. frames : step = FirstFrame[j]
    BY <1>5
  <2>2. PICK g : FirstFrame[j] = Set(g) \/ (FirstFrame[j] = Hook(g) /\ \E i \in 1 .. j : FirstFrame[i] = Set(g))
    BY <1>1, FirstFrameRow DEF OwnReady
  <2>3. g = f /\ FirstFrame[j] = Hook(f) /\ \E i \in 1 .. frames : FirstFrame[i] = Set(f)
    BY <1>1, <1>2, <1>3, <2>1, <2>2
  <2> QED
    BY <1>1, <2>3, SetIsPresent
<1> QED
  BY <1>3, <1>4, <1>5 DEF Performed

\* What the script has set before it hooks a function is there once that runs.
LEMMA ReadyIsPresent ==
  ASSUME StartTypeOK, NEW A, NEW B, ReadyFor(Script, A, B), HooksNone(FirstFrame, B),
         NEW f \in B, f \in Hooked
  PROVE  A \subseteq Present
<1>1. PICK j \in 1 .. done : j \in 1 .. Len(Script) /\ Script[j] = Hook(f)
  BY HookedBy DEF HooksNone
<1>2. \A i \in 1 .. j : i \in 1 .. done
  BY Lengths DEF StartTypeOK
<1>3. \A a \in A : \E i \in 1 .. j : Script[i] = Set(a)
  BY <1>1 DEF ReadyFor
<1> QED
  BY <1>2, <1>3, SetIsPresent

-----------------------------------------------------------------------------
(* StartUp: the invariant.                                                  *)

\* The render thread has its script to do once the overlay is hooked; what lists hosts is
\* the menu, with the hook of the search.
StartIInv ==
  /\ StartTypeOK
  /\ frames > 0 => "present" \in Hooked
  /\ listed => frames = Len(FirstFrame) /\ "find_sessions" \in Hooked

LEMMA StartInitIInv == StartInit => StartIInv
<1> SUFFICES ASSUME StartInit PROVE StartIInv
  OBVIOUS
<1>1. done = 0 /\ frames = 0 /\ ~listed /\ listed \in BOOLEAN
  BY DEF StartInit
<1> QED
  BY <1>1, Lengths DEF StartIInv, StartTypeOK

LEMMA StartStepIInv ==
  ASSUME StartIInv, [StartNext]_startVars
  PROVE  StartIInv'
<1>1. done \in 0 .. Len(Script) /\ frames \in 0 .. Len(FirstFrame) /\ listed \in BOOLEAN
  BY DEF StartIInv, StartTypeOK
<1>2. "menu" \in Running => frames = Len(FirstFrame)
  <2>1. HooksNone(FirstFrame, {"menu"})
    BY FirstFrameRow, Unions DEF Users
  <2>2. HooksNone(Script, {"menu"})
    BY ScriptRow DEF ScriptReady
  <2>3. "menu" \notin Hooked
    BY <2>1, <2>2, HookedBy DEF HooksNone, StartIInv
  <2> QED
    BY <2>3 DEF Running
<1>3. CASE MainStep
  <2>1. \A i \in 1 .. done : i \in 1 .. done'
    BY <1>1, <1>3, Lengths DEF MainStep
  <2>2. Performed \subseteq Performed' /\ frames' = frames /\ listed' = listed
    BY <1>3, <2>1 DEF MainStep, Performed
  <2>3. Hooked \subseteq Hooked'
    BY <2>2 DEF Hooked
  <2>4. StartTypeOK'
    BY <1>1, <1>3, Lengths DEF MainStep, StartTypeOK
  <2> QED
    BY <2>2, <2>3, <2>4 DEF StartIInv
<1>4. CASE RenderStep
  <2>1. \A i \in 1 .. frames : i \in 1 .. frames'
    BY <1>1, <1>4, Lengths DEF RenderStep
  <2>2. Performed \subseteq Performed' /\ done' = done /\ listed' = listed
    BY <1>4, <2>1 DEF RenderStep, Performed
  <2>3. Hooked \subseteq Hooked' /\ "present" \in Hooked
    BY <1>4, <2>2 DEF Hooked, RenderStep
  <2>4. StartTypeOK' /\ frames # Len(FirstFrame)
    BY <1>1, <1>4, Lengths DEF RenderStep, StartTypeOK
  <2> QED
    BY <2>2, <2>3, <2>4 DEF StartIInv
<1>5. CASE Lists
  <2>1. /\ UNCHANGED <<done, frames>> /\ listed' = TRUE
        /\ frames = Len(FirstFrame) /\ "find_sessions" \in Hooked
    BY <1>2, <1>5 DEF Lists
  <2>2. Hooked' = Hooked
    BY <2>1 DEF Hooked, Performed
  <2> QED
    BY <1>1, <2>1, <2>2 DEF StartIInv, StartTypeOK
<1>6. CASE UNCHANGED startVars
  BY <1>6 DEF startVars, StartIInv, StartTypeOK, Hooked, Performed
<1> QED
  BY <1>3, <1>4, <1>5, <1>6 DEF StartNext

\* In such a state every pointer that is used is there.
LEMMA StartIInvSet == StartIInv => UsesSet
<1> SUFFICES ASSUME StartIInv, NEW f \in Running, NEW u \in Uses(f), Tested(u)
             PROVE  u.what \in Present \/ <<f, u.what>> \in Late
  BY DEF UsesSet
<1>1. StartTypeOK /\ (listed => "find_sessions" \in Hooked)
  BY DEF StartIInv
<1>2. \A names : \A x \in All(names) : x.what \in names
  BY DEF All, Use
<1>3. \A names, given : \A x \in AllGiven(names, given) : x.what \in names /\ x.given = given
  BY DEF AllGiven, UseGiven
<1>4. /\ HooksNone(FirstFrame, Users) /\ HooksNone(FirstFrame, Served) /\ HooksNone(FirstFrame, Doors)
      /\ HooksNone(FirstFrame, {"find_sessions"}) /\ HooksNone(FirstFrame, {"menu"})
      /\ \A x \in Users : HooksNone(FirstFrame, {x})
  BY FirstFrameRow, Unions DEF Users, Doors
<1>5. ScriptReady(Script) /\ HooksNone(Script, {"menu"})
  BY ScriptRow DEF ScriptReady
<1>6. "menu" \notin Hooked
  BY <1>1, <1>4, <1>5, HookedBy DEF HooksNone
<1>7. listed => Browsing \subseteq Present
  BY <1>1, <1>4, ScriptRow, ReadyIsPresent
<1>8. "present" \in Hooked => OfLobby \cup OfHost \cup OfAds \subseteq Present
  BY <1>1, <1>4, ScriptRow, ReadyIsPresent DEF Doors
<1>9. listed => OfLobby \cup OfHost \cup OfAds \subseteq Present
  BY <1>1, <1>4, ScriptRow, ReadyIsPresent DEF Doors
<1>10. f \in Hooked => f \in Present
  BY <1>1, HookedBy
<1> DEFINE rest ==
             CASE f = "handle_packet"              -> OfHandlePacket
               [] f = "handle_join_request"        -> OfJoinRequest
               [] f = "handle_member_info"         -> OfMemberInfo
               [] f = "set_matchmaking_info"       -> OfMatchmakingInfo
               [] f = "update_matchmaking_session" -> OfUpdateSession
               [] f = "session_id_serialize"       -> All({"write_uint32"})
               [] f \in {"client_command", "client_mrp"} -> All({"cmd_argv"})
               [] f = "menu"                       -> OfMenu
               [] OTHER                            -> {}
<1>11. u \in All({f} \ {"menu"}) \/ u \in rest
  BY DEF Uses
<1>12. CASE u \in All({f} \ {"menu"})
  BY <1>2, <1>10, <1>12 DEF Running
<1>13. \A A, x : x \in Users /\ x \in Hooked /\ ReadyFor(Script, A, {x}) => A \subseteq Present
  BY <1>1, <1>4, ReadyIsPresent
<1>14. /\ "handle_packet" \in Users /\ "handle_join_request" \in Users /\ "handle_member_info" \in Users
       /\ "set_matchmaking_info" \in Users /\ "update_matchmaking_session" \in Users
       /\ "session_id_serialize" \in Users
  BY DEF Users
<1>15. CASE u \in rest /\ f = "handle_packet"
  <2>1. f \in Hooked /\ u \in OfHandlePacket
    BY <1>15 DEF Running
  <2>2. OfLobby \ {"array_start", "array_element"} \subseteq Present
    BY <1>5, <1>13, <1>14, <1>15, <2>1 DEF ScriptReady
  <2>3. CASE u \in AllGiven({"global_channel"}, {"listed", "send_member_info", "session_get"})
    <3>1. listed /\ u.what = "global_channel"
      BY <1>3, <2>3 DEF Tested
    <3> QED
      BY <1>9, <3>1 DEF OfHost
  <2>4. CASE u \in All({"prep_read", "type_name", "package_int", "package_xuid", "package_uint",
         "package_uchar", "package_ushort", "package_data", "package_string", "package_uint64",
         "g_lock"})
    <3>1. u.what = "g_lock" \/ u.what \in OfLobby \ {"array_start", "array_element"}
      BY <1>2, <2>4 DEF OfLobby
    <3> QED
      BY <1>15, <2>2, <3>1 DEF Late
  <2> QED
    BY <2>1, <2>3, <2>4 DEF OfHandlePacket
<1>16. CASE u \in rest /\ f = "handle_join_request"
  <2>1. f \in Hooked /\ u.what \in OfHost
    BY <1>2, <1>16 DEF Running, OfJoinRequest, OfHost
  <2> QED
    BY <1>5, <1>13, <1>14, <1>16, <2>1 DEF ScriptReady
<1>17. CASE u \in rest /\ f = "handle_member_info"
  <2>1. f \in Hooked /\ u.what \in OfHost \cup OfLobby
    <3>1. f \in Hooked /\ u \in OfMemberInfo
      BY <1>17 DEF Running
    <3> QED
      BY <1>2, <3>1 DEF OfMemberInfo, OfHost, OfLobby
  <2> QED
    BY <1>5, <1>13, <1>14, <1>17, <2>1 DEF ScriptReady
<1>18. CASE u \in rest /\ f = "set_matchmaking_info"
  <2>1. f \in Hooked /\ u.what \in {"ffotd_version", "playlist_version"} \cup {f}
    <3>1. f \in Hooked /\ u \in OfMatchmakingInfo
      BY <1>18 DEF Running
    <3> QED
      BY <1>2, <1>18, <3>1 DEF OfMatchmakingInfo
  <2> QED
    BY <1>5, <1>10, <1>13, <1>14, <1>18, <2>1 DEF ScriptReady
<1>19. CASE u \in rest /\ f = "update_matchmaking_session"
  <2>1. f \in Hooked /\ u.what \in OfAds
    <3>1. f \in Hooked /\ u \in OfUpdateSession
      BY <1>19 DEF Running
    <3> QED
      BY <1>2, <3>1 DEF OfMatchmakingInfo, OfUpdateSession, OfAds
  <2> QED
    BY <1>5, <1>13, <1>14, <1>19, <2>1 DEF ScriptReady
<1>20. CASE u \in rest /\ f = "session_id_serialize"
  <2>1. f \in Hooked /\ u.what \in {"write_uint32"}
    BY <1>2, <1>20 DEF Running
  <2> QED
    BY <1>5, <1>13, <1>14, <1>20, <2>1 DEF ScriptReady
<1>21. CASE u \in rest /\ f \in Served
  <2>1. f \in Hooked /\ u.what \in {"cmd_argv"}
    BY <1>2, <1>21 DEF Running, Served
  <2>2. {"cmd_argv"} \subseteq Present
    BY <1>1, <1>4, <1>5, <1>21, <2>1, ReadyIsPresent DEF ScriptReady
  <2> QED
    BY <2>1, <2>2
<1>22. CASE u \in rest /\ f = "menu"
  <2>1. u \in OfMenu /\ frames = Len(FirstFrame)
    BY <1>6, <1>22 DEF Running
  <2>2. Sending \subseteq Present /\ "present" \in Hooked
    <3>1. \A a \in Sending : \E i \in 1 .. frames : FirstFrame[i] = Set(a)
      BY <2>1, FirstFrameRow DEF Gives
    <3>2. "write_byte" \in Sending
      BY DEF Sending
    <3>3. frames > 0
      BY <3>1, <3>2, <2>1, Lengths
    <3> QED
      BY <3>1, <3>3, SetIsPresent DEF StartIInv
  <2>3. CASE u \in AllGiven({"signed_in", "session_get", "g_lock"}, {"search_session", "fetching_done"})
    BY <1>3, <1>22, <2>3 DEF Late
  <2>4. CASE u \in OfProbe
    <3>1. listed /\ u.what \in Browsing \cup OfHost \cup OfAds
      BY <1>3, <2>4 DEF OfProbe, Tested, Browsing, OfHost, OfAds
    <3> QED
      BY <1>7, <1>9, <3>1
  <2>5. CASE u \in All({"g_lock"})
    BY <1>2, <1>22, <2>5 DEF Late
  <2>6. CASE u \in AllGiven({"create_session"}, {"host_session"})
    <3>1. u.what \in OfAds
      BY <1>3, <2>6 DEF OfAds
    <3> QED
      BY <1>8, <2>2, <3>1
  <2>7. CASE u \in All({"oob_print", "prep_write", "frame_send", "frame_send_addr", "channel_for",
              "package_float", "write_byte", "package_int", "package_xuid", "package_short",
              "package_uint", "package_uint64", "package_uchar", "package_bool",
              "package_string", "array_start", "array_element"})
    <3>1. u.what \in Sending \cup OfLobby
      BY <1>2, <2>7 DEF Sending, OfLobby
    <3> QED
      BY <1>8, <2>2, <3>1
  <2> QED
    BY <2>1, <2>3, <2>4, <2>5, <2>6, <2>7 DEF OfMenu
<1> QED
  <2>1. \/ f \in {"handle_packet", "handle_join_request", "handle_member_info", "set_matchmaking_info",
                  "update_matchmaking_session", "session_id_serialize", "menu"} \cup Served
        \/ rest = {}
    BY DEF Served
  <2> HIDE DEF rest
  <2> QED
    BY <1>11, <1>12, <1>15, <1>16, <1>17, <1>18, <1>19, <1>20, <1>21, <1>22, <2>1

\* Whatever thread runs through a hook at any time during start-up, every pointer that the
\* detour uses has been set, but for the four that come too late.
THEOREM PointersAreThere == MainSpec => []UsesSet
<1>1. MainInit => StartIInv
  BY StartInitIInv DEF MainInit
<1>2. StartIInv /\ [MainNext]_mainVars => StartIInv'
  BY StartStepIInv DEF MainNext, mainVars, startVars
<1> QED
  BY <1>1, <1>2, StartIInvSet, PTL DEF MainSpec
=============================================================================
