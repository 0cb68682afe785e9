------------------------------- MODULE Overlay -------------------------------
(***************************************************************************)
(* The overlay (features/overlay): the notices any thread may post, the    *)
(* render thread that shows them from the hooked Present, and the render   *)
(* target it draws on while the game resizes its buffers.                  *)
(*                                                                         *)
(* Each posting thread, the main thread that installs the hooks and the    *)
(* render thread interleave. notify() and the sweep of draw_toasts() hold  *)
(* g_mutex throughout, so each is one step; what they read before taking   *)
(* it is a step of its own. Present and ResizeBuffers are called by the    *)
(* same thread, one after the other.                                       *)
(*                                                                         *)
(* Times are kept relative to the present: a toast's spawn as its age, the *)
(* time draw_toasts() read as how long ago that was. Colours, positions    *)
(* and fades are left out.                                                 *)
(***************************************************************************)
EXTENDS Naturals, FiniteSets, SequencesExt

CONSTANTS
  Threads,     \* the threads that post notices
  Texts,       \* the notices
  NoText,      \* a thread that is not posting
  MaxToasts,   \* max_toasts
  Lifetime,    \* toast_lifetime, in clock ticks
  MaxLag       \* clock ticks between draw_toasts reading the clock and its sweep

ASSUME NoTextAssumption == NoText \notin Texts
ASSUME SizeAssumption == /\ MaxToasts \in Nat \ {0} /\ Lifetime \in Nat \ {0}
                         /\ MaxLag \in Nat

VARIABLES
  enabled,    \* engine::notifications_enabled
  posting,    \* the notice each thread waits for the mutex with
  toasts,     \* g_toasts
  hooks,      \* the vtable entries patched so far
  device,     \* what became of the device and the renderer
  target,     \* g_rtv, and whether the buffer behind it still is the game's
  held,       \* our reference on the buffer is not released
  frame,      \* where render() is
  lag,        \* how long ago draw_toasts read the clock
  snapshot,   \* the toasts it draws
  unshown,    \* history: the notices posted that no frame has shown yet
  due         \* history: the notices that were up and in time when the frame read the
              \* clock, and were neither posted again nor pushed out since

vars == <<enabled, posting, toasts, hooks, device, target, held, frame, lag,
          snapshot, unshown, due>>

noticeVars == <<enabled, posting, toasts, unshown>>
targetVars == <<hooks, device, target, held>>
frameVars  == <<frame, lag, snapshot, due>>

MaxAge == Lifetime + MaxLag

Toast == [text: Texts, age: 0..MaxAge]

Init ==
  /\ enabled = TRUE
  /\ posting = [t \in Threads |-> NoText]
  /\ toasts = << >>
  /\ hooks = {}
  /\ device = "none" /\ target = "none" /\ held = FALSE
  /\ frame = "idle" /\ lag = 0 /\ snapshot = << >>
  /\ unshown = {} /\ due = {}

-----------------------------------------------------------------------------
(* notify *)

ToggleNotifications ==
  /\ enabled' = ~enabled
  /\ UNCHANGED <<posting, toasts, unshown, targetVars, frameVars>>

\* The setting is read before the mutex is taken.
NotifyEnters(t, x) ==
  /\ posting[t] = NoText
  /\ enabled
  /\ posting' = [posting EXCEPT ![t] = x]
  /\ UNCHANGED <<enabled, toasts, unshown, targetVars, frameVars>>

Shows(list, x) == \E i \in DOMAIN list : list[i].text = x

\* Mutant: every toast starts anew, whatever its text.
RenewedAll(list, x) == [i \in DOMAIN list |-> [list[i] EXCEPT !.age = 0]]

Renewed(list, x) ==
  [i \in DOMAIN list |-> IF list[i].text = x THEN [list[i] EXCEPT !.age = 0] ELSE list[i]]

\* Mutant: the toasts are compared with the text before the mutex is taken, when
\* none of them has it.
NoticedUnseen(list, x) ==
  LET longer == <<[text |-> x, age |-> 0]>> \o list
  IN IF Len(longer) > MaxToasts THEN Front(longer) ELSE longer

\* A notice that is up already starts anew where it stands; a new one goes in
\* front, and the one at the back goes when there are too many.
Noticed(list, x) ==
  IF Shows(list, x) THEN Renewed(list, x)
  ELSE LET longer == <<[text |-> x, age |-> 0]>> \o list
       IN IF Len(longer) > MaxToasts THEN Front(longer) ELSE longer

NotifyPosts(t) ==
  /\ posting[t] # NoText
  /\ toasts' = Noticed(toasts, posting[t])
  /\ unshown' = {x \in unshown \cup {posting[t]} : Shows(toasts', x)}
  /\ due' = {x \in due \ {posting[t]} : Shows(toasts', x)}
  /\ posting' = [posting EXCEPT ![t] = NoText]
  /\ UNCHANGED <<enabled, targetVars, frame, lag, snapshot>>

-----------------------------------------------------------------------------
(* The main thread: initialize *)

\* patch_vtable, entry 8: from here on frames are ours.
HookPresent ==
  /\ hooks = {}
  /\ hooks' = {"present"}
  /\ UNCHANGED <<noticeVars, device, target, held, frameVars>>

\* patch_vtable, entry 13; the game may have presented, or resized, in between.
HookResize ==
  /\ hooks = {"present"}
  /\ hooks' = {"present", "resize"}
  /\ UNCHANGED <<noticeVars, device, target, held, frameVars>>

-----------------------------------------------------------------------------
(* The render thread *)

\* The first frame makes the renderer. Without a device the next frame tries
\* again; a renderer that does not come up is not tried again.
FirstFrame(outcome) ==
  /\ frame = "idle" /\ "present" \in hooks
  /\ device = "none"
  /\ device' = outcome
  /\ UNCHANGED <<noticeVars, hooks, target, held, frameVars>>

\* ensure_target makes a target when there is none.
EnsureTarget ==
  /\ frame = "idle" /\ "present" \in hooks
  /\ device = "ready"
  /\ IF target = "none" THEN target' = "current" /\ held' = TRUE
                        ELSE UNCHANGED <<target, held>>
  /\ frame' = "target"
  /\ UNCHANGED <<noticeVars, hooks, device, lag, snapshot, due>>

\* draw_toasts reads the clock ...
ReadClock ==
  /\ frame = "target"
  /\ frame' = "clock" /\ lag' = 0
  /\ due' = {x \in Texts : \E i \in DOMAIN toasts :
                             toasts[i].text = x /\ toasts[i].age < Lifetime}
  /\ UNCHANGED <<noticeVars, targetVars, snapshot>>

\* Mutant: the clock is read again for the comparison.
ExpiredByNow(toast) == toast.age >= Lifetime

\* now - spawn >= lifetime, in unsigned arithmetic: a toast younger than the time
\* that was read counts as one of the oldest age there is.
Expired(toast) == toast.age < lag \/ toast.age - lag >= Lifetime

\* Mutant: the index moves on after an erase as well.
SweptSkipping ==
  {i \in DOMAIN toasts : ~Expired(toasts[i]) \/ (i > 1 /\ Expired(toasts[i - 1]))}

Swept == {i \in DOMAIN toasts : ~Expired(toasts[i])}

\* ... and then takes the mutex, drops what has expired and copies the rest.
Sweep ==
  /\ frame = "clock"
  /\ toasts' = [k \in 1..Cardinality(Swept) |->
                  toasts[CHOOSE i \in Swept : Cardinality({j \in Swept : j <= i}) = k]]
  /\ snapshot' = [k \in DOMAIN toasts' |-> [toasts'[k] EXCEPT !.age = @ - lag]]
  /\ unshown' = {} /\ due' = {}
  /\ frame' = "draw"
  /\ UNCHANGED <<enabled, posting, targetVars, lag>>

\* The toasts and the menu are drawn; the game's Present returns.
Present ==
  /\ frame = "draw"
  /\ frame' = "idle" /\ lag' = 0 /\ snapshot' = << >>
  /\ UNCHANGED <<noticeVars, targetVars, due>>

\* Mutant: the target is released and not forgotten.
ReleasedOnly == target

\* hk_resize_buffers leaves no target.
Released == "none"

\* The game's ResizeBuffers (external) fails while anyone holds a reference on a
\* buffer; otherwise the buffers behind a target that was kept are gone.
AfterResize(t, h) == IF h \/ t = "none" THEN t ELSE "dangling"

Resize ==
  /\ frame = "idle"
  /\ \/ /\ "resize" \in hooks
        /\ held' = FALSE
        /\ target' = AfterResize(Released, FALSE)
     \/ /\ "resize" \notin hooks
        /\ held' = held
        /\ target' = AfterResize(target, held)
  /\ UNCHANGED <<noticeVars, hooks, device, frameVars>>

-----------------------------------------------------------------------------

Older(list) ==
  [i \in DOMAIN list |->
     [list[i] EXCEPT !.age = IF @ < MaxAge THEN @ + 1 ELSE @]]

\* The clock (15.6 ms a tick) moves on, at most MaxLag times between draw_toasts
\* reading it and sweeping.
TimePasses ==
  /\ frame = "clock" => lag < MaxLag
  /\ toasts' = Older(toasts)
  /\ lag' = IF frame = "clock" THEN lag + 1 ELSE lag
  /\ UNCHANGED <<enabled, posting, unshown, targetVars, frame, snapshot, due>>

Next ==
  \/ ToggleNotifications
  \/ \E t \in Threads : NotifyPosts(t) \/ \E x \in Texts : NotifyEnters(t, x)
  \/ HookPresent \/ HookResize
  \/ \E outcome \in {"failed", "ready"} : FirstFrame(outcome)
  \/ EnsureTarget \/ ReadClock \/ Sweep \/ Present \/ Resize
  \/ TimePasses

Spec == Init /\ [][Next]_vars

\* Time passes; whether frames are drawn is up to the game.
LiveSpec == Spec /\ WF_vars(TimePasses)

-----------------------------------------------------------------------------
(* Properties *)

\* The type of the state; there are never more toasts than max_toasts.
TypeOK ==
  /\ enabled \in BOOLEAN
  /\ posting \in [Threads -> Texts \cup {NoText}]
  /\ toasts \in Seq(Toast) /\ Len(toasts) <= MaxToasts
  /\ snapshot \in Seq(Toast)
  /\ hooks \in {{}, {"present"}, {"present", "resize"}}
  /\ device \in {"none", "failed", "ready"}
  /\ target \in {"none", "current", "dangling"}
  /\ held \in BOOLEAN
  /\ frame \in {"idle", "target", "clock", "draw"}
  /\ lag \in 0..MaxLag
  /\ unshown \subseteq Texts /\ due \subseteq Texts

\* A notice is up once at most, whichever threads post it at the same time and
\* wherever in the list it already stands.
DistinctTexts ==
  \A i, j \in DOMAIN toasts : toasts[i].text = toasts[j].text => i = j

\* What a frame draws is within its lifetime by the clock the frame has read, so
\* that the fades are computed of ages they are defined for.
DrawnInTime == \A i \in DOMAIN snapshot : snapshot[i].age < Lifetime

\* A frame is only ever drawn on a target of the buffers the game has now, even if
\* the first frames and resizes come between the two hooks.
LiveTarget == frame # "idle" => target = "current"

\* A notice that nobody posts any more goes away for good if frames keep being
\* drawn, however many other notices keep coming.
Expires ==
  \A x \in Texts :
    (<>[](\A t \in Threads : posting[t] # x) /\ []<>(frame = "idle") /\ []<>(frame = "draw"))
      => <>[]~Shows(toasts, x)

\* A notice that is up and in time when a frame reads the clock is on that frame unless
\* a thread posts it again, or newer ones push it out, before draw_toasts has the lock:
\* time that passes meanwhile does not cost it its place, nor do other threads' notices.
\* (One that is posted again may be lost: see NoticeShown.)
DueShown ==
  [][frame = "clock" /\ frame' = "draw" => \A x \in due : Shows(snapshot', x)]_vars

\* README "When a guard blocks something, a small toast pops up on screen so you
\* know it happened": a notice that is up, that no frame has shown yet and whose
\* lifetime is not over is on the frame that sweeps next.
NoticeShown ==
  [][frame = "clock" /\ frame' = "draw" =>
       \A i \in DOMAIN toasts :
         toasts[i].text \in unshown /\ toasts[i].age < Lifetime
           => Shows(snapshot', toasts[i].text)]_vars

=============================================================================
