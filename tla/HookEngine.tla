------------------------------- MODULE HookEngine -------------------------------
(***************************************************************************)
(* attach() of utils/hook while the game's threads go through the          *)
(* functions it patches.                                                   *)
(*                                                                         *)
(* A function is a row of instructions, of which attach moves the first    *)
(* ones to a trampoline to make room for a jump to the detour. The detour  *)
(* calls the game through *original, which is the function until attach    *)
(* is done and the trampoline from then on. The two copies that install    *)
(* the jump are no single step: a thread may come by in between, or stand  *)
(* on an instruction that is being overwritten.                            *)
(*                                                                         *)
(* The records attach keeps are left out: only detach, which nothing       *)
(* calls, would look at them. So is what a detour does besides calling the *)
(* game. Functions are taken not to jump back into their first             *)
(* instructions, which attach does not look for.                           *)
(***************************************************************************)
EXTENDS Integers, Sequences, FiniteSets

CONSTANTS
  Functions,   \* functions of the game that are to be hooked
  Code,        \* for each the lengths and kinds of its instructions
  JumpBytes,   \* length of the jump, 14 bytes
  MostBytes,   \* how many bytes are moved at most, 24
  Threads,     \* the game's threads
  MostDetours, \* bound: how often a call may enter the detour
  NoFunction   \* no call

\* "relative" instructions name an address relative to their own in four bytes, "short"
\* ones in one byte; "odd" ones the length disassembler does not know.
Kinds == {"plain", "relative", "short", "odd"}

ASSUME CodeAssumption ==
  /\ Code \in [Functions -> Seq([length : Nat \ {0}, kind : Kinds])]
  /\ JumpBytes \in Nat \ {0} /\ MostBytes \in Nat /\ MostDetours \in Nat \ {0}
  /\ NoFunction \notin Functions

VARIABLES
  stage,     \* how far attach is with each function
  original,  \* for each function what its detour calls
  call       \* for each thread the call it is in

hookVars == <<stage, original, call>>

Instructions(f) == 1 .. Len(Code[f])

\* Where instruction n begins, from the beginning of the function.
Offset(f, n) == LET at[k \in Nat] == IF k <= 1 THEN 0 ELSE at[k - 1] + Code[f][k - 1].length
                IN at[n]

End(f, n) == Offset(f, n) + Code[f][n].length

\* Mutant: a byte too few.
MovedShort(f) == {n \in Instructions(f) : Offset(f, n) < JumpBytes - 1}

\* attach: the instructions to move, as many as it takes to have room for the jump.
Moved(f) == {n \in Instructions(f) : Offset(f, n) < JumpBytes}

NoCall == [f |-> NoFunction, at |-> "nowhere", n |-> 0, ran |-> <<>>, detours |-> 0, fresh |-> FALSE]
Stages == {"not", "ready", "copying", "jump", "hooked", "failed"}
Places == {"nowhere", "game", "trampoline", "detour", "done", "lost"}

HookTypeOK ==
  /\ stage \in [Functions -> Stages]
  /\ original \in [Functions -> {"game", "trampoline"}]
  /\ call \in [Threads -> [f : Functions \cup {NoFunction}, at : Places, n : Nat,
                           ran : Seq(Nat), detours : 0 .. MostDetours, fresh : BOOLEAN]]

HookInit ==
  /\ stage = [f \in Functions |-> "not"]
  /\ original = [f \in Functions |-> "game"]
  /\ call = [t \in Threads |-> NoCall]

\* What follows a short function in memory counts as a part of it.
ASSUME LengthAssumption == \A f \in Functions : Len(Code[f]) > 0 /\ End(f, Len(Code[f])) >= JumpBytes

-----------------------------------------------------------------------------
(* attach.                                                                  *)

\* It is taken apart as far as needed, is not too long, and nothing in it is relative in
\* one byte.
Movable(f) ==
  /\ \A n \in Moved(f) : Code[f][n].kind \notin {"odd", "short"}
  /\ \A n \in Moved(f) : End(f, n) <= MostBytes

\* alloc_near: a trampoline within reach, or far away when there is none left near by, to
\* which nothing relative can be moved; or none at all.
Memory == {"near", "far", "none"}

Relocated(f, memory) ==
  \/ memory = "near"
  \/ memory = "far" /\ \A n \in Moved(f) : Code[f][n].kind # "relative"

\* Everything up to the trampoline, which nobody knows yet.
Prepare(f) ==
  /\ stage[f] = "not"
  /\ \E memory \in Memory :
       stage' = [stage EXCEPT ![f] = IF Movable(f) /\ Relocated(f, memory) THEN "ready" ELSE "failed"]
  /\ UNCHANGED <<original, call>>

\* The code cannot be made writable.
Unwritable(f) ==
  /\ stage[f] = "ready"
  /\ stage' = [stage EXCEPT ![f] = "failed"]
  /\ UNCHANGED <<original, call>>

\* The jump and what fills the rest, some bytes first and then all of them.
CopySome(f) ==
  /\ stage[f] = "ready"
  /\ stage' = [stage EXCEPT ![f] = "copying"]
  /\ UNCHANGED <<original, call>>

CopyRest(f) ==
  /\ stage[f] = "copying"
  /\ stage' = [stage EXCEPT ![f] = "jump"]
  /\ UNCHANGED <<original, call>>

\* *original = tramp, and only then attach returns.
Finish(f) ==
  /\ stage[f] = "jump"
  /\ stage' = [stage EXCEPT ![f] = "hooked"]
  /\ original' = [original EXCEPT ![f] = "trampoline"]
  /\ UNCHANGED call

-----------------------------------------------------------------------------
(* Calls.                                                                   *)

Calls(t, c) == call' = [call EXCEPT ![t] = c] /\ UNCHANGED <<stage, original>>

Begin(t, f) ==
  /\ call[t].at \in {"nowhere", "done", "lost"}
  /\ Calls(t, [NoCall EXCEPT !.f = f, !.at = "game", !.n = 1,
                             !.fresh = stage[f] \in {"hooked", "failed"}])

\* The bytes of instruction n are no longer its own, or are about to change.
Overwritten(f, n) ==
  /\ stage[f] \in {"copying", "jump", "hooked"}
  /\ n \in Moved(f) \/ Offset(f, n) < JumpBytes

\* One instruction further: the function ends with its last, the trampoline with a jump
\* behind what was moved.
Ran(c) ==
  LET next == IF c.at = "trampoline" /\ c.n + 1 \notin Moved(c.f) THEN "game" ELSE c.at IN
  IF c.n = Len(Code[c.f])
  THEN [c EXCEPT !.at = "done", !.n = 0, !.ran = Append(@, c.n)]
  ELSE [c EXCEPT !.at = next, !.n = @ + 1, !.ran = Append(@, c.n)]

Run(t) ==
  LET c == call[t] IN
  /\ c.at = "trampoline" \/ (c.at = "game" /\ ~Overwritten(c.f, c.n))
  /\ Calls(t, Ran(c))

EnterDetour(c) ==
  IF c.detours < MostDetours THEN [c EXCEPT !.at = "detour", !.n = 0, !.detours = @ + 1]
  ELSE [c EXCEPT !.at = "lost"]

\* At the first byte there is a jump, once it is there in full. A detour entered over and
\* over again has no stack left in the end.
RunJump(t) ==
  LET c == call[t] IN
  /\ c.at = "game" /\ c.n = 1 /\ stage[c.f] \in {"jump", "hooked"}
  /\ Calls(t, EnterDetour(c))

\* Half a jump may be anything: the old instruction, the jump, or nonsense.
RunHalf(t) ==
  LET c == call[t] IN
  /\ c.at = "game" /\ Overwritten(c.f, c.n) /\ stage[c.f] = "copying"
  /\ \/ Calls(t, Ran(c))
     \/ c.n = 1 /\ Calls(t, EnterDetour(c))
     \/ Calls(t, [c EXCEPT !.at = "lost"])

\* In the middle of the jump or on the bytes that fill up behind it.
RunRubble(t) ==
  LET c == call[t] IN
  /\ c.at = "game" /\ c.n > 1 /\ Overwritten(c.f, c.n) /\ stage[c.f] \in {"jump", "hooked"}
  /\ Calls(t, [c EXCEPT !.at = "lost"])

\* The detour calls *original.
CallOriginal(t) ==
  LET c == call[t] IN
  /\ c.at = "detour"
  /\ Calls(t, [c EXCEPT !.at = original[c.f], !.n = 1, !.ran = <<>>])

HookNext ==
  \/ \E f \in Functions : Prepare(f) \/ Unwritable(f) \/ CopySome(f) \/ CopyRest(f) \/ Finish(f)
  \/ \E t \in Threads :
       \/ \E f \in Functions : Begin(t, f)
       \/ Run(t) \/ RunJump(t) \/ RunHalf(t) \/ RunRubble(t) \/ CallOriginal(t)

-----------------------------------------------------------------------------
(* Properties.                                                              *)

\* A call that comes to its end has run the game's instructions once and in their order,
\* whatever attach did meanwhile. One begun after attach was done comes through, by way
\* of the detour once if attach succeeded and not at all if it failed; and attach gets no
\* thread lost in a function it leaves alone. Calls begun before may be lost: that is the
\* price of patching code that is running.
CallsWhole ==
  \A t \in Threads :
    LET c == call[t] IN
    /\ c.at = "done" => /\ c.ran = [i \in Instructions(c.f) |-> i]
                        /\ c.fresh => c.detours = IF stage[c.f] = "hooked" THEN 1 ELSE 0
    /\ c.at = "lost" => ~c.fresh /\ stage[c.f] # "failed"
=============================================================================
