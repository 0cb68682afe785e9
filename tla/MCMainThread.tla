------------------------------ MODULE MCMainThread ------------------------------
(* Four functions: one that is moved with an instruction relative to its place and ends *)
(* an instruction a byte before the jump does, one with a short jump, one the length    *)
(* disassembler does not know, and one whose first instructions are too long.           *)
EXTENDS MainThread

CONSTANTS relative, short, odd, long

I(length, kind) == [length |-> length, kind |-> kind]

MCCode ==
  [f \in Functions |->
     CASE f = relative -> <<I(5, "plain"), I(8, "relative"), I(3, "plain"), I(4, "plain")>>
       [] f = short    -> <<I(9, "plain"), I(2, "short"), I(5, "plain")>>
       [] f = odd      -> <<I(5, "odd"), I(9, "plain")>>
       [] f = long     -> <<I(13, "plain"), I(12, "plain")>>]
=============================================================================
