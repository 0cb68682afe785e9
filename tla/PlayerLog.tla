------------------------------ MODULE PlayerLog ------------------------------
(***************************************************************************)
(* What the list of recently seen players promises, without its order, its *)
(* addresses or the walk through the lobby: how long ago each player was   *)
(* seen. A player is forgotten for one reason while the game runs, that    *)
(* somebody new is met and the log is full, and it is then one of those    *)
(* seen longest ago. A crash brings back what was saved, no later and no   *)
(* earlier than it was seen; but how long ago is lost of the players whose *)
(* name has the separator of the file in it. Recents implements it.        *)
(***************************************************************************)
EXTENDS Naturals, FiniteSets

CONSTANTS Players, Piped, MaxEntries, MaxAge

VARIABLES
  seen,     \* how long ago each player was seen, 0 to MaxAge, or Never
  saved     \* the same, as it is on disk

Never == MaxAge + 1

Known(log) == {p \in Players : log[p] # Never}

Blank == [p \in Players |-> Never]

Older(log) == [p \in Players |-> IF log[p] < MaxAge THEN log[p] + 1 ELSE log[p]]

Init == seen = Blank /\ saved = Blank

-----------------------------------------------------------------------------

\* A player is met, and there is room or no need of it.
Meets(p) ==
  /\ p \in Known(seen) \/ Cardinality(Known(seen)) < MaxEntries
  /\ seen' = [seen EXCEPT ![p] = 0]
  /\ UNCHANGED saved

\* A player is met for whom there is no room: one of those seen longest ago, q, is
\* given up.
MeetsInsteadOf(p, q) ==
  /\ p \notin Known(seen) /\ Cardinality(Known(seen)) = MaxEntries
  /\ q \in Known(seen) /\ \A r \in Known(seen) : seen[r] <= seen[q]
  /\ seen' = [seen EXCEPT ![p] = 0, ![q] = Never]
  /\ UNCHANGED saved

TimePasses == seen' = Older(seen) /\ saved' = Older(saved)

\* A save begins with nothing, and goes on player by player.
SaveBegins == saved' = Blank /\ UNCHANGED seen

Saves(p) ==
  /\ p \in Known(seen)
  /\ saved' = [saved EXCEPT ![p] = seen[p]]
  /\ UNCHANGED seen

\* The game ends, saved or not, perhaps half way through a player, and starts again.
Restarts ==
  /\ \E left \in {saved} \cup {[saved EXCEPT ![p] = seen[p]] : p \in Known(seen)} :
       saved' = Older(left)
  /\ \E lost \in SUBSET (Piped \cap Known(saved')) :
       seen' = [p \in Players |-> IF p \in lost THEN MaxAge ELSE saved'[p]]

Next ==
  \/ \E p \in Players : Meets(p) \/ Saves(p)
  \/ \E p, q \in Players : MeetsInsteadOf(p, q)
  \/ TimePasses
  \/ SaveBegins
  \/ Restarts

Spec == Init /\ [][Next]_<<seen, saved>>
=============================================================================
