------------------------------ MODULE MCRecents ------------------------------
(* Small instances of Recents. *)
EXTENDS Recents
=============================================================================
