------------------------------ MODULE MCOverlay ------------------------------
(* A small instance of Overlay. *)
EXTENDS Overlay
=============================================================================
