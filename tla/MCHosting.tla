------------------------------ MODULE MCHosting ------------------------------
(* A small instance of Hosting: a browser and two others want two places.     *)
EXTENDS Hosting

CONSTANTS b1, s1, s2
=============================================================================
