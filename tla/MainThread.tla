------------------------------- MODULE MainThread -------------------------------
(***************************************************************************)
(* What the program's own thread does while the game's threads run: it     *)
(* hooks functions (HookEngine), in the order of start-up (StartUp), and   *)
(* from then on animates the banner (Banner). The three share no state; a  *)
(* behaviour is one of one of them, so that one run can check all three    *)
(* without their product.                                                  *)
(***************************************************************************)
EXTENDS HookEngine, StartUp, Banner

VARIABLE part

mainVars == <<part, hookVars, startVars, bannerVars>>

MainInit == part \in {"attach", "start", "loop"} /\ HookInit /\ StartInit /\ BannerInit

MainNext ==
  /\ UNCHANGED part
  /\ \/ part = "attach" /\ HookNext /\ UNCHANGED <<startVars, bannerVars>>
     \/ part = "start" /\ StartNext /\ UNCHANGED <<hookVars, bannerVars>>
     \/ part = "loop" /\ BannerNext /\ UNCHANGED <<hookVars, startVars>>

MainSpec == MainInit /\ [][MainNext]_mainVars
=============================================================================
