--------------------------------- MODULE Guards ---------------------------------
(***************************************************************************)
(* The guards of ServerCommands and LobbyGuard. They share nothing, so a   *)
(* behaviour is one of either: of the lobby when no server sends commands, *)
(* and of the commands when one does.                                      *)
(***************************************************************************)
EXTENDS ServerCommands, LobbyGuard

Init == CommandsInit /\ LobbyInit

Next ==
  \/ texts # {} /\ CommandsNext /\ UNCHANGED lobbyVars
  \/ texts = {} /\ LobbyNext /\ UNCHANGED commandVars

Spec == Init /\ [][Next]_<<commandVars, lobbyVars>>
=============================================================================
