----------------------------- MODULE HostingProofs -----------------------------
(* Theorems about Hosting, for any number of places, browsers and strangers. *)
EXTENDS Hosting, FiniteSetTheorems, TLAPS

-----------------------------------------------------------------------------
(* The type invariant.                                                       *)

USE DEF Packet

\* Ages stay ages when time passes (Hosting!TimePasses).
LEMMA OlderType == ASSUME NEW age \in Ages PROVE Older(age) \in Ages
  BY SizeAssumption DEF Older, Ages

\* What the service is told of a session is an ad.
LEMMA InfoType == MatchmakingInfo \in Info /\ NoAd \in Info
  BY DEF MatchmakingInfo, GameInfo, Info, NoAd

LEMMA TypeInit == Init => TypeOK
<1> SUFFICES ASSUME Init PROVE TypeOK
  OBVIOUS
<1>1. row \in [Browsers -> Info]
  BY InfoType DEF Init
<1>2. dot \in [Browsers -> BOOLEAN] /\ guarded \in [Browsers -> BOOLEAN]
  BY DEF Init
<1>3. ad \in Info
  BY InfoType DEF Init
<1>4. QED
  BY <1>1, <1>2, <1>3 DEF Init, TypeOK, Ages

\* The steps of the host's session and of its advertising.
LEMMA TypeSession ==
  ASSUME TypeOK,
         \/ OpenSession \/ CloseSession \/ ToggleAdvertise \/ CreateSession
         \/ UpdateMatchmakingSession \/ TimePasses
         \/ \E c \in Clients : ClientLeaves(c)
         \/ \E c \in Strangers : StrangerJoins(c)
  PROVE  TypeOK'
<1> USE DEF TypeOK, hostVars, advertVars, browserVars, vars
<1>1. CASE OpenSession BY <1>1, SizeAssumption DEF OpenSession, SetMaxClients
<1>2. CASE CloseSession BY <1>2, InfoType DEF CloseSession
<1>3. CASE ToggleAdvertise BY <1>3 DEF ToggleAdvertise
<1>4. CASE CreateSession BY <1>4, InfoType DEF CreateSession
<1>5. CASE UpdateMatchmakingSession
  BY <1>5, InfoType, SizeAssumption
  DEF UpdateMatchmakingSession, UpdateTooSoon, UpdateNoSession, UpdateSession, Ages
<1>6. CASE TimePasses BY <1>6, OlderType DEF TimePasses
<1>7. CASE \E c \in Clients : ClientLeaves(c) BY <1>7 DEF ClientLeaves
<1>8. CASE \E c \in Strangers : StrangerJoins(c) BY <1>8 DEF StrangerJoins, Admits, Clients
<1>9. QED BY <1>1, <1>2, <1>3, <1>4, <1>5, <1>6, <1>7, <1>8

\* The steps that handle or send packets to and from one browser.
LEMMA TypePackets ==
  ASSUME TypeOK, NEW b \in Browsers,
         \/ HandleJoinRequest(b) \/ HandleJoinRequestFails(b)
         \/ HandleMemberInfo(b) \/ HandleMemberInfoFails(b)
         \/ SendLobbyState(b) \/ Browser(b)
  PROVE  TypeOK'
<1> USE DEF TypeOK, hostVars, advertVars, browserVars, vars
<1>0. \A k \in Kinds : Packet(k, b) \in Packets
  BY DEF Packets
<1>1. CASE HandleJoinRequest(b) BY <1>0, <1>1 DEF HandleJoinRequest, Answered, Kinds
<1>2. CASE HandleJoinRequestFails(b) BY <1>2 DEF HandleJoinRequestFails, Taken
<1>3. CASE HandleMemberInfo(b) BY <1>3 DEF HandleMemberInfo, Taken, Admits, Clients
<1>4. CASE HandleMemberInfoFails(b) BY <1>4 DEF HandleMemberInfoFails, Taken
<1>5. CASE SendLobbyState(b) BY <1>0, <1>5 DEF SendLobbyState, Kinds
<1>6. CASE Fetch(b) BY <1>6, InfoType DEF Fetch, Lists
<1>7. CASE DispatchProbe(b) BY <1>0, <1>7 DEF DispatchProbe, Kinds
<1>8. CASE ProbeAll(b) BY <1>0, <1>8 DEF ProbeAll, DispatchProbe, Kinds
<1>9. CASE ToggleGuard(b) BY <1>9 DEF ToggleGuard
<1>10. CASE OwnClientChanges(b) BY <1>10 DEF OwnClientChanges
<1>11. CASE ReceiveJoinResponse(b) BY <1>0, <1>11 DEF ReceiveJoinResponse, Answered, Kinds
<1>12. CASE ReceiveLobbyState(b) BY <1>12 DEF ReceiveLobbyState, Taken
<1>13. CASE ReceiveInVain(b) BY <1>13 DEF ReceiveInVain, Taken
<1>14. QED
  BY <1>1, <1>2, <1>3, <1>4, <1>5, <1>6, <1>7, <1>8, <1>9, <1>10, <1>11, <1>12, <1>13
  DEF Browser

LEMMA TypeNext == TypeOK /\ [Next]_vars => TypeOK'
<1> SUFFICES ASSUME TypeOK, [Next]_vars PROVE TypeOK'
  OBVIOUS
<1>1. CASE UNCHANGED vars
  BY <1>1 DEF TypeOK, vars, hostVars, advertVars, browserVars
<1>2. CASE \E p \in net : Lose(p)
  BY <1>2 DEF Lose, TypeOK, hostVars, advertVars, browserVars
<1>3. CASE Host
  BY <1>3, TypeSession, TypePackets DEF Host
<1>4. CASE \E b \in Browsers : Browser(b)
  BY <1>4, TypePackets
<1>5. QED
  BY <1>1, <1>2, <1>3, <1>4 DEF Next

\* Every variable keeps to its type, whoever joins, browses and loses packets.
THEOREM HostingTypeCorrect == Spec => []TypeOK
  BY TypeInit, TypeNext, PTL DEF Spec

-----------------------------------------------------------------------------
(* The places.                                                               *)

\* What makes NeverOverfull inductive: the hook has seen to it that a session has as many
\* places as hk_handle_member_info counts up to, and without a session nobody is in it.
Room ==
  /\ IsFiniteSet(clients) /\ Cardinality(clients) <= Capacity
  /\ session = "none" => clients = {}
  /\ session # "none" => places = Capacity

LEMMA RoomEnough == TypeOK /\ Room => NeverOverfull
  BY FS_EmptySet, SizeAssumption DEF TypeOK, Room, NeverOverfull

\* Taking one more in where there is room does not go beyond the places.
LEMMA AdmitsOne ==
  ASSUME Room, NEW c, Admits(c), UNCHANGED <<session, places>>
  PROVE  Room'
<1>1. CASE session # "none" /\ HasRoom
  <2>1. clients' = clients \cup {c}
    BY <1>1 DEF Admits
  <2>2. /\ IsFiniteSet(clients \cup {c})
        /\ \/ Cardinality(clients \cup {c}) = Cardinality(clients)
           \/ Cardinality(clients \cup {c}) = Cardinality(clients) + 1
    BY FS_AddElement DEF Room
  <2>3. Cardinality(clients) \in Nat
    BY FS_CardinalityType DEF Room
  <2>4. Cardinality(clients') <= Capacity
    BY <1>1, <2>1, <2>2, <2>3, SizeAssumption DEF HasRoom, Room
  <2>5. QED
    BY <1>1, <2>1, <2>2, <2>4 DEF Room
<1>2. CASE ~(session # "none" /\ HasRoom)
  BY <1>2 DEF Admits, Room
<1>3. QED
  BY <1>1, <1>2

LEMMA LeavingOne ==
  ASSUME Room, NEW c, clients' = clients \ {c}, UNCHANGED <<session, places>>
  PROVE  Room'
<1>1. clients' \subseteq clients
  OBVIOUS
<1>2. IsFiniteSet(clients') /\ Cardinality(clients') <= Cardinality(clients)
  BY <1>1, FS_Subset DEF Room
<1>3. Cardinality(clients) \in Nat /\ Cardinality(clients') \in Nat
  BY <1>2, FS_CardinalityType DEF Room
<1>4. QED
  BY <1>1, <1>2, <1>3, SizeAssumption DEF Room

\* Steps that touch neither the session nor who is in it.
LEMMA RoomKept == Room /\ UNCHANGED hostVars => Room'
  BY DEF Room, hostVars

LEMMA RoomNext == TypeOK /\ Room /\ [Next]_vars => Room'
<1> SUFFICES ASSUME TypeOK, Room, [Next]_vars PROVE Room'
  OBVIOUS
<1> USE DEF hostVars, advertVars, browserVars, vars
<1>1. CASE OpenSession
  BY <1>1, FS_EmptySet, SizeAssumption DEF OpenSession, SetMaxClients, Room
<1>2. CASE CloseSession
  BY <1>2, FS_EmptySet, SizeAssumption DEF CloseSession, Room
<1>3. CASE CreateSession
  BY <1>3 DEF CreateSession, Room
<1>4. CASE UpdateMatchmakingSession
  BY <1>4 DEF UpdateMatchmakingSession, UpdateTooSoon, UpdateNoSession, UpdateSession, Room
<1>5. CASE \E c \in Clients : ClientLeaves(c)
  BY <1>5, LeavingOne DEF ClientLeaves
<1>6. CASE \E c \in Strangers : StrangerJoins(c)
  BY <1>6, AdmitsOne DEF StrangerJoins
<1>7. CASE \E b \in Browsers : HandleMemberInfo(b)
  BY <1>7, AdmitsOne DEF HandleMemberInfo
<1>8. CASE UNCHANGED hostVars
  BY <1>8, RoomKept
<1>9. ASSUME NEW b \in Browsers,
             \/ HandleJoinRequest(b) \/ HandleJoinRequestFails(b)
             \/ HandleMemberInfoFails(b) \/ SendLobbyState(b) \/ Browser(b)
      PROVE  UNCHANGED hostVars
  BY <1>9 DEF HandleJoinRequest, HandleJoinRequestFails, HandleMemberInfoFails, SendLobbyState,
    Browser, Fetch, DispatchProbe, ProbeAll, ToggleGuard, OwnClientChanges,
    ReceiveJoinResponse, ReceiveLobbyState, ReceiveInVain
<1>10. CASE ToggleAdvertise \/ TimePasses \/ \E p \in net : Lose(p)
  BY <1>10, <1>8 DEF ToggleAdvertise, TimePasses, Lose
<1>11. QED
  BY <1>1, <1>2, <1>3, <1>4, <1>5, <1>6, <1>7, <1>8, <1>9, <1>10 DEF Next, Host

\* The session never holds more clients than it has places, for any number of places and
\* of people who want one, and any network (hk_handle_member_info,
\* hk_lobby_session_set_max_clients).
THEOREM PlacesSuffice == Spec => []NeverOverfull
<1>1. Init => Room
  BY FS_EmptySet, SizeAssumption DEF Init, Room
<1>2. QED
  BY <1>1, TypeInit, TypeNext, RoomNext, RoomEnough, PTL DEF Spec

-----------------------------------------------------------------------------
(* The pace of advertisements.                                               *)

\* `quiet` is the real time since the last update of the ad and `last` what the hook keeps
\* of it. An update sets both, and what else sets `last` sets it to nothing only.
Paced ==
  quiet # Never => last \in Nat /\ quiet \in Nat /\ last <= quiet /\ quiet <= Period

LEMMA PacedNext == TypeOK /\ Paced /\ [Next]_vars => Paced'
<1> SUFFICES ASSUME TypeOK, Paced, [Next]_vars PROVE Paced'
  OBVIOUS
<1> USE SizeAssumption, NeverAssumption DEF hostVars, advertVars, browserVars, vars
<1>1. CASE UNCHANGED <<last, quiet>>
  BY <1>1 DEF Paced
<1>2. CASE UpdateNoSession
  BY <1>2 DEF UpdateNoSession, Paced
<1>3. CASE UpdateSession
  BY <1>3 DEF UpdateSession, Paced
<1>4. CASE TimePasses
  BY <1>4 DEF TimePasses, Older, Paced, TypeOK, Ages
<1>5. ASSUME NEW b \in Browsers,
             \/ HandleJoinRequest(b) \/ HandleJoinRequestFails(b) \/ HandleMemberInfo(b)
             \/ HandleMemberInfoFails(b) \/ SendLobbyState(b) \/ Browser(b)
      PROVE  UNCHANGED <<last, quiet>>
  BY <1>5 DEF HandleJoinRequest, HandleJoinRequestFails, HandleMemberInfo,
    HandleMemberInfoFails, SendLobbyState,
    Browser, Fetch, DispatchProbe, ProbeAll, ToggleGuard, OwnClientChanges,
    ReceiveJoinResponse, ReceiveLobbyState, ReceiveInVain
<1>6. CASE \/ OpenSession \/ CloseSession \/ ToggleAdvertise \/ CreateSession \/ UpdateTooSoon
           \/ \E c \in Clients : ClientLeaves(c)
           \/ \E c \in Strangers : StrangerJoins(c)
           \/ \E p \in net : Lose(p)
  BY <1>6, <1>1 DEF OpenSession, CloseSession, ToggleAdvertise, CreateSession, UpdateTooSoon,
    ClientLeaves, StrangerJoins, Lose
<1>7. QED
  BY <1>1, <1>2, <1>3, <1>4, <1>5, <1>6 DEF Next, Host, UpdateMatchmakingSession

\* A step that updates the ad does so when the hook's clock says that it is time, and
\* that clock is never ahead of the real one.
LEMMA PacedStep ==
  TypeOK /\ Paced /\ [Next]_vars =>
    [quiet' = 0 /\ quiet # 0 => quiet \in {Never, Period}]_vars
<1> SUFFICES ASSUME TypeOK, Paced, [Next]_vars, quiet' = 0, quiet # 0
             PROVE  quiet \in {Never, Period}
  OBVIOUS
<1> USE SizeAssumption, NeverAssumption DEF hostVars, advertVars, browserVars, vars
<1>1. CASE quiet' = quiet
  BY <1>1
<1>2. CASE UpdateSession
  BY <1>2 DEF UpdateSession, Due, Paced
<1>3. CASE TimePasses
  BY <1>3 DEF TimePasses, Older, TypeOK, Ages
<1>4. ASSUME NEW b \in Browsers,
             \/ HandleJoinRequest(b) \/ HandleJoinRequestFails(b) \/ HandleMemberInfo(b)
             \/ HandleMemberInfoFails(b) \/ SendLobbyState(b) \/ Browser(b)
      PROVE  quiet' = quiet
  BY <1>4 DEF HandleJoinRequest, HandleJoinRequestFails, HandleMemberInfo,
    HandleMemberInfoFails, SendLobbyState,
    Browser, Fetch, DispatchProbe, ProbeAll, ToggleGuard, OwnClientChanges,
    ReceiveJoinResponse, ReceiveLobbyState, ReceiveInVain
<1>5. CASE \/ OpenSession \/ CloseSession \/ ToggleAdvertise \/ CreateSession \/ UpdateTooSoon
           \/ UpdateNoSession
           \/ \E c \in Clients : ClientLeaves(c)
           \/ \E c \in Strangers : StrangerJoins(c)
           \/ \E p \in net : Lose(p)
  BY <1>5, <1>1 DEF OpenSession, CloseSession, ToggleAdvertise, CreateSession, UpdateTooSoon,
    UpdateNoSession, ClientLeaves, StrangerJoins, Lose
<1>6. QED
  BY <1>1, <1>2, <1>3, <1>4, <1>5 DEF Next, Host, UpdateMatchmakingSession

\* Two updates of the ad are never closer together than the period, whatever sessions
\* come and go (hk_lobby_host_update_matchmaking_session).
THEOREM AdvertsArePaced == Spec => AdvertPace
<1>1. Init => Paced
  BY DEF Init, Paced
<1>2. QED
  BY <1>1, TypeInit, TypeNext, PacedNext, PacedStep, PTL DEF Spec, AdvertPace
=============================================================================
