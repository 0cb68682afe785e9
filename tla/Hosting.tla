-------------------------------- MODULE Hosting --------------------------------
(***************************************************************************)
(* Being found: a player who hosts (patches/matchmaking), the service that *)
(* lists sessions, and the browsers of other players (features/serverlist  *)
(* with the hook in patches/lobbymsg) that list the host and probe it over *)
(* a network that loses, repeats, delays and damages what is sent.         *)
(*                                                                         *)
(* A probe is a join request; the answer makes the browser introduce       *)
(* itself with a member info, upon which the host takes it in like any     *)
(* client, and the game then sends it lobby states.                        *)
(*                                                                         *)
(* ServerList models rows, locks and threads of one browser; here a        *)
(* browser is what ServerBrowser keeps of one host. Contacts, keys and     *)
(* rosters are left out: nothing below depends on them.                    *)
(***************************************************************************)
EXTENDS Integers, FiniteSets

CONSTANTS
  Browsers,   \* players who run the browser
  Strangers,  \* players who join by other means
  Capacity,   \* the host's places, 18 in the code
  Asked,      \* numbers of places the game may ask for
  Period,     \* clock units between advertisements, three seconds
  Never       \* no advertisement so far (last == 0)

ASSUME SizeAssumption == Capacity \in Nat /\ Period \in Nat \ {0} /\ Asked \subseteq Nat
ASSUME PeopleAssumption == Browsers \cap Strangers = {} /\ IsFiniteSet(Browsers \cup Strangers)
ASSUME NeverAssumption == Never \notin Nat

VARIABLES
  session,    \* the host's game session: "none", "open", or "advertised"
  places,     \* how many clients that session takes
  clients,    \* who is in it or joining it
  advertise,  \* engine::lobby_advertise
  last,       \* clock units since `last`, up to Period, or Never
  ad,         \* what the service says of the session, or NoAd
  quiet,      \* history: clock units since the last update of the ad, up to Period
  net,        \* packets on their way
  row,        \* for each browser what its list says of the host, or NoAd
  dot,        \* for each browser whether a lobby state came in lately
  guarded,    \* for each browser protection.lobby_messages
  present     \* for each browser whether get_our_client finds a client

hostVars    == <<session, places, clients>>
advertVars  == <<advertise, last, ad, quiet>>
browserVars == <<row, dot, guarded, present>>
vars == <<hostVars, advertVars, net, browserVars>>

Clients == Browsers \cup Strangers
NoAd    == [num |-> 0, max |-> 0]
Info    == [num : Nat, max : Nat]
Kinds   == {"join_request", "join_response", "member_info", "lobby_state"}
Packets == [kind : Kinds, peer : Browsers]
Packet(k, b) == [kind |-> k, peer |-> b]
Ages    == 0 .. Period \cup {Never}

TypeOK ==
  /\ session \in {"none", "open", "advertised"} /\ places \in Nat
  /\ clients \subseteq Clients
  /\ advertise \in BOOLEAN /\ last \in Ages /\ quiet \in Ages /\ ad \in Info
  /\ net \subseteq Packets
  /\ row \in [Browsers -> Info] /\ dot \in [Browsers -> BOOLEAN]
  /\ guarded \in [Browsers -> BOOLEAN] /\ present \in [Browsers -> BOOLEAN]

Init ==
  /\ session = "none" /\ places = 0 /\ clients = {}
  /\ advertise = FALSE /\ last = Never /\ quiet = Never /\ ad = NoAd
  /\ net = {}
  /\ row = [b \in Browsers |-> NoAd] /\ dot = [b \in Browsers |-> FALSE]
  /\ guarded = [b \in Browsers |-> TRUE] /\ present \in [Browsers -> BOOLEAN]

-----------------------------------------------------------------------------
(* The host's session.                                                      *)

\* hk_lobby_session_set_max_clients: whatever the game asks for, it gets 18.
SetMaxClients(count) == places' = Capacity

\* The game opens a game lobby, and sets its size.
OpenSession ==
  /\ session = "none"
  /\ session' = "open" /\ clients' = {}
  /\ \E count \in Asked : SetMaxClients(count)
  /\ UNCHANGED <<advertVars, net, browserVars>>

\* It is over; the service forgets it.
CloseSession ==
  /\ session # "none"
  /\ session' = "none" /\ clients' = {} /\ ad' = NoAd
  /\ UNCHANGED <<places, advertise, last, quiet, net, browserVars>>

ClientLeaves(c) ==
  /\ c \in clients
  /\ clients' = clients \ {c}
  /\ UNCHANGED <<session, places, advertVars, net, browserVars>>

-----------------------------------------------------------------------------
(* Advertising.                                                             *)

ToggleAdvertise ==
  /\ advertise' = ~advertise
  /\ UNCHANGED <<hostVars, last, ad, quiet, net, browserVars>>

\* What the game itself would say of the session.
GameInfo == [num |-> Cardinality(clients), max |-> places]

\* Mutant: the game's own numbers stay.
MatchmakingInfoOfGame == GameInfo

\* hk_set_matchmaking_info: the game fills in the numbers first, then they are replaced
\* by eleven players of twelve.
MatchmakingInfo == [GameInfo EXCEPT !.num = 11, !.max = 12]

\* create_session: the session counts as advertised, and is made known to the service,
\* which may list it with what the hook has filled in.
CreateSession ==
  /\ session # "none"
  /\ session' = "advertised"
  /\ ad' \in {ad, MatchmakingInfo}
  /\ UNCHANGED <<places, clients, advertise, last, quiet, net, browserVars>>

Due == last \in Nat => last >= Period

\* hk_lobby_host_update_matchmaking_session before the three seconds are over.
UpdateTooSoon ==
  /\ advertise /\ ~Due
  /\ UNCHANGED vars

\* The same when there is no session: nothing to say, but the time counts.
UpdateNoSession ==
  /\ advertise /\ Due /\ session = "none"
  /\ last' = 0
  /\ UNCHANGED <<hostVars, advertise, ad, quiet, net, browserVars>>

\* Mutant: the time is kept only when there was nothing to update.
UpdateForgetsTime ==
  /\ advertise /\ Due /\ session # "none"
  /\ session' = "advertised"
  /\ ad' = MatchmakingInfo /\ quiet' = 0
  /\ UNCHANGED <<places, clients, advertise, last, net, browserVars>>

\* The same with a session: it is marked advertised, the numbers are filled in and sent.
UpdateSession ==
  /\ advertise /\ Due /\ session # "none"
  /\ session' = "advertised"
  /\ ad' = MatchmakingInfo /\ quiet' = 0
  /\ last' = 0
  /\ UNCHANGED <<places, clients, advertise, net, browserVars>>

\* The game calls it all the time; switched off it answers no.
UpdateMatchmakingSession == UpdateTooSoon \/ UpdateNoSession \/ UpdateSession

Older(age) == IF age \in Nat /\ age < Period THEN age + 1 ELSE age

TimePasses ==
  /\ last' = Older(last) /\ quiet' = Older(quiet)
  /\ \E faded \in SUBSET Browsers : dot' = [b \in Browsers |-> dot[b] /\ b \notin faded]
  /\ UNCHANGED <<hostVars, advertise, ad, net, row, guarded, present>>

-----------------------------------------------------------------------------
(* The host answers. A packet that has been handled may arrive once more.   *)

Taken(p) == net' \in {net, net \ {p}}

Answered(p, q) == net' \in {net \cup {q}, (net \ {p}) \cup {q}}

\* hk_handle_join_request: unless the request cannot be read or the answer cannot be
\* sent, the answer is yes, whether there is a session or room in it.
HandleJoinRequest(b) ==
  LET p == Packet("join_request", b) IN
  /\ p \in net
  /\ Answered(p, Packet("join_response", b))
  /\ UNCHANGED <<hostVars, advertVars, browserVars>>

HandleJoinRequestFails(b) ==
  LET p == Packet("join_request", b) IN
  /\ p \in net /\ Taken(p)
  /\ UNCHANGED <<hostVars, advertVars, browserVars>>

\* Mutant: one client too many.
HasRoomForOneMore == Cardinality(clients) <= Capacity

\* hk_handle_member_info: the lobby is not full.
HasRoom == Cardinality(clients) < Capacity

\* The client is handed to the game, which takes it in when there is a lobby: without
\* one nobody is counted and nobody joins.
Admits(c) == clients' = IF session # "none" /\ HasRoom THEN clients \cup {c} ELSE clients

HandleMemberInfo(b) ==
  LET p == Packet("member_info", b) IN
  /\ p \in net /\ Taken(p)
  /\ Admits(b)
  /\ UNCHANGED <<session, places, advertVars, browserVars>>

\* Any of the five fields cannot be read.
HandleMemberInfoFails(b) ==
  LET p == Packet("member_info", b) IN
  /\ p \in net /\ Taken(p)
  /\ UNCHANGED <<hostVars, advertVars, browserVars>>

StrangerJoins(c) ==
  /\ Admits(c)
  /\ UNCHANGED <<session, places, advertVars, net, browserVars>>

\* The game tells a client how the lobby stands.
SendLobbyState(b) ==
  /\ b \in clients
  /\ net' = net \cup {Packet("lobby_state", b)}
  /\ UNCHANGED <<hostVars, advertVars, browserVars>>

-----------------------------------------------------------------------------
(* The browsers.                                                            *)

Lists(b) == row[b] # NoAd

\* fetch_batch: the row takes the numbers of the ad; an empty server is taken off, and
\* one the service no longer lists stays as it was.
Fetch(b) ==
  /\ row' = [row EXCEPT ![b] = IF ad = NoAd THEN @ ELSE IF ad.num = 0 THEN NoAd ELSE ad]
  /\ dot' = [dot EXCEPT ![b] = @ /\ Lists(b)']
  /\ UNCHANGED <<hostVars, advertVars, net, guarded, present>>

\* dispatch_probe for the listed host.
DispatchProbe(b) ==
  /\ Lists(b)
  /\ net' = net \cup {Packet("join_request", b)}
  /\ UNCHANGED <<hostVars, advertVars, browserVars>>

\* probe_all: what is listed with room in it is probed again and again.
ProbeAll(b) ==
  /\ row[b].max # 0 => row[b].num < row[b].max
  /\ DispatchProbe(b)

\* The user may stop watching packets, and joins and leaves lobbies of its own.
ToggleGuard(b) ==
  /\ guarded' = [guarded EXCEPT ![b] = ~@]
  /\ UNCHANGED <<hostVars, advertVars, net, row, dot, present>>

OwnClientChanges(b) ==
  /\ present' = [present EXCEPT ![b] = ~@]
  /\ UNCHANGED <<hostVars, advertVars, net, row, dot, guarded>>

Wanted(b) == guarded[b] /\ Lists(b)

\* hk_handle_packet_internal and send_member_info: the join response of a listed host is
\* answered, even when its key cannot be read.
ReceiveJoinResponse(b) ==
  LET p == Packet("join_response", b) IN
  /\ p \in net /\ Wanted(b) /\ present[b]
  /\ Answered(p, Packet("member_info", b))
  /\ UNCHANGED <<hostVars, advertVars, browserVars>>

\* parse_probe_state and set_players.
ReceiveLobbyState(b) ==
  LET p == Packet("lobby_state", b) IN
  /\ p \in net /\ Wanted(b) /\ Taken(p)
  /\ dot' = [dot EXCEPT ![b] = TRUE]
  /\ UNCHANGED <<hostVars, advertVars, row, guarded, present>>

\* The packet is the game's, or there is no client to introduce, or it cannot be read.
ReceiveInVain(b) ==
  /\ \/ /\ Packet("join_response", b) \in net /\ ~(Wanted(b) /\ present[b])
        /\ Taken(Packet("join_response", b))
     \/ /\ Packet("lobby_state", b) \in net
        /\ Taken(Packet("lobby_state", b))
  /\ UNCHANGED <<hostVars, advertVars, browserVars>>

Lose(p) ==
  /\ net' = net \ {p}
  /\ UNCHANGED <<hostVars, advertVars, browserVars>>

-----------------------------------------------------------------------------
Host ==
  \/ OpenSession \/ CloseSession \/ ToggleAdvertise \/ CreateSession
  \/ UpdateMatchmakingSession \/ TimePasses
  \/ \E c \in Clients : ClientLeaves(c)
  \/ \E c \in Strangers : StrangerJoins(c)
  \/ \E b \in Browsers : \/ HandleJoinRequest(b) \/ HandleJoinRequestFails(b)
                         \/ HandleMemberInfo(b) \/ HandleMemberInfoFails(b)
                         \/ SendLobbyState(b)

Browser(b) ==
  \/ Fetch(b) \/ DispatchProbe(b) \/ ProbeAll(b) \/ ToggleGuard(b) \/ OwnClientChanges(b)
  \/ ReceiveJoinResponse(b) \/ ReceiveLobbyState(b) \/ ReceiveInVain(b)

Next == Host \/ (\E b \in Browsers : Browser(b)) \/ (\E p \in net : Lose(p))

Spec == Init /\ [][Next]_vars

\* Clocks run; the game keeps calling the update, and does not for ever drop a client
\* before it has told it how the lobby stands; frames with a fetch and a round of probes
\* are drawn again and again; a packet sent again and again arrives whole in the end, and
\* the answer to it can be sent.
LiveSpec ==
  /\ Spec
  /\ WF_vars(TimePasses) /\ WF_vars(UpdateMatchmakingSession)
  /\ \A b \in Browsers :
       /\ WF_vars(Fetch(b)) /\ WF_vars(ProbeAll(b)) /\ SF_vars(SendLobbyState(b))
       /\ SF_vars(HandleJoinRequest(b)) /\ SF_vars(HandleMemberInfo(b))
       /\ SF_vars(ReceiveJoinResponse(b)) /\ SF_vars(ReceiveLobbyState(b))

-----------------------------------------------------------------------------
(* Properties.                                                              *)

\* The session never holds more clients than it has places, however many were told yes
\* and in whatever order they introduce themselves (hk_handle_member_info counts up to
\* 18; hk_lobby_session_set_max_clients sees to it that there are so many).
NeverOverfull == Cardinality(clients) <= places

\* Two updates of the ad are never closer together than three seconds, whatever
\* sessions come and go and however often advertising is switched off and on
\* (hk_lobby_host_update_matchmaking_session).
AdvertPace == [][quiet' = 0 /\ quiet # 0 => quiet \in {Never, Period}]_vars

\* A host that stays, advertises and always has a place for the browser is found, probed
\* and answered again and again, provided the browser watches lobby messages and its
\* player is in a lobby: the whole way from the ad through the list, the probe and the
\* member info to the lobby state, and again after the host has dropped it.
Welcome(b) == advertise /\ session # "none" /\ guarded[b] /\ present[b] /\ (b \in clients \/ HasRoom)
HostIsFound == \A b \in Browsers : <>[]Welcome(b) => []<>dot[b]
=============================================================================
