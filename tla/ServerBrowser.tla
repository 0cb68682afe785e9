---------------------------- MODULE ServerBrowser ----------------------------
(***************************************************************************)
(* What the server browser promises, without rows, order, locks or the     *)
(* steps of a merge: for each host either nothing or what is known of it.  *)
(* A host is listed with what the search said of it, answers fill it in,   *)
(* hosts leave together, and whatever is sent concerns a listed host and   *)
(* uses what is known of that host alone. ServerList implements it.        *)
(***************************************************************************)
CONSTANTS Hosts, NoHost, Contacts, NoContact, Sending, NoSend

VARIABLES
  known,    \* for each host Absent or what the browser knows of it
  out       \* the packet just handed to the engine

Absent == [listed |-> FALSE]

Known == [listed: {TRUE}, addr: Contacts \cup {NoContact}, ded: BOOLEAN,
          roster: Hosts \cup {NoHost}, lobby: Hosts \cup {NoHost}]

TypeOK == known \in [Hosts -> Known \cup {Absent}] /\ out \in Sending

Init == known = [x \in Hosts |-> Absent] /\ out = NoSend

ListedHosts == {x \in Hosts : known[x] # Absent}

Listing(a, d) == [listed |-> TRUE, addr |-> a, ded |-> d, roster |-> NoHost,
                  lobby |-> NoHost]

\* A search result names a host that was not listed.
Appears(x, a, d) ==
  /\ x \notin ListedHosts
  /\ out' = NoSend
  /\ known' = [known EXCEPT ![x] = Listing(a, d)]

\* Empty servers are taken off; nothing is forgotten of the others.
Leave(S) ==
  /\ out' = NoSend
  /\ known' = [x \in Hosts |-> IF x \in S THEN Absent ELSE known[x]]

\* A lobby state of a listed host: its roster, and its Steam lobby if it says.
Answers(x, l) ==
  /\ x \in ListedHosts
  /\ out' = NoSend
  /\ known' = [known EXCEPT ![x].roster = x,
                            ![x].lobby = IF l # NoHost THEN l ELSE @]

\* A probe to a listed host, at the contact known of it.
Probe(x) ==
  /\ x \in ListedHosts
  /\ out' = [kind |-> "probe", to |-> x, addr |-> known[x].addr, lobby |-> NoHost]
  /\ UNCHANGED known

\* The Steam lobby of a listed host is joined, once it is known.
JoinSteam(x) ==
  /\ x \in ListedHosts /\ known[x].lobby # NoHost
  /\ out' = [kind |-> "steam", to |-> x, addr |-> NoContact, lobby |-> known[x].lobby]
  /\ UNCHANGED known

\* Member info goes to a host that answered a join, wherever it answered from.
Introduce(x, a) ==
  /\ out' = [kind |-> "member_info", to |-> x, addr |-> a, lobby |-> NoHost]
  /\ UNCHANGED known

\* Anything else leaves what is known alone and sends nothing.
Idle == out' = NoSend /\ UNCHANGED known

Next ==
  \/ Idle
  \/ \E x \in Hosts : \/ Probe(x) \/ JoinSteam(x)
                      \/ \E a \in Contacts : Introduce(x, a)
                      \/ \E l \in {x, NoHost} : Answers(x, l)
                      \/ \E a \in Contacts \cup {NoContact}, d \in BOOLEAN : Appears(x, a, d)
  \/ \E S \in SUBSET ListedHosts : Leave(S)

Spec == Init /\ [][Next]_<<known, out>>
=============================================================================
