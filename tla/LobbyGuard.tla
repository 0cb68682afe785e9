------------------------------- MODULE LobbyGuard -------------------------------
(***************************************************************************)
(* Lobby messages as the game's threads read, write and print them under   *)
(* the hooks of patches/lobbymsg.                                          *)
(*                                                                         *)
(* hk_handle_packet_internal looks at a packet first and drops it, reads   *)
(* it for the browser, or hands it to the game. Whoever reads it goes      *)
(* through the hooks that count the elements of an array. The hooks around *)
(* printing count how deep it nests. Both counts are kept per thread and   *)
(* outlive the packet.                                                     *)
(*                                                                         *)
(* Of a packet the model keeps its type and whether its fields are what    *)
(* the hook wants them to be: a lobby type in range, a sender who speaks   *)
(* for itself, pieces of voice within the data.                            *)
(***************************************************************************)
EXTENDS Integers, Sequences, SequencesExt

CONSTANTS
  Threads,   \* the game's threads
  Limit,     \* how many elements an array may have, by its name
  Nameless,  \* an array without a name
  Unfollowed,\* an array of which nothing is kept
  MaxNest,   \* bound: arrays within one another
  MaxPrint   \* lobby_print_max_depth

ASSUME LimitAssumption ==
  /\ Limit \in [DOMAIN Limit -> Nat] /\ Nameless \notin DOMAIN Limit
  /\ MaxNest \in Nat /\ MaxPrint \in Nat

VARIABLES
  watched,  \* protection.lobby_messages
  job,      \* what each thread does
  cap,      \* for each thread, count and limit of array_cap()
  arrays,   \* the arrays each thread is in, the innermost last
  depth,    \* for each thread engine::lobby_print_depth
  nested,   \* how deep each thread's printing really nests
  unwatched \* history: threads whose printing has gone deeper unwatched

lobbyVars == <<watched, job, cap, arrays, depth, nested, unwatched>>

Names  == DOMAIN Limit \cup {Nameless}
Limits == {Limit[k] : k \in DOMAIN Limit} \cup {0}

\* An array as it really is: its name, the elements taken from it, and 1 when one was
\* refused. One that has no name, has other arrays in it, is written, or is not watched
\* all the time is not followed.
Array == [name : DOMAIN Limit, taken : Nat, refused : 0 .. 1]

Types == {"disconnect", "voice", "migrate", "reliable", "reliable_disconnect", "content",
          "join_response", "lobby_state", "pull", "other"}

LobbyTypeOK ==
  /\ watched \in BOOLEAN
  /\ job \in [Threads -> {"idle", "reading", "writing", "printing"}]
  /\ cap \in [Threads -> [count : Nat, limit : Limits]]
  /\ arrays \in [Threads -> Seq(Array \cup {Unfollowed})]
  /\ depth \in [Threads -> Int] /\ nested \in [Threads -> Nat]
  /\ unwatched \subseteq Threads

LobbyInit ==
  /\ watched = TRUE
  /\ job = [t \in Threads |-> "idle"]
  /\ cap = [t \in Threads |-> [count |-> 0, limit |-> 0]]
  /\ arrays = [t \in Threads |-> <<>>]
  /\ depth = [t \in Threads |-> 0] /\ nested = [t \in Threads |-> 0]
  /\ unwatched = {}

counts == <<cap, arrays, depth, nested, unwatched>>

-----------------------------------------------------------------------------
(* hk_handle_packet_internal.                                               *)

\* What the fields of a packet may be like: its lobby type in range, whoever it speaks of
\* its sender, the pieces of voice in it within the data.
Fields == [lobbytype : BOOLEAN, sender : BOOLEAN, pieces : BOOLEAN]

DisconnectOk(f) == f.lobbytype /\ f.sender
VoiceOk(f)      == f.lobbytype /\ f.pieces
MigrateOk(f)    == f.lobbytype
ContentOk(f)    == f.lobbytype

\* Whom reliable data disconnects, if anyone, is its sender.
ReliableOk(f, disconnects) == f.lobbytype /\ (disconnects => f.sender)

\* A checked type whose fields are wrong goes no further.
Proper(type, f) ==
  /\ type = "disconnect" => DisconnectOk(f)
  /\ type = "voice"      => VoiceOk(f)
  /\ type = "migrate"    => MigrateOk(f)
  /\ type = "content"    => ContentOk(f)
  /\ type = "reliable"   => ReliableOk(f, FALSE)
  /\ type = "reliable_disconnect" => ReliableOk(f, TRUE)

\* A pull is for players who are joining, or host.
Expected(type, joining) == type = "pull" => joining

\* What a listed host answers is the browser's.
ForBrowser(type, wanted) == type \in {"join_response", "lobby_state"} /\ wanted

DropPacket(t, type, fields, joining) ==
  /\ job[t] = "idle" /\ watched
  /\ ~Proper(type, fields) \/ ~Expected(type, joining)
  /\ UNCHANGED lobbyVars

\* A join response is one value; a lobby state has arrays, and is dropped when read.
ReadForBrowser(t, type, wanted) ==
  /\ job[t] = "idle" /\ watched /\ ForBrowser(type, wanted)
  /\ job' = IF type = "lobby_state" THEN [job EXCEPT ![t] = "reading"] ELSE job
  /\ UNCHANGED <<watched, counts>>

\* The game reads it, or writes one of its own.
HandToGame(t, type, fields, joining, wanted) ==
  /\ job[t] = "idle"
  /\ watched => Proper(type, fields) /\ Expected(type, joining) /\ ~ForBrowser(type, wanted)
  /\ job' = [job EXCEPT ![t] = "reading"]
  /\ UNCHANGED <<watched, counts>>

WritePacket(t) ==
  /\ job[t] = "idle"
  /\ job' = [job EXCEPT ![t] = "writing"]
  /\ UNCHANGED <<watched, counts>>

\* Read or written in full, or given up in the middle of an array.
EndPacket(t) ==
  /\ job[t] \in {"reading", "writing"}
  /\ job' = [job EXCEPT ![t] = "idle"]
  /\ arrays' = [arrays EXCEPT ![t] = <<>>]
  /\ UNCHANGED <<watched, cap, depth, nested, unwatched>>

-----------------------------------------------------------------------------
(* Arrays.                                                                  *)

\* Mutant: the state is one for all threads.
CapSetForAll(t, name) == cap' = [x \in Threads |-> [count |-> 0, limit |-> Limit[name]]]

\* An array with a name begins a count of its own.
CapSet(t, name) == cap' = [cap EXCEPT ![t] = [count |-> 0, limit |-> Limit[name]]]

Forgotten(s) == [i \in DOMAIN s |-> Unfollowed]

\* hk_array_start. The count is no longer the outer array's.
ArrayStart(t, name) ==
  /\ job[t] \in {"reading", "writing"} /\ Len(arrays[t]) < MaxNest
  /\ IF name = Nameless THEN UNCHANGED cap ELSE CapSet(t, name)
  /\ arrays' = [arrays EXCEPT ![t] =
       Append(Forgotten(@),
              IF name # Nameless /\ watched /\ job[t] = "reading"
              THEN [name |-> name, taken |-> 0, refused |-> 0] ELSE Unfollowed)]
  /\ UNCHANGED <<watched, job, depth, nested, unwatched>>

Inner(t) == Last(arrays[t])
Followed(t) == Inner(t) # Unfollowed

\* hk_array_element finds another element: of a packet that is read while guarded it is
\* counted, and refused beyond the limit.
ArrayElement(t) ==
  /\ job[t] = "reading" /\ arrays[t] # <<>> /\ watched
  /\ LET over == cap[t].count + 1 > cap[t].limit IN
     /\ cap' = IF cap[t].count > cap[t].limit THEN cap ELSE [cap EXCEPT ![t].count = @ + 1]
     /\ arrays' = IF ~Followed(t) THEN arrays
                  ELSE [arrays EXCEPT ![t] = Front(@) \o
                         <<IF over THEN [Inner(t) EXCEPT !.refused = 1]
                           ELSE [Inner(t) EXCEPT !.taken = @ + 1]>>]
  /\ UNCHANGED <<watched, job, depth, nested, unwatched>>

\* Written, or not guarded, it is not counted.
ArrayElementFree(t) ==
  /\ job[t] = "writing" \/ (job[t] = "reading" /\ ~watched)
  /\ arrays[t] # <<>>
  /\ arrays' = [arrays EXCEPT ![t] = Forgotten(@)]
  /\ UNCHANGED <<watched, job, cap, depth, nested, unwatched>>

\* There is no further element, or it was refused: the outer array goes on.
ArrayEnd(t) ==
  /\ job[t] \in {"reading", "writing"} /\ arrays[t] # <<>>
  /\ arrays' = [arrays EXCEPT ![t] = Front(@)]
  /\ UNCHANGED <<watched, job, cap, depth, nested, unwatched>>

-----------------------------------------------------------------------------
(* Printing.                                                                *)

\* Mutant: one depth for all threads.
DepthResetForAll(t) == depth' = [x \in Threads |-> 0]

DepthReset(t) == depth' = [depth EXCEPT ![t] = 0]

\* hk_lobby_print_message, around everything else that is printed of a message.
PrintMessage(t) ==
  /\ job[t] = "idle"
  /\ job' = [job EXCEPT ![t] = "printing"]
  /\ DepthReset(t)
  /\ unwatched' = unwatched \ {t}
  /\ UNCHANGED <<watched, cap, arrays, nested>>

\* hk_lobby_print_debug and hk_lobby_print_array, which call each other; two levels more
\* than allowed are enough when it is off.
PrintNested(t) ==
  /\ job[t] = "printing" /\ nested[t] < MaxPrint + 2
  /\ watched => depth[t] < MaxPrint
  /\ depth' = [depth EXCEPT ![t] = @ + 1] /\ nested' = [nested EXCEPT ![t] = @ + 1]
  /\ unwatched' = IF watched THEN unwatched ELSE unwatched \cup {t}
  /\ UNCHANGED <<watched, job, cap, arrays>>

PrintTooDeep(t) ==
  /\ job[t] = "printing" /\ watched /\ depth[t] >= MaxPrint
  /\ UNCHANGED lobbyVars

PrintReturn(t) ==
  /\ job[t] = "printing" /\ nested[t] > 0
  /\ depth' = [depth EXCEPT ![t] = @ - 1] /\ nested' = [nested EXCEPT ![t] = @ - 1]
  /\ UNCHANGED <<watched, job, cap, arrays, unwatched>>

PrintEnd(t) ==
  /\ job[t] = "printing" /\ nested[t] = 0
  /\ job' = [job EXCEPT ![t] = "idle"]
  /\ UNCHANGED <<watched, counts>>

-----------------------------------------------------------------------------
\* Switched in the middle of an array, the count is no longer the array's.
ToggleWatch ==
  /\ watched' = ~watched
  /\ arrays' = [t \in Threads |-> Forgotten(arrays[t])]
  /\ UNCHANGED <<job, cap, depth, nested, unwatched>>

HandlePacket(t) ==
  \E type \in Types, fields \in Fields, joining, wanted \in BOOLEAN :
    \/ DropPacket(t, type, fields, joining)
    \/ ReadForBrowser(t, type, wanted)
    \/ HandToGame(t, type, fields, joining, wanted)

LobbyNext ==
  \/ ToggleWatch
  \/ \E t \in Threads :
       \/ HandlePacket(t) \/ WritePacket(t) \/ EndPacket(t)
       \/ \E name \in Names : ArrayStart(t, name)
       \/ ArrayElement(t) \/ ArrayElementFree(t) \/ ArrayEnd(t)
       \/ PrintMessage(t) \/ PrintNested(t) \/ PrintTooDeep(t) \/ PrintReturn(t) \/ PrintEnd(t)

-----------------------------------------------------------------------------
(* Properties.                                                              *)

\* An array with a name and no arrays in it gives up to its limit of elements and never
\* fewer on account of it, whatever arrays and packets were read before on that thread or
\* are read at the same time on others (hk_array_start, hk_array_element).
ElementsCapped ==
  \A t \in Threads : \A i \in DOMAIN arrays[t] :
    LET a == arrays[t][i] IN
    a # Unfollowed => a.taken <= Limit[a.name] /\ (a.refused = 1 => a.taken = Limit[a.name])

\* Printing a message nests as deep as allowed and no deeper, unless it was switched off
\* meanwhile, whatever other threads print (hk_lobby_print_message, hk_lobby_print_debug,
\* hk_lobby_print_array).
NestingHeld ==
  \A t \in Threads : job[t] = "printing" =>
    /\ depth[t] = nested[t]
    /\ nested[t] > MaxPrint => t \in unwatched
=============================================================================
