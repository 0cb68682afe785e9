----------------------------- MODULE ServerCommands -----------------------------
(***************************************************************************)
(* Commands a server sends its clients (patches/servercmd), and the        *)
(* sequence numbers by which they are kept, acknowledged and asked for     *)
(* (patches/netchan).                                                      *)
(*                                                                         *)
(* Both ends keep the last Window commands in a ring, a command in the     *)
(* slot of its number. The server's hook clamps what the client has        *)
(* acknowledged before the unacknowledged ones are written; the client's   *)
(* hook refuses to read numbers whose slot is no longer theirs. Between    *)
(* the two is a network that loses, repeats and reorders. The rings and    *)
(* the network are the game's.                                             *)
(*                                                                         *)
(* Of a command's text the model keeps its kind, its length where that     *)
(* counts, and whether its arguments are in range.                         *)
(***************************************************************************)
EXTENDS Integers, FiniteSets, FiniteSetsExt, Functions

CONSTANTS
  Window,      \* commands a ring holds, max_reliable_commands
  Servers,     \* sorts of servers: for each, the kinds of commands it sends
  MaxSequence, \* bound: for each sort of server, commands it sends
  MaxFlight,   \* bound: messages on their way
  Pieces,      \* lengths of the pieces of a big config string
  BcsMax,      \* bcs_reassembly_max
  Indices,     \* config strings there are
  Lengths,     \* lengths of config strings
  PoolMax,     \* bytes config strings may take
  Span,        \* clock units of model_notify_window_ms
  Most,        \* model_notify_window_max
  Turn,        \* clock units after which the 32-bit clock begins again
  None         \* nothing read yet

Kinds == {"plain", "begin", "more", "position", "flag", "model", "config"}

ASSUME SequenceAssumption ==
  /\ Window \in Nat \ {0} /\ MaxFlight \in Nat
  /\ Servers \subseteq SUBSET Kinds /\ MaxSequence \in [Servers -> Nat]
ASSUME LengthAssumption ==
  /\ Pieces \subseteq Nat /\ Lengths \subseteq Nat /\ BcsMax \in Nat \ {0} /\ PoolMax \in Nat \ {0}
  /\ IsFiniteSet(Indices)
ASSUME RateAssumption ==
  Span \in Nat \ {0} /\ Most \in Nat /\ Turn \in Nat /\ 2 * Span < Turn

VARIABLES
  texts,       \* kinds of commands this server sends; never changes
  guarded,     \* protection.server_commands
  sent,        \* the server's ring and its sequence numbers
  flight,      \* messages on their way: from numbers to what was in their slots
  received,    \* the client's ring and the number of its last command
  bcs,         \* length of the big config string being put together
  lengths,     \* lengths of the config strings
  now,         \* GetTickCount()
  rate,        \* model_notify_window_start and model_notify_count
  answer,      \* history: number asked for last and what the game was given, or None
  skewed,      \* history: the client has acknowledged what it never got, or nonsense
  passed,      \* history: how many "model" commands passed n clock units ago
  age,         \* history: how long ago the window began, up to Turn
  verdict      \* history: what became of the last "model" command

ringVars == <<sent, flight, received, skewed>>
textVars == <<bcs, lengths>>
rateVars == <<rate, passed, age, verdict>>
commandVars == <<texts, guarded, ringVars, textVars, now, rateVars, answer>>

Slots == 0 .. Window - 1
Slot(n) == n % Window

CommandsTypeOK ==
  /\ texts \in Servers /\ guarded \in BOOLEAN /\ skewed \in BOOLEAN
  /\ sent \in [sequence : Nat, acknowledge : Int, ring : [Slots -> Nat]]
  /\ received \in [sequence : Nat, ring : [Slots -> Nat]]
  /\ bcs \in Nat /\ lengths \in [Indices -> Lengths]
  /\ now \in 0 .. Turn - 1 /\ rate \in [start : 0 .. Turn - 1, count : Nat]
  /\ answer \in [asked : Nat, given : Nat] \cup {None}
  /\ passed \in [0 .. Span - 1 -> Nat] /\ age \in 0 .. Turn
  /\ verdict \in {"none", "passed", "dropped"}

CommandsInit ==
  /\ texts \in Servers /\ guarded = TRUE
  /\ sent = [sequence |-> 0, acknowledge |-> 0, ring |-> [s \in Slots |-> 0]]
  /\ flight = {} /\ skewed = FALSE
  /\ received = [sequence |-> 0, ring |-> [s \in Slots |-> 0]]
  /\ bcs = 0 /\ lengths = [i \in Indices |-> 0]
  /\ now \in IF "model" \in texts THEN 0 .. Turn - 1 ELSE {0}
  /\ rate = [start |-> 0, count |-> 0]
  /\ answer = None /\ verdict = "none" /\ age = now
  /\ passed = [n \in 0 .. Span - 1 |-> 0]

-----------------------------------------------------------------------------
(* The server.                                                              *)

\* The game queues a command, over the oldest one.
QueueCommand ==
  /\ sent.sequence < MaxSequence[texts]
  /\ LET n == sent.sequence + 1 IN
     sent' = [sent EXCEPT !.sequence = n, !.ring[Slot(n)] = n]
  /\ UNCHANGED <<texts, guarded, flight, received, skewed, textVars, now, rateVars, answer>>

\* A client says which command it has: one it did have, in time or late, or any number.
ClaimAcknowledge ==
  /\ "plain" \in texts
  /\ \E a \in -1 .. MaxSequence[texts] + 1 :
       /\ sent' = [sent EXCEPT !.acknowledge = a]
       /\ skewed' = (skewed \/ a \notin 0 .. received.sequence)
  /\ UNCHANGED <<texts, guarded, flight, received, textVars, now, rateVars, answer>>

\* Mutant: one command more than the ring holds.
ClampedLoosely(a, last) == IF a \in 0 .. last THEN Max({a, last - Window - 1}) ELSE last

\* hk_write_reliable_commands: what counts as acknowledged.
Clamped(a, last) == IF a \in 0 .. last THEN Max({a, last - Window}) ELSE last

\* The hook, and then the game, which writes what is not acknowledged.
WriteReliableCommands ==
  LET a     == Clamped(sent.acknowledge, sent.sequence)
      batch == [n \in a + 1 .. sent.sequence |-> sent.ring[Slot(n)]] IN
  /\ sent' = [sent EXCEPT !.acknowledge = a]
  /\ flight' = IF DOMAIN batch = {} THEN flight ELSE flight \cup {batch}
  /\ Cardinality(flight') <= MaxFlight
  /\ UNCHANGED <<texts, guarded, received, skewed, textVars, now, rateVars, answer>>

-----------------------------------------------------------------------------
(* The network, and the client's game.                                      *)

Lose(batch) ==
  /\ flight' = flight \ {batch}
  /\ UNCHANGED <<texts, guarded, sent, received, skewed, textVars, now, rateVars, answer>>

\* Of a message the game keeps the commands that are new to it, and the message may come
\* once more.
Receive(batch) ==
  LET new == {n \in DOMAIN batch : n > received.sequence} IN
  /\ flight' \in {flight, flight \ {batch}}
  /\ received' = IF new = {} THEN received
                 ELSE [sequence |-> Max(new),
                       ring |-> [s \in Slots |->
                         LET here == {n \in new : Slot(n) = s} IN
                         IF here = {} THEN received.ring[s] ELSE batch[Max(here)]]]
  /\ UNCHANGED <<texts, guarded, sent, skewed, textVars, now, rateVars, answer>>

-----------------------------------------------------------------------------
(* The client's hook: hk_get_server_command.                                *)

\* The number's slot is its own.
Readable(n) == received.sequence - Window < n /\ n <= received.sequence

Unmoved == UNCHANGED <<texts, guarded, ringVars, lengths>>

Given(n) == answer' = [asked |-> n, given |-> received.ring[Slot(n)]]
NotGiven == answer' = None

\* Numbers out of the window are refused before anything is looked at.
OutOfWindow(n) ==
  /\ guarded /\ ~Readable(n)
  /\ NotGiven
  /\ Unmoved /\ UNCHANGED <<bcs, now, rateVars>>

\* A plain command, or one the game itself has nothing to give for.
ReadPlain(n) ==
  /\ guarded /\ Readable(n)
  /\ \/ "plain" \in texts /\ Given(n)
     \/ NotGiven
  /\ Unmoved /\ UNCHANGED <<bcs, now, rateVars>>

\* The game begins a big config string.
ReadBegin(n) ==
  /\ guarded /\ Readable(n) /\ "begin" \in texts
  /\ bcs' \in {p \in Pieces : p < BcsMax}
  /\ Given(n)
  /\ Unmoved /\ UNCHANGED <<now, rateVars>>

\* The hook's test before the game adds a piece.
Fits(p) == bcs + p < BcsMax

\* The game adds some of the piece's text: less than its command is long.
ReadMore(n) ==
  /\ guarded /\ Readable(n) /\ "more" \in texts
  /\ \E p \in Pieces :
       /\ IF Fits(p) THEN (\E q \in 0 .. p : bcs' = bcs + q) /\ Given(n)
                     ELSE UNCHANGED bcs /\ NotGiven
  /\ Unmoved /\ UNCHANGED <<now, rateVars>>

\* "/" and "7" move entities and flag them: dropped when an argument is out of range.
ReadIndexed(n) ==
  /\ guarded /\ Readable(n) /\ texts \cap {"position", "flag"} # {}
  /\ \E inRange \in BOOLEAN : IF inRange THEN Given(n) ELSE NotGiven
  /\ Unmoved /\ UNCHANGED <<bcs, now, rateVars>>

-----------------------------------------------------------------------------
(* "D" commands, which may not come too often.                              *)

\* Mutant: as if the clock never began again.
ElapsedPlainly == now - rate.start

\* Unsigned, so that a clock that has begun again does no harm.
Elapsed == (now - rate.start) % Turn

\* The window as this command leaves it.
Windowed ==
  IF Elapsed >= Span THEN [start |-> now, count |-> 1]
  ELSE [rate EXCEPT !.count = @ + 1]

\* More than 16 arguments: dropped, and not counted.
ReadModelOversized(n) ==
  /\ guarded /\ Readable(n) /\ "model" \in texts
  /\ NotGiven
  /\ Unmoved /\ UNCHANGED <<bcs, now, rateVars>>

\* Counts beyond the first too many are all alike.
Counted == IF Windowed.count > Most THEN [Windowed EXCEPT !.count = Most + 1] ELSE Windowed

ReadModel(n) ==
  /\ guarded /\ Readable(n) /\ "model" \in texts
  /\ rate' = Counted
  /\ age' = IF Elapsed < Span THEN age ELSE 0
  /\ IF Windowed.count > Most
     THEN NotGiven /\ verdict' = "dropped" /\ UNCHANGED passed
     ELSE Given(n) /\ verdict' = "passed" /\ passed' = [passed EXCEPT ![0] = @ + 1]
  /\ Unmoved /\ UNCHANGED <<bcs, now>>

TimePasses ==
  /\ "model" \in texts
  /\ now' = (now + 1) % Turn
  /\ age' = IF age < Turn THEN age + 1 ELSE age
  /\ passed' = [n \in 0 .. Span - 1 |-> IF n = 0 THEN 0 ELSE passed[n - 1]]
  /\ verdict' = "none"
  /\ UNCHANGED <<texts, guarded, ringVars, textVars, rate, answer>>

-----------------------------------------------------------------------------
(* Switched off, everything is the game's business; what becomes of a text   *)
(* that does not fit is not modelled.                                        *)

ReadUnguarded(n) ==
  /\ ~guarded
  /\ NotGiven
  /\ \/ UNCHANGED bcs
     \/ "more" \in texts /\ \E p \in Pieces : bcs' = bcs + p /\ bcs' < BcsMax
  /\ Unmoved /\ UNCHANGED <<now, rateVars>>

ToggleGuard ==
  /\ guarded' = ~guarded
  /\ UNCHANGED <<texts, ringVars, textVars, now, rateVars, answer>>

-----------------------------------------------------------------------------
(* Config strings: hk_set_config_string.                                    *)

\* The game keeps them one behind the other, each with its zero, and the empty ones all
\* at the first byte.
Pool(f) == 1 + SumFunction([i \in DOMAIN f |-> IF f[i] = 0 THEN 0 ELSE f[i] + 1])

\* Mutant: off by one.
PoolOverflowLate(i, length) == Pool(lengths) + length - lengths[i] > PoolMax

\* configstring_pool_overflow, which leaves the zeroes out.
PoolOverflow(i, length) == Pool(lengths) + length - lengths[i] >= PoolMax

SetConfigString(i, length) ==
  /\ "config" \in texts
  /\ IF guarded THEN ~PoolOverflow(i, length)
                ELSE Pool([lengths EXCEPT ![i] = length]) <= PoolMax
  /\ lengths' = [lengths EXCEPT ![i] = length]
  /\ UNCHANGED <<texts, guarded, ringVars, bcs, now, rateVars, answer>>

\* The index is past the last, or the text does not fit.
DropConfigString ==
  /\ "config" \in texts /\ guarded
  /\ UNCHANGED commandVars

-----------------------------------------------------------------------------
GetServerCommand(n) ==
  \/ OutOfWindow(n) \/ ReadPlain(n) \/ ReadBegin(n) \/ ReadMore(n) \/ ReadIndexed(n)
  \/ ReadModelOversized(n) \/ ReadModel(n) \/ ReadUnguarded(n)

CommandsNext ==
  \/ QueueCommand \/ ClaimAcknowledge \/ WriteReliableCommands
  \/ \E batch \in flight : Lose(batch) \/ Receive(batch)
  \/ \E n \in 1 .. received.sequence + 1 : GetServerCommand(n)
  \/ TimePasses \/ ToggleGuard \/ DropConfigString
  \/ \E i \in Indices, length \in Lengths : SetConfigString(i, length)

-----------------------------------------------------------------------------
(* Properties.                                                              *)

\* A command is written under the number its server gave it, and the command a client
\* reads under a number is that one, whatever was lost, repeated, reordered or cycled out
\* of the rings; the latter as long as the client does not claim to have what it has not
\* (the clamp of hk_write_reliable_commands at one end and the window of
\* hk_get_server_command at the other).
ReadsItsCommand ==
  /\ \A batch \in flight : \A n \in DOMAIN batch : batch[n] = n
  /\ ~skewed /\ answer # None => answer.given = answer.asked

\* However pieces and strings follow one another, what the game puts together stays
\* shorter than its buffer, and the config strings with their zeroes fit their pool
\* (hk_get_server_command, and configstring_pool_overflow, which does not count zeroes).
BuffersHold == bcs < BcsMax /\ Pool(lengths) <= PoolMax

\* "D" commands are let through at most twice as fast as the window says, and one is
\* dropped only when as many as it allows have passed within its span, wherever the
\* 32-bit clock is; but for a window left from a whole turn of the clock ago.
FairRate ==
  /\ SumFunction(passed) <= 2 * Most
  /\ verdict = "dropped" => SumFunction(passed) >= Most \/ age >= Turn
=============================================================================
