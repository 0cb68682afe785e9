-------------------------------- MODULE MCGuards --------------------------------
(* A small instance of Guards: rings of two commands, buffers and pools that two    *)
(* strings fill, a clock that begins again soon, and two threads of lobby messages. *)
EXTENDS Guards, TLC

CONSTANTS t1, t2, i1, i2

MCServers == {{}, {"plain"}, {"begin", "more"}, {"position", "flag", "config"}, {"model"}}

\* Only the rings need more than one command to be asked for.
MCMaxSequence == [s \in MCServers |-> IF s = {} THEN 0 ELSE IF s = {"plain"} THEN 5 ELSE 1]

MCLimit == [votes |-> 2, members |-> 1]

MCSymmetry == Permutations(Threads) \cup Permutations(Indices)
=============================================================================
