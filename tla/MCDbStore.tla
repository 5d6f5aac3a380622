------------------------------ MODULE MCDbStore ------------------------------
(* A server and a worker with a table each: what milestone 25 assumes of    *)
(* the programs that share a database.                                      *)
EXTENDS DbStore, TLC

CONSTANTS server, worker, tickets, jobs

MCTableNames == {tickets, jobs}
MCProcs      == {server, worker}
MCUses       == [p \in MCProcs |-> IF p = server THEN {tickets} ELSE {jobs}]

IdsAndRecords == Permutations(Ids) \cup Permutations(Records)
=============================================================================
