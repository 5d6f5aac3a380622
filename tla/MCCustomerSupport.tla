-------------------------- MODULE MCCustomerSupport --------------------------
(* Two tickets: enough for a job in the table while another is inserted.    *)
EXTENDS CustomerSupport

CONSTANTS t1, t2

MCIds        == {t1, t2}
MCTableNames == {tickets, jobs}
MCProcs      == {server, worker}
MCUses       == [p \in MCProcs |-> IF p = server THEN {tickets, jobs} ELSE {jobs}]
MCRecords    == [id : MCIds, about : MCIds, status : {"open", "resolved", "pending", "processed"}]
=============================================================================
