-------------------------- MODULE MCStoragePipeline --------------------------
(***************************************************************************)
(* Small instances of StoragePipeline: the two tenants of its default      *)
(* topology, one of them with two queues.                                  *)
(***************************************************************************)
EXTENDS StoragePipeline, TLC

CONSTANTS t0, t1, a, b, c

MCTenantOf == [s \in Sq |-> IF s = c THEN t1 ELSE t0]
\* Two commands for the first queue, one for each other.
TwoForOne == [s \in Sq |-> IF s = a THEN 2 ELSE 1]

==============================================================================
