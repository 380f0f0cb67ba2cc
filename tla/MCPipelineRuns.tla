---------------------------- MODULE MCPipelineRuns ----------------------------
(***************************************************************************)
(* Small instances of PipelineRuns: two processes over one checkout.       *)
(***************************************************************************)
EXTENDS PipelineRuns

CONSTANTS r1, r2, i1, i2

===============================================================================
