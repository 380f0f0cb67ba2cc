---------------------------- MODULE MCStageEngine ----------------------------
(***************************************************************************)
(* Small instances of StageEngine: one IP, with an author document to      *)
(* normalize or with a DLD in the extractor's shape.                       *)
(***************************************************************************)
EXTENDS StageEngine
=============================================================================
