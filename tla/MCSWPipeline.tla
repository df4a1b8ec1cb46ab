----------------------------- MODULE MCSWPipeline -----------------------------
(***************************************************************************)
(* SWPipeline as TLC checks it; the instances are given by the .cfg files. *)
(***************************************************************************)
EXTENDS SWPipelineInv, TLC
=============================================================================
