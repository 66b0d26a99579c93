----------------------- MODULE StatusPipelinePromiseMC ---------------------
(* One handler at a time, no faults, two services: the refinement.         *)
EXTENDS StatusPipelinePromise
=============================================================================
