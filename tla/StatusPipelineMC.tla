-------------------------- MODULE StatusPipelineMC -------------------------
(* Small instances of StatusPipeline.                                      *)
EXTENDS StatusPipeline

\* Slots are interchangeable: no property and no constant singles one out.
HandlerSymmetry == Permutations(Handler)
=============================================================================
