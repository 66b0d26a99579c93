-------------------------- MODULE MonitorWorkerMC --------------------------
(* Small instances of MonitorWorker: a quick service with a short time-out, *)
(* a slow one without, and one whose URL is malformed.                      *)
EXTENDS MonitorWorker

CONSTANTS quick, slow, broken

ServiceDef   == {quick, slow, broken}
IntervalDef  == [s \in ServiceDef |-> IF s = quick THEN 2 ELSE 3]
TimeoutDef   == [s \in ServiceDef |-> IF s = quick THEN 1 ELSE 0]
=============================================================================
