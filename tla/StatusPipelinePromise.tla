------------------------ MODULE StatusPipelinePromise ----------------------
(***************************************************************************)
(* StatusPipeline implements IncidentPromise when handlers run one at a    *)
(* time and no statement fails: the refinement mapping.                    *)
(***************************************************************************)
EXTENDS StatusPipeline

\* The transition k of handler h has reached its incident: only the timeline
\* entry is missing.
Accounted(h, k) == k = 1 /\ At(h, "addUpdate")

dueOf(s) ==
    \E h \in Handler : \E k \in DOMAIN transitions[h] :
        transitions[h][k].service = s /\ ~Accounted(h, k)

openSeverity(s) ==
    IF Active(s) = {} THEN "none" ELSE incidents[Newest(Active(s))].severity

Promise == INSTANCE IncidentPromise WITH
    incident <- [s \in Service |-> openSeverity(s)],
    due      <- [s \in Service |-> dueOf(s)]

\* Every step of the pipeline is a change of status, its settlement, or
\* invisible to the promise, and every change is settled.
KeepsPromise == Promise!FairSpec
=============================================================================
