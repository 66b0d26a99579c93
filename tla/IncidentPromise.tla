--------------------------- MODULE IncidentPromise -------------------------
(***************************************************************************)
(* What statuskeet promises about a service, with no handler, no statement *)
(* and no window in sight: its status changes; every change is owed to its *)
(* incident; settling the debt opens, escalates or resolves the incident.  *)
(* At most one incident is open, and its severity only rises.              *)
(*                                                                         *)
(* StatusPipelinePromise shows when the code keeps it; what the promise    *)
(* implies is proved in IncidentPromiseProofs.                             *)
(***************************************************************************)
EXTENDS StatusLogic

CONSTANT Service

VARIABLES
    status,     \* the service's current status
    incident,   \* the severity of its open incident, or "none"
    due         \* the last change of status is not yet in the incident

vars == <<status, incident, due>>

Init ==
    /\ status = [s \in Service |-> "unknown"]
    /\ incident = [s \in Service |-> "none"]
    /\ due = [s \in Service |-> FALSE]

\* The status changes; a change is settled before the next one.
Observe(s) ==
    /\ ~due[s]
    /\ \E new \in ServiceStatus \ {"unknown", status[s]} :
        status' = [status EXCEPT ![s] = new]
    /\ due' = [due EXCEPT ![s] = TRUE]
    /\ UNCHANGED incident

\* The incident once a change to status st is accounted for.
Settled(open, st) ==
    CASE st = "operational" -> "none"
      [] isIncidentStatus(st)
            /\ severityRank(severityFromStatus(st)) > severityRank(open) ->
         severityFromStatus(st)
      [] OTHER -> open

Settle(s) ==
    /\ due[s]
    /\ incident' = [incident EXCEPT ![s] = Settled(@, status[s])]
    /\ due' = [due EXCEPT ![s] = FALSE]
    /\ UNCHANGED status

Next == \E s \in Service : Observe(s) \/ Settle(s)

Spec == Init /\ [][Next]_vars

FairSpec == Spec /\ \A s \in Service : WF_vars(Settle(s))

(* ------------------------------ properties ----------------------------- *)

TypeOK ==
    /\ status \in [Service -> ServiceStatus]
    /\ incident \in [Service -> {"none"} \cup Severity]
    /\ due \in [Service -> BOOLEAN]

\* A settled service has an open incident, at least as severe as its status,
\* exactly when it is not operational.
SettledIsConsistent ==
    \A s \in Service : ~due[s] =>
        IF isIncidentStatus(status[s])
        THEN severityRank(incident[s]) >= severityRank(severityFromStatus(status[s]))
        ELSE incident[s] = "none"

\* An open incident never becomes less severe; it can only be closed.
SeverityRisesWhileOpen ==
    [][ \A s \in Service :
            \/ incident'[s] = "none"
            \/ severityRank(incident'[s]) >= severityRank(incident[s]) ]_vars
=============================================================================
