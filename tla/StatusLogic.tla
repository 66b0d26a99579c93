---------------------------- MODULE StatusLogic ----------------------------
(***************************************************************************)
(* The pure rules of statuskeet's evaluation pipeline: how a window of     *)
(* check results becomes a service status, how a status becomes an         *)
(* incident severity, and what the `ORDER BY checked_at DESC LIMIT n`      *)
(* window holds after one more result is stored.                           *)
(*                                                                         *)
(* No state lives here; StatusWindow and StatusPipeline build on it.       *)
(***************************************************************************)
EXTENDS Integers, Sequences, FiniteSets, SequencesExt

(* ------------------------------ vocabulary ----------------------------- *)

ServiceStatus ==
    {"unknown", "operational", "degraded", "partial_outage", "major_outage"}

\* The statuses for which the incident manager opens or escalates an incident.
isIncidentStatus(status) ==
    status \in {"degraded", "partial_outage", "major_outage"}

Severity == {"minor", "major", "critical"}

\* What a client may report, after validateHeartbeatService.
HeartbeatResult ==
    [source : {"heartbeat"}, status : {"up", "down", "degraded", "timeout"}]

\* What the monitor's own probe of a service's URL may conclude.
ExternalResult == [source : {"external"}, status : {"up", "down"}]

Result == HeartbeatResult \cup ExternalResult

(* --------------------------- status evaluation ------------------------- *)

Failed(r) == r.status \in {"down", "timeout"}

FailCount(results) ==
    Cardinality({i \in DOMAIN results : Failed(results[i])})

Reports(results, source) ==
    \E i \in DOMAIN results : results[i].source = source

FailsIn(results, source) ==
    \E i \in DOMAIN results : results[i].source = source /\ Failed(results[i])

\* One of the two sources sees a failure in the window and the other does not.
SourcesDisagree(results) ==
    /\ Reports(results, "heartbeat") /\ Reports(results, "external")
    /\ FailsIn(results, "heartbeat") # FailsIn(results, "external")

MajorityFails(results) ==
    \/ FailCount(results) >= 3
    \/ FailCount(results) > Len(results) \div 2

\* The mistake of looking for degraded reports before looking for failures.
determineStatus_DegradedFirst(results) ==
    CASE results = <<>> -> "unknown"
      [] results # <<>> /\ \A i \in DOMAIN results : results[i].status = "up" ->
            "operational"
      [] \E i \in DOMAIN results : results[i].status = "degraded" -> "degraded"
      [] OTHER -> IF MajorityFails(results) THEN "major_outage" ELSE "degraded"

\* The mistake of reading "all up" off the newest result.
determineStatus_NewestOnly(results) ==
    CASE results = <<>> -> "unknown"
      [] results # <<>> /\ results[1].status = "up" -> "operational"
      [] results # <<>> /\ results[1].status # "up" /\ MajorityFails(results) ->
            "major_outage"
      [] OTHER -> "degraded"

\* The early returns of the code, in order: nothing known, nothing wrong, no
\* failure, disagreement between the sources, majority, the rest.
determineStatus(results) ==
    LET degraded == \E i \in DOMAIN results : results[i].status = "degraded"
    IN  IF results = <<>> THEN "unknown"
        ELSE IF FailCount(results) = 0
             THEN IF degraded THEN "degraded" ELSE "operational"
        ELSE IF SourcesDisagree(results) THEN "partial_outage"
        ELSE IF MajorityFails(results) THEN "major_outage"
        ELSE "degraded"

(* ------------------------------- severity ------------------------------ *)

severityFromStatus(status) ==
    CASE status = "major_outage"   -> "critical"
      [] status = "partial_outage" -> "major"
      [] OTHER                     -> "minor"

severityRank(severity) ==
    CASE severity = "critical" -> 3
      [] severity = "major"    -> 2
      [] severity = "minor"    -> 1
      [] OTHER                 -> 0

\* The mistake of comparing for change instead of for rise.
escalates_OnAnyChange(status, severity) == severityFromStatus(status) # severity

\* The mistake of a comparison the wrong way round.
escalates_Swapped(status, severity) ==
    severityRank(severityFromStatus(status)) < severityRank(severity)

\* handleFailure raises the severity of an incident only to a higher rank.
escalates(status, severity) ==
    severityRank(severityFromStatus(status)) > severityRank(severity)

(* --------------------------- the recent window ------------------------- *)

\* The newest `limit` results once r is stored as the k-th newest of them.
\* checked_at is the client's clock for a heartbeat and is read before the
\* insert for a probe, so k need not be 1.  Rows are never deleted: what falls
\* out of the window never comes back, and the window is all that matters.
GetRecent(window, r, k, limit) ==
    LET all == InsertAt(window, k, r)
    IN  IF Len(all) <= limit THEN all ELSE SubSeq(all, 1, limit)
=============================================================================
