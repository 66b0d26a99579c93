----------------------------- MODULE StatusPage ----------------------------
(***************************************************************************)
(* What a visitor sees: the status endpoint reads the services and then    *)
(* the incidents of an organisation, without a transaction, while the      *)
(* pipeline goes on; the public page, and the overview and the incidents   *)
(* page of the dashboard, show its answer.                                 *)
(*                                                                         *)
(* The pipeline is IncidentPromise, which StatusPipeline implements as     *)
(* long as handlers neither overlap nor fail.  Every service is visible:   *)
(* nothing in the program hides one.                                       *)
(***************************************************************************)
EXTENDS StatusLogic

CONSTANT Service

ASSUME ServicesAssumption == IsFiniteSet(Service)

VARIABLES
    status, incident, due,  \* see IncidentPromise
    registered,             \* the services of the organisation
    answer,                 \* the endpoint's answer, being built or on the page
    changed,                \* history: services registered, or with another status,
                            \* since the page was asked for
    moved                   \* history: services that changed, or had a change due,
                            \* between the request and the answer

Pipeline == INSTANCE IncidentPromise

pipeline == <<status, incident, due>>
history == <<changed, moved>>
vars == <<pipeline, registered, answer, history>>

\* Nothing read yet; found is FALSE for an error and for an answer that is lost.
Asked == [at |-> "asked", found |-> FALSE, whole |-> FALSE, services |-> {},
          st   |-> [s \in Service |-> "unknown"],
          open |-> [s \in Service |-> "none"]]

Null == [Asked EXCEPT !.at = "shown"]

Init ==
    /\ Pipeline!Init
    /\ registered = {} /\ answer = Null /\ changed = {} /\ moved = {}

(* ------------------------------- pipeline ------------------------------ *)

Moves(s)   == moved' = IF answer.at = "shown" THEN moved ELSE moved \cup {s}
Changes(s) == changed' = IF answer.at = "shown" THEN changed ELSE changed \cup {s}

\* A new service starts as "unknown".
Register(s) ==
    /\ s \notin registered /\ registered' = registered \cup {s}
    /\ Moves(s) /\ Changes(s)
    /\ UNCHANGED <<pipeline, answer>>

\* The status of a service changes, or its incident follows.
Observe(s) ==
    /\ s \in registered /\ Pipeline!Observe(s)
    /\ Moves(s) /\ Changes(s)
    /\ UNCHANGED <<registered, answer>>

Settle(s) ==
    /\ Pipeline!Settle(s)
    /\ Moves(s)
    /\ UNCHANGED <<registered, answer, changed>>

(* ------------------------------- endpoint ------------------------------ *)

\* A page asks for the status when it is opened, or opened again.
getPublicStatus ==
    /\ answer.at = "shown"
    /\ answer' = Asked
    /\ changed' = {} /\ moved' = {s \in Service : due[s]}
    /\ UNCHANGED <<pipeline, registered>>

\* The organisation is not found, its services cannot be read, or the answer is
\* lost: the page has nothing to show.
Fails ==
    /\ answer.at # "shown"
    /\ answer' = Null
    /\ UNCHANGED <<pipeline, registered, history>>

ReadServices ==
    /\ answer.at = "asked"
    /\ answer' = [answer EXCEPT !.at = "services", !.services = registered, !.st = status]
    /\ UNCHANGED <<pipeline, registered, history>>

\* The mistake of listing an incident only once it is critical.
GetByOrgID_Critical == [s \in Service |-> IF incident[s] = "critical" THEN "critical" ELSE "none"]

\* The incidents that are not resolved.
GetByOrgID == incident

\* The incidents, each with its updates; the error of a failed read is dropped
\* and the answer lists none.
ReadIncidents ==
    /\ answer.at = "services"
    /\ \E whole \in BOOLEAN :
        answer' = [answer EXCEPT !.at = "incidents", !.whole = whole,
                                 !.open = IF whole THEN GetByOrgID ELSE @]
    /\ UNCHANGED <<pipeline, registered, history>>

\* The answer reaches the page, with the uptime of each service.
Arrives ==
    /\ answer.at = "incidents"
    /\ answer' = [answer EXCEPT !.at = "shown", !.found = TRUE]
    /\ UNCHANGED <<pipeline, registered, history>>

Next ==
    \/ getPublicStatus \/ Fails \/ ReadServices \/ ReadIncidents \/ Arrives
    \/ \E s \in Service : Register(s) \/ Observe(s) \/ Settle(s)

Spec == Init /\ [][Next]_vars

(* -------------------------------- pages -------------------------------- *)

Statuses(a) == {a.st[s] : s \in a.services}

\* The mistake of looking for an operational service before a degraded one.
overallStatus_AnyOperational(a) ==
    IF "major_outage" \in Statuses(a) THEN "major_outage"
    ELSE IF "partial_outage" \in Statuses(a) THEN "partial_outage"
    ELSE IF "operational" \in Statuses(a) THEN "operational"
    ELSE IF "degraded" \in Statuses(a) THEN "degraded"
    ELSE "unknown"

\* The worst status decides; services that were never checked count only if no
\* other has been.
overallStatus(a) ==
    IF "major_outage" \in Statuses(a) THEN "major_outage"
    ELSE IF "partial_outage" \in Statuses(a) THEN "partial_outage"
    ELSE IF "degraded" \in Statuses(a) THEN "degraded"
    ELSE IF "operational" \in Statuses(a) THEN "operational"
    ELSE "unknown"

\* What the pages show.  Without an answer the public page is an error; the
\* overview falls back on "All Systems Operational" and no services, and the
\* incidents page on "No active incidents".
StatusBanner(a) == IF a.found THEN overallStatus(a) ELSE "not found"
StatusPill(a)   == IF a.found THEN overallStatus(a) ELSE "operational"

\* The label and colour of a service's row.
ServiceRow(a, s) == IF a.st[s] \in ServiceStatus THEN a.st[s] ELSE "unknown"

\* The cards above the rows, and a card for each incident.
Count(a, sts)   == Cardinality({s \in a.services : a.found /\ a.st[s] \in sts})
StatCards(a)    == [operational |-> Count(a, {"operational"}),
                    degraded    |-> Count(a, {"degraded"}),
                    outage      |-> Count(a, {"partial_outage", "major_outage"}),
                    total       |-> Count(a, ServiceStatus)]
IncidentCards(a) == {s \in Service : a.found /\ a.open[s] # "none"}

(* ------------------------------ properties ----------------------------- *)

Shown == answer.at = "shown" /\ answer.found

\* The pages do not contradict themselves: unless the read of the incidents
\* failed, a service that neither changed nor had a change due while the two
\* reads were made has an incident card, as severe as its row or more, exactly
\* when its row is not green.
PageAgreesWhenCalm ==
    Shown /\ answer.whole =>
        \A s \in answer.services \ moved :
            IF isIncidentStatus(ServiceRow(answer, s))
            THEN /\ s \in IncidentCards(answer)
                 /\ severityRank(answer.open[s])
                        >= severityRank(severityFromStatus(ServiceRow(answer, s)))
            ELSE s \notin IncidentCards(answer)

\* The banner and the cards of the overview agree: the banner is green only if
\* there are no more services than operational and unchecked ones, and it says
\* that of an outage when one is counted.
BannerTellsTheWorst ==
    Shown =>
        LET cards == StatCards(answer)
        IN  /\ StatusBanner(answer) \in {"partial_outage", "major_outage"} <=> cards.outage > 0
            /\ StatusBanner(answer) = "degraded" <=> cards.outage = 0 /\ cards.degraded > 0
            /\ StatusBanner(answer) = "operational" => cards.operational > 0
            /\ StatusPill(answer) = StatusBanner(answer)

\* When the public page arrives it gives the all-clear only if no service is
\* down whose row has not changed since the page was asked for, whichever read
\* failed and whether or not the incident is written yet.
NoFalseAllClear ==
    [][ answer.at # "shown" /\ answer'.at = "shown" /\ StatusBanner(answer') = "operational" =>
            \A s \in registered \ changed : ~isIncidentStatus(status[s]) ]_vars
=============================================================================
