--------------------------- MODULE StatusPipeline --------------------------
(***************************************************************************)
(* From a check result to an incident: the core of the statuskeet backend. *)
(*                                                                         *)
(* A handler is one run of the code that stores results and reacts to them:*)
(* an HTTP request in HeartbeatHandler.Ingest (a batch of results), or one *)
(* goroutine of MonitorWorker.check (a single probe).  Both store, evaluate*)
(* each service, then process the transitions.  There is no transaction    *)
(* and no lock: every SQL statement is one action, and the statements of   *)
(* different handlers, on this server or on another instance, interleave.  *)
(*                                                                         *)
(* A statement may go wrong in the ways listed in Faults; the handler then *)
(* does what the code does with the error.                                 *)
(***************************************************************************)
EXTENDS StatusLogic

CONSTANTS
    Service,            \* services of one organisation
    Handler,            \* slots for handlers that run at the same time
    Nobody,             \* no handler
    WindowSize,         \* results evaluated per service
    HeartbeatStatuses,  \* what clients report here, a part of the four statuses
    ProbeStatuses,      \* what probes conclude here
    MaxBatch,           \* bound: results in one heartbeat
    MaxRequests,        \* bound: heartbeats and probes in one behaviour
    MaxIncidents,       \* bound: started_at stamps handed out
    Skew,               \* bound: newer rows a late checked_at may sit behind
    Faults              \* "refused": a statement fails without effect
                        \* "unacked": it takes effect, the handler sees an error
                        \* "crash":   the handler is gone between two statements

ASSUME PipelineAssumption ==
    /\ Nobody \notin Handler
    /\ WindowSize \in Nat \ {0}
    /\ HeartbeatStatuses \subseteq {"up", "down", "degraded", "timeout"}
    /\ ProbeStatuses \subseteq {"up", "down"}
    /\ MaxBatch \in Nat /\ MaxRequests \in Nat /\ MaxIncidents \in Nat
    /\ Skew \in Nat
    /\ Faults \subseteq {"refused", "unacked", "crash"}

VARIABLES
    (* the database *)
    status,       \* services.current_status
    results,      \* the newest WindowSize check_results, newest first
    incidents,    \* incidents with their links and updates, by started_at
    (* the handlers *)
    pc,           \* the statement a handler executes next
    batch,        \* the results it was given
    cursor,       \* the loop index into batch
    seen,         \* service.CurrentStatus as read by Evaluate
    verdict,      \* newStatus, as computed by Evaluate
    transitions,  \* the transitions it has still to process
    target,       \* the incident it is working on
    (* bookkeeping of the model *)
    clock,        \* the latest started_at stamp
    requests,     \* handlers started so far
    calm          \* history: no other handler and no fault met this one

database == <<status, results, incidents>>
locals   == <<batch, cursor, seen, verdict, transitions, target>>
vars     == <<database, pc, locals, clock, requests, calm>>

Stamp == 1 .. MaxIncidents

Item == [service : Service, result : Result]

Transition == [service : Service, to : ServiceStatus]

\* A row of incidents joined with incident_services and incident_updates.
\* opener is history: the slot that created the row.
Incident ==
    [status   : {"absent", "detected", "resolved"},
     severity : Severity,
     services : SUBSET Service,
     opener   : Handler \cup {Nobody},
     updates  : Seq({"detected", "resolved"})]

NoIncident ==
    [status |-> "absent", severity |-> "minor", services |-> {},
     opener |-> Nobody, updates |-> <<>>]

Init ==
    /\ status = [s \in Service |-> "unknown"]
    /\ results = [s \in Service |-> <<>>]
    /\ incidents = [i \in Stamp |-> NoIncident]
    /\ pc = [h \in Handler |-> "idle"]
    /\ batch = [h \in Handler |-> <<>>]
    /\ cursor = [h \in Handler |-> 0]
    /\ seen = [h \in Handler |-> "unknown"]
    /\ verdict = [h \in Handler |-> "unknown"]
    /\ transitions = [h \in Handler |-> <<>>]
    /\ target = [h \in Handler |-> 0]
    /\ clock = 0
    /\ requests = 0
    /\ calm = [h \in Handler |-> FALSE]

(* ------------------------- how a statement ends ------------------------ *)

WriteOutcome == {"ok"} \cup (Faults \cap {"refused", "unacked"})
ReadOutcome  == {"ok"} \cup (Faults \cap {"refused"})

Applied(o) == o # "refused"

\* Any error ends the calm of its handler.
Note(h, o) ==
    calm' = IF o = "ok" THEN calm ELSE [calm EXCEPT ![h] = FALSE]

At(h, line) == pc[h] = line

Goto(h, line) == pc' = [pc EXCEPT ![h] = line]

\* The handler returns and its locals are gone.
Return(h) ==
    /\ Goto(h, "idle")
    /\ batch' = [batch EXCEPT ![h] = <<>>]
    /\ cursor' = [cursor EXCEPT ![h] = 0]
    /\ seen' = [seen EXCEPT ![h] = "unknown"]
    /\ verdict' = [verdict EXCEPT ![h] = "unknown"]
    /\ transitions' = [transitions EXCEPT ![h] = <<>>]
    /\ target' = [target EXCEPT ![h] = 0]

(* ------------------------------ new handlers --------------------------- *)

Start(h, items) ==
    /\ At(h, "idle")
    /\ requests < MaxRequests
    /\ requests' = requests + 1
    /\ Goto(h, "storeResult")
    /\ batch' = [batch EXCEPT ![h] = items]
    /\ cursor' = [cursor EXCEPT ![h] = 1]
    /\ calm' = [g \in Handler |->
                    g = h /\ \A other \in Handler \ {h} : At(other, "idle")]
    /\ UNCHANGED <<database, seen, verdict, transitions, target, clock>>

\* A heartbeat that passed validation; services the organisation does not have
\* (or whose lookup failed) have been skipped.  A request that fails validation,
\* or whose services are all skipped, touches nothing.
Ingest(h) ==
    \E n \in 1 .. MaxBatch :
        \E items \in [1 .. n -> [service : Service,
                                 result : [source : {"heartbeat"},
                                           status : HeartbeatStatuses]]] :
            Start(h, items)

\* A probe of the service's URL has been answered, refused or timed out.
check(h) ==
    \E item \in [service : Service,
                 result : [source : {"external"}, status : ProbeStatuses]] :
        Start(h, <<item>>)

(* ------------------------------ EvaluateMultiple ----------------------- *)

\* The mistake of evaluating only the service the batch begins with.
uniqueServiceIDs_FirstOnly(items) == {1} \cap DOMAIN items

\* The places of a batch where a service is mentioned for the first time: the
\* order in which uniqueServiceIDs lists the services.
uniqueServiceIDs(items) ==
    {i \in DOMAIN items : \A j \in 1 .. i - 1 : items[j].service # items[i].service}

current(h) == batch[h][cursor[h]].service

\* The loop goes to the first service at place i or later; after the last one
\* the transitions ts are processed, if there are any.
EvaluateFrom(h, i, ts) ==
    LET rest == {j \in uniqueServiceIDs(batch[h]) : j >= i}
    IN  \/ /\ \E j \in rest : /\ \A k \in rest : j <= k
                              /\ cursor' = [cursor EXCEPT ![h] = j]
           /\ transitions' = [transitions EXCEPT ![h] = ts]
           /\ seen' = [seen EXCEPT ![h] = "unknown"]
           /\ verdict' = [verdict EXCEPT ![h] = "unknown"]
           /\ Goto(h, "getService")
           /\ UNCHANGED <<batch, target>>
        \/ /\ rest = {} /\ ts # <<>>
           /\ cursor' = [cursor EXCEPT ![h] = 0]
           /\ transitions' = [transitions EXCEPT ![h] = ts]
           /\ seen' = [seen EXCEPT ![h] = "unknown"]
           /\ verdict' = [verdict EXCEPT ![h] = "unknown"]
           /\ Goto(h, "getActive")
           /\ UNCHANGED <<batch, target>>
        \/ rest = {} /\ ts = <<>> /\ Return(h)

NextService(h) == EvaluateFrom(h, cursor[h] + 1, transitions[h])

\* check_results: one INSERT of the batch.  The first error abandons the whole
\* batch: what is already stored stays, and nothing is evaluated.
StoreResult(h) ==
    /\ At(h, "storeResult")
    /\ \E o \in WriteOutcome, k \in 1 .. Skew + 1 :
        LET item == batch[h][cursor[h]]
            s    == item.service
        IN  /\ k <= Len(results[s]) + 1
            /\ results' = IF Applied(o)
                          THEN [results EXCEPT ![s] =
                                    GetRecent(@, item.result, k, WindowSize)]
                          ELSE results
            /\ Note(h, o)
            /\ \/ o # "ok" /\ Return(h)
               \/ /\ o = "ok" /\ cursor[h] < Len(batch[h])
                  /\ cursor' = [cursor EXCEPT ![h] = @ + 1]
                  /\ UNCHANGED <<pc, batch, seen, verdict, transitions, target>>
               \/ /\ o = "ok" /\ cursor[h] = Len(batch[h])
                  /\ EvaluateFrom(h, 1, <<>>)
    /\ UNCHANGED <<status, incidents, clock, requests>>

\* Evaluate reads the service row.  An error skips this service.
GetService(h) ==
    /\ At(h, "getService")
    /\ \E o \in ReadOutcome :
        /\ Note(h, o)
        /\ \/ o # "ok" /\ NextService(h)
           \/ /\ o = "ok"
              /\ seen' = [seen EXCEPT ![h] = status[current(h)]]
              /\ Goto(h, "getRecent")
              /\ UNCHANGED <<batch, cursor, verdict, transitions, target>>
    /\ UNCHANGED <<database, clock, requests>>

\* Evaluate reads the window and decides.  The comparison is with the status
\* read one statement earlier.
Evaluate(h) ==
    /\ At(h, "getRecent")
    /\ \E o \in ReadOutcome :
        LET window == results[current(h)]
            new    == determineStatus(window)
        IN  /\ Note(h, o)
            /\ \/ /\ o # "ok" \/ window = <<>> \/ new = seen[h]
                  /\ NextService(h)
               \/ /\ o = "ok" /\ window # <<>> /\ new # seen[h]
                  /\ verdict' = [verdict EXCEPT ![h] = new]
                  /\ Goto(h, "updateStatus")
                  /\ UNCHANGED <<batch, cursor, seen, transitions, target>>
    /\ UNCHANGED <<database, clock, requests>>

\* The mistake of writing back the status that was read.
UpdateStatus_WritesOld(h) ==
    /\ At(h, "updateStatus")
    /\ \E o \in WriteOutcome :
        /\ Note(h, o)
        /\ NextService(h)
    /\ status' = [status EXCEPT ![current(h)] = seen[h]]
    /\ UNCHANGED <<results, incidents, clock, requests>>

\* The mistake of writing the status and returning no transition.
UpdateStatus_NoTransition(h) ==
    /\ At(h, "updateStatus")
    /\ \E o \in WriteOutcome :
        /\ Note(h, o)
        /\ NextService(h)
    /\ status' = [status EXCEPT ![current(h)] = verdict[h]]
    /\ UNCHANGED <<results, incidents, clock, requests>>

\* The status is overwritten whatever it is by now.  Only without an error is
\* the transition handed on: after an unacknowledged write it is lost.
UpdateStatus(h) ==
    /\ At(h, "updateStatus")
    /\ \E o \in WriteOutcome :
        LET moved == [service |-> current(h), to |-> verdict[h]]
        IN  /\ status' = IF Applied(o)
                         THEN [status EXCEPT ![moved.service] = moved.to]
                         ELSE status
            /\ Note(h, o)
            /\ EvaluateFrom(h, cursor[h] + 1,
                   IF o = "ok" THEN Append(transitions[h], moved)
                               ELSE transitions[h])
    /\ UNCHANGED <<results, incidents, clock, requests>>

(* ----------------------------- ProcessTransitions ---------------------- *)

Active(s) ==
    {i \in Stamp : incidents[i].status = "detected" /\ s \in incidents[i].services}

Newest(ids) == CHOOSE i \in ids : \A j \in ids : j <= i

this(h) == Head(transitions[h])

\* The handler is done with its first transition; an error only ever costs
\* the transition it happened in.
NextTransition(h) ==
    \/ /\ Len(transitions[h]) > 1
       /\ transitions' = [transitions EXCEPT ![h] = Tail(@)]
       /\ target' = [target EXCEPT ![h] = 0]
       /\ Goto(h, "getActive")
       /\ UNCHANGED <<batch, cursor, seen, verdict>>
    \/ Len(transitions[h]) = 1 /\ Return(h)

Work(h, i, line) ==
    /\ target' = [target EXCEPT ![h] = i]
    /\ Goto(h, line)
    /\ UNCHANGED <<batch, cursor, seen, verdict, transitions>>

\* The mistake of a query that looks only at incidents of the lowest severity.
GetActiveForService_MinorOnly(s) ==
    LET minor == {i \in Active(s) : incidents[i].severity = "minor"}
    IN  IF minor = {} THEN 0 ELSE Newest(minor)

\* The incident the database returns for a service: the most recently started
\* of the active ones; none is 0.
GetActiveForService(s) == IF Active(s) = {} THEN 0 ELSE Newest(Active(s))

\* A service became degraded or worse: escalate the active incident if the new
\* severity outranks the one just read, or draw a started_at for a new one.
handleFailure(h) ==
    /\ At(h, "getActive") /\ isIncidentStatus(this(h).to)
    /\ \E o \in ReadOutcome :
        LET existing == GetActiveForService(this(h).service)
            outranks == escalates(this(h).to, incidents[existing].severity)
        IN  /\ Note(h, o)
            /\ \/ o # "ok" /\ NextTransition(h) /\ UNCHANGED clock
               \/ /\ o = "ok" /\ existing # 0 /\ ~outranks
                  /\ NextTransition(h) /\ UNCHANGED clock
               \/ /\ o = "ok" /\ existing # 0 /\ outranks
                  /\ Work(h, existing, "updateSeverity") /\ UNCHANGED clock
               \/ /\ o = "ok" /\ existing = 0 /\ clock < MaxIncidents
                  /\ clock' = clock + 1
                  /\ Work(h, clock + 1, "createIncident")
    /\ UNCHANGED <<database, requests>>

\* A service is operational again: its active incident is to be resolved.
handleRecovery(h) ==
    /\ At(h, "getActive") /\ this(h).to = "operational"
    /\ \E o \in ReadOutcome :
        LET existing == GetActiveForService(this(h).service)
        IN  /\ Note(h, o)
            /\ \/ (o # "ok" \/ existing = 0) /\ NextTransition(h)
               \/ o = "ok" /\ existing # 0 /\ Work(h, existing, "resolve")
    /\ UNCHANGED <<database, clock, requests>>

\* One write to the row h works on; an error ends the transition, otherwise
\* the handler continues at the next line.
WriteIncident(h, row, line) ==
    /\ \E o \in WriteOutcome :
        /\ incidents' = IF Applied(o)
                        THEN [incidents EXCEPT ![target[h]] = row]
                        ELSE incidents
        /\ Note(h, o)
        /\ \/ o # "ok" /\ NextTransition(h)
           \/ o = "ok" /\ Goto(h, line) /\ UNCHANGED locals
    /\ UNCHANGED <<status, results, clock, requests>>

mine(h) == incidents[target[h]]

UpdateSeverity(h) ==
    /\ At(h, "updateSeverity")
    /\ WriteIncident(h, [mine(h) EXCEPT !.severity = severityFromStatus(this(h).to)],
                     "addUpdate")

Create(h) ==
    /\ At(h, "createIncident")
    /\ WriteIncident(h, [status   |-> "detected",
                         severity |-> severityFromStatus(this(h).to),
                         services |-> {},
                         opener   |-> h,
                         updates  |-> <<>>], "linkService")

LinkService(h) ==
    /\ At(h, "linkService")
    /\ WriteIncident(h, [mine(h) EXCEPT !.services = @ \cup {this(h).service}],
                     "addUpdate")

\* The mistake of setting resolved_at and not the status.
Resolve_KeepsStatus(h) ==
    At(h, "resolve") /\ WriteIncident(h, mine(h), "addUpdate")

Resolve(h) ==
    /\ At(h, "resolve")
    /\ WriteIncident(h, [mine(h) EXCEPT !.status = "resolved"], "addUpdate")

\* The mistake of one constant for every timeline entry.
AddUpdate_AlwaysDetected(h) ==
    /\ At(h, "addUpdate")
    /\ incidents' = [incidents EXCEPT ![target[h]].updates = Append(@, "detected")]
    /\ NextTransition(h)
    /\ UNCHANGED <<status, results, clock, requests, calm>>

\* The mistake of entering the service's status for the incident's.
AddUpdate_ServiceStatus(h) ==
    /\ At(h, "addUpdate")
    /\ incidents' = [incidents EXCEPT ![target[h]].updates = Append(@, this(h).to)]
    /\ NextTransition(h)
    /\ UNCHANGED <<status, results, clock, requests, calm>>

\* The mistake of trying an entry again whose error was not an error.
AddUpdate_Retries(h) ==
    /\ At(h, "addUpdate")
    /\ \E o \in WriteOutcome :
        LET entry == IF this(h).to = "operational" THEN "resolved" ELSE "detected"
        IN  /\ incidents' = IF Applied(o)
                            THEN [incidents EXCEPT
                                    ![target[h]].updates = Append(@, entry)]
                            ELSE incidents
            /\ Note(h, o)
            /\ \/ o = "ok" /\ NextTransition(h)
               \/ o # "ok" /\ UNCHANGED <<pc, locals>>
    /\ UNCHANGED <<status, results, clock, requests>>

\* The public timeline entry.  Its error is only logged.  An escalation repeats
\* the status the incident had when it was read, which was "detected".
AddUpdate(h) ==
    /\ At(h, "addUpdate")
    /\ \E o \in WriteOutcome :
        LET entry == IF this(h).to = "operational" THEN "resolved" ELSE "detected"
        IN  /\ incidents' = IF Applied(o)
                            THEN [incidents EXCEPT
                                    ![target[h]].updates = Append(@, entry)]
                            ELSE incidents
            /\ Note(h, o)
    /\ NextTransition(h)
    /\ UNCHANGED <<status, results, clock, requests>>

(* ------------------------------- behaviours ---------------------------- *)

\* The process dies, the function is frozen, or the request context is
\* cancelled for good: nothing of the handler is left but what it wrote.
Crash(h) ==
    /\ "crash" \in Faults
    /\ ~At(h, "idle")
    /\ Return(h)
    /\ calm' = [calm EXCEPT ![h] = FALSE]
    /\ UNCHANGED <<database, clock, requests>>

Step(h) ==
    \/ StoreResult(h)
    \/ GetService(h) \/ Evaluate(h) \/ UpdateStatus(h)
    \/ handleFailure(h) \/ handleRecovery(h)
    \/ UpdateSeverity(h)
    \/ Create(h) \/ LinkService(h)
    \/ Resolve(h)
    \/ AddUpdate(h)

Next == \E h \in Handler : Ingest(h) \/ check(h) \/ Step(h) \/ Crash(h)

Spec == Init /\ [][Next]_vars

\* The database answers every statement, if only with an error, and the
\* scheduler runs every goroutine: a started handler takes its next step.
FairSpec == Spec /\ \A h \in Handler : WF_vars(Step(h))

(* ------------------------------ properties ----------------------------- *)

TypeOK ==
    /\ status \in [Service -> ServiceStatus]
    /\ results \in [Service -> Seq(Result)]
    /\ \A s \in Service : Len(results[s]) <= WindowSize
    /\ incidents \in [Stamp -> Incident]
    /\ pc \in [Handler -> {"idle", "storeResult", "getService", "getRecent",
                           "updateStatus", "getActive", "updateSeverity",
                           "createIncident", "linkService", "resolve", "addUpdate"}]
    /\ batch \in [Handler -> Seq(Item)]
    /\ cursor \in [Handler -> Nat]
    /\ seen \in [Handler -> ServiceStatus]
    /\ verdict \in [Handler -> ServiceStatus]
    /\ transitions \in [Handler -> Seq(Transition)]
    /\ target \in [Handler -> Stamp \cup {0}]
    /\ clock \in 0 .. MaxIncidents
    /\ requests \in 0 .. MaxRequests
    /\ calm \in [Handler -> BOOLEAN]

Quiet == \A h \in Handler : At(h, "idle")

(* What holds with any number of handlers and any fault. *)

\* Duplicates are bounded by concurrency: of the incidents a service has open,
\* no two were created by the same handler slot.  So a service never shows more
\* open incidents than handlers that ran at the same time, however long the
\* system runs and whatever failed, and a single sequential handler never
\* opens a second one.
OneOpenPerOpener ==
    \A s \in Service : \A i, j \in Active(s) :
        incidents[i].opener = incidents[j].opener => i = j

\* The entries of a timeline from its first "resolved" on.
LateEntries(i) ==
    LET u == incidents[i].updates
    IN  {k \in DOMAIN u : \E j \in 1 .. k : u[j] = "resolved"}

\* What a handler read of an incident may be stale when it writes: the incident
\* can be resolved a second time, or escalated after the fact.  That too is
\* bounded by concurrency: from "resolved" on a timeline gets at most one entry
\* per handler that may run at the same time, however often the service fails
\* and recovers afterwards, and whatever is refused, repeated or crashes.
LateEntriesNeedConcurrency ==
    \A i \in Stamp : Cardinality(LateEntries(i)) <= Cardinality(Handler)

\* A handler nobody disturbed (alone from start to end, no error) leaves every
\* service of its batch with the status its window calls for, whatever earlier
\* races and failures left behind: current_status heals with the next check.
CalmHandlerHealsStatus ==
    [][ \A h \in Handler :
          (~At(h, "idle") /\ pc'[h] = "idle" /\ calm'[h]) =>
              \A i \in DOMAIN batch[h] :
                  LET s == batch[h][i].service
                  IN  status'[s] = determineStatus(results'[s]) ]_vars

\* A transition of an undisturbed handler reaches the incidents: after a
\* failure an active incident at least as severe exists; after a recovery the
\* incident found is resolved, or none is active.
CalmTransitionIsLogged ==
    [][ \A h \in Handler :
          (transitions[h] # <<>> /\ transitions'[h] = Tail(transitions[h]) /\ calm'[h]) =>
              LET t == this(h)
              IN  IF t.to = "operational"
                  THEN \/ target[h] # 0 /\ incidents'[target[h]].status = "resolved"
                       \/ \A i \in Stamp : ~(/\ incidents'[i].status = "detected"
                                             /\ t.service \in incidents'[i].services)
                  ELSE \E i \in Stamp :
                          /\ incidents'[i].status = "detected"
                          /\ t.service \in incidents'[i].services
                          /\ severityRank(incidents'[i].severity)
                                >= severityRank(severityFromStatus(t.to)) ]_vars

(* What holds for one handler at a time and no fault. *)

\* Between two handlers the public page is right: current_status is what the
\* window says, and a service has exactly one active incident, at least as
\* severe as its status, when it is not operational, and none when it is.
PageTellsTheTruth ==
    Quiet => \A s \in Service :
        /\ results[s] # <<>> => status[s] = determineStatus(results[s])
        /\ IF isIncidentStatus(status[s])
           THEN \E i \in Stamp :
                    /\ Active(s) = {i}
                    /\ severityRank(incidents[i].severity)
                           >= severityRank(severityFromStatus(status[s]))
           ELSE Active(s) = {}

\* The timeline a visitor reads opens with "detected", closes with "resolved"
\* exactly when the incident is resolved, and has at most the two escalations
\* that lie between minor and critical in between.
TimelineIsComplete ==
    Quiet => \A i \in Stamp : incidents[i].status # "absent" =>
        LET u == incidents[i].updates
            n == IF incidents[i].status = "resolved" THEN Len(u) - 1 ELSE Len(u)
        IN  /\ n \in 1 .. severityRank(incidents[i].severity)
            /\ \A k \in 1 .. n : u[k] = "detected"
            /\ n < Len(u) => u[Len(u)] = "resolved"

\* An outage is logged: a service that is down gets an active incident or is
\* up again first.  Needs FairSpec.
OutageIsLogged ==
    \A s \in Service :
        isIncidentStatus(status[s]) ~> (Active(s) # {} \/ status[s] = "operational")

\* A recovery closes the incident, or the service is down again first.
RecoveryIsLogged ==
    \A s \in Service :
        (status[s] = "operational" /\ Active(s) # {})
            ~> (Active(s) = {} \/ status[s] # "operational")

(* What the code's comments and the site promise. *)

\* incident_manager.go:35, "Check if there's already an active incident for
\* this service": a service has at most one.
AtMostOneActive == \A s \in Service : Cardinality(Active(s)) <= 1

\* "Detected, escalated, and resolved automatically" (the landing page): when
\* nothing is running, an operational service has no incident open.
ResolvedAutomatically ==
    Quiet => \A s \in Service : status[s] = "operational" => Active(s) = {}
=============================================================================
