------------------------ MODULE StatusPipelineProofs -----------------------
(***************************************************************************)
(* Theorems of StatusPipeline for every set of services and handlers,      *)
(* every window size, every batch and every combination of faults; at the  *)
(* end, for one handler at a time and no fault, that the pipeline keeps    *)
(* the promise of IncidentPromise and what a visitor sees because of it.   *)
(***************************************************************************)
EXTENDS StatusPipelinePromise, SequenceTheorems, FiniteSetTheorems,
        WellFoundedInduction, TLAPS

(* ------------------------ lemmas about the operators ------------------- *)

\* determineStatus always names one of the five statuses of the schema.
LEMMA DetermineStatusType ==
    ASSUME NEW w
    PROVE  determineStatus(w) \in ServiceStatus
BY DEF determineStatus, ServiceStatus

\* severityFromStatus always names one of the three severities of the schema.
LEMMA SeverityFromStatusType ==
    ASSUME NEW st
    PROVE  severityFromStatus(st) \in Severity
BY DEF severityFromStatus, Severity

\* Storing one more result keeps a window a window: results, at most `limit`.
LEMMA GetRecentType ==
    ASSUME NEW w \in Seq(Result), NEW r \in Result, NEW limit \in Nat \ {0},
           NEW k \in Int, 1 <= k, k <= Len(w) + 1, Len(w) <= limit
    PROVE  /\ GetRecent(w, r, k, limit) \in Seq(Result)
           /\ Len(GetRecent(w, r, k, limit)) <= limit
<1> DEFINE newer == SubSeq(w, 1, k - 1)
           older == SubSeq(w, k, Len(w))
           all   == InsertAt(w, k, r)
<1>1. Len(w) \in Nat /\ \A i \in 1 .. Len(w) : w[i] \in Result
  BY LenProperties, ElementOfSeq
<1>2. newer \in Seq(Result)
  <2>1. \A i \in 1 .. k - 1 : w[i] \in Result
    BY <1>1
  <2> QED BY <2>1, SubSeqProperties
<1>3. older \in Seq(Result)
  <2>1. \A i \in k .. Len(w) : w[i] \in Result
    BY <1>1
  <2> QED BY <1>1, <2>1, SubSeqProperties
<1>4. all \in Seq(Result)
  <2>1. <<r>> \in Seq(Result)
    OBVIOUS
  <2>2. newer \o <<r>> \in Seq(Result)
    BY <1>2, <2>1, ConcatProperties
  <2>3. (newer \o <<r>>) \o older \in Seq(Result)
    BY <2>2, <1>3, ConcatProperties
  <2> QED BY <2>3 DEF InsertAt
<1>5. CASE Len(all) <= limit
  BY <1>4, <1>5 DEF GetRecent
<1>6. CASE ~(Len(all) <= limit)
  <2>1. Len(all) \in Nat /\ \A i \in 1 .. Len(all) : all[i] \in Result
    BY <1>4, LenProperties, ElementOfSeq
  <2>2. \A i \in 1 .. limit : all[i] \in Result
    BY <2>1, <1>6
  <2>3. /\ SubSeq(all, 1, limit) \in Seq(Result)
        /\ Len(SubSeq(all, 1, limit)) = limit
    BY <2>2, SubSeqProperties
  <2> QED BY <2>3, <1>6 DEF GetRecent
<1> QED BY <1>5, <1>6

\* A nonempty set of stamps has a newest one, and Newest chooses it.
LEMMA NewestType ==
    ASSUME NEW ids \in SUBSET Stamp, ids # {}
    PROVE  Newest(ids) \in ids /\ \A j \in ids : j <= Newest(ids)
<1> DEFINE ages == {MaxIncidents - i : i \in ids}
           less == {p \in Nat \X Nat : p[1] < p[2]}
<1>1. MaxIncidents \in Nat
  BY PipelineAssumption
<1>2. \A i \in ids : i \in Int /\ i <= MaxIncidents
  BY <1>1 DEF Stamp
<1>3. ages \subseteq Nat /\ ages # {}
  BY <1>1, <1>2
<1>4. IsWellFoundedOn(less, Nat)
  BY NatLessThanWellFounded DEF OpToRel
<1>5. PICK a \in ages : \A b \in ages : ~(<<b, a>> \in less)
  <2> HIDE DEF ages, less
  <2> QED BY <1>3, <1>4, WFMin
<1>6. PICK i \in ids : a = MaxIncidents - i
  BY <1>5
<1>7. \A j \in ids : j <= i
  <2> TAKE j \in ids
  <2>1. MaxIncidents - j \in ages
    OBVIOUS
  <2>2. ~(MaxIncidents - j < MaxIncidents - i)
    BY <2>1, <1>3, <1>5, <1>6
  <2> QED BY <2>2, <1>1, <1>2
<1> QED BY <1>7 DEF Newest

(* --------------------------- type correctness -------------------------- *)

Evaluating == {"storeResult", "getService", "getRecent", "updateStatus"}
Working    == {"updateSeverity", "createIncident", "linkService", "resolve", "addUpdate"}
Processing == {"getActive"} \cup Working

\* TypeOK alone is not inductive: a handler that reads batch[h][cursor[h]],
\* Head(transitions[h]) or incidents[target[h]] must have one.
Placed(h) ==
    /\ pc[h] \in Evaluating => cursor[h] \in DOMAIN batch[h]
    /\ pc[h] \in Processing => transitions[h] # <<>>
    /\ pc[h] \in Working => target[h] \in Stamp

\* The part of the inductive invariant that is about the handlers' locals.
LocalsOK ==
    /\ pc \in [Handler -> {"idle"} \cup Evaluating \cup Processing]
    /\ batch \in [Handler -> Seq(Item)]
    /\ cursor \in [Handler -> Nat]
    /\ seen \in [Handler -> ServiceStatus]
    /\ verdict \in [Handler -> ServiceStatus]
    /\ transitions \in [Handler -> Seq(Transition)]
    /\ target \in [Handler -> Stamp \cup {0}]
    /\ \A h \in Handler : Placed(h)

\* The part that is about the database and the bookkeeping.
SharedOK ==
    /\ status \in [Service -> ServiceStatus]
    /\ results \in [Service -> Seq(Result)]
    /\ \A s \in Service : Len(results[s]) <= WindowSize
    /\ incidents \in [Stamp -> Incident]
    /\ clock \in 0 .. MaxIncidents
    /\ requests \in 0 .. MaxRequests
    /\ calm \in [Handler -> BOOLEAN]

TypeInv == LocalsOK /\ SharedOK

\* The inductive invariant implies the type invariant that TLC checks.
LEMMA TypeInvImpliesTypeOK == TypeInv => TypeOK
BY DEF TypeInv, LocalsOK, SharedOK, TypeOK, Evaluating, Processing, Working

\* A handler that returns leaves well-typed, empty locals.
LEMMA ReturnLocals ==
    ASSUME LocalsOK, NEW h \in Handler, Return(h)
    PROVE  LocalsOK'
<1>1. <<>> \in Seq(Item) /\ <<>> \in Seq(Transition) /\ "unknown" \in ServiceStatus
  BY DEF ServiceStatus
<1>2. \A g \in Handler : Placed(g)'
  BY DEF LocalsOK, Return, Goto, Placed, Evaluating, Processing, Working
<1> QED BY <1>1, <1>2 DEF LocalsOK, Return, Goto

\* The evaluation loop lands on a place of the batch, on the first of some
\* transitions, or at its end.
LEMMA EvaluateFromLocals ==
    ASSUME LocalsOK, NEW h \in Handler, NEW i, NEW ts \in Seq(Transition),
           EvaluateFrom(h, i, ts)
    PROVE  LocalsOK'
<1> DEFINE rest == {j \in uniqueServiceIDs(batch[h]) : j >= i}
<1>1. CASE rest = {} /\ ts = <<>>
  <2>1. Return(h)
    BY <1>1 DEF EvaluateFrom
  <2> QED BY <2>1, ReturnLocals
<1>2. CASE rest # {}
  <2>1. PICK j \in rest : cursor' = [cursor EXCEPT ![h] = j]
    BY <1>2 DEF EvaluateFrom
  <2>2. j \in DOMAIN batch[h] /\ j \in Nat
    <3>1. j \in DOMAIN batch[h]
      BY DEF uniqueServiceIDs
    <3>2. DOMAIN batch[h] = 1 .. Len(batch[h]) /\ Len(batch[h]) \in Nat
      BY LenProperties DEF LocalsOK
    <3> QED BY <3>1, <3>2
  <2>3. /\ Goto(h, "getService")
        /\ transitions' = [transitions EXCEPT ![h] = ts]
        /\ seen' = [seen EXCEPT ![h] = "unknown"]
        /\ verdict' = [verdict EXCEPT ![h] = "unknown"]
        /\ UNCHANGED <<batch, target>>
    BY <1>2 DEF EvaluateFrom
  <2>4. \A g \in Handler : Placed(g)'
    BY <2>1, <2>2, <2>3 DEF LocalsOK, Goto, Placed, Evaluating, Processing, Working
  <2> QED BY <2>1, <2>2, <2>3, <2>4
          DEF LocalsOK, Goto, Evaluating, ServiceStatus
<1>3. CASE rest = {} /\ ts # <<>>
  <2>1. /\ Goto(h, "getActive")
        /\ cursor' = [cursor EXCEPT ![h] = 0]
        /\ transitions' = [transitions EXCEPT ![h] = ts]
        /\ seen' = [seen EXCEPT ![h] = "unknown"]
        /\ verdict' = [verdict EXCEPT ![h] = "unknown"]
        /\ UNCHANGED <<batch, target>>
    BY <1>3 DEF EvaluateFrom
  <2>2. \A g \in Handler : Placed(g)'
    BY <1>3, <2>1 DEF LocalsOK, Goto, Placed, Evaluating, Processing, Working
  <2> QED BY <2>1, <2>2 DEF LocalsOK, Goto, Processing, ServiceStatus
<1> QED BY <1>1, <1>2, <1>3

\* Dropping the transition that is done leaves another one, or the handler idle.
LEMMA NextTransitionLocals ==
    ASSUME LocalsOK, NEW h \in Handler, pc[h] \in Processing, NextTransition(h)
    PROVE  LocalsOK'
<1>1. CASE Return(h)
  BY <1>1, ReturnLocals
<1>2. CASE ~Return(h)
  <2>1. /\ Len(transitions[h]) > 1
        /\ transitions' = [transitions EXCEPT ![h] = Tail(@)]
        /\ target' = [target EXCEPT ![h] = 0]
        /\ Goto(h, "getActive")
        /\ UNCHANGED <<batch, cursor, seen, verdict>>
    BY <1>2 DEF NextTransition
  <2>2. transitions[h] \in Seq(Transition) /\ transitions[h] # <<>>
    BY DEF LocalsOK, Placed
  <2>3. Tail(transitions[h]) \in Seq(Transition)
    BY <2>2, HeadTailProperties
  <2>4. Len(Tail(transitions[h])) > 0
    BY <2>1, <2>2, HeadTailProperties, LenProperties
  <2>5. Tail(transitions[h]) # <<>>
    BY <2>4
  <2>6. \A g \in Handler : Placed(g)'
    BY <2>1, <2>5 DEF LocalsOK, Goto, Placed, Evaluating, Processing, Working
  <2> QED BY <2>1, <2>3, <2>6 DEF LocalsOK, Goto, Processing
<1> QED BY <1>1, <1>2

\* Taking up an incident leaves the handler at work on it.
LEMMA WorkLocals ==
    ASSUME LocalsOK, NEW h \in Handler, pc[h] \in Processing,
           NEW i \in Stamp, NEW line \in Working, Work(h, i, line)
    PROVE  LocalsOK'
<1>1. \A g \in Handler : Placed(g)'
  BY DEF LocalsOK, Work, Goto, Placed, Evaluating, Processing, Working
<1> QED BY <1>1 DEF LocalsOK, Work, Goto, Processing

\* So does going on to its next statement.
LEMMA GotoLocals ==
    ASSUME LocalsOK, NEW h \in Handler, pc[h] \in Working,
           NEW line \in Working, Goto(h, line), UNCHANGED locals
    PROVE  LocalsOK'
<1>1. \A g \in Handler : Placed(g)'
  BY DEF LocalsOK, locals, Goto, Placed, Evaluating, Processing, Working
<1> QED BY <1>1 DEF LocalsOK, locals, Goto, Processing

\* The history of calm stays Boolean.
LEMMA NoteType ==
    ASSUME calm \in [Handler -> BOOLEAN], NEW h \in Handler, NEW o, Note(h, o)
    PROVE  calm' \in [Handler -> BOOLEAN]
BY DEF Note

\* The service a handler evaluates is one of the organisation's.
LEMMA CurrentType ==
    ASSUME LocalsOK, NEW h \in Handler, pc[h] \in Evaluating
    PROVE  batch[h][cursor[h]] \in Item /\ current(h) \in Service
<1>1. cursor[h] \in 1 .. Len(batch[h]) /\ batch[h] \in Seq(Item)
  BY LenProperties DEF LocalsOK, Placed
<1>2. batch[h][cursor[h]] \in Item
  BY <1>1, ElementOfSeq
<1> QED BY <1>2 DEF current, Item

\* The transition a handler processes is a transition.
LEMMA ThisType ==
    ASSUME LocalsOK, NEW h \in Handler, pc[h] \in Processing
    PROVE  this(h) \in Transition
<1>1. transitions[h] \in Seq(Transition) /\ transitions[h] # <<>>
  BY DEF LocalsOK, Placed
<1> QED BY <1>1, HeadTailProperties DEF this

\* A handler that starts has a well-typed batch and stands at its first result.
LEMMA StartInv ==
    ASSUME TypeInv, NEW h \in Handler, NEW items \in Seq(Item), items # <<>>,
           Start(h, items)
    PROVE  TypeInv'
<1>1. 1 \in DOMAIN items
  BY LenProperties, EmptySeq
<1>2. \A g \in Handler : Placed(g)'
  BY <1>1 DEF TypeInv, LocalsOK, Start, At, Goto, Placed, Evaluating, Processing, Working
<1>3. LocalsOK'
  BY <1>2 DEF TypeInv, LocalsOK, Start, Goto, Evaluating
<1>4. SharedOK'
  BY PipelineAssumption DEF TypeInv, SharedOK, Start, database
<1> QED BY <1>3, <1>4 DEF TypeInv

\* Ingest: a heartbeat is a nonempty sequence of results reported by clients.
LEMMA IngestInv ==
    ASSUME TypeInv, NEW h \in Handler, Ingest(h)
    PROVE  TypeInv'
<1>1. PICK n \in 1 .. MaxBatch :
        \E items \in [1 .. n -> [service : Service,
                                 result : [source : {"heartbeat"},
                                           status : HeartbeatStatuses]]] :
            Start(h, items)
  BY DEF Ingest
<1>2. PICK items \in [1 .. n -> [service : Service,
                                 result : [source : {"heartbeat"},
                                           status : HeartbeatStatuses]]] :
            Start(h, items)
  BY <1>1
<1>3. [service : Service, result : [source : {"heartbeat"}, status : HeartbeatStatuses]]
        \subseteq Item
  BY PipelineAssumption DEF Item, Result, HeartbeatResult
<1>4. items \in [1 .. n -> Item]
  BY <1>3
<1>5. n \in Nat /\ n >= 1
  BY PipelineAssumption
<1>6. items \in Seq(Item) /\ items # <<>>
  <2>1. items \in Seq(Item)
    BY <1>4, <1>5, SeqDef
  <2>2. DOMAIN items = 1 .. n
    BY <1>4
  <2> QED BY <2>1, <2>2, <1>5
<1> QED BY <1>2, <1>6, StartInv

\* check: a probe is one result of the monitor's own.
LEMMA CheckInv ==
    ASSUME TypeInv, NEW h \in Handler, check(h)
    PROVE  TypeInv'
<1>1. PICK item \in [service : Service,
                     result : [source : {"external"}, status : ProbeStatuses]] :
        Start(h, <<item>>)
  BY DEF check
<1>2. item \in Item
  BY PipelineAssumption DEF Item, Result, ExternalResult
<1>3. <<item>> \in Seq(Item) /\ <<item>> # <<>>
  BY <1>2
<1> QED BY <1>1, <1>3, StartInv

\* StoreResult: the window stays a window, and the handler goes on or gives up.
LEMMA StoreResultInv ==
    ASSUME TypeInv, NEW h \in Handler, StoreResult(h)
    PROVE  TypeInv'
<1> DEFINE item == batch[h][cursor[h]]
           s    == item.service
<1>1. pc[h] = "storeResult" /\ pc[h] \in Evaluating
  BY DEF StoreResult, At, Evaluating
<1>2. item \in Item /\ s \in Service /\ item.result \in Result
  BY <1>1, CurrentType DEF TypeInv, Item
<1>3. PICK o \in WriteOutcome, k \in 1 .. Skew + 1 :
        /\ k <= Len(results[s]) + 1
        /\ results' = IF Applied(o)
                      THEN [results EXCEPT ![s] = GetRecent(@, item.result, k, WindowSize)]
                      ELSE results
        /\ Note(h, o)
        /\ \/ o # "ok" /\ Return(h)
           \/ /\ o = "ok" /\ cursor[h] < Len(batch[h])
              /\ cursor' = [cursor EXCEPT ![h] = @ + 1]
              /\ UNCHANGED <<pc, batch, seen, verdict, transitions, target>>
           \/ /\ o = "ok" /\ cursor[h] = Len(batch[h])
              /\ EvaluateFrom(h, 1, <<>>)
  BY DEF StoreResult
<1>4. LocalsOK'
  <2>1. CASE Return(h)
    BY <2>1, ReturnLocals DEF TypeInv
  <2>2. CASE EvaluateFrom(h, 1, <<>>)
    BY <2>2, EvaluateFromLocals, EmptySeq DEF TypeInv
  <2>3. CASE /\ cursor[h] < Len(batch[h])
             /\ cursor' = [cursor EXCEPT ![h] = @ + 1]
             /\ UNCHANGED <<pc, batch, seen, verdict, transitions, target>>
    <3>1. /\ DOMAIN batch[h] = 1 .. Len(batch[h]) /\ Len(batch[h]) \in Nat
          /\ cursor[h] \in Nat
      BY LenProperties DEF TypeInv, LocalsOK
    <3>2. cursor[h] + 1 \in DOMAIN batch[h]
      BY <3>1, <2>3
    <3>3. \A g \in Handler : Placed(g)'
      BY <2>3, <3>2 DEF TypeInv, LocalsOK, Placed
    <3> QED BY <2>3, <3>3 DEF TypeInv, LocalsOK
  <2> QED BY <1>3, <2>1, <2>2, <2>3
<1>5. /\ results' \in [Service -> Seq(Result)]
      /\ \A t \in Service : Len(results'[t]) <= WindowSize
  <2>1. CASE ~Applied(o)
    BY <1>3, <2>1 DEF TypeInv, SharedOK
  <2>2. CASE Applied(o)
    <3>1. /\ results[s] \in Seq(Result) /\ Len(results[s]) <= WindowSize
          /\ k \in Int /\ 1 <= k
      BY <1>2, PipelineAssumption DEF TypeInv, SharedOK
    <3>2. /\ GetRecent(results[s], item.result, k, WindowSize) \in Seq(Result)
          /\ Len(GetRecent(results[s], item.result, k, WindowSize)) <= WindowSize
      BY <1>2, <1>3, <3>1, GetRecentType, PipelineAssumption
    <3> QED BY <1>2, <1>3, <2>2, <3>2 DEF TypeInv, SharedOK
  <2> QED BY <2>1, <2>2
<1>6. calm' \in [Handler -> BOOLEAN]
  BY <1>3, NoteType DEF TypeInv, SharedOK
<1> QED BY <1>4, <1>5, <1>6 DEF TypeInv, SharedOK, StoreResult

\* Going on to the next service keeps the locals well typed.
LEMMA NextServiceLocals ==
    ASSUME LocalsOK, NEW h \in Handler, NextService(h)
    PROVE  LocalsOK'
<1>1. transitions[h] \in Seq(Transition)
  BY DEF LocalsOK
<1> QED BY <1>1, EvaluateFromLocals DEF NextService

\* A step that changes nothing but calm and locals keeps the shared part.
LEMMA SharedUntouched ==
    ASSUME SharedOK, NEW h \in Handler, NEW o, Note(h, o),
           UNCHANGED <<database, clock, requests>>
    PROVE  SharedOK'
<1>1. calm' \in [Handler -> BOOLEAN]
  BY NoteType DEF SharedOK
<1> QED BY <1>1 DEF SharedOK, database

\* GetService: what is seen is a status.
LEMMA GetServiceInv ==
    ASSUME TypeInv, NEW h \in Handler, GetService(h)
    PROVE  TypeInv'
<1>1. pc[h] = "getService" /\ pc[h] \in Evaluating
  BY DEF GetService, At, Evaluating
<1>2. current(h) \in Service
  BY <1>1, CurrentType DEF TypeInv
<1>3. LocalsOK'
  <2>1. CASE NextService(h)
    BY <2>1, NextServiceLocals DEF TypeInv
  <2>2. CASE /\ seen' = [seen EXCEPT ![h] = status[current(h)]]
             /\ Goto(h, "getRecent")
             /\ UNCHANGED <<batch, cursor, verdict, transitions, target>>
    <3>1. \A g \in Handler : Placed(g)'
      BY <1>1, <2>2
         DEF TypeInv, LocalsOK, Goto, Placed, Evaluating, Processing, Working
    <3> QED BY <1>2, <2>2, <3>1 DEF TypeInv, LocalsOK, SharedOK, Goto, Evaluating
  <2> QED BY <2>1, <2>2 DEF GetService
<1>4. SharedOK'
  BY SharedUntouched DEF TypeInv, GetService
<1> QED BY <1>3, <1>4 DEF TypeInv

\* Evaluate: the verdict is a status.
LEMMA EvaluateInv ==
    ASSUME TypeInv, NEW h \in Handler, Evaluate(h)
    PROVE  TypeInv'
<1> DEFINE new == determineStatus(results[current(h)])
<1>1. pc[h] = "getRecent" /\ pc[h] \in Evaluating
  BY DEF Evaluate, At, Evaluating
<1>2. new \in ServiceStatus
  BY DetermineStatusType
<1>3. LocalsOK'
  <2>1. CASE NextService(h)
    BY <2>1, NextServiceLocals DEF TypeInv
  <2>2. CASE /\ verdict' = [verdict EXCEPT ![h] = new]
             /\ Goto(h, "updateStatus")
             /\ UNCHANGED <<batch, cursor, seen, transitions, target>>
    <3> HIDE DEF new
    <3>1. \A g \in Handler : Placed(g)'
      BY <1>1, <2>2
         DEF TypeInv, LocalsOK, Goto, Placed, Evaluating, Processing, Working
    <3> QED BY <1>2, <2>2, <3>1 DEF TypeInv, LocalsOK, Goto, Evaluating
  <2> QED BY <2>1, <2>2 DEF Evaluate
<1>4. SharedOK'
  BY SharedUntouched DEF TypeInv, Evaluate
<1> QED BY <1>3, <1>4 DEF TypeInv

\* UpdateStatus: the row gets a status and the loop one more transition.
LEMMA UpdateStatusInv ==
    ASSUME TypeInv, NEW h \in Handler, UpdateStatus(h)
    PROVE  TypeInv'
<1> DEFINE moved == [service |-> current(h), to |-> verdict[h]]
<1>1. pc[h] \in Evaluating
  BY DEF UpdateStatus, At, Evaluating
<1>2. moved \in Transition
  BY <1>1, CurrentType DEF TypeInv, LocalsOK, Transition
<1>3. PICK o \in WriteOutcome :
        /\ status' = IF Applied(o) THEN [status EXCEPT ![moved.service] = moved.to]
                                   ELSE status
        /\ Note(h, o)
        /\ EvaluateFrom(h, cursor[h] + 1,
               IF o = "ok" THEN Append(transitions[h], moved) ELSE transitions[h])
  BY DEF UpdateStatus
<1>4. LocalsOK'
  <2>1. transitions[h] \in Seq(Transition)
    BY DEF TypeInv, LocalsOK
  <2>2. Append(transitions[h], moved) \in Seq(Transition)
    BY <1>2, <2>1
  <2> HIDE DEF moved
  <2> QED BY <1>3, <2>1, <2>2, EvaluateFromLocals DEF TypeInv
<1>5. status' \in [Service -> ServiceStatus]
  BY <1>2, <1>3 DEF TypeInv, SharedOK, Transition
<1>6. calm' \in [Handler -> BOOLEAN]
  BY <1>3, NoteType DEF TypeInv, SharedOK
<1> QED BY <1>4, <1>5, <1>6 DEF TypeInv, SharedOK, UpdateStatus

\* The database returns an incident, or none.
LEMMA GetActiveType ==
    ASSUME NEW s
    PROVE  /\ GetActiveForService(s) \in Stamp \cup {0}
           /\ GetActiveForService(s) # 0 => GetActiveForService(s) \in Active(s)
           /\ GetActiveForService(s) = 0 => Active(s) = {}
<1>1. Active(s) \in SUBSET Stamp
  BY DEF Active
<1>2. 0 \notin Stamp
  BY DEF Stamp
<1> QED BY <1>1, <1>2, NewestType DEF GetActiveForService

\* handleFailure: the handler takes up the incident it read, or a new stamp.
LEMMA HandleFailureInv ==
    ASSUME TypeInv, NEW h \in Handler, handleFailure(h)
    PROVE  TypeInv'
<1> DEFINE existing == GetActiveForService(this(h).service)
<1>1. pc[h] \in Processing
  BY DEF handleFailure, At, Processing
<1>2. existing # 0 => existing \in Stamp
  BY GetActiveType
<1> HIDE DEF existing
<1>3. PICK o \in ReadOutcome :
        /\ Note(h, o)
        /\ \/ NextTransition(h) /\ UNCHANGED clock
           \/ /\ existing # 0
              /\ Work(h, existing, "updateSeverity") /\ UNCHANGED clock
           \/ /\ clock < MaxIncidents
              /\ clock' = clock + 1
              /\ Work(h, clock + 1, "createIncident")
  BY DEF handleFailure, existing
<1>4. clock' \in 0 .. MaxIncidents
  BY <1>3, PipelineAssumption DEF TypeInv, SharedOK
<1>5. LocalsOK'
  <2>1. CASE NextTransition(h)
    BY <1>1, <2>1, NextTransitionLocals DEF TypeInv
  <2>2. CASE existing # 0 /\ Work(h, existing, "updateSeverity")
    BY <1>1, <1>2, <2>2, WorkLocals DEF TypeInv, Working
  <2>3. CASE clock < MaxIncidents /\ Work(h, clock + 1, "createIncident")
    <3>1. clock + 1 \in Stamp
      BY <2>3, PipelineAssumption DEF TypeInv, SharedOK, Stamp
    <3> QED BY <1>1, <2>3, <3>1, WorkLocals DEF TypeInv, Working
  <2> QED BY <1>3, <2>1, <2>2, <2>3
<1>6. calm' \in [Handler -> BOOLEAN]
  BY <1>3, NoteType DEF TypeInv, SharedOK
<1> QED BY <1>4, <1>5, <1>6 DEF TypeInv, SharedOK, handleFailure, database

\* handleRecovery: the handler takes up the incident it read, if there is one.
LEMMA HandleRecoveryInv ==
    ASSUME TypeInv, NEW h \in Handler, handleRecovery(h)
    PROVE  TypeInv'
<1> DEFINE existing == GetActiveForService(this(h).service)
<1>1. pc[h] \in Processing
  BY DEF handleRecovery, At, Processing
<1>2. existing # 0 => existing \in Stamp
  BY GetActiveType
<1> HIDE DEF existing
<1>3. NextTransition(h) \/ (existing # 0 /\ Work(h, existing, "resolve"))
  BY DEF handleRecovery, existing
<1>4. LocalsOK'
  BY <1>1, <1>2, <1>3, NextTransitionLocals, WorkLocals DEF TypeInv, Working
<1>5. SharedOK'
  BY SharedUntouched DEF TypeInv, handleRecovery
<1> QED BY <1>4, <1>5 DEF TypeInv

\* A write of a well-typed row, whatever its outcome.
LEMMA WriteIncidentInv ==
    ASSUME TypeInv, NEW h \in Handler, pc[h] \in Working,
           NEW row \in Incident, NEW line \in Working, WriteIncident(h, row, line)
    PROVE  TypeInv'
<1>1. PICK o \in WriteOutcome :
        /\ incidents' = IF Applied(o) THEN [incidents EXCEPT ![target[h]] = row]
                                      ELSE incidents
        /\ Note(h, o)
        /\ \/ NextTransition(h)
           \/ Goto(h, line) /\ UNCHANGED locals
  BY DEF WriteIncident
<1>2. incidents' \in [Stamp -> Incident]
  BY <1>1 DEF TypeInv, SharedOK
<1>3. LocalsOK'
  BY <1>1, NextTransitionLocals, GotoLocals DEF TypeInv, Processing
<1>4. calm' \in [Handler -> BOOLEAN]
  BY <1>1, NoteType DEF TypeInv, SharedOK
<1> QED BY <1>2, <1>3, <1>4 DEF TypeInv, SharedOK, WriteIncident

\* UpdateSeverity, Create, LinkService and Resolve write well-typed rows.
LEMMA WritesInv ==
    ASSUME TypeInv, NEW h \in Handler,
           UpdateSeverity(h) \/ Create(h) \/ LinkService(h) \/ Resolve(h)
    PROVE  TypeInv'
<1>1. pc[h] \in Working
  BY DEF UpdateSeverity, Create, LinkService, Resolve, At, Working
<1>2. target[h] \in Stamp /\ mine(h) \in Incident
  BY <1>1 DEF TypeInv, LocalsOK, SharedOK, Placed, mine
<1>3. this(h) \in Transition
  BY <1>1, ThisType DEF TypeInv, Processing
<1>4. CASE UpdateSeverity(h)
  <2>1. [mine(h) EXCEPT !.severity = severityFromStatus(this(h).to)] \in Incident
    BY <1>2, SeverityFromStatusType DEF Incident
  <2> QED BY <1>1, <1>4, <2>1, WriteIncidentInv DEF UpdateSeverity, Working
<1>5. CASE Create(h)
  <2>1. <<>> \in Seq({"detected", "resolved"})
    OBVIOUS
  <2>2. [status |-> "detected", severity |-> severityFromStatus(this(h).to),
         services |-> {}, opener |-> h, updates |-> <<>>] \in Incident
    BY <2>1, SeverityFromStatusType DEF Incident
  <2> QED BY <1>1, <1>5, <2>2, WriteIncidentInv DEF Create, Working
<1>6. CASE LinkService(h)
  <2>1. [mine(h) EXCEPT !.services = @ \cup {this(h).service}] \in Incident
    BY <1>2, <1>3 DEF Incident, Transition
  <2> QED BY <1>1, <1>6, <2>1, WriteIncidentInv DEF LinkService, Working
<1>7. CASE Resolve(h)
  <2>1. [mine(h) EXCEPT !.status = "resolved"] \in Incident
    BY <1>2 DEF Incident
  <2> QED BY <1>1, <1>7, <2>1, WriteIncidentInv DEF Resolve, Working
<1> QED BY <1>4, <1>5, <1>6, <1>7

\* AddUpdate appends one of the two timeline entries.
LEMMA AddUpdateInv ==
    ASSUME TypeInv, NEW h \in Handler, AddUpdate(h)
    PROVE  TypeInv'
<1> DEFINE entry == IF this(h).to = "operational" THEN "resolved" ELSE "detected"
<1>1. pc[h] \in Working
  BY DEF AddUpdate, At, Working
<1>2. target[h] \in Stamp /\ incidents[target[h]] \in Incident
  BY <1>1 DEF TypeInv, LocalsOK, SharedOK, Placed
<1>3. Append(incidents[target[h]].updates, entry) \in Seq({"detected", "resolved"})
  BY <1>2 DEF Incident
<1>4. PICK o \in WriteOutcome :
        /\ incidents' = IF Applied(o)
                        THEN [incidents EXCEPT ![target[h]].updates = Append(@, entry)]
                        ELSE incidents
        /\ Note(h, o)
  BY DEF AddUpdate
<1>5. incidents' \in [Stamp -> Incident]
  <2> HIDE DEF entry
  <2> QED BY <1>2, <1>3, <1>4 DEF TypeInv, SharedOK, Incident
<1>6. LocalsOK'
  BY <1>1, NextTransitionLocals DEF TypeInv, AddUpdate, Processing
<1>7. calm' \in [Handler -> BOOLEAN]
  BY <1>4, NoteType DEF TypeInv, SharedOK
<1> QED BY <1>5, <1>6, <1>7 DEF TypeInv, SharedOK, AddUpdate

\* A crash leaves the database as it is.
LEMMA CrashInv ==
    ASSUME TypeInv, NEW h \in Handler, Crash(h)
    PROVE  TypeInv'
<1>1. LocalsOK'
  BY ReturnLocals DEF TypeInv, Crash
<1>2. SharedOK'
  BY DEF TypeInv, SharedOK, Crash, database
<1> QED BY <1>1, <1>2 DEF TypeInv

\* The empty database with idle handlers is well typed.
LEMMA TypeInit == Init => TypeInv
<1> SUFFICES ASSUME Init PROVE TypeInv
  OBVIOUS
<1>1. NoIncident \in Incident
  BY DEF NoIncident, Incident, Severity
<1>2. LocalsOK
  BY DEF Init, LocalsOK, Placed, Evaluating, Processing, Working, ServiceStatus
<1>3. SharedOK
  BY <1>1, PipelineAssumption DEF Init, SharedOK, ServiceStatus
<1> QED BY <1>2, <1>3 DEF TypeInv

\* Every action keeps the types.
LEMMA TypeStep == TypeInv /\ [Next]_vars => TypeInv'
<1> SUFFICES ASSUME TypeInv, [Next]_vars PROVE TypeInv'
  OBVIOUS
<1>1. ASSUME NEW h \in Handler, Step(h) PROVE TypeInv'
  BY <1>1, StoreResultInv, GetServiceInv, EvaluateInv, UpdateStatusInv,
     HandleFailureInv, HandleRecoveryInv, WritesInv, AddUpdateInv DEF Step
<1>2. ASSUME NEW h \in Handler, Ingest(h) \/ check(h) \/ Crash(h) PROVE TypeInv'
  BY <1>2, IngestInv, CheckInv, CrashInv
<1>3. CASE UNCHANGED vars
  BY <1>3 DEF TypeInv, LocalsOK, SharedOK, Placed, vars, locals, database
<1> QED BY <1>1, <1>2, <1>3 DEF Next

\* The inductive invariant holds in every reachable state.
THEOREM TypeInvariant == Spec => []TypeInv
BY TypeInit, TypeStep, PTL DEF Spec

\* Whatever handlers interleave and whatever statement fails, no handler reads
\* past its batch, its transitions or its incident, and the database holds only
\* values its schema allows.
THEOREM TypeCorrect == Spec => []TypeOK
BY TypeInvariant, TypeInvImpliesTypeOK, PTL

(* ------------------ duplicates are bounded by concurrency -------------- *)

\* A handler that found no active incident and is about to write one.
Opening(h) == pc[h] \in {"createIncident", "linkService"}

\* Stamps are handed out once, and a slot never opens an incident for a service
\* for which one of its own is still open.  The row being linked is its
\* opener's alone, and not linked yet.
OpeningInv ==
    /\ \A h \in Handler : Opening(h) =>
        /\ target[h] <= clock
        /\ \A i \in Active(this(h).service) : incidents[i].opener # h
    /\ \A g, h \in Handler : Opening(g) /\ Opening(h) /\ g # h => target[g] # target[h]
    /\ \A h \in Handler : pc[h] = "linkService" =>
        /\ incidents[target[h]].opener = h
        /\ incidents[target[h]].services = {}

\* A linked row was created by a handler.
LinkedInv ==
    \A i \in Stamp : incidents[i].services # {} => incidents[i].opener \in Handler

OpenInv == TypeInv /\ OpeningInv /\ LinkedInv /\ OneOpenPerOpener

\* Rows of incidents that differ from before at most in severity, in updates,
\* or by being resolved.
OnlyCloses ==
    \A i \in Stamp :
        /\ incidents'[i].services = incidents[i].services
        /\ incidents'[i].opener = incidents[i].opener
        /\ incidents'[i].status = "detected" => incidents[i].status = "detected"

\* Handlers at work on other lines than h's keep what they have.
OthersStay(h) ==
    \A g \in Handler \ {h} : /\ pc'[g] = pc[g]
                             /\ transitions'[g] = transitions[g]
                             /\ target'[g] = target[g]

\* A step of h that opens nothing, and after which h is not opening, keeps the
\* invariant: others only see incidents close.
LEMMA ClosingKeepsOpenInv ==
    ASSUME OpenInv, TypeInv', NEW h \in Handler,
           OnlyCloses, OthersStay(h), ~Opening(h)', clock' >= clock
    PROVE  OpenInv'
<1>1. \A s : Active(s)' \subseteq Active(s)
  BY DEF OnlyCloses, Active
<1>2. \A i \in Stamp : incidents'[i].opener = incidents[i].opener
  BY DEF OnlyCloses
<1>3. OneOpenPerOpener'
  BY <1>1, <1>2 DEF OpenInv, OneOpenPerOpener, Active
<1>4. LinkedInv'
  BY DEF OpenInv, LinkedInv, OnlyCloses
<1>5. \A g \in Handler \ {h} : /\ this(g)' = this(g)
                               /\ Opening(g)' = Opening(g)
                               /\ target'[g] = target[g]
                               /\ pc'[g] = pc[g]
  BY DEF OthersStay, this, Opening
<1>6. \A g \in Handler : Opening(g)' => g # h
  OBVIOUS
<1>7. \A g \in Handler : Opening(g) => target[g] \in Stamp
  BY DEF OpenInv, TypeInv, LocalsOK, Placed, Opening, Working, Processing
<1>8. ASSUME NEW g \in Handler, Opening(g)'
      PROVE  /\ target'[g] <= clock'
             /\ \A i \in Active(this(g).service)' : incidents'[i].opener # g
  <2>1. g # h /\ Opening(g)
    BY <1>5, <1>6, <1>8
  <2>2. target[g] <= clock /\ \A i \in Active(this(g).service) : incidents[i].opener # g
    BY <2>1 DEF OpenInv, OpeningInv
  <2>3. target'[g] <= clock'
    BY <1>5, <1>7, <2>1, <2>2 DEF OpenInv, TypeInv, SharedOK, Stamp
  <2>4. \A i \in Active(this(g).service)' : i \in Active(this(g).service) /\ i \in Stamp
    <3>1. this(g)' = this(g)
      BY <1>5, <2>1
    <3> QED BY <1>1, <3>1 DEF Active
  <2> QED BY <1>2, <2>2, <2>3, <2>4
<1>9. \A f, g \in Handler : Opening(f)' /\ Opening(g)' /\ f # g => target'[f] # target'[g]
  BY <1>5, <1>6 DEF OpenInv, OpeningInv
<1>10. ASSUME NEW g \in Handler, pc'[g] = "linkService"
       PROVE  /\ incidents'[target'[g]].opener = g
              /\ incidents'[target'[g]].services = {}
  <2>1. Opening(g)'
    BY <1>10 DEF Opening
  <2>2. g # h /\ pc[g] = "linkService" /\ target'[g] = target[g] /\ target[g] \in Stamp
    BY <1>5, <1>6, <1>7, <1>10, <2>1
  <2> QED BY <2>2 DEF OpenInv, OpeningInv, OnlyCloses
<1> QED BY <1>3, <1>4, <1>8, <1>9, <1>10 DEF OpenInv, OpeningInv

\* A handler that returns opens nothing and disturbs no other handler.
LEMMA ReturnMoves ==
    ASSUME TypeInv, NEW h \in Handler, Return(h)
    PROVE  OthersStay(h) /\ ~Opening(h)'
BY DEF TypeInv, LocalsOK, Return, Goto, OthersStay, Opening

\* Nor does one that goes on evaluating.
LEMMA EvaluateFromMoves ==
    ASSUME TypeInv, NEW h \in Handler, NEW i, NEW ts, EvaluateFrom(h, i, ts)
    PROVE  OthersStay(h) /\ ~Opening(h)'
<1> DEFINE rest == {j \in uniqueServiceIDs(batch[h]) : j >= i}
<1>1. CASE Return(h)
  BY <1>1, ReturnMoves
<1>2. CASE /\ transitions' = [transitions EXCEPT ![h] = ts]
           /\ Goto(h, "getService") \/ Goto(h, "getActive")
           /\ UNCHANGED <<batch, target>>
  BY <1>2 DEF TypeInv, LocalsOK, Goto, OthersStay, Opening
<1> QED BY <1>1, <1>2 DEF EvaluateFrom

\* Nor does one that is done with a transition.
LEMMA NextTransitionMoves ==
    ASSUME TypeInv, NEW h \in Handler, NextTransition(h)
    PROVE  OthersStay(h) /\ ~Opening(h)'
<1>1. CASE Return(h)
  BY <1>1, ReturnMoves
<1>2. CASE ~Return(h)
  BY <1>2 DEF NextTransition, TypeInv, LocalsOK, Goto, OthersStay, Opening
<1> QED BY <1>1, <1>2

\* A handler that takes up an incident moves only itself.
LEMMA WorkMoves ==
    ASSUME TypeInv, NEW h \in Handler, NEW i, NEW line, Work(h, i, line)
    PROVE  /\ OthersStay(h) /\ pc'[h] = line /\ target'[h] = i
           /\ transitions' = transitions
BY DEF TypeInv, LocalsOK, Work, Goto, OthersStay

\* So does one that goes on to its next statement.
LEMMA GotoMoves ==
    ASSUME TypeInv, NEW h \in Handler, NEW line, Goto(h, line), UNCHANGED locals
    PROVE  OthersStay(h) /\ pc'[h] = line
BY DEF TypeInv, LocalsOK, locals, Goto, OthersStay

\* Until a handler has transitions to process, it does not touch incidents.
LEMMA EvaluationKeepsOpenInv ==
    ASSUME OpenInv, TypeInv', NEW h \in Handler,
           \/ Ingest(h) \/ check(h) \/ Crash(h)
           \/ StoreResult(h) \/ GetService(h) \/ Evaluate(h) \/ UpdateStatus(h)
    PROVE  OpenInv'
<1>0. TypeInv
  BY DEF OpenInv
<1>1. incidents' = incidents /\ clock' = clock
  BY DEF Ingest, check, Start, Crash, StoreResult, GetService, Evaluate, UpdateStatus,
         database
<1>2. OnlyCloses
  BY <1>1 DEF OnlyCloses
<1>3. clock' >= clock
  BY <1>0, <1>1 DEF TypeInv, SharedOK
<1>4. OthersStay(h) /\ ~Opening(h)'
  <2>1. CASE Ingest(h) \/ check(h)
    <3>1. PICK items : Start(h, items)
      BY <2>1 DEF Ingest, check
    <3> QED BY <1>0, <3>1 DEF TypeInv, LocalsOK, Start, Goto, OthersStay, Opening
  <2>2. CASE Crash(h)
    BY <1>0, <2>2, ReturnMoves DEF Crash
  <2>3. CASE StoreResult(h)
    <3>1. \/ Return(h)
          \/ EvaluateFrom(h, 1, <<>>)
          \/ At(h, "storeResult") /\ UNCHANGED <<pc, transitions, target>>
      BY <2>3 DEF StoreResult
    <3> QED BY <1>0, <3>1, ReturnMoves, EvaluateFromMoves DEF OthersStay, Opening, At
  <2>4. CASE GetService(h) \/ Evaluate(h)
    <3>1. \/ NextService(h)
          \/ /\ Goto(h, "getRecent") \/ Goto(h, "updateStatus")
             /\ UNCHANGED <<transitions, target>>
      BY <2>4 DEF GetService, Evaluate
    <3>2. CASE NextService(h)
      BY <1>0, <3>2, EvaluateFromMoves DEF NextService
    <3>3. CASE /\ Goto(h, "getRecent") \/ Goto(h, "updateStatus")
               /\ UNCHANGED <<transitions, target>>
      BY <1>0, <3>3 DEF TypeInv, LocalsOK, Goto, OthersStay, Opening
    <3> QED BY <3>1, <3>2, <3>3
  <2>5. CASE UpdateStatus(h)
    <3>1. \E ts : EvaluateFrom(h, cursor[h] + 1, ts)
      BY <2>5 DEF UpdateStatus
    <3> QED BY <1>0, <3>1, EvaluateFromMoves
  <2> QED BY <2>1, <2>2, <2>3, <2>4, <2>5
<1> QED BY <1>2, <1>3, <1>4, ClosingKeepsOpenInv

\* handleFailure draws a fresh stamp, and only while nothing is active.
LEMMA HandleFailureKeepsOpenInv ==
    ASSUME OpenInv, TypeInv', NEW h \in Handler, handleFailure(h)
    PROVE  OpenInv'
<1> DEFINE s == this(h).service
           existing == GetActiveForService(s)
<1>0. TypeInv
  BY DEF OpenInv
<1>1. incidents' = incidents /\ OnlyCloses
  BY DEF handleFailure, database, OnlyCloses
<1>2. clock \in Nat /\ clock' \in Nat
  BY <1>0, PipelineAssumption DEF TypeInv, SharedOK
<1>3. \/ NextTransition(h) /\ UNCHANGED clock
      \/ Work(h, existing, "updateSeverity") /\ UNCHANGED clock
      \/ /\ existing = 0 /\ clock' = clock + 1
         /\ Work(h, clock + 1, "createIncident")
  BY DEF handleFailure
<1>4. CASE NextTransition(h) /\ UNCHANGED clock
  BY <1>0, <1>1, <1>2, <1>4, NextTransitionMoves, ClosingKeepsOpenInv
<1>5. CASE Work(h, existing, "updateSeverity") /\ UNCHANGED clock
  <2>1. OthersStay(h) /\ ~Opening(h)'
    BY <1>0, <1>5, WorkMoves DEF Opening
  <2> QED BY <1>1, <1>2, <1>5, <2>1, ClosingKeepsOpenInv
<1>6. CASE /\ existing = 0 /\ clock' = clock + 1
           /\ Work(h, clock + 1, "createIncident")
  <2>1. /\ OthersStay(h) /\ pc'[h] = "createIncident" /\ target'[h] = clock + 1
        /\ transitions' = transitions
    BY <1>0, <1>6, WorkMoves
  <2>2. Active(s) = {}
    BY <1>6, GetActiveType
  <2>3. \A t : Active(t)' = Active(t)
    BY <1>1 DEF Active
  <2>4. \A g \in Handler : this(g)' = this(g)
    BY <2>1 DEF this
  <2>5. \A g \in Handler \ {h} : /\ Opening(g)' = Opening(g)
                                 /\ target'[g] = target[g]
                                 /\ pc'[g] = pc[g]
    BY <2>1 DEF OthersStay, Opening
  <2>6. \A g \in Handler : Opening(g) => target[g] \in Nat /\ target[g] <= clock
    BY <1>0 DEF OpenInv, OpeningInv, TypeInv, LocalsOK, Placed, Opening, Stamp,
                Working, Processing
  <2>7. ASSUME NEW g \in Handler, Opening(g)'
        PROVE  /\ target'[g] <= clock'
               /\ \A i \in Active(this(g).service)' : incidents'[i].opener # g
    <3>1. CASE g = h
      <4>1. Active(this(h).service)' = {}
        BY <2>2, <2>3, <2>4
      <4> QED BY <3>1, <4>1, <2>1, <1>2, <1>6
    <3>2. CASE g # h
      <4>1. Opening(g) /\ target'[g] = target[g]
        BY <2>5, <2>7, <3>2
      <4>2. target'[g] <= clock'
        BY <4>1, <2>6, <1>2, <1>6
      <4>3. \A i \in Active(this(g).service) : incidents[i].opener # g
        BY <4>1 DEF OpenInv, OpeningInv
      <4>4. Active(this(g).service)' = Active(this(g).service)
        BY <2>3, <2>4
      <4> QED BY <4>2, <4>3, <4>4, <1>1
    <3> QED BY <3>1, <3>2
  <2>8. \A f, g \in Handler : Opening(f)' /\ Opening(g)' /\ f # g => target'[f] # target'[g]
    <3> SUFFICES ASSUME NEW f \in Handler, NEW g \in Handler,
                        Opening(f)', Opening(g)', f # g
                 PROVE  target'[f] # target'[g]
      OBVIOUS
    <3>1. CASE f # h /\ g # h
      BY <3>1, <2>5 DEF OpenInv, OpeningInv
    <3>2. CASE f = h
      BY <3>2, <2>1, <2>5, <2>6, <1>2
    <3>3. CASE g = h
      BY <3>3, <2>1, <2>5, <2>6, <1>2
    <3> QED BY <3>1, <3>2, <3>3
  <2>9. \A g \in Handler : pc'[g] = "linkService" =>
            /\ incidents'[target'[g]].opener = g
            /\ incidents'[target'[g]].services = {}
    BY <1>1, <2>1, <2>5 DEF OpenInv, OpeningInv
  <2>10. OpeningInv'
    BY <2>7, <2>8, <2>9 DEF OpeningInv
  <2>11. LinkedInv' /\ OneOpenPerOpener'
    BY <1>1, <2>3 DEF OpenInv, LinkedInv, OneOpenPerOpener
  <2> QED BY <2>10, <2>11 DEF OpenInv
<1> QED BY <1>3, <1>4, <1>5, <1>6

\* Reading for a recovery, escalating, resolving and logging open nothing.
LEMMA ClosingWritesKeepOpenInv ==
    ASSUME OpenInv, TypeInv', NEW h \in Handler,
           handleRecovery(h) \/ UpdateSeverity(h) \/ Resolve(h) \/ AddUpdate(h)
    PROVE  OpenInv'
<1>0. TypeInv
  BY DEF OpenInv
<1>1. clock' >= clock
  <2>1. clock' = clock
    BY DEF handleRecovery, UpdateSeverity, Resolve, AddUpdate, WriteIncident
  <2> QED BY <1>0, <2>1 DEF TypeInv, SharedOK
<1>2. incidents \in [Stamp -> Incident]
  BY <1>0 DEF TypeInv, SharedOK
<1>3. OnlyCloses
  <2>1. CASE handleRecovery(h)
    BY <2>1 DEF handleRecovery, database, OnlyCloses
  <2>2. CASE UpdateSeverity(h)
    <3>1. \/ incidents' = incidents
          \/ incidents' = [incidents EXCEPT ![target[h]] =
                 [mine(h) EXCEPT !.severity = severityFromStatus(this(h).to)]]
      BY <2>2 DEF UpdateSeverity, WriteIncident
    <3> QED BY <1>2, <3>1 DEF OnlyCloses, mine, Incident
  <2>3. CASE Resolve(h)
    <3>1. \/ incidents' = incidents
          \/ incidents' = [incidents EXCEPT ![target[h]] =
                 [mine(h) EXCEPT !.status = "resolved"]]
      BY <2>3 DEF Resolve, WriteIncident
    <3> QED BY <1>2, <3>1 DEF OnlyCloses, mine, Incident
  <2>4. CASE AddUpdate(h)
    <3>1. PICK entry : \/ incidents' = incidents
                       \/ incidents' =
                            [incidents EXCEPT ![target[h]].updates = Append(@, entry)]
      BY <2>4 DEF AddUpdate
    <3> SUFFICES ASSUME NEW i \in Stamp
                 PROVE  /\ incidents'[i].services = incidents[i].services
                        /\ incidents'[i].opener = incidents[i].opener
                        /\ incidents'[i].status = incidents[i].status
      BY DEF OnlyCloses
    <3>2. incidents[i] \in Incident
      BY <1>2
    <3>3. CASE i = target[h]
      BY <1>2, <3>1, <3>2, <3>3 DEF Incident
    <3>4. CASE i # target[h]
      BY <1>2, <3>1, <3>4
    <3> QED BY <3>3, <3>4
  <2> QED BY <2>1, <2>2, <2>3, <2>4
<1>4. OthersStay(h) /\ ~Opening(h)'
  <2>1. \/ NextTransition(h)
        \/ \E i : Work(h, i, "resolve")
        \/ Goto(h, "addUpdate") /\ UNCHANGED locals
    BY DEF handleRecovery, UpdateSeverity, Resolve, AddUpdate, WriteIncident
  <2> QED BY <1>0, <2>1, NextTransitionMoves, WorkMoves, GotoMoves DEF Opening
<1> QED BY <1>1, <1>3, <1>4, ClosingKeepsOpenInv

\* A row just created is linked to nothing: it is active for no service yet.
LEMMA CreateKeepsOpenInv ==
    ASSUME OpenInv, TypeInv', NEW h \in Handler, Create(h)
    PROVE  OpenInv'
<1> DEFINE row == [status |-> "detected", severity |-> severityFromStatus(this(h).to),
                   services |-> {}, opener |-> h, updates |-> <<>>]
<1>0. TypeInv
  BY DEF OpenInv
<1>1. pc[h] = "createIncident" /\ Opening(h) /\ target[h] \in Stamp
  BY <1>0 DEF Create, At, Opening, TypeInv, LocalsOK, Placed, Working
<1>2. PICK o \in WriteOutcome :
        /\ incidents' = IF Applied(o) THEN [incidents EXCEPT ![target[h]] = row]
                                      ELSE incidents
        /\ \/ o # "ok" /\ NextTransition(h)
           \/ o = "ok" /\ Goto(h, "linkService") /\ UNCHANGED locals
  BY DEF Create, WriteIncident
<1>3. clock' = clock /\ clock \in Nat
  BY <1>0, PipelineAssumption DEF Create, WriteIncident, TypeInv, SharedOK
<1>4. CASE ~Applied(o)
  <2>1. incidents' = incidents /\ OnlyCloses
    BY <1>2, <1>4 DEF OnlyCloses
  <2>2. NextTransition(h)
    BY <1>2, <1>4 DEF Applied
  <2> QED BY <1>0, <1>3, <2>1, <2>2, NextTransitionMoves, ClosingKeepsOpenInv
<1>5. CASE Applied(o)
  <2>1. /\ incidents'[target[h]] = row
        /\ \A i \in Stamp \ {target[h]} : incidents'[i] = incidents[i]
    BY <1>0, <1>1, <1>2, <1>5 DEF TypeInv, SharedOK
  <2>2. \A s : \A i \in Active(s)' : /\ i \in Active(s) /\ i \in Stamp
                                     /\ incidents'[i] = incidents[i]
    BY <2>1 DEF Active
  <2>3. OneOpenPerOpener'
    BY <2>2 DEF OpenInv, OneOpenPerOpener
  <2>4. LinkedInv'
    BY <2>1 DEF OpenInv, LinkedInv
  <2>5. OthersStay(h) /\ (Opening(h)' => /\ pc'[h] = "linkService"
                                         /\ UNCHANGED <<target, transitions>>)
    BY <1>0, <1>2, NextTransitionMoves, GotoMoves DEF locals
  <2>6. \A g \in Handler : Opening(g)' =>
            /\ Opening(g) /\ target'[g] = target[g] /\ this(g)' = this(g)
            /\ g # h => pc'[g] = pc[g]
    BY <1>1, <2>5 DEF OthersStay, Opening, this
  <2>7. \A g \in Handler : Opening(g)' =>
            /\ target'[g] <= clock'
            /\ \A i \in Active(this(g).service)' : incidents'[i].opener # g
    BY <1>3, <2>2, <2>6 DEF OpenInv, OpeningInv
  <2>8. \A f, g \in Handler : Opening(f)' /\ Opening(g)' /\ f # g => target'[f] # target'[g]
    BY <2>6 DEF OpenInv, OpeningInv
  <2>9. ASSUME NEW g \in Handler, pc'[g] = "linkService"
        PROVE  /\ incidents'[target'[g]].opener = g
               /\ incidents'[target'[g]].services = {}
    <3>1. Opening(g)' /\ Opening(g) /\ target'[g] = target[g]
      BY <2>6, <2>9 DEF Opening
    <3>2. CASE g = h
      BY <2>1, <3>1, <3>2
    <3>3. CASE g # h
      <4>1. target[g] # target[h] /\ pc[g] = "linkService"
        BY <1>1, <2>6, <2>9, <3>1, <3>3 DEF OpenInv, OpeningInv
      <4>2. target[g] \in Stamp
        BY <1>0, <4>1 DEF TypeInv, LocalsOK, Placed, Working
      <4> QED BY <2>1, <3>1, <4>1, <4>2 DEF OpenInv, OpeningInv
    <3> QED BY <3>2, <3>3
  <2> QED BY <2>3, <2>4, <2>7, <2>8, <2>9 DEF OpenInv, OpeningInv
<1> QED BY <1>4, <1>5

\* The link makes the row active for one service, for which its opener had no
\* other one.
LEMMA LinkServiceKeepsOpenInv ==
    ASSUME OpenInv, TypeInv', NEW h \in Handler, LinkService(h)
    PROVE  OpenInv'
<1> DEFINE s   == this(h).service
           row == [mine(h) EXCEPT !.services = @ \cup {s}]
<1>0. TypeInv
  BY DEF OpenInv
<1>1. pc[h] = "linkService" /\ Opening(h) /\ target[h] \in Stamp
  BY <1>0 DEF LinkService, At, Opening, TypeInv, LocalsOK, Placed, Working
<1>2. PICK o \in WriteOutcome :
        /\ incidents' = IF Applied(o) THEN [incidents EXCEPT ![target[h]] = row]
                                      ELSE incidents
        /\ \/ NextTransition(h)
           \/ Goto(h, "addUpdate") /\ UNCHANGED locals
  BY DEF LinkService, WriteIncident
<1>3. clock' = clock /\ clock \in Nat
  BY <1>0, PipelineAssumption DEF LinkService, WriteIncident, TypeInv, SharedOK
<1>4. OthersStay(h) /\ ~Opening(h)'
  BY <1>0, <1>2, NextTransitionMoves, GotoMoves DEF Opening
<1>5. CASE ~Applied(o)
  <2>1. OnlyCloses
    BY <1>2, <1>5 DEF OnlyCloses
  <2> QED BY <1>3, <1>4, <2>1, ClosingKeepsOpenInv
<1>6. CASE Applied(o)
  <2>1. /\ incidents[target[h]].opener = h /\ incidents[target[h]].services = {}
        /\ \A i \in Active(s) : incidents[i].opener # h
    BY <1>1 DEF OpenInv, OpeningInv
  <2>2. /\ incidents'[target[h]].opener = h
        /\ incidents'[target[h]].services = {s}
        /\ \A i \in Stamp \ {target[h]} : incidents'[i] = incidents[i]
    <3>1. incidents \in [Stamp -> Incident] /\ mine(h) \in Incident
      BY <1>0, <1>1 DEF TypeInv, SharedOK, mine
    <3>2. row.opener = h /\ row.services = {s}
      BY <2>1, <3>1 DEF mine, Incident
    <3> HIDE DEF row
    <3> QED BY <1>1, <1>2, <1>6, <3>1, <3>2
  <2>3. \A t : \A i \in Active(t)' :
            \/ i = target[h] /\ t = s
            \/ i \in Active(t) /\ i # target[h] /\ i \in Stamp /\ incidents'[i] = incidents[i]
    BY <2>2 DEF Active
  <2>4. OneOpenPerOpener'
    BY <2>1, <2>2, <2>3 DEF OpenInv, OneOpenPerOpener
  <2>5. LinkedInv'
    BY <2>2 DEF OpenInv, LinkedInv
  <2>6. \A g \in Handler : Opening(g)' =>
            /\ g # h /\ Opening(g) /\ target'[g] = target[g] /\ this(g)' = this(g)
            /\ pc'[g] = pc[g]
    BY <1>4 DEF OthersStay, Opening, this
  <2>7. \A g \in Handler : Opening(g)' =>
            /\ target'[g] <= clock'
            /\ \A i \in Active(this(g).service)' : incidents'[i].opener # g
    BY <1>3, <2>2, <2>3, <2>6 DEF OpenInv, OpeningInv
  <2>8. \A f, g \in Handler : Opening(f)' /\ Opening(g)' /\ f # g => target'[f] # target'[g]
    BY <2>6 DEF OpenInv, OpeningInv
  <2>9. ASSUME NEW g \in Handler, pc'[g] = "linkService"
        PROVE  /\ incidents'[target'[g]].opener = g
               /\ incidents'[target'[g]].services = {}
    <3>1. g # h /\ Opening(g) /\ target'[g] = target[g] /\ pc[g] = "linkService"
      BY <2>6, <2>9 DEF Opening
    <3>2. target[g] # target[h]
      BY <1>1, <3>1 DEF OpenInv, OpeningInv
    <3>3. target[g] \in Stamp
      BY <1>0, <3>1 DEF TypeInv, LocalsOK, Placed, Working
    <3> QED BY <2>2, <3>1, <3>2, <3>3 DEF OpenInv, OpeningInv
  <2> QED BY <2>4, <2>5, <2>7, <2>8, <2>9 DEF OpenInv, OpeningInv
<1> QED BY <1>5, <1>6

\* Initially there is no incident and nobody is at work.
LEMMA OpenInit == Init => OpenInv
BY TypeInit DEF Init, OpenInv, OpeningInv, LinkedInv, OneOpenPerOpener, Active,
   NoIncident, Opening

\* Every action keeps the invariant.
LEMMA OpenStep == OpenInv /\ [Next]_vars => OpenInv'
<1> SUFFICES ASSUME OpenInv, [Next]_vars PROVE OpenInv'
  OBVIOUS
<1>1. TypeInv'
  BY TypeStep DEF OpenInv
<1>2. ASSUME NEW h \in Handler, Step(h) PROVE OpenInv'
  BY <1>1, <1>2, EvaluationKeepsOpenInv, HandleFailureKeepsOpenInv,
     ClosingWritesKeepOpenInv, CreateKeepsOpenInv, LinkServiceKeepsOpenInv DEF Step
<1>3. ASSUME NEW h \in Handler, Ingest(h) \/ check(h) \/ Crash(h) PROVE OpenInv'
  BY <1>1, <1>3, EvaluationKeepsOpenInv
<1>4. CASE UNCHANGED vars
  BY <1>1, <1>4 DEF OpenInv, OpeningInv, LinkedInv, OneOpenPerOpener, Active, Opening,
     this, vars, locals, database
<1> QED BY <1>2, <1>3, <1>4 DEF Next

\* The inductive invariant holds in every reachable state.
THEOREM OpenInvariant == Spec => []OpenInv
BY OpenInit, OpenStep, PTL DEF Spec

\* No two open incidents of a service were created by the same handler slot:
\* however handlers interleave, whatever statement fails and whenever a handler
\* crashes, duplicates cost concurrency.
THEOREM DuplicatesNeedConcurrency == Spec => []OneOpenPerOpener
<1>1. OpenInv => OneOpenPerOpener
  BY DEF OpenInv
<1> QED BY <1>1, OpenInvariant, PTL

\* The active incidents of a service, mapped to their openers, are an injection
\* into the handlers.
LEMMA ActiveIntoHandlers ==
    ASSUME OpenInv, NEW s \in Service, IsFiniteSet(Handler)
    PROVE  IsFiniteSet(Active(s)) /\ Cardinality(Active(s)) <= Cardinality(Handler)
<1> DEFINE f == [i \in Active(s) |-> incidents[i].opener]
<1>1. \A i \in Active(s) : incidents[i].opener \in Handler
  BY DEF OpenInv, LinkedInv, Active
<1>2. \A i, j \in Active(s) : incidents[i].opener = incidents[j].opener => i = j
  BY DEF OpenInv, OneOpenPerOpener
<1>3. f \in Injection(Active(s), Handler)
  BY <1>1, <1>2 DEF Injection, IsInjective
<1> QED BY <1>3, FS_Injection

\* A service never shows more open incidents than there are handlers that may
\* run at the same time: the bound OneOpenPerOpener stands for.
ActiveAtMostHandlers ==
    \A s \in Service : Cardinality(Active(s)) <= Cardinality(Handler)

\* With finitely many handlers at a time, that many incidents at most are open
\* for one service.
THEOREM ConcurrencyBoundsIncidents ==
    ASSUME IsFiniteSet(Handler)
    PROVE  Spec => []ActiveAtMostHandlers
<1>1. OpenInv => ActiveAtMostHandlers
  BY ActiveIntoHandlers DEF ActiveAtMostHandlers
<1> QED BY <1>1, OpenInvariant, PTL

\* What the comment in handleFailure assumes is true as long as handlers run
\* one after the other, even if statements fail and handlers crash: a service
\* has at most one active incident.
THEOREM OneHandlerOneIncident ==
    ASSUME NEW h, Handler = {h}
    PROVE  Spec => []AtMostOneActive
<1>1. IsFiniteSet(Handler) /\ Cardinality(Handler) = 1
  BY FS_Singleton
<1>2. OpenInv => AtMostOneActive
  BY <1>1, ActiveIntoHandlers DEF AtMostOneActive
<1> QED BY <1>2, OpenInvariant, PTL

(* ------------------- an undisturbed handler: evaluation ---------------- *)

\* Every service of a batch is mentioned somewhere for the first time.
LEMMA FirstMention ==
    ASSUME NEW items \in Seq(Item), NEW p \in DOMAIN items
    PROVE  \E f \in uniqueServiceIDs(items) :
                f <= p /\ items[f].service = items[p].service
<1> DEFINE same == {i \in DOMAIN items : items[i].service = items[p].service}
           less == {ss \in Nat \X Nat : ss[1] < ss[2]}
<1>1. DOMAIN items = 1 .. Len(items) /\ Len(items) \in Nat
  BY LenProperties
<1>2. same \subseteq Nat /\ p \in same
  BY <1>1
<1>3. IsWellFoundedOn(less, Nat)
  BY NatLessThanWellFounded DEF OpToRel
<1>4. PICK f \in same : \A j \in same : ~(<<j, f>> \in less)
  <2> HIDE DEF same, less
  <2> QED BY <1>2, <1>3, WFMin
<1>5. \A j \in same : f <= j
  <2> TAKE j \in same
  <2>1. j \in Nat /\ f \in Nat /\ ~(j < f)
    BY <1>2, <1>4
  <2> QED BY <2>1
<1>6. f \in uniqueServiceIDs(items)
  <2>1. \A j \in 1 .. f - 1 : items[j].service # items[f].service
    <3> SUFFICES ASSUME NEW j \in 1 .. f - 1, items[j].service = items[f].service
                 PROVE  FALSE
      OBVIOUS
    <3>1. f \in 1 .. Len(items) /\ items[f].service = items[p].service
      BY <1>1
    <3>2. j \in same
      BY <1>1, <3>1
    <3> QED BY <1>5, <3>1, <3>2
  <2> QED BY <2>1 DEF uniqueServiceIDs
<1> QED BY <1>2, <1>5, <1>6

\* The loop goes on with the services after place c, and with these transitions.
LoopFrom(h, c, ts) == EvaluateFrom(h, c + 1, ts)

\* When the loop goes on after place c, the services it leaves behind were all
\* mentioned at place c or earlier.
LEMMA LoopGoesOn ==
    ASSUME LocalsOK, NEW h \in Handler, NEW c \in Nat, NEW ts,
           LoopFrom(h, c, ts)
    PROVE  /\ pc'[h] # "idle" => UNCHANGED batch /\ transitions'[h] = ts
           /\ \A g \in Handler \ {h} : pc'[g] = pc[g]
           /\ \/ /\ pc'[h] = "getService"
                 /\ cursor'[h] \in uniqueServiceIDs(batch[h]) /\ cursor'[h] > c
                 /\ \A p \in DOMAIN batch[h] : p < cursor'[h] =>
                        \E q \in DOMAIN batch[h] :
                            q <= c /\ batch[h][q].service = batch[h][p].service
              \/ /\ pc'[h] = "getActive" \/ (pc'[h] = "idle" /\ ts = <<>>)
                 /\ \A p \in DOMAIN batch[h] :
                        \E q \in DOMAIN batch[h] :
                            q <= c /\ batch[h][q].service = batch[h][p].service
<1> DEFINE items == batch[h]
           rest  == {j \in uniqueServiceIDs(items) : j >= c + 1}
<1>1. /\ items \in Seq(Item) /\ DOMAIN items = 1 .. Len(items) /\ Len(items) \in Nat
      /\ uniqueServiceIDs(items) \subseteq DOMAIN items
  BY LenProperties DEF LocalsOK, uniqueServiceIDs
<1>2. ASSUME NEW p \in DOMAIN items, \A j \in rest : j > p
      PROVE  \E q \in DOMAIN items : q <= c /\ items[q].service = items[p].service
  <2>1. PICK f \in uniqueServiceIDs(items) :
            f <= p /\ items[f].service = items[p].service
    BY <1>1, FirstMention
  <2>2. f \in DOMAIN items /\ f \in Nat /\ p \in Nat
    BY <1>1, <2>1
  <2>3. ~(f >= c + 1)
    BY <1>2, <2>1, <2>2
  <2>4. f <= c
    BY <2>2, <2>3
  <2> QED BY <2>1, <2>2, <2>4
<1>3. /\ pc \in [Handler -> {"idle"} \cup Evaluating \cup Processing]
      /\ cursor \in [Handler -> Nat] /\ transitions \in [Handler -> Seq(Transition)]
  BY DEF LocalsOK
<1>4. CASE rest # {}
  <2>1. PICK j \in rest : (\A k \in rest : j <= k) /\ cursor' = [cursor EXCEPT ![h] = j]
    BY <1>4 DEF LoopFrom, EvaluateFrom
  <2>2. /\ transitions' = [transitions EXCEPT ![h] = ts]
        /\ pc' = [pc EXCEPT ![h] = "getService"]
        /\ UNCHANGED batch
    BY <1>4 DEF LoopFrom, EvaluateFrom, Goto
  <2>3. cursor'[h] = j /\ j \in uniqueServiceIDs(items) /\ j > c /\ j \in Nat
    BY <1>1, <1>3, <2>1
  <2>4. \A p \in DOMAIN items : p < j => \A k \in rest : k > p
    BY <1>1, <2>1, <2>3
  <2>5. \A p \in DOMAIN items : p < j =>
            \E q \in DOMAIN items : q <= c /\ items[q].service = items[p].service
    <3> HIDE DEF rest
    <3> QED BY <1>2, <2>4
  <2> HIDE DEF rest
  <2> QED BY <1>3, <2>2, <2>3, <2>5
<1>5. CASE rest = {} /\ ts # <<>>
  <2>1. /\ transitions' = [transitions EXCEPT ![h] = ts]
        /\ pc' = [pc EXCEPT ![h] = "getActive"]
        /\ UNCHANGED batch
    BY <1>5 DEF LoopFrom, EvaluateFrom, Goto
  <2>2. \A p \in DOMAIN items :
            \E q \in DOMAIN items : q <= c /\ items[q].service = items[p].service
    <3> HIDE DEF rest
    <3> QED BY <1>2, <1>5
  <2> HIDE DEF rest
  <2> QED BY <1>3, <2>1, <2>2
<1>6. CASE rest = {} /\ ts = <<>>
  <2>1. Return(h)
    BY <1>6 DEF LoopFrom, EvaluateFrom
  <2>2. pc' = [pc EXCEPT ![h] = "idle"]
    BY <2>1 DEF Return, Goto
  <2>3. \A p \in DOMAIN items :
            \E q \in DOMAIN items : q <= c /\ items[q].service = items[p].service
    <3> HIDE DEF rest
    <3> QED BY <1>2, <1>6
  <2> HIDE DEF rest
  <2> QED BY <1>3, <1>6, <2>2, <2>3
<1> QED BY <1>4, <1>5, <1>6

\* Unless it returns, the handler keeps its batch and has these transitions.
LEMMA LoopHandsOver ==
    ASSUME LocalsOK, NEW h \in Handler, NEW c \in Nat, NEW ts, LoopFrom(h, c, ts)
    PROVE  /\ pc'[h] # "idle" => UNCHANGED batch /\ transitions'[h] = ts
           /\ pc'[h] \in {"idle", "getService", "getActive"}
           /\ pc'[h] = "getService" =>
                  cursor'[h] \in uniqueServiceIDs(batch[h]) /\ cursor'[h] > c
BY LoopGoesOn

\* A window into which a result was stored is not empty.
LEMMA GetRecentNotEmpty ==
    ASSUME NEW w \in Seq(Result), NEW r \in Result, NEW limit \in Nat \ {0},
           NEW k \in Int, 1 <= k, k <= Len(w) + 1
    PROVE  GetRecent(w, r, k, limit) # <<>>
<1> DEFINE newer == SubSeq(w, 1, k - 1)
           older == SubSeq(w, k, Len(w))
           all   == InsertAt(w, k, r)
<1>1. Len(w) \in Nat /\ \A i \in 1 .. Len(w) : w[i] \in Result
  BY LenProperties, ElementOfSeq
<1>2. newer \in Seq(Result) /\ older \in Seq(Result)
  <2>1. (\A i \in 1 .. k - 1 : w[i] \in Result) /\ \A i \in k .. Len(w) : w[i] \in Result
    BY <1>1
  <2> QED BY <1>1, <2>1, SubSeqProperties
<1>3. newer \o <<r>> \in Seq(Result) /\ Len(newer \o <<r>>) = Len(newer) + 1
  <2>1. <<r>> \in Seq(Result) /\ Len(<<r>>) = 1
    OBVIOUS
  <2> HIDE DEF newer
  <2> QED BY <1>2, <2>1, ConcatProperties
<1>4. all \in Seq(Result) /\ Len(all) = Len(newer) + 1 + Len(older)
  <2>1. all = (newer \o <<r>>) \o older
    BY DEF InsertAt
  <2> HIDE DEF newer, older, all
  <2> QED BY <1>2, <1>3, <2>1, ConcatProperties
<1>5. Len(newer) \in Nat /\ Len(older) \in Nat
  BY <1>2, LenProperties
<1> HIDE DEF newer, older, all
<1>6. Len(all) \in Nat /\ Len(all) >= 1
  BY <1>4, <1>5
<1>7. CASE Len(all) <= limit
  BY <1>6, <1>7 DEF GetRecent, all
<1>8. CASE ~(Len(all) <= limit)
  <2>1. \A i \in 1 .. limit : all[i] \in Result
    BY <1>4, <1>6, <1>8, ElementOfSeq
  <2>2. Len(SubSeq(all, 1, limit)) = limit
    BY <2>1, SubSeqProperties
  <2>3. SubSeq(all, 1, limit) # <<>>
    BY <2>2
  <2> QED BY <1>8, <2>3 DEF GetRecent, all
<1> QED BY <1>7, <1>8

\* The lines on which a handler has a service to decide about.
Deciding == {"getService", "getRecent", "updateStatus"}

\* A status that is what its window, not an empty one, calls for.
TrueStatus(st, window) == window # <<>> /\ st = determineStatus(window)

\* The loop of EvaluateMultiple leaves services with a true status behind, and
\* what was read or computed for the current service is still so.
EvaluatedSoFar(h) ==
    /\ pc[h] = "storeResult" =>
         /\ transitions[h] = <<>>
         /\ \A i \in DOMAIN batch[h] :
                i < cursor[h] => results[batch[h][i].service] # <<>>
    /\ pc[h] \in Deciding =>
         /\ cursor[h] \in uniqueServiceIDs(batch[h])
         /\ \A i \in DOMAIN batch[h] :
                LET s == batch[h][i].service
                IN  /\ results[s] # <<>>
                    /\ i < cursor[h] => TrueStatus(status[s], results[s])
    /\ pc[h] \in {"getRecent", "updateStatus"} => seen[h] = status[current(h)]
    /\ pc[h] = "updateStatus" =>
         /\ verdict[h] = determineStatus(results[current(h)])
         /\ verdict[h] # seen[h]
    /\ pc[h] \in Processing =>
         \A i \in DOMAIN batch[h] :
             LET s == batch[h][i].service
             IN  TrueStatus(status[s], results[s])

\* There is one transition per service, to the status the service has.
TransitionsAreTrue(h) ==
    /\ \A j, k \in DOMAIN transitions[h] :
            transitions[h][j].service = transitions[h][k].service => j = k
    /\ \A k \in DOMAIN transitions[h] :
            transitions[h][k].to = status[transitions[h][k].service]
    /\ pc[h] \in Deciding =>
         \A k \in DOMAIN transitions[h] : \E i \in DOMAIN batch[h] :
             i < cursor[h] /\ batch[h][i].service = transitions[h][k].service

\* What the handler read of the incident it works on is still so, and what it
\* wrote is still there.
TargetIsTrue(h) ==
    LET s == this(h).service
    IN  /\ pc[h] \in {"updateSeverity", "createIncident", "linkService"} =>
              isIncidentStatus(this(h).to)
        /\ pc[h] \in {"updateSeverity", "resolve"} => target[h] \in Active(s)
        /\ pc[h] = "updateSeverity" => escalates(this(h).to, mine(h).severity)
        /\ pc[h] = "resolve" => this(h).to = "operational"
        /\ pc[h] \in {"createIncident", "linkService"} => Active(s) = {}
        /\ pc[h] = "linkService" =>
              mine(h) = [status   |-> "detected",
                         severity |-> severityFromStatus(this(h).to),
                         services |-> {},
                         opener   |-> h,
                         updates  |-> <<>>]
        /\ pc[h] = "addUpdate" =>
              IF this(h).to = "operational" THEN mine(h).status = "resolved"
              ELSE /\ target[h] \in Active(s)
                   /\ isIncidentStatus(this(h).to)
                   /\ mine(h).severity = severityFromStatus(this(h).to)

\* What an undisturbed handler may rely on.
Undisturbed(h) ==
    /\ \A g \in Handler \ {h} : pc[g] = "idle"
    /\ EvaluatedSoFar(h)
    /\ TransitionsAreTrue(h)
    /\ pc[h] \in Processing => TargetIsTrue(h)

\* An idle handler owes nothing; a calm one is undisturbed.
CalmInv ==
    /\ \A h \in Handler : pc[h] = "idle" => transitions[h] = <<>>
    /\ \A h \in Handler : (calm[h] /\ pc[h] # "idle") => Undisturbed(h)

\* A handler stays calm only through statements without an error.
LEMMA CalmNote ==
    ASSUME TypeInv, NEW h \in Handler, NEW o, Note(h, o), calm'[h]
    PROVE  o = "ok" /\ calm[h]
BY DEF TypeInv, SharedOK, Note

\* The loop of an undisturbed handler: if the services up to place c have a true
\* status, those it leaves behind have.
LEMMA LoopKeepsEvaluated ==
    ASSUME TypeInv, NEW h \in Handler, NEW c \in Nat, NEW ts,
           LoopFrom(h, c, ts),
           \A i \in DOMAIN batch[h] :
               /\ results'[batch[h][i].service] # <<>>
               /\ i <= c => TrueStatus(status'[batch[h][i].service],
                                       results'[batch[h][i].service])
    PROVE  \/ /\ pc'[h] = "idle" /\ ts = <<>>
              /\ \A i \in DOMAIN batch[h] : TrueStatus(status'[batch[h][i].service],
                                                       results'[batch[h][i].service])
           \/ /\ pc'[h] \in {"getService", "getActive"} /\ transitions'[h] = ts
              /\ UNCHANGED batch
              /\ EvaluatedSoFar(h)'
<1>0. LocalsOK
  BY DEF TypeInv
<1>1. CASE /\ pc'[h] = "getService"
           /\ cursor'[h] \in uniqueServiceIDs(batch[h]) /\ cursor'[h] > c
           /\ \A p \in DOMAIN batch[h] : p < cursor'[h] =>
                  \E q \in DOMAIN batch[h] :
                      q <= c /\ batch[h][q].service = batch[h][p].service
  <2>1. UNCHANGED batch /\ transitions'[h] = ts
    BY <1>0, <1>1, LoopGoesOn
  <2>2. \A p \in DOMAIN batch[h] : p < cursor'[h] =>
            TrueStatus(status'[batch[h][p].service], results'[batch[h][p].service])
    BY <1>1
  <2> QED BY <1>1, <2>1, <2>2 DEF EvaluatedSoFar, Deciding, Processing, Working, uniqueServiceIDs
<1>2. CASE /\ pc'[h] = "getActive" \/ (pc'[h] = "idle" /\ ts = <<>>)
           /\ \A p \in DOMAIN batch[h] :
                  \E q \in DOMAIN batch[h] :
                      q <= c /\ batch[h][q].service = batch[h][p].service
  <2>1. \A p \in DOMAIN batch[h] :
            TrueStatus(status'[batch[h][p].service], results'[batch[h][p].service])
    BY <1>2
  <2>2. pc'[h] # "idle" => UNCHANGED batch /\ transitions'[h] = ts
    BY <1>0, LoopGoesOn
  <2> QED BY <1>2, <2>1, <2>2 DEF EvaluatedSoFar, Deciding
<1> QED BY <1>0, <1>1, <1>2, LoopGoesOn

\* The transitions it takes along, one per service left behind, stay true.
LEMMA LoopKeepsTransitions ==
    ASSUME TypeInv, NEW h \in Handler, NEW c \in Nat, NEW ts \in Seq(Transition),
           LoopFrom(h, c, ts),
           \A j, k \in DOMAIN ts : ts[j].service = ts[k].service => j = k,
           \A k \in DOMAIN ts :
               /\ ts[k].to = status'[ts[k].service]
               /\ \E i \in DOMAIN batch[h] :
                      i <= c /\ batch[h][i].service = ts[k].service
    PROVE  pc'[h] = "idle" \/ (TransitionsAreTrue(h)' /\ TargetIsTrue(h)')
<1>0. LocalsOK
  BY DEF TypeInv
<1>1. CASE pc'[h] = "idle"
  BY <1>1
<1>2. CASE pc'[h] = "getActive"
  <2>1. pc'[h] # "idle" => UNCHANGED batch /\ transitions'[h] = ts
    BY <1>0, LoopHandsOver
  <2>2. transitions'[h] = ts /\ UNCHANGED batch
    BY <1>2, <2>1
  <2> QED BY <1>2, <2>2 DEF TransitionsAreTrue, TargetIsTrue, Deciding
<1>3. CASE pc'[h] = "getService"
  <2>1. transitions'[h] = ts /\ UNCHANGED batch /\ cursor'[h] > c
        /\ cursor'[h] \in uniqueServiceIDs(batch[h])
    BY <1>0, <1>3, LoopHandsOver
  <2>2. DOMAIN batch[h] \subseteq Nat /\ cursor'[h] \in Nat
    BY <2>1, LenProperties DEF TypeInv, LocalsOK, uniqueServiceIDs
  <2>3. \A k \in DOMAIN ts : \E i \in DOMAIN batch[h] :
            i < cursor'[h] /\ batch[h][i].service = ts[k].service
    BY <2>1, <2>2
  <2> QED BY <1>3, <2>1, <2>3 DEF TransitionsAreTrue, TargetIsTrue, Deciding
<1> QED BY <1>0, <1>1, <1>2, <1>3, LoopHandsOver

\* So the loop keeps a handler undisturbed.
LEMMA LoopKeepsUndisturbed ==
    ASSUME TypeInv, NEW h \in Handler, NEW c \in Nat, NEW ts \in Seq(Transition),
           LoopFrom(h, c, ts),
           \A g \in Handler \ {h} : pc[g] = "idle",
           \A i \in DOMAIN batch[h] :
               /\ results'[batch[h][i].service] # <<>>
               /\ i <= c => TrueStatus(status'[batch[h][i].service],
                                       results'[batch[h][i].service]),
           \A j, k \in DOMAIN ts : ts[j].service = ts[k].service => j = k,
           \A k \in DOMAIN ts :
               /\ ts[k].to = status'[ts[k].service]
               /\ \E i \in DOMAIN batch[h] :
                      i <= c /\ batch[h][i].service = ts[k].service
    PROVE  \/ /\ pc'[h] = "idle" /\ ts = <<>>
              /\ \A i \in DOMAIN batch[h] : TrueStatus(status'[batch[h][i].service],
                                                       results'[batch[h][i].service])
           \/ /\ pc'[h] \in {"getService", "getActive"}
              /\ transitions'[h] = ts /\ Undisturbed(h)'
<1>1. \A g \in Handler \ {h} : pc'[g] = "idle"
  BY LoopGoesOn DEF TypeInv
<1>2. pc'[h] = "idle" \/ (TransitionsAreTrue(h)' /\ TargetIsTrue(h)')
  BY LoopKeepsTransitions
<1>3. \/ /\ pc'[h] = "idle" /\ ts = <<>>
         /\ \A i \in DOMAIN batch[h] : TrueStatus(status'[batch[h][i].service],
                                                  results'[batch[h][i].service])
      \/ /\ pc'[h] \in {"getService", "getActive"} /\ transitions'[h] = ts
         /\ EvaluatedSoFar(h)'
  BY LoopKeepsEvaluated
<1> QED BY <1>1, <1>2, <1>3 DEF Undisturbed

\* The handler returns and every service of its batch has a true status.
Heals(h) ==
    /\ pc'[h] = "idle"
    /\ \A i \in DOMAIN batch[h] :
           LET s == batch[h][i].service
           IN  TrueStatus(status'[s], results'[s])

\* What a step of an undisturbed handler may lead to.
GoesOn(h) == Heals(h) \/ (pc'[h] # "idle" /\ Undisturbed(h)')

\* The places of a batch are natural numbers, and its services are services.
LEMMA BatchType ==
    ASSUME TypeInv, NEW h \in Handler
    PROVE  /\ DOMAIN batch[h] = 1 .. Len(batch[h]) /\ Len(batch[h]) \in Nat
           /\ \A i \in DOMAIN batch[h] :
                  batch[h][i] \in Item /\ batch[h][i].service \in Service
<1>1. batch[h] \in Seq(Item)
  BY DEF TypeInv, LocalsOK
<1>2. DOMAIN batch[h] = 1 .. Len(batch[h]) /\ Len(batch[h]) \in Nat
  BY <1>1, LenProperties
<1>3. \A i \in DOMAIN batch[h] : batch[h][i] \in Item
  BY <1>1, <1>2, ElementOfSeq
<1> QED BY <1>2, <1>3 DEF Item

\* A step that keeps status, results and batch loses no truth.
LEMMA LoopStays ==
    ASSUME TypeInv, NEW h \in Handler, Undisturbed(h), pc[h] \in Deciding,
           UNCHANGED <<status, results>>, NextService(h),
           TrueStatus(status[current(h)], results[current(h)])
    PROVE  GoesOn(h)
<1>1. /\ cursor[h] \in Nat /\ transitions[h] \in Seq(Transition)
      /\ DOMAIN batch[h] \subseteq Nat
  BY BatchType DEF TypeInv, LocalsOK
<1>2. LoopFrom(h, cursor[h], transitions[h])
  BY DEF NextService, LoopFrom
<1>3. \A g \in Handler \ {h} : pc[g] = "idle"
  BY DEF Undisturbed
<1>4. ASSUME NEW i \in DOMAIN batch[h]
      PROVE  /\ results'[batch[h][i].service] # <<>>
             /\ i <= cursor[h] => TrueStatus(status'[batch[h][i].service],
                                             results'[batch[h][i].service])
  <2>1. results[batch[h][i].service] # <<>>
    BY DEF Undisturbed, EvaluatedSoFar
  <2>2. i < cursor[h] => TrueStatus(status[batch[h][i].service],
                                    results[batch[h][i].service])
    BY DEF Undisturbed, EvaluatedSoFar
  <2>3. i = cursor[h] => TrueStatus(status[batch[h][i].service],
                                    results[batch[h][i].service])
    BY DEF current
  <2>4. i <= cursor[h] => i < cursor[h] \/ i = cursor[h]
    BY <1>1
  <2> QED BY <2>1, <2>2, <2>3, <2>4
<1>5. \A j, k \in DOMAIN transitions[h] :
          transitions[h][j].service = transitions[h][k].service => j = k
  BY DEF Undisturbed, TransitionsAreTrue
<1>6. ASSUME NEW k \in DOMAIN transitions[h]
      PROVE  /\ transitions[h][k].to = status'[transitions[h][k].service]
             /\ \E i \in DOMAIN batch[h] :
                    i <= cursor[h] /\ batch[h][i].service = transitions[h][k].service
  <2>1. PICK i \in DOMAIN batch[h] :
            i < cursor[h] /\ batch[h][i].service = transitions[h][k].service
    BY DEF Undisturbed, TransitionsAreTrue
  <2>2. i <= cursor[h]
    BY <1>1, <2>1
  <2> QED BY <2>1, <2>2 DEF Undisturbed, TransitionsAreTrue
<1>7. \/ /\ pc'[h] = "idle" /\ transitions[h] = <<>>
         /\ \A i \in DOMAIN batch[h] : TrueStatus(status'[batch[h][i].service],
                                                  results'[batch[h][i].service])
      \/ /\ pc'[h] \in {"getService", "getActive"}
         /\ transitions'[h] = transitions[h] /\ Undisturbed(h)'
  BY <1>1, <1>2, <1>3, <1>4, <1>5, <1>6, LoopKeepsUndisturbed
<1> QED BY <1>7 DEF GoesOn, Heals

\* StoreResult: what is stored is not empty, and nothing is owed yet.
LEMMA StoreResultCalm ==
    ASSUME TypeInv, NEW h \in Handler, Undisturbed(h), StoreResult(h), calm'[h]
    PROVE  GoesOn(h)
<1> DEFINE item == batch[h][cursor[h]]
           s    == item.service
<1>1. pc[h] = "storeResult" /\ pc[h] \in Evaluating
  BY DEF StoreResult, At, Evaluating
<1>2. item \in Item /\ s \in Service /\ item.result \in Result
  BY <1>1, CurrentType DEF TypeInv, Item
<1>3. PICK o \in WriteOutcome, k \in 1 .. Skew + 1 :
        /\ k <= Len(results[s]) + 1
        /\ results' = IF Applied(o)
                      THEN [results EXCEPT ![s] = GetRecent(@, item.result, k, WindowSize)]
                      ELSE results
        /\ Note(h, o)
        /\ \/ o # "ok" /\ Return(h)
           \/ /\ o = "ok" /\ cursor[h] < Len(batch[h])
              /\ cursor' = [cursor EXCEPT ![h] = @ + 1]
              /\ UNCHANGED <<pc, batch, seen, verdict, transitions, target>>
           \/ /\ o = "ok" /\ cursor[h] = Len(batch[h])
              /\ EvaluateFrom(h, 1, <<>>)
  BY DEF StoreResult
<1>4. o = "ok"
  BY <1>3, CalmNote
<1>5. results'[s] # <<>> /\ \A t \in Service \ {s} : results'[t] = results[t]
  <2>1. results[s] \in Seq(Result) /\ k \in Int /\ 1 <= k
    BY <1>2, PipelineAssumption DEF TypeInv, SharedOK
  <2>2. GetRecent(results[s], item.result, k, WindowSize) # <<>>
    BY <1>2, <1>3, <2>1, GetRecentNotEmpty, PipelineAssumption
  <2> HIDE DEF s, item
  <2> QED BY <1>2, <1>3, <1>4, <2>2 DEF TypeInv, SharedOK, Applied
<1>6. /\ \A g \in Handler \ {h} : pc[g] = "idle"
      /\ transitions[h] = <<>>
      /\ \A i \in DOMAIN batch[h] : i < cursor[h] => results[batch[h][i].service] # <<>>
  BY <1>1 DEF Undisturbed, EvaluatedSoFar
<1>7. DOMAIN batch[h] = 1 .. Len(batch[h]) /\ Len(batch[h]) \in Nat /\ cursor[h] \in Nat
  BY BatchType DEF TypeInv, LocalsOK
<1>8. \A i \in DOMAIN batch[h] : i <= cursor[h] => results'[batch[h][i].service] # <<>>
  <2> SUFFICES ASSUME NEW i \in DOMAIN batch[h], i <= cursor[h]
               PROVE  results'[batch[h][i].service] # <<>>
    OBVIOUS
  <2>1. batch[h][i].service \in Service
    BY BatchType
  <2>2. CASE batch[h][i].service = s
    BY <1>5, <2>2
  <2>3. CASE batch[h][i].service # s
    <3>1. i # cursor[h]
      BY <2>3
    <3>2. i < cursor[h]
      BY <1>7, <3>1
    <3> HIDE DEF s
    <3> QED BY <1>5, <1>6, <2>1, <2>3, <3>2
  <2> QED BY <2>2, <2>3
<1>9. CASE /\ cursor' = [cursor EXCEPT ![h] = @ + 1]
           /\ UNCHANGED <<pc, batch, seen, verdict, transitions, target>>
  <2>1. \A i \in DOMAIN batch[h] : i < cursor[h] + 1 => i <= cursor[h]
    BY <1>7
  <2>2. cursor'[h] = cursor[h] + 1
    BY <1>9 DEF TypeInv, LocalsOK
  <2>3. EvaluatedSoFar(h)'
    BY <1>1, <1>6, <1>8, <1>9, <2>1, <2>2
       DEF EvaluatedSoFar, Deciding, Processing, Working
  <2>4. TransitionsAreTrue(h)'
    BY <1>1, <1>6, <1>9 DEF TransitionsAreTrue, Deciding
  <2> QED BY <1>1, <1>6, <1>9, <2>3, <2>4 DEF GoesOn, Undisturbed, Processing, Working
<1>10. CASE cursor[h] = Len(batch[h]) /\ EvaluateFrom(h, 1, <<>>)
  <2>1. LoopFrom(h, 0, <<>>) /\ 0 \in Nat /\ <<>> \in Seq(Transition)
    BY <1>10 DEF LoopFrom
  <2>2. ASSUME NEW i \in DOMAIN batch[h]
        PROVE  results'[batch[h][i].service] # <<>> /\ ~(i <= 0)
    <3>1. i <= cursor[h] /\ ~(i <= 0)
      BY <1>7, <1>10
    <3> QED BY <1>8, <3>1
  <2>3. DOMAIN <<>> = {}
    OBVIOUS
  <2>4. \/ /\ pc'[h] = "idle"
           /\ \A i \in DOMAIN batch[h] : TrueStatus(status'[batch[h][i].service],
                                                    results'[batch[h][i].service])
        \/ pc'[h] \in {"getService", "getActive"} /\ Undisturbed(h)'
    BY <1>6, <2>1, <2>2, <2>3, LoopKeepsUndisturbed
  <2> QED BY <2>4 DEF GoesOn, Heals
<1> QED BY <1>3, <1>4, <1>9, <1>10

\* GetService: what is seen is the status as long as nobody else is there.
LEMMA GetServiceCalm ==
    ASSUME TypeInv, NEW h \in Handler, Undisturbed(h), GetService(h), calm'[h]
    PROVE  GoesOn(h)
<1>1. pc[h] = "getService"
  BY DEF GetService, At
<1>2. /\ seen' = [seen EXCEPT ![h] = status[current(h)]]
      /\ Goto(h, "getRecent")
      /\ UNCHANGED <<batch, cursor, verdict, transitions, target, status, results>>
  BY CalmNote DEF GetService, database
<1>3. pc' = [pc EXCEPT ![h] = "getRecent"] /\ pc'[h] = "getRecent"
      /\ \A g \in Handler \ {h} : pc'[g] = pc[g]
  BY <1>2 DEF Goto, TypeInv, LocalsOK
<1>4. EvaluatedSoFar(h)'
  BY <1>1, <1>2, <1>3 DEF Undisturbed, EvaluatedSoFar, Deciding, Processing, Working,
     current, TypeInv, LocalsOK
<1>5. TransitionsAreTrue(h)'
  BY <1>1, <1>2, <1>3 DEF Undisturbed, TransitionsAreTrue, Deciding
<1> QED BY <1>3, <1>4, <1>5 DEF GoesOn, Undisturbed, Processing, Working

\* Evaluate: an unchanged verdict means the status is true, a new one is owed.
LEMMA EvaluateCalm ==
    ASSUME TypeInv, NEW h \in Handler, Undisturbed(h), Evaluate(h), calm'[h]
    PROVE  GoesOn(h)
<1> DEFINE window == results[current(h)]
           new    == determineStatus(window)
<1>1. pc[h] = "getRecent"
  BY DEF Evaluate, At
<1>2. /\ UNCHANGED <<status, results>>
      /\ \/ (window = <<>> \/ new = seen[h]) /\ NextService(h)
         \/ /\ window # <<>> /\ new # seen[h]
            /\ verdict' = [verdict EXCEPT ![h] = new]
            /\ Goto(h, "updateStatus")
            /\ UNCHANGED <<batch, cursor, seen, transitions, target>>
  BY CalmNote DEF Evaluate, database
<1>3. window # <<>> /\ seen[h] = status[current(h)]
  BY <1>1 DEF Undisturbed, EvaluatedSoFar, Deciding, current, uniqueServiceIDs
<1>4. CASE new = seen[h] /\ NextService(h)
  <2>1. TrueStatus(status[current(h)], results[current(h)])
    BY <1>3, <1>4 DEF TrueStatus
  <2> QED BY <1>1, <1>2, <1>4, <2>1, LoopStays DEF Deciding
<1>5. CASE /\ new # seen[h]
           /\ verdict' = [verdict EXCEPT ![h] = new]
           /\ Goto(h, "updateStatus")
           /\ UNCHANGED <<batch, cursor, seen, transitions, target>>
  <2> HIDE DEF new
  <2>1. pc'[h] = "updateStatus" /\ verdict'[h] = new
        /\ \A g \in Handler \ {h} : pc'[g] = pc[g]
    BY <1>5 DEF Goto, TypeInv, LocalsOK
  <2>2. current(h)' = current(h)
    BY <1>5 DEF current
  <2>3. EvaluatedSoFar(h)'
    BY <1>1, <1>2, <1>3, <1>5, <2>1, <2>2
       DEF Undisturbed, EvaluatedSoFar, Deciding, Processing, Working, new
  <2>4. TransitionsAreTrue(h)'
    BY <1>1, <1>2, <1>5, <2>1 DEF Undisturbed, TransitionsAreTrue, Deciding
  <2> QED BY <2>1, <2>3, <2>4 DEF GoesOn, Undisturbed, Processing, Working
<1> QED BY <1>2, <1>3, <1>4, <1>5

\* UpdateStatus: the status becomes true, and the transition says so.
LEMMA UpdateStatusCalm ==
    ASSUME TypeInv, NEW h \in Handler, Undisturbed(h), UpdateStatus(h), calm'[h]
    PROVE  GoesOn(h)
<1> DEFINE moved == [service |-> current(h), to |-> verdict[h]]
           ts    == Append(transitions[h], moved)
           s     == current(h)
<1>1. pc[h] = "updateStatus" /\ pc[h] \in Evaluating /\ pc[h] \in Deciding
  BY DEF UpdateStatus, At, Evaluating, Deciding
<1>2. s \in Service /\ moved \in Transition /\ transitions[h] \in Seq(Transition)
  BY <1>1, CurrentType DEF TypeInv, LocalsOK, Transition
<1>3. /\ status' = [status EXCEPT ![s] = verdict[h]]
      /\ EvaluateFrom(h, cursor[h] + 1, ts)
      /\ UNCHANGED results
  BY CalmNote DEF UpdateStatus, Applied
<1>4. status'[s] = verdict[h] /\ \A t \in Service \ {s} : status'[t] = status[t]
  BY <1>2, <1>3 DEF TypeInv, SharedOK
<1>5. /\ cursor[h] \in uniqueServiceIDs(batch[h]) /\ cursor[h] \in DOMAIN batch[h]
      /\ verdict[h] = determineStatus(results[s])
      /\ \A i \in DOMAIN batch[h] :
             /\ results[batch[h][i].service] # <<>>
             /\ i < cursor[h] => TrueStatus(status[batch[h][i].service],
                                            results[batch[h][i].service])
  BY <1>1 DEF Undisturbed, EvaluatedSoFar, uniqueServiceIDs
<1>6. DOMAIN batch[h] = 1 .. Len(batch[h]) /\ Len(batch[h]) \in Nat /\ cursor[h] \in Nat
  BY BatchType DEF TypeInv, LocalsOK
<1>7. TrueStatus(status'[s], results'[s])
  BY <1>3, <1>4, <1>5 DEF TrueStatus, current
<1>8. ASSUME NEW i \in DOMAIN batch[h]
      PROVE  /\ results'[batch[h][i].service] # <<>>
             /\ i <= cursor[h] => TrueStatus(status'[batch[h][i].service],
                                             results'[batch[h][i].service])
  <2>1. results'[batch[h][i].service] # <<>> /\ batch[h][i].service \in Service
    BY <1>3, <1>5, BatchType
  <2>2. CASE batch[h][i].service = s
    BY <1>7, <2>1, <2>2
  <2>3. CASE batch[h][i].service # s
    <3>1. i # cursor[h]
      BY <2>3 DEF current
    <3>2. i <= cursor[h] => i < cursor[h]
      BY <1>6, <3>1
    <3> HIDE DEF s
    <3> QED BY <1>3, <1>4, <1>5, <2>1, <2>3, <3>2
  <2> QED BY <2>2, <2>3
<1>9. /\ DOMAIN transitions[h] = 1 .. Len(transitions[h]) /\ Len(transitions[h]) \in Nat
      /\ DOMAIN ts = 1 .. Len(transitions[h]) + 1
      /\ ts[Len(transitions[h]) + 1] = moved
      /\ \A k \in DOMAIN transitions[h] : ts[k] = transitions[h][k]
  BY <1>2, LenProperties
<1>10. ASSUME NEW k \in DOMAIN transitions[h]
       PROVE  /\ transitions[h][k].service # s /\ transitions[h][k].service \in Service
              /\ transitions[h][k].to = status[transitions[h][k].service]
              /\ \E i \in DOMAIN batch[h] :
                     i <= cursor[h] /\ batch[h][i].service = transitions[h][k].service
  <2>1. PICK i \in DOMAIN batch[h] :
            i < cursor[h] /\ batch[h][i].service = transitions[h][k].service
    BY <1>1 DEF Undisturbed, TransitionsAreTrue
  <2>2. i \in 1 .. cursor[h] - 1 /\ i <= cursor[h]
    BY <1>6, <2>1
  <2>3. batch[h][i].service # s
    BY <1>5, <2>2 DEF uniqueServiceIDs, current
  <2>4. transitions[h][k].to = status[transitions[h][k].service]
    BY DEF Undisturbed, TransitionsAreTrue
  <2> HIDE DEF s
  <2> QED BY <2>1, <2>2, <2>3, <2>4, BatchType
<1>11. moved.service = s /\ moved.to = verdict[h]
  OBVIOUS
<1>12. s = batch[h][cursor[h]].service
  BY DEF current
<1> HIDE DEF ts, moved, s
<1>13. ASSUME NEW k \in DOMAIN ts
       PROVE  /\ ts[k].to = status'[ts[k].service]
              /\ \E i \in DOMAIN batch[h] :
                     i <= cursor[h] /\ batch[h][i].service = ts[k].service
  <2>1. CASE k \in DOMAIN transitions[h]
    BY <1>4, <1>9, <1>10, <2>1
  <2>2. CASE k = Len(transitions[h]) + 1
    <3>1. ts[k] = moved
      BY <1>9, <2>2
    <3>2. cursor[h] <= cursor[h]
      BY <1>6
    <3> QED BY <1>4, <1>5, <1>11, <1>12, <3>1, <3>2
  <2> QED BY <1>9, <2>1, <2>2
<1>14. ASSUME NEW j \in DOMAIN ts, NEW k \in DOMAIN ts, ts[j].service = ts[k].service
       PROVE  j = k
  <2>1. (j \in DOMAIN transitions[h] \/ j = Len(transitions[h]) + 1)
        /\ (k \in DOMAIN transitions[h] \/ k = Len(transitions[h]) + 1)
    BY <1>9
  <2>2. CASE j \in DOMAIN transitions[h] /\ k \in DOMAIN transitions[h]
    BY <1>9, <1>14, <2>2 DEF Undisturbed, TransitionsAreTrue
  <2>3. CASE j \in DOMAIN transitions[h] /\ k = Len(transitions[h]) + 1
    BY <1>9, <1>10, <1>11, <1>14, <2>3
  <2>4. CASE k \in DOMAIN transitions[h] /\ j = Len(transitions[h]) + 1
    BY <1>9, <1>10, <1>11, <1>14, <2>4
  <2> QED BY <2>1, <2>2, <2>3, <2>4
<1>15. ts \in Seq(Transition)
  BY <1>2, AppendProperties DEF ts
<1>16. \A g \in Handler \ {h} : pc[g] = "idle"
  BY DEF Undisturbed
<1>17. LoopFrom(h, cursor[h], ts)
  BY <1>3 DEF LoopFrom
<1>18. \/ /\ pc'[h] = "idle" /\ ts = <<>>
          /\ \A i \in DOMAIN batch[h] : TrueStatus(status'[batch[h][i].service],
                                                   results'[batch[h][i].service])
       \/ /\ pc'[h] \in {"getService", "getActive"}
          /\ transitions'[h] = ts /\ Undisturbed(h)'
  BY <1>6, <1>8, <1>13, <1>14, <1>15, <1>16, <1>17, LoopKeepsUndisturbed
<1> QED BY <1>18 DEF GoesOn, Heals

(* ------------------ an undisturbed handler: incidents ------------------ *)

\* A rank is a number.
LEMMA SeverityRankType ==
    ASSUME NEW severity
    PROVE  severityRank(severity) \in Nat
BY DEF severityRank

\* The transition a handler is done with has reached the incidents.
Logged(h) ==
    LET t == this(h)
    IN  IF t.to = "operational"
        THEN \/ target[h] # 0 /\ incidents'[target[h]].status = "resolved"
             \/ \A i \in Stamp : ~(/\ incidents'[i].status = "detected"
                                   /\ t.service \in incidents'[i].services)
        ELSE \E i \in Stamp :
                /\ incidents'[i].status = "detected"
                /\ t.service \in incidents'[i].services
                /\ severityRank(incidents'[i].severity)
                      >= severityRank(severityFromStatus(t.to))

\* Working on the incidents changes no status: being done with a transition
\* leaves the handler undisturbed, or idle with all of its services true.
LEMMA NextTransitionCalm ==
    ASSUME TypeInv, NEW h \in Handler, Undisturbed(h), pc[h] \in Processing,
           UNCHANGED <<status, results>>, NextTransition(h)
    PROVE  GoesOn(h)
<1>1. \A i \in DOMAIN batch[h] :
          TrueStatus(status[batch[h][i].service], results[batch[h][i].service])
  BY DEF Undisturbed, EvaluatedSoFar
<1>2. CASE Return(h)
  <2>1. pc'[h] = "idle"
    BY <1>2 DEF Return, Goto, TypeInv, LocalsOK
  <2> QED BY <1>1, <2>1 DEF GoesOn, Heals
<1>3. CASE /\ transitions' = [transitions EXCEPT ![h] = Tail(@)]
           /\ Goto(h, "getActive")
           /\ UNCHANGED batch
  <2> DEFINE ts == transitions[h]
  <2>1. /\ pc'[h] = "getActive" /\ transitions'[h] = Tail(ts)
        /\ \A g \in Handler \ {h} : pc'[g] = pc[g]
    BY <1>3 DEF Goto, TypeInv, LocalsOK
  <2>2. ts \in Seq(Transition) /\ ts # <<>>
    BY DEF TypeInv, LocalsOK, Placed
  <2>3. /\ Len(Tail(ts)) = Len(ts) - 1 /\ Tail(ts) \in Seq(Transition)
        /\ \A k \in 1 .. Len(Tail(ts)) : Tail(ts)[k] = ts[k + 1]
    BY <2>2, HeadTailProperties
  <2>4. /\ DOMAIN ts = 1 .. Len(ts) /\ Len(ts) \in Nat
        /\ DOMAIN Tail(ts) = 1 .. Len(Tail(ts))
    BY <2>2, <2>3, LenProperties
  <2>5. \A k \in DOMAIN Tail(ts) :
            k \in Nat /\ k + 1 \in DOMAIN ts /\ Tail(ts)[k] = ts[k + 1]
    BY <2>3, <2>4
  <2>6. /\ \A j, k \in DOMAIN ts : ts[j].service = ts[k].service => j = k
        /\ \A k \in DOMAIN ts : ts[k].to = status[ts[k].service]
    BY DEF Undisturbed, TransitionsAreTrue
  <2> HIDE DEF ts
  <2>7. \A j, k \in DOMAIN Tail(ts) : Tail(ts)[j].service = Tail(ts)[k].service => j = k
    <3> SUFFICES ASSUME NEW j \in DOMAIN Tail(ts), NEW k \in DOMAIN Tail(ts),
                        Tail(ts)[j].service = Tail(ts)[k].service
                 PROVE  j = k
      OBVIOUS
    <3>1. j + 1 = k + 1
      BY <2>5, <2>6
    <3> QED BY <2>5, <3>1
  <2>8. \A k \in DOMAIN Tail(ts) : Tail(ts)[k].to = status'[Tail(ts)[k].service]
    BY <2>5, <2>6
  <2>9. TransitionsAreTrue(h)'
    BY <2>1, <2>7, <2>8 DEF TransitionsAreTrue, Deciding
  <2>10. EvaluatedSoFar(h)' /\ TargetIsTrue(h)'
    BY <1>1, <1>3, <2>1 DEF EvaluatedSoFar, TargetIsTrue, Deciding
  <2> QED BY <2>1, <2>9, <2>10 DEF GoesOn, Undisturbed
<1> QED BY <1>2, <1>3 DEF NextTransition

\* Going on to work on an incident needs the truth about that incident.
LEMMA WorkingCalm ==
    ASSUME TypeInv, NEW h \in Handler, Undisturbed(h), pc[h] \in Processing,
           UNCHANGED <<status, results, batch, transitions>>,
           NEW line \in Working, Goto(h, line), TargetIsTrue(h)'
    PROVE  GoesOn(h)
<1>1. pc'[h] = line /\ \A g \in Handler \ {h} : pc'[g] = pc[g]
  BY DEF Goto, TypeInv, LocalsOK
<1>2. EvaluatedSoFar(h)' /\ TransitionsAreTrue(h)'
  BY <1>1 DEF Undisturbed, EvaluatedSoFar, TransitionsAreTrue, Deciding, Processing,
     Working
<1> QED BY <1>1, <1>2 DEF GoesOn, Undisturbed, Processing, Working

\* handleFailure: what was read is true; nothing is done only if an incident at
\* least as severe is open.
LEMMA HandleFailureCalm ==
    ASSUME TypeInv, NEW h \in Handler, Undisturbed(h), handleFailure(h), calm'[h]
    PROVE  GoesOn(h) /\ (NextTransition(h) => Logged(h))
<1> DEFINE s        == this(h).service
           existing == GetActiveForService(s)
           outranks == escalates(this(h).to, incidents[existing].severity)
<1>1. pc[h] = "getActive" /\ pc[h] \in Processing /\ isIncidentStatus(this(h).to)
  BY DEF handleFailure, At, Processing
<1>2. UNCHANGED <<status, results, incidents>>
  BY DEF handleFailure, database
<1>3. \/ existing # 0 /\ ~outranks /\ NextTransition(h)
      \/ existing # 0 /\ outranks /\ Work(h, existing, "updateSeverity")
      \/ existing = 0 /\ Work(h, clock + 1, "createIncident")
  BY CalmNote DEF handleFailure
<1>4. /\ existing # 0 => existing \in Active(s)
      /\ existing = 0 => Active(s) = {}
  BY GetActiveType
<1>5. pc \in [Handler -> {"idle"} \cup Evaluating \cup Processing]
      /\ target \in [Handler -> Stamp \cup {0}]
  BY DEF TypeInv, LocalsOK
<1>6. this(h).to # "operational"
  BY <1>1 DEF isIncidentStatus
<1> HIDE DEF existing, outranks
<1>7. CASE existing # 0 /\ ~outranks /\ NextTransition(h)
  <2>1. GoesOn(h)
    BY <1>1, <1>2, <1>7, NextTransitionCalm
  <2>2. existing \in Stamp /\ incidents'[existing].status = "detected"
        /\ s \in incidents'[existing].services
    BY <1>2, <1>4, <1>7 DEF Active
  <2>3. severityRank(incidents'[existing].severity)
            >= severityRank(severityFromStatus(this(h).to))
    BY <1>2, <1>7, SeverityRankType DEF outranks, escalates
  <2> QED BY <1>6, <2>1, <2>2, <2>3 DEF Logged
<1>8. CASE existing # 0 /\ outranks /\ Work(h, existing, "updateSeverity")
  <2>1. /\ target'[h] = existing /\ pc'[h] = "updateSeverity" /\ this(h)' = this(h)
        /\ Goto(h, "updateSeverity") /\ UNCHANGED <<batch, transitions>>
    BY <1>5, <1>8 DEF Work, Goto, this
  <2>2. existing \in Active(this(h).service)'
    BY <1>2, <1>4, <1>8, <2>1 DEF Active
  <2>3. TargetIsTrue(h)'
    BY <1>1, <1>2, <1>8, <2>1, <2>2 DEF TargetIsTrue, mine, outranks
  <2>4. "updateSeverity" \in Working
    BY DEF Working
  <2>5. ~NextTransition(h)
    BY <2>1 DEF NextTransition, Return, Goto, TypeInv, LocalsOK
  <2> QED BY <1>1, <1>2, <2>1, <2>3, <2>4, <2>5, WorkingCalm
<1>9. CASE existing = 0 /\ Work(h, clock + 1, "createIncident")
  <2>1. /\ pc'[h] = "createIncident" /\ this(h)' = this(h)
        /\ Goto(h, "createIncident") /\ UNCHANGED <<batch, transitions>>
    BY <1>5, <1>9 DEF Work, Goto, this
  <2>2. Active(this(h).service)' = {}
    BY <1>2, <1>4, <1>9, <2>1 DEF Active
  <2>3. TargetIsTrue(h)'
    BY <1>1, <2>1, <2>2 DEF TargetIsTrue
  <2>4. "createIncident" \in Working
    BY DEF Working
  <2>5. ~NextTransition(h)
    BY <2>1 DEF NextTransition, Return, Goto, TypeInv, LocalsOK
  <2> QED BY <1>1, <1>2, <2>1, <2>3, <2>4, <2>5, WorkingCalm
<1> QED BY <1>3, <1>7, <1>8, <1>9

\* handleRecovery: nothing is done only if no incident is open.
LEMMA HandleRecoveryCalm ==
    ASSUME TypeInv, NEW h \in Handler, Undisturbed(h), handleRecovery(h), calm'[h]
    PROVE  GoesOn(h) /\ (NextTransition(h) => Logged(h))
<1> DEFINE s        == this(h).service
           existing == GetActiveForService(s)
<1>1. pc[h] = "getActive" /\ pc[h] \in Processing /\ this(h).to = "operational"
  BY DEF handleRecovery, At, Processing
<1>2. UNCHANGED <<status, results, incidents>>
  BY DEF handleRecovery, database
<1>3. \/ existing = 0 /\ NextTransition(h)
      \/ existing # 0 /\ Work(h, existing, "resolve")
  BY CalmNote DEF handleRecovery
<1>4. /\ existing # 0 => existing \in Active(s)
      /\ existing = 0 => Active(s) = {}
  BY GetActiveType
<1>5. pc \in [Handler -> {"idle"} \cup Evaluating \cup Processing]
      /\ target \in [Handler -> Stamp \cup {0}]
  BY DEF TypeInv, LocalsOK
<1> HIDE DEF existing
<1>6. CASE existing = 0 /\ NextTransition(h)
  <2>1. GoesOn(h)
    BY <1>1, <1>2, <1>6, NextTransitionCalm
  <2>2. \A i \in Stamp : ~(/\ incidents'[i].status = "detected"
                           /\ s \in incidents'[i].services)
    BY <1>2, <1>4, <1>6 DEF Active
  <2> QED BY <1>1, <2>1, <2>2 DEF Logged
<1>7. CASE existing # 0 /\ Work(h, existing, "resolve")
  <2>1. /\ target'[h] = existing /\ pc'[h] = "resolve" /\ this(h)' = this(h)
        /\ Goto(h, "resolve") /\ UNCHANGED <<batch, transitions>>
    BY <1>5, <1>7 DEF Work, Goto, this
  <2>2. existing \in Active(this(h).service)'
    BY <1>2, <1>4, <1>7, <2>1 DEF Active
  <2>3. TargetIsTrue(h)'
    BY <1>1, <2>1, <2>2 DEF TargetIsTrue
  <2>4. "resolve" \in Working
    BY DEF Working
  <2>5. ~NextTransition(h)
    BY <2>1 DEF NextTransition, Return, Goto, TypeInv, LocalsOK
  <2> QED BY <1>1, <1>2, <2>1, <2>3, <2>4, <2>5, WorkingCalm
<1> QED BY <1>3, <1>6, <1>7

\* A write of an undisturbed handler is applied and leads on to the next line.
LEMMA CalmWrite ==
    ASSUME TypeInv, NEW h \in Handler, pc[h] \in Working, NEW row, NEW line,
           WriteIncident(h, row, line), calm'[h]
    PROVE  /\ incidents' = [incidents EXCEPT ![target[h]] = row]
           /\ incidents'[target[h]] = row /\ target[h] \in Stamp
           /\ Goto(h, line) /\ pc'[h] = line
           /\ UNCHANGED <<status, results, batch, transitions, target>>
           /\ this(h)' = this(h)
<1>1. PICK o \in WriteOutcome :
        /\ incidents' = IF Applied(o) THEN [incidents EXCEPT ![target[h]] = row]
                                      ELSE incidents
        /\ Note(h, o)
        /\ \/ o # "ok" /\ NextTransition(h)
           \/ o = "ok" /\ Goto(h, line) /\ UNCHANGED locals
  BY DEF WriteIncident
<1>2. o = "ok"
  BY <1>1, CalmNote
<1>3. target[h] \in Stamp
  BY DEF TypeInv, LocalsOK, Placed
<1>4. /\ incidents' = [incidents EXCEPT ![target[h]] = row]
      /\ Goto(h, line) /\ UNCHANGED locals
  BY <1>1, <1>2 DEF Applied
<1>5. incidents'[target[h]] = row
  BY <1>3, <1>4 DEF TypeInv, SharedOK
<1>6. pc'[h] = line
  BY <1>4 DEF Goto, TypeInv, LocalsOK
<1> QED BY <1>3, <1>4, <1>5, <1>6 DEF WriteIncident, locals, this

\* The four writes leave the incident as the handler takes it to be.
LEMMA WritesCalm ==
    ASSUME TypeInv, NEW h \in Handler, Undisturbed(h), calm'[h],
           UpdateSeverity(h) \/ Create(h) \/ LinkService(h) \/ Resolve(h)
    PROVE  GoesOn(h)
<1> DEFINE s == this(h).service
<1>1. pc[h] \in Working /\ pc[h] \in Processing /\ TargetIsTrue(h)
  BY DEF UpdateSeverity, Create, LinkService, Resolve, At, Working, Processing,
     Undisturbed
<1>2. mine(h) \in Incident
  BY <1>1 DEF TypeInv, LocalsOK, SharedOK, Placed, mine
<1>3. mine(h)' = incidents'[target'[h]]
  BY DEF mine
<1>4. "addUpdate" \in Working /\ "linkService" \in Working
  BY DEF Working
<1>5. CASE UpdateSeverity(h)
  <2> DEFINE row == [mine(h) EXCEPT !.severity = severityFromStatus(this(h).to)]
  <2>1. WriteIncident(h, row, "addUpdate") /\ pc[h] = "updateSeverity"
    BY <1>5 DEF UpdateSeverity, At
  <2>2. row.status = mine(h).status /\ row.services = mine(h).services
        /\ row.severity = severityFromStatus(this(h).to)
    BY <1>2 DEF Incident
  <2> HIDE DEF row
  <2>3. /\ incidents'[target[h]] = row /\ target[h] \in Stamp
        /\ Goto(h, "addUpdate") /\ pc'[h] = "addUpdate"
        /\ UNCHANGED <<status, results, batch, transitions, target>>
        /\ this(h)' = this(h)
    BY <1>1, <2>1, CalmWrite
  <2>4. target[h] \in Active(s) /\ isIncidentStatus(this(h).to)
    BY <1>1, <2>1 DEF TargetIsTrue
  <2>5. target'[h] \in Active(this(h).service)'
    BY <2>2, <2>3, <2>4 DEF Active, mine
  <2>6. TargetIsTrue(h)'
    BY <1>3, <2>2, <2>3, <2>4, <2>5 DEF TargetIsTrue, isIncidentStatus
  <2> QED BY <1>1, <1>4, <2>3, <2>6, WorkingCalm
<1>6. CASE Create(h)
  <2> DEFINE row == [status |-> "detected", severity |-> severityFromStatus(this(h).to),
                     services |-> {}, opener |-> h, updates |-> <<>>]
  <2>1. WriteIncident(h, row, "linkService") /\ pc[h] = "createIncident"
    BY <1>6 DEF Create, At
  <2>2. row.services = {}
    OBVIOUS
  <2> HIDE DEF row
  <2>3. /\ incidents' = [incidents EXCEPT ![target[h]] = row]
        /\ incidents'[target[h]] = row /\ target[h] \in Stamp
        /\ Goto(h, "linkService") /\ pc'[h] = "linkService"
        /\ UNCHANGED <<status, results, batch, transitions, target>>
        /\ this(h)' = this(h)
    BY <1>1, <2>1, CalmWrite
  <2>4. Active(s) = {} /\ isIncidentStatus(this(h).to)
    BY <1>1, <2>1 DEF TargetIsTrue
  <2>5. Active(this(h).service)' = {}
    <3>1. \A i \in Stamp \ {target[h]} : incidents'[i] = incidents[i]
      BY <2>3 DEF TypeInv, SharedOK
    <3> QED BY <2>2, <2>3, <2>4, <3>1 DEF Active
  <2>6. TargetIsTrue(h)'
    BY <1>3, <2>3, <2>4, <2>5 DEF TargetIsTrue, row
  <2> QED BY <1>1, <1>4, <2>3, <2>6, WorkingCalm
<1>7. CASE LinkService(h)
  <2> DEFINE row == [mine(h) EXCEPT !.services = @ \cup {s}]
  <2>1. WriteIncident(h, row, "addUpdate") /\ pc[h] = "linkService"
    BY <1>7 DEF LinkService, At
  <2>2. row.status = mine(h).status /\ s \in row.services
        /\ row.severity = mine(h).severity
    BY <1>2 DEF Incident
  <2> HIDE DEF row
  <2>3. /\ incidents'[target[h]] = row /\ target[h] \in Stamp
        /\ Goto(h, "addUpdate") /\ pc'[h] = "addUpdate"
        /\ UNCHANGED <<status, results, batch, transitions, target>>
        /\ this(h)' = this(h)
    BY <1>1, <2>1, CalmWrite
  <2>4. /\ mine(h).status = "detected"
        /\ mine(h).severity = severityFromStatus(this(h).to)
        /\ isIncidentStatus(this(h).to)
    BY <1>1, <2>1 DEF TargetIsTrue
  <2>5. target'[h] \in Active(this(h).service)'
    BY <2>2, <2>3, <2>4 DEF Active
  <2>6. TargetIsTrue(h)'
    BY <1>3, <2>2, <2>3, <2>4, <2>5 DEF TargetIsTrue, isIncidentStatus
  <2> QED BY <1>1, <1>4, <2>3, <2>6, WorkingCalm
<1>8. CASE Resolve(h)
  <2> DEFINE row == [mine(h) EXCEPT !.status = "resolved"]
  <2>1. WriteIncident(h, row, "addUpdate") /\ pc[h] = "resolve"
    BY <1>8 DEF Resolve, At
  <2>2. row.status = "resolved"
    BY <1>2 DEF Incident
  <2> HIDE DEF row
  <2>3. /\ incidents'[target[h]] = row /\ target[h] \in Stamp
        /\ Goto(h, "addUpdate") /\ pc'[h] = "addUpdate"
        /\ UNCHANGED <<status, results, batch, transitions, target>>
        /\ this(h)' = this(h)
    BY <1>1, <2>1, CalmWrite
  <2>4. this(h).to = "operational"
    BY <1>1, <2>1 DEF TargetIsTrue
  <2>5. TargetIsTrue(h)'
    BY <1>3, <2>2, <2>3, <2>4 DEF TargetIsTrue
  <2> QED BY <1>1, <1>4, <2>3, <2>5, WorkingCalm
<1> QED BY <1>5, <1>6, <1>7, <1>8

\* AddUpdate: the incident is as it should be, and an entry does not change that.
LEMMA AddUpdateCalm ==
    ASSUME TypeInv, NEW h \in Handler, Undisturbed(h), AddUpdate(h), calm'[h]
    PROVE  GoesOn(h) /\ NextTransition(h) /\ Logged(h)
<1> DEFINE s     == this(h).service
           entry == IF this(h).to = "operational" THEN "resolved" ELSE "detected"
<1>1. pc[h] = "addUpdate" /\ pc[h] \in Processing
  BY DEF AddUpdate, At, Processing, Working
<1>2. target[h] \in Stamp /\ mine(h) \in Incident
  BY <1>1 DEF TypeInv, LocalsOK, SharedOK, Placed, mine, Working
<1>3. NextTransition(h) /\ UNCHANGED <<status, results>>
  BY DEF AddUpdate
<1>4. incidents' = [incidents EXCEPT ![target[h]].updates = Append(@, entry)]
  BY CalmNote DEF AddUpdate, Applied
<1>5. /\ incidents'[target[h]].status = mine(h).status
      /\ incidents'[target[h]].severity = mine(h).severity
      /\ incidents'[target[h]].services = mine(h).services
  <2> HIDE DEF entry
  <2> QED BY <1>2, <1>4 DEF TypeInv, SharedOK, mine, Incident
<1>6. TargetIsTrue(h)
  BY <1>1 DEF Undisturbed
<1>7. Logged(h)
  <2>1. CASE this(h).to = "operational"
    <3>1. mine(h).status = "resolved" /\ target[h] # 0
      BY <1>1, <1>2, <1>6, <2>1 DEF TargetIsTrue, Stamp
    <3> QED BY <1>5, <2>1, <3>1 DEF Logged
  <2>2. CASE this(h).to # "operational"
    <3>1. target[h] \in Active(s) /\ mine(h).severity = severityFromStatus(this(h).to)
      BY <1>1, <1>6, <2>2 DEF TargetIsTrue
    <3>2. incidents'[target[h]].status = "detected"
          /\ s \in incidents'[target[h]].services
      BY <1>5, <3>1 DEF Active, mine
    <3>3. severityRank(incidents'[target[h]].severity)
              >= severityRank(severityFromStatus(this(h).to))
      BY <1>5, <3>1, SeverityRankType
    <3> QED BY <1>2, <2>2, <3>2, <3>3 DEF Logged
  <2> QED BY <2>1, <2>2
<1> QED BY <1>1, <1>3, <1>7, NextTransitionCalm

(* ---------------- an undisturbed handler: the theorems ----------------- *)

\* A step of h moves only h, and a handler that returns owes nothing.
LEMMA HandlerMoves ==
    ASSUME TypeInv, NEW h \in Handler, Ingest(h) \/ check(h) \/ Step(h) \/ Crash(h)
    PROVE  OthersStay(h) /\ (pc'[h] = "idle" => transitions'[h] = <<>>)
<1>1. /\ pc \in [Handler -> {"idle"} \cup Evaluating \cup Processing]
      /\ transitions \in [Handler -> Seq(Transition)]
      /\ target \in [Handler -> Stamp \cup {0}]
  BY DEF TypeInv, LocalsOK
<1>2. CASE Return(h)
  BY <1>1, <1>2 DEF Return, Goto, OthersStay
<1>3. CASE \E line : /\ Goto(h, line) /\ line # "idle"
                     /\ \E ts : transitions' = [transitions EXCEPT ![h] = ts]
                     /\ \E i : target' = [target EXCEPT ![h] = i]
  BY <1>1, <1>3 DEF Goto, OthersStay
<1>4. CASE UNCHANGED <<pc, transitions, target>> /\ pc[h] # "idle"
  BY <1>4 DEF OthersStay
<1>5. UNCHANGED transitions => \E ts : transitions' = [transitions EXCEPT ![h] = ts]
  <2>1. transitions = [transitions EXCEPT ![h] = transitions[h]]
    BY <1>1
  <2> QED BY <2>1
<1>6. UNCHANGED target => \E i : target' = [target EXCEPT ![h] = i]
  <2>1. target = [target EXCEPT ![h] = target[h]]
    BY <1>1
  <2> QED BY <2>1
<1> DEFINE Walks == \E line : /\ Goto(h, line) /\ line # "idle"
                              /\ \E ts : transitions' = [transitions EXCEPT ![h] = ts]
                              /\ \E i : target' = [target EXCEPT ![h] = i]
<1>7. ASSUME NEW i, NEW ts, EvaluateFrom(h, i, ts)
      PROVE  Return(h) \/ Walks
  BY <1>6, <1>7 DEF EvaluateFrom
<1>8. NextTransition(h) => Return(h) \/ Walks
  BY DEF NextTransition
<1>9. ASSUME NEW i, NEW line, line # "idle", Work(h, i, line)
      PROVE  Walks
  BY <1>5, <1>9 DEF Work
<1>10. ASSUME NEW line, line # "idle", Goto(h, line), UNCHANGED <<transitions, target>>
       PROVE  Walks
  BY <1>5, <1>6, <1>10
<1> HIDE DEF Walks
<1>11. CASE Ingest(h) \/ check(h)
  <2>1. PICK items : Start(h, items)
    BY <1>11 DEF Ingest, check
  <2> QED BY <1>3, <1>10, <2>1 DEF Start, Walks
<1>12. CASE Crash(h)
  BY <1>2, <1>12 DEF Crash
<1>13. CASE StoreResult(h)
  <2>1. \/ Return(h) \/ EvaluateFrom(h, 1, <<>>)
        \/ UNCHANGED <<pc, transitions, target>> /\ pc[h] # "idle"
    BY <1>13 DEF StoreResult, At
  <2> QED BY <1>2, <1>3, <1>4, <1>7, <2>1 DEF Walks
<1>14. CASE GetService(h) \/ Evaluate(h) \/ UpdateStatus(h)
  <2>1. \/ \E i, ts : EvaluateFrom(h, i, ts)
        \/ \E line : line # "idle" /\ Goto(h, line) /\ UNCHANGED <<transitions, target>>
    BY <1>14 DEF GetService, Evaluate, UpdateStatus, NextService
  <2> QED BY <1>2, <1>3, <1>7, <1>10, <2>1 DEF Walks
<1>15. CASE handleFailure(h) \/ handleRecovery(h)
  <2>1. NextTransition(h) \/ \E i, line : line # "idle" /\ Work(h, i, line)
    BY <1>15 DEF handleFailure, handleRecovery
  <2> QED BY <1>2, <1>3, <1>8, <1>9, <2>1 DEF Walks
<1>16. CASE UpdateSeverity(h) \/ Create(h) \/ LinkService(h) \/ Resolve(h) \/ AddUpdate(h)
  <2>1. \/ NextTransition(h)
        \/ \E line : line # "idle" /\ Goto(h, line) /\ UNCHANGED <<transitions, target>>
    BY <1>16 DEF UpdateSeverity, Create, LinkService, Resolve, AddUpdate,
       WriteIncident, locals
  <2> QED BY <1>2, <1>3, <1>8, <1>10, <2>1 DEF Walks
<1> QED BY <1>11, <1>12, <1>13, <1>14, <1>15, <1>16 DEF Step

\* A step of a started handler changes no other handler's calm.
LEMMA StepNotes ==
    ASSUME NEW h \in Handler, Step(h)
    PROVE  (\E o : Note(h, o)) /\ pc[h] # "idle"
<1>1. CASE StoreResult(h) \/ GetService(h) \/ Evaluate(h) \/ UpdateStatus(h)
  BY <1>1 DEF StoreResult, GetService, Evaluate, UpdateStatus, At
<1>2. CASE handleFailure(h) \/ handleRecovery(h)
  BY <1>2 DEF handleFailure, handleRecovery, At
<1>3. CASE UpdateSeverity(h) \/ Create(h) \/ LinkService(h) \/ Resolve(h) \/ AddUpdate(h)
  BY <1>3 DEF UpdateSeverity, Create, LinkService, Resolve, AddUpdate, WriteIncident, At
<1> QED BY <1>1, <1>2, <1>3 DEF Step

\* A handler still calm after its step was undisturbed and goes on so.
LEMMA StepGoesOn ==
    ASSUME TypeInv, CalmInv, NEW h \in Handler, Step(h), calm'[h]
    PROVE  Undisturbed(h) /\ GoesOn(h)
<1>1. Undisturbed(h)
  <2>1. calm[h] /\ pc[h] # "idle"
    BY StepNotes, CalmNote
  <2> QED BY <2>1 DEF CalmInv
<1> QED BY <1>1, StoreResultCalm, GetServiceCalm, EvaluateCalm, UpdateStatusCalm,
        HandleFailureCalm, HandleRecoveryCalm, WritesCalm, AddUpdateCalm DEF Step

\* A handler that starts alone owes nothing and has read nothing yet.
LEMMA StartCalm ==
    ASSUME TypeInv, TypeInv', CalmInv, NEW h \in Handler, NEW items, Start(h, items),
           NEW g \in Handler, calm'[g]
    PROVE  Undisturbed(g)'
<1>1. g = h /\ \A other \in Handler \ {h} : pc[other] = "idle"
  BY DEF Start, At
<1>2. /\ pc'[h] = "storeResult" /\ cursor'[h] = 1
      /\ \A other \in Handler \ {h} : pc'[other] = pc[other]
      /\ transitions'[h] = <<>>
  BY DEF Start, At, Goto, TypeInv, LocalsOK, CalmInv
<1>3. ~\E i \in DOMAIN batch'[h] : i < 1
  <2>1. batch'[h] \in Seq(Item)
    BY DEF TypeInv, LocalsOK
  <2>2. DOMAIN batch'[h] = 1 .. Len(batch'[h])
    BY <2>1, LenProperties
  <2> QED BY <2>2
<1> QED BY <1>1, <1>2, <1>3 DEF Undisturbed, EvaluatedSoFar, TransitionsAreTrue,
        Deciding, Processing, Working

\* Before the first request no handler runs.
LEMMA CalmInit == Init => CalmInv
BY DEF Init, CalmInv

\* Every action keeps what undisturbed handlers may rely on.
LEMMA CalmStep == TypeInv /\ TypeInv' /\ CalmInv /\ [Next]_vars => CalmInv'
<1> SUFFICES ASSUME TypeInv, TypeInv', CalmInv, [Next]_vars
             PROVE  CalmInv'
  OBVIOUS
<1>1. CASE UNCHANGED vars
  <2>1. \A h \in Handler : Undisturbed(h)' = Undisturbed(h)
    BY <1>1 DEF Undisturbed, EvaluatedSoFar, TransitionsAreTrue, TargetIsTrue, this,
       mine, current, Active, vars, database, locals
  <2> QED BY <1>1, <2>1 DEF CalmInv, vars, locals
<1>2. ASSUME NEW h \in Handler, Ingest(h) \/ check(h) \/ Step(h) \/ Crash(h)
      PROVE  CalmInv'
  <2>1. OthersStay(h) /\ (pc'[h] = "idle" => transitions'[h] = <<>>)
    BY <1>2, HandlerMoves
  <2>2. \A g \in Handler : pc'[g] = "idle" => transitions'[g] = <<>>
    BY <2>1 DEF OthersStay, CalmInv
  <2>3. ASSUME NEW g \in Handler, calm'[g], pc'[g] # "idle"
        PROVE  Undisturbed(g)'
    <3>1. CASE Ingest(h) \/ check(h)
      <4>1. PICK items : Start(h, items)
        BY <3>1 DEF Ingest, check
      <4> QED BY <2>3, <4>1, StartCalm
    <3>2. CASE Step(h) /\ g = h
      BY <2>3, <3>2, StepGoesOn DEF GoesOn, Heals
    <3>3. CASE (Step(h) \/ Crash(h)) /\ g # h
      <4>1. calm[g] /\ pc[g] # "idle"
        <5>1. pc[g] # "idle"
          BY <2>1, <2>3, <3>3 DEF OthersStay
        <5>2. calm[g]
          <6>1. CASE Step(h)
            BY <2>3, <3>3, <6>1, StepNotes DEF Note, TypeInv, SharedOK
          <6>2. CASE Crash(h)
            BY <2>3, <3>3, <6>2 DEF Crash, TypeInv, SharedOK
          <6> QED BY <3>3, <6>1, <6>2
        <5> QED BY <5>1, <5>2
      <4>2. pc[h] = "idle"
        BY <3>3, <4>1 DEF CalmInv, Undisturbed
      <4> QED BY <3>3, <4>2, StepNotes DEF Crash, At
    <3>4. CASE Crash(h) /\ g = h
      BY <2>3, <3>4 DEF Crash, TypeInv, SharedOK
    <3> QED BY <1>2, <3>1, <3>2, <3>3, <3>4
  <2> QED BY <2>2, <2>3 DEF CalmInv
<1> QED BY <1>1, <1>2 DEF Next

\* What an undisturbed handler relies on is so in every reachable state.
THEOREM CalmInvariant == Spec => []CalmInv
<1>1. TypeInv /\ TypeInv' /\ CalmInv /\ [Next]_vars => CalmInv'
  BY CalmStep
<1> QED BY <1>1, CalmInit, TypeInvariant, PTL DEF Spec

\* Whatever races and failures left behind in current_status, a handler that
\* runs alone and meets no error leaves every service of its batch with the
\* status its window calls for.
THEOREM StatusHeals == Spec => CalmHandlerHealsStatus
<1> DEFINE A == \A h \in Handler :
                  (~At(h, "idle") /\ pc'[h] = "idle" /\ calm'[h]) =>
                     \A i \in DOMAIN batch[h] :
                         LET s == batch[h][i].service
                         IN  status'[s] = determineStatus(results'[s])
<1>1. ASSUME TypeInv, CalmInv, [Next]_vars PROVE [A]_vars
  <2> SUFFICES ASSUME ~UNCHANGED vars, NEW h \in Handler, pc[h] # "idle",
                      pc'[h] = "idle", calm'[h], NEW i \in DOMAIN batch[h]
               PROVE  status'[batch[h][i].service]
                          = determineStatus(results'[batch[h][i].service])
    BY DEF At
  <2>1. PICK g \in Handler : Ingest(g) \/ check(g) \/ Step(g) \/ Crash(g)
    BY <1>1 DEF Next
  <2>2. g = h
    BY <1>1, <2>1, HandlerMoves DEF OthersStay
  <2>3. ~Crash(h)
    BY <1>1 DEF Crash, TypeInv, SharedOK
  <2>4. ~(Ingest(h) \/ check(h))
    BY DEF Ingest, check, Start, At
  <2>5. GoesOn(h)
    BY <1>1, <2>1, <2>2, <2>3, <2>4, StepGoesOn
  <2> QED BY <2>5 DEF GoesOn, Heals, TrueStatus
<1>2. TypeInv /\ CalmInv /\ [Next]_vars => [A]_vars
  BY <1>1
<1> QED BY <1>2, TypeInvariant, CalmInvariant, PTL DEF Spec, CalmHandlerHealsStatus

\* Dropping the first element is neither doing nothing nor appending.
LEMMA TailIsShorter ==
    ASSUME NEW S, NEW ts \in Seq(S), ts # <<>>
    PROVE  Tail(ts) # ts /\ \A m \in S : Append(ts, m) \notin {Tail(ts), <<>>}
<1> DEFINE tl == Tail(ts)
<1>1. Len(ts) \in Nat /\ Len(tl) = Len(ts) - 1
  BY LenProperties, HeadTailProperties
<1>2. ASSUME NEW m \in S
      PROVE  Append(ts, m) # tl /\ Append(ts, m) # <<>>
  <2> DEFINE more == Append(ts, m)
  <2>1. Len(more) = Len(ts) + 1
    BY AppendProperties
  <2> HIDE DEF more, tl
  <2>2. Len(<<>>) = 0
    BY EmptySeq
  <2>3. more # tl /\ more # <<>>
    BY <1>1, <2>1, <2>2
  <2> QED BY <2>3 DEF more
<1> HIDE DEF tl
<1>3. tl # ts
  BY <1>1
<1> QED BY <1>2, <1>3 DEF tl

\* The step with which a calm handler drops a transition has logged it.
LEMMA DoneIsLogged ==
    ASSUME TypeInv, CalmInv, NEW h \in Handler, Step(h), calm'[h],
           transitions[h] # <<>>, transitions'[h] = Tail(transitions[h])
    PROVE  Logged(h)
<1> DEFINE ts == transitions[h]
<1>1. ts \in Seq(Transition)
  BY DEF TypeInv, LocalsOK
<1>2. transitions'[h] # ts
  BY <1>1, TailIsShorter
<1>3. Undisturbed(h)
  BY StepGoesOn
<1>4. ~StoreResult(h)
  BY <1>3 DEF StoreResult, At, Undisturbed, EvaluatedSoFar
<1>5. ~GetService(h)
  BY <1>2, CalmNote DEF GetService
<1>6. \A i, us : EvaluateFrom(h, i, us) => transitions'[h] = us \/ us = <<>>
  BY DEF EvaluateFrom, TypeInv, LocalsOK
<1>7. ~Evaluate(h)
  <2>1. Evaluate(h) => NextService(h) \/ UNCHANGED transitions
    BY DEF Evaluate
  <2> QED BY <1>2, <1>6, <2>1 DEF NextService
<1>8. ~UpdateStatus(h)
  <2> SUFFICES ASSUME UpdateStatus(h) PROVE FALSE
    OBVIOUS
  <2> DEFINE us == Append(ts, [service |-> current(h), to |-> verdict[h]])
  <2>1. EvaluateFrom(h, cursor[h] + 1, us)
    BY CalmNote DEF UpdateStatus
  <2>2. pc[h] \in Evaluating
    BY DEF UpdateStatus, At, Evaluating
  <2>3. [service |-> current(h), to |-> verdict[h]] \in Transition
    BY <2>2, CurrentType DEF TypeInv, LocalsOK, Transition
  <2>4. us # Tail(ts) /\ us # <<>>
    BY <1>1, <2>3, TailIsShorter
  <2> HIDE DEF us
  <2> QED BY <1>6, <2>1, <2>4
<1>9. CASE handleFailure(h)
  <2>1. NextTransition(h) \/ UNCHANGED transitions
    BY <1>9 DEF handleFailure, Work
  <2> QED BY <1>2, <1>3, <1>9, <2>1, HandleFailureCalm
<1>10. CASE handleRecovery(h)
  <2>1. NextTransition(h) \/ UNCHANGED transitions
    BY <1>10 DEF handleRecovery, Work
  <2> QED BY <1>2, <1>3, <1>10, <2>1, HandleRecoveryCalm
<1>11. ~(UpdateSeverity(h) \/ Create(h) \/ LinkService(h) \/ Resolve(h))
  <2> SUFFICES ASSUME UpdateSeverity(h) \/ Create(h) \/ LinkService(h) \/ Resolve(h)
               PROVE  FALSE
    OBVIOUS
  <2>1. pc[h] \in Working
    BY DEF UpdateSeverity, Create, LinkService, Resolve, At, Working
  <2>2. \E row, line : WriteIncident(h, row, line)
    BY DEF UpdateSeverity, Create, LinkService, Resolve
  <2>3. UNCHANGED transitions
    BY <2>1, <2>2, CalmWrite
  <2> QED BY <1>2, <2>3
<1>12. CASE AddUpdate(h)
  BY <1>3, <1>12, AddUpdateCalm
<1> QED BY <1>4, <1>5, <1>7, <1>8, <1>9, <1>10, <1>11, <1>12 DEF Step

\* No transition of an undisturbed handler is lost: once it is done, an open
\* incident is at least as severe as the failure, or the recovery closed it.
THEOREM TransitionsAreLogged == Spec => CalmTransitionIsLogged
<1> DEFINE A == \A h \in Handler :
          (transitions[h] # <<>> /\ transitions'[h] = Tail(transitions[h]) /\ calm'[h]) =>
              LET t == this(h)
              IN  IF t.to = "operational"
                  THEN \/ target[h] # 0 /\ incidents'[target[h]].status = "resolved"
                       \/ \A i \in Stamp : ~(/\ incidents'[i].status = "detected"
                                             /\ t.service \in incidents'[i].services)
                  ELSE \E i \in Stamp :
                          /\ incidents'[i].status = "detected"
                          /\ t.service \in incidents'[i].services
                          /\ severityRank(incidents'[i].severity)
                                >= severityRank(severityFromStatus(t.to))
<1>1. ASSUME TypeInv, CalmInv, [Next]_vars PROVE [A]_vars
  <2> SUFFICES ASSUME ~UNCHANGED vars, NEW h \in Handler, transitions[h] # <<>>,
                      transitions'[h] = Tail(transitions[h]), calm'[h]
               PROVE  Logged(h)
    BY DEF Logged
  <2>1. PICK g \in Handler : Ingest(g) \/ check(g) \/ Step(g) \/ Crash(g)
    BY <1>1 DEF Next
  <2>2. transitions'[h] # transitions[h]
    <3>1. transitions[h] \in Seq(Transition)
      BY <1>1 DEF TypeInv, LocalsOK
    <3> QED BY <3>1, TailIsShorter
  <2>3. g = h
    BY <1>1, <2>1, <2>2, HandlerMoves DEF OthersStay
  <2>4. ~Crash(h)
    BY <1>1 DEF Crash, TypeInv, SharedOK
  <2>5. ~(Ingest(h) \/ check(h))
    BY <2>2 DEF Ingest, check, Start
  <2> QED BY <1>1, <2>1, <2>3, <2>4, <2>5, DoneIsLogged
<1>2. TypeInv /\ CalmInv /\ [Next]_vars => [A]_vars
  BY <1>1
<1> QED BY <1>2, TypeInvariant, CalmInvariant, PTL DEF Spec, CalmTransitionIsLogged

(* ------------------------- the rows of incidents ----------------------- *)

\* Rows are written only after their stamp was drawn, and an incident belongs
\* to one service.
RowsInv ==
    /\ \A i \in Stamp : i > clock => incidents[i] = NoIncident
    /\ \A h \in Handler : pc[h] \in Working => target[h] <= clock
    /\ \A i \in Stamp : \A s, t \in incidents[i].services : s = t

\* A step of h that draws no stamp and writes at most the row h works on.
LEMMA RowsKept ==
    ASSUME TypeInv, RowsInv, NEW h \in Handler, OthersStay(h), clock' = clock,
           pc'[h] \in Working => target'[h] <= clock,
           \/ incidents' = incidents
           \/ /\ target[h] \in Stamp /\ target[h] <= clock
              /\ \E row : /\ \A s, t \in row.services : s = t
                          /\ incidents' = [incidents EXCEPT ![target[h]] = row]
    PROVE  RowsInv'
<1>1. \A g \in Handler : pc'[g] \in Working => target'[g] <= clock'
  BY DEF OthersStay, RowsInv
<1>2. CASE incidents' = incidents
  BY <1>1, <1>2 DEF RowsInv
<1>3. CASE /\ target[h] \in Stamp /\ target[h] <= clock
           /\ \E row : /\ \A s, t \in row.services : s = t
                       /\ incidents' = [incidents EXCEPT ![target[h]] = row]
  <2>1. PICK row : /\ \A s, t \in row.services : s = t
                   /\ incidents' = [incidents EXCEPT ![target[h]] = row]
    BY <1>3
  <2>2. /\ incidents'[target[h]] = row
        /\ \A i \in Stamp \ {target[h]} : incidents'[i] = incidents[i]
    BY <1>3, <2>1 DEF TypeInv, SharedOK
  <2>3. clock \in Int /\ target[h] \in Int
    BY <1>3, PipelineAssumption DEF TypeInv, SharedOK, Stamp
  <2>4. \A i \in Stamp : i > clock' => incidents'[i] = NoIncident
    BY <1>3, <2>2, <2>3 DEF RowsInv
  <2>5. \A i \in Stamp : \A s, t \in incidents'[i].services : s = t
    BY <2>1, <2>2 DEF RowsInv
  <2> QED BY <1>1, <2>4, <2>5 DEF RowsInv
<1> QED BY <1>2, <1>3

\* A handler that is done with a transition works on nothing.
LEMMA DoneWorking ==
    ASSUME TypeInv, NEW h \in Handler,
           \/ Return(h)
           \/ \E i, ts : EvaluateFrom(h, i, ts)
           \/ NextTransition(h)
           \/ \E line : Goto(h, line) /\ line \notin Working
    PROVE  pc'[h] \notin Working
<1>1. \E line : Goto(h, line) /\ line \notin Working
  BY DEF Return, EvaluateFrom, NextTransition, Working
<1> QED BY <1>1 DEF Goto, TypeInv, LocalsOK

\* Nor does one that starts, evaluates or crashes; and it touches no row.
LEMMA EvaluationWorksOnNothing ==
    ASSUME TypeInv, NEW h \in Handler,
           \/ Ingest(h) \/ check(h) \/ Crash(h)
           \/ StoreResult(h) \/ GetService(h) \/ Evaluate(h) \/ UpdateStatus(h)
    PROVE  /\ incidents' = incidents /\ clock' = clock
           /\ pc'[h] \notin Working
           /\ Crash(h) \/ pc[h] \notin Processing
<1>1. incidents' = incidents /\ clock' = clock
  BY DEF Ingest, check, Start, Crash, StoreResult, GetService, Evaluate, UpdateStatus,
         database
<1>2. CASE Ingest(h) \/ check(h) \/ Crash(h)
  <2>1. Return(h) \/ \E line : Goto(h, line) /\ line \notin Working
    BY <1>2 DEF Ingest, check, Start, Crash, Working
  <2>2. Crash(h) \/ pc[h] = "idle"
    BY <1>2 DEF Ingest, check, Start, At
  <2> QED BY <1>1, <2>1, <2>2, DoneWorking DEF Processing, Working
<1>3. CASE StoreResult(h)
  <2>1. \/ Return(h) \/ EvaluateFrom(h, 1, <<>>)
        \/ UNCHANGED pc /\ pc[h] \notin Working
    BY <1>3 DEF StoreResult, At, Working
  <2>2. pc[h] \notin Processing
    BY <1>3 DEF StoreResult, At, Processing, Working
  <2> QED BY <1>1, <2>1, <2>2, DoneWorking
<1>4. CASE GetService(h) \/ Evaluate(h) \/ UpdateStatus(h)
  <2>1. \/ \E i, ts : EvaluateFrom(h, i, ts)
        \/ \E line : Goto(h, line) /\ line \notin Working
    BY <1>4 DEF GetService, Evaluate, UpdateStatus, NextService, Working
  <2>2. pc[h] \notin Processing
    BY <1>4 DEF GetService, Evaluate, UpdateStatus, At, Processing, Working
  <2> QED BY <1>1, <2>1, <2>2, DoneWorking
<1> QED BY <1>2, <1>3, <1>4

\* Evaluating touches no incident.
LEMMA EvaluationKeepsRows ==
    ASSUME TypeInv, RowsInv, NEW h \in Handler, OthersStay(h),
           \/ Ingest(h) \/ check(h) \/ Crash(h)
           \/ StoreResult(h) \/ GetService(h) \/ Evaluate(h) \/ UpdateStatus(h)
    PROVE  RowsInv'
BY EvaluationWorksOnNothing, RowsKept

\* handleFailure draws the stamp it works on; what is read has been drawn.
LEMMA ReadsKeepRows ==
    ASSUME TypeInv, RowsInv, NEW h \in Handler, OthersStay(h),
           handleFailure(h) \/ handleRecovery(h)
    PROVE  RowsInv'
<1> DEFINE existing == GetActiveForService(this(h).service)
<1>1. incidents' = incidents
  BY DEF handleFailure, handleRecovery, database
<1>2. existing # 0 => existing \in Stamp /\ existing <= clock
  <2>1. existing # 0 => existing \in Active(this(h).service)
    BY GetActiveType
  <2>2. existing # 0 => existing \in Stamp /\ incidents[existing] # NoIncident
    BY <2>1 DEF Active, NoIncident
  <2> HIDE DEF existing
  <2> QED BY <2>2, PipelineAssumption DEF RowsInv, Stamp, TypeInv, SharedOK
<1> HIDE DEF existing
<1>3. \/ NextTransition(h) /\ clock' = clock
      \/ existing # 0 /\ (\E line : Work(h, existing, line)) /\ clock' = clock
      \/ clock' = clock + 1 /\ Work(h, clock + 1, "createIncident")
  BY DEF handleFailure, handleRecovery, existing
<1>4. CASE NextTransition(h) /\ clock' = clock
  BY <1>1, <1>4, DoneWorking, RowsKept
<1>5. CASE existing # 0 /\ (\E line : Work(h, existing, line)) /\ clock' = clock
  <2>1. target'[h] = existing
    BY <1>5, WorkMoves
  <2> QED BY <1>1, <1>2, <1>5, <2>1, RowsKept
<1>6. CASE clock' = clock + 1 /\ Work(h, clock + 1, "createIncident")
  <2>1. target'[h] = clock + 1
    BY <1>6, WorkMoves
  <2>2. clock \in Int /\ \A g \in Handler : target[g] \in Int
    BY PipelineAssumption DEF TypeInv, SharedOK, LocalsOK, Stamp
  <2>3. \A g \in Handler : pc'[g] \in Working => target'[g] <= clock'
    BY <1>6, <2>1, <2>2 DEF OthersStay, RowsInv
  <2>4. \A i \in Stamp : i > clock' => incidents'[i] = NoIncident
    BY <1>1, <1>6, <2>2 DEF RowsInv, Stamp
  <2> QED BY <1>1, <2>3, <2>4 DEF RowsInv
<1> QED BY <1>3, <1>4, <1>5, <1>6

\* The writes keep to the row of their handler, and link it once.
LEMMA WritesKeepRows ==
    ASSUME OpenInv, RowsInv, NEW h \in Handler, OthersStay(h),
           UpdateSeverity(h) \/ Create(h) \/ LinkService(h) \/ Resolve(h) \/ AddUpdate(h)
    PROVE  RowsInv'
<1>0. TypeInv
  BY DEF OpenInv
<1>1. pc[h] \in Working
  BY DEF UpdateSeverity, Create, LinkService, Resolve, AddUpdate, At, Working
<1>2. target[h] \in Stamp /\ target[h] <= clock /\ mine(h) \in Incident
      /\ \A s, t \in mine(h).services : s = t
  BY <1>0, <1>1 DEF TypeInv, LocalsOK, SharedOK, Placed, mine, RowsInv
<1>3. clock' = clock
  BY DEF UpdateSeverity, Create, LinkService, Resolve, AddUpdate, WriteIncident
<1>4. pc'[h] \in Working => target'[h] <= clock
  <2>1. NextTransition(h) \/ UNCHANGED target
    BY DEF UpdateSeverity, Create, LinkService, Resolve, AddUpdate, WriteIncident, locals
  <2> QED BY <1>0, <1>2, <2>1, DoneWorking
<1>5. ASSUME NEW row, NEW line, WriteIncident(h, row, line),
             \A s, t \in row.services : s = t
      PROVE  RowsInv'
  <2>1. \/ incidents' = incidents
        \/ incidents' = [incidents EXCEPT ![target[h]] = row]
    BY <1>5 DEF WriteIncident
  <2> QED BY <1>0, <1>2, <1>3, <1>4, <1>5, <2>1, RowsKept
<1>6. CASE UpdateSeverity(h)
  <2> DEFINE row == [mine(h) EXCEPT !.severity = severityFromStatus(this(h).to)]
  <2>1. row.services = mine(h).services
    BY <1>2 DEF Incident
  <2>2. WriteIncident(h, row, "addUpdate")
    BY <1>6 DEF UpdateSeverity
  <2> HIDE DEF row
  <2>3. \A s, t \in row.services : s = t
    BY <1>2, <2>1
  <2> QED BY <1>5, <2>2, <2>3
<1>7. CASE Create(h)
  BY <1>5, <1>7 DEF Create
<1>8. CASE LinkService(h)
  <2>1. mine(h).services = {}
    BY <1>8 DEF OpenInv, OpeningInv, LinkService, At, mine
  <2>2. [mine(h) EXCEPT !.services = @ \cup {this(h).service}].services
            = {this(h).service}
    BY <1>2, <2>1 DEF Incident
  <2> QED BY <1>5, <1>8, <2>2 DEF LinkService
<1>9. CASE Resolve(h)
  <2> DEFINE row == [mine(h) EXCEPT !.status = "resolved"]
  <2>1. row.services = mine(h).services
    BY <1>2 DEF Incident
  <2>2. WriteIncident(h, row, "addUpdate")
    BY <1>9 DEF Resolve
  <2> HIDE DEF row
  <2>3. \A s, t \in row.services : s = t
    BY <1>2, <2>1
  <2> QED BY <1>5, <2>2, <2>3
<1>10. CASE AddUpdate(h)
  <2>1. PICK entry : \/ incidents' = incidents
                     \/ incidents' =
                          [incidents EXCEPT ![target[h]].updates = Append(@, entry)]
    BY <1>10 DEF AddUpdate
  <2> DEFINE row == [mine(h) EXCEPT !.updates = Append(@, entry)]
  <2>2. row.services = mine(h).services
    BY <1>2 DEF Incident
  <2>3. [incidents EXCEPT ![target[h]].updates = Append(@, entry)]
            = [incidents EXCEPT ![target[h]] = row]
    BY DEF mine
  <2> HIDE DEF row
  <2> QED BY <1>0, <1>2, <1>3, <1>4, <2>1, <2>2, <2>3, RowsKept
<1> QED BY <1>6, <1>7, <1>8, <1>9, <1>10

\* At first there are no rows.
LEMMA RowsInit == Init => RowsInv
BY DEF Init, RowsInv, NoIncident, Working

\* Every action keeps the facts about the rows.
LEMMA RowsStep == OpenInv /\ RowsInv /\ [Next]_vars => RowsInv'
<1> SUFFICES ASSUME OpenInv, RowsInv, [Next]_vars PROVE RowsInv'
  OBVIOUS
<1>1. CASE UNCHANGED vars
  BY <1>1 DEF RowsInv, vars, database, locals
<1>2. ASSUME NEW h \in Handler, Ingest(h) \/ check(h) \/ Step(h) \/ Crash(h)
      PROVE  RowsInv'
  <2>1. TypeInv /\ OthersStay(h)
    BY <1>2, HandlerMoves DEF OpenInv
  <2> QED BY <1>2, <2>1, EvaluationKeepsRows, ReadsKeepRows, WritesKeepRows DEF Step
<1> QED BY <1>1, <1>2 DEF Next

\* The rows in every reachable state.
THEOREM RowsInvariant == Spec => []RowsInv
BY RowsInit, RowsStep, OpenInvariant, PTL DEF Spec

(* -------------------- what follows a resolution ------------------------ *)

\* The handlers that have taken up incident i and still write to it.
Holders(i) == {h \in Handler : pc[h] \in Working /\ target[h] = i}

\* A handler that opens or escalates reacts to a failure; the row it creates is
\* fresh, any other row it works on exists; and a recovery is entered only on a
\* resolved incident, whoever resolved it.
HoldersInv ==
    \A h \in Handler :
        /\ pc[h] \in {"updateSeverity", "createIncident", "linkService"} =>
               this(h).to # "operational"
        /\ pc[h] = "createIncident" => incidents[target[h]] = NoIncident
        /\ pc[h] \in Working \ {"createIncident"} =>
               incidents[target[h]].status # "absent"
        /\ pc[h] = "addUpdate" /\ this(h).to = "operational" =>
               incidents[target[h]].status = "resolved"

\* A "resolved" entry is only found on a resolved incident.
EntriesInv ==
    \A i \in Stamp : \A k \in DOMAIN incidents[i].updates :
        incidents[i].updates[k] = "resolved" => incidents[i].status = "resolved"

\* Every late entry was written by a handler that has let go of the incident
\* since, and none takes it up again.
SpentInv ==
    \A i \in Stamp : Cardinality(LateEntries(i)) <= Cardinality(Handler \ Holders(i))

LateInv == HoldersInv /\ EntriesInv /\ SpentInv

\* A row is not resolved: nothing is late in it.
LEMMA NothingLate ==
    ASSUME TypeInv, EntriesInv, NEW i \in Stamp, incidents[i].status # "resolved"
    PROVE  LateEntries(i) = {}
<1> DEFINE u == incidents[i].updates
<1>1. Len(u) \in Nat /\ DOMAIN u = 1 .. Len(u)
  BY DEF TypeInv, SharedOK, Incident
<1>2. \A k \in DOMAIN u : u[k] # "resolved"
  BY DEF EntriesInv
<1> HIDE DEF u
<1>3. \A k \in DOMAIN u : \A j \in 1 .. k : u[j] # "resolved"
  BY <1>1, <1>2
<1> QED BY <1>3 DEF LateEntries, u

\* A timeline is a finite list.
LEMMA LateIsFinite ==
    ASSUME TypeInv, NEW i \in Stamp
    PROVE  IsFiniteSet(LateEntries(i)) /\ Cardinality(LateEntries(i)) \in Nat
<1> DEFINE n == Len(incidents[i].updates)
<1>1. n \in Nat /\ DOMAIN incidents[i].updates = 1 .. n
  BY DEF TypeInv, SharedOK, Incident
<1> HIDE DEF n
<1>2. IsFiniteSet(1 .. n) /\ LateEntries(i) \in SUBSET (1 .. n)
  BY <1>1, FS_Interval DEF LateEntries
<1> QED BY <1>2, FS_Subset, FS_CardinalityType

\* The rows of a step of h: only the one it works on changes, what exists stays,
\* and what is resolved stays resolved.
RowsGoOn(h) ==
    \A i \in Stamp :
        /\ incidents'[i] # incidents[i] => pc[h] \in Working /\ i = target[h]
        /\ incidents[i].status # "absent" => incidents'[i].status # "absent"
        /\ incidents[i].status = "resolved" => incidents'[i].status = "resolved"

\* What h must see to after its own step.
HoldsWell(h) ==
    /\ pc'[h] \in {"updateSeverity", "createIncident", "linkService"} =>
           this(h)'.to # "operational"
    /\ pc'[h] = "createIncident" => incidents'[target'[h]] = NoIncident
    /\ pc'[h] \in Working \ {"createIncident"} =>
           incidents'[target'[h]].status # "absent"
    /\ pc'[h] = "addUpdate" /\ this(h)'.to = "operational" =>
           incidents'[target'[h]].status = "resolved"

\* A step of h leaves the other handlers' incidents as they need them.
LEMMA HoldersKept ==
    ASSUME OpenInv, HoldersInv, NEW h \in Handler, OthersStay(h), RowsGoOn(h),
           HoldsWell(h)
    PROVE  HoldersInv'
<1>1. SUFFICES ASSUME NEW g \in Handler \ {h}
      PROVE  /\ pc'[g] \in {"updateSeverity", "createIncident", "linkService"} =>
                    this(g)'.to # "operational"
             /\ pc'[g] = "createIncident" => incidents'[target'[g]] = NoIncident
             /\ pc'[g] \in Working \ {"createIncident"} =>
                    incidents'[target'[g]].status # "absent"
             /\ pc'[g] = "addUpdate" /\ this(g)'.to = "operational" =>
                    incidents'[target'[g]].status = "resolved"
  BY DEF HoldersInv, HoldsWell
<1>2. pc'[g] = pc[g] /\ target'[g] = target[g] /\ this(g)' = this(g)
  BY DEF OthersStay, this
<1>3. pc[g] \in Working => target[g] \in Stamp
  BY DEF OpenInv, TypeInv, LocalsOK, Placed
<1>4. pc[g] = "createIncident" => incidents'[target[g]] = incidents[target[g]]
  <2> SUFFICES ASSUME pc[g] = "createIncident",
                      incidents'[target[g]] # incidents[target[g]]
               PROVE  FALSE
    OBVIOUS
  <2>1. pc[h] \in Working /\ target[h] = target[g]
    BY <1>3 DEF RowsGoOn, Working
  <2>2. pc[h] # "createIncident"
    BY <2>1 DEF OpenInv, OpeningInv, Opening
  <2>3. incidents[target[h]].status # "absent" /\ incidents[target[g]] = NoIncident
    BY <2>1, <2>2 DEF HoldersInv
  <2> QED BY <2>1, <2>3 DEF NoIncident
<1>5. pc[g] \in Working => target[g] \in Stamp
  BY <1>3
<1> QED BY <1>2, <1>4, <1>5 DEF HoldersInv, RowsGoOn, Working

\* No timeline grows, and h takes up only what has no late entry.
LEMMA LateKept ==
    ASSUME TypeInv, TypeInv', EntriesInv, SpentInv, IsFiniteSet(Handler),
           NEW h \in Handler, OthersStay(h), RowsGoOn(h),
           \A i \in Stamp : incidents'[i].updates = incidents[i].updates,
           \A i \in Stamp : pc'[h] \in Working /\ target'[h] = i =>
               h \in Holders(i) \/ LateEntries(i) = {}
    PROVE  EntriesInv' /\ SpentInv'
<1>1. EntriesInv'
  BY DEF EntriesInv, RowsGoOn
<1>2. SUFFICES ASSUME NEW i \in Stamp
               PROVE  Cardinality(LateEntries(i)')
                        <= Cardinality(Handler \ Holders(i)')
  BY <1>1 DEF SpentInv
<1>3. LateEntries(i)' = LateEntries(i)
  BY DEF LateEntries
<1>4. /\ IsFiniteSet(Handler \ Holders(i)') /\ IsFiniteSet(Handler \ Holders(i))
      /\ Cardinality(Handler \ Holders(i)') \in Nat
      /\ Cardinality(Handler \ Holders(i)) \in Nat
  BY FS_Subset, FS_CardinalityType
<1>5. CASE LateEntries(i) = {}
  BY <1>3, <1>4, <1>5, FS_EmptySet
<1>6. CASE LateEntries(i) # {}
  <2>1. Holders(i)' \subseteq Holders(i)
    BY <1>6 DEF Holders, OthersStay
  <2>2. Cardinality(Handler \ Holders(i)) <= Cardinality(Handler \ Holders(i)')
    BY <1>4, <2>1, FS_Subset
  <2> QED BY <1>3, <1>4, <2>2, LateIsFinite DEF SpentInv
<1> QED BY <1>5, <1>6

\* Evaluating takes nothing up and touches no row.
LEMMA EvaluationKeepsLate ==
    ASSUME OpenInv, TypeInv', LateInv, IsFiniteSet(Handler),
           NEW h \in Handler, OthersStay(h),
           \/ Ingest(h) \/ check(h) \/ Crash(h)
           \/ StoreResult(h) \/ GetService(h) \/ Evaluate(h) \/ UpdateStatus(h)
    PROVE  LateInv'
<1>1. TypeInv
  BY DEF OpenInv
<1>2. incidents' = incidents /\ pc'[h] \notin Working
  BY <1>1, EvaluationWorksOnNothing
<1>3. RowsGoOn(h) /\ HoldsWell(h)
  BY <1>2 DEF RowsGoOn, HoldsWell, Working
<1> QED BY <1>1, <1>2, <1>3, HoldersKept, LateKept DEF LateInv

\* An incident is taken up only while it is open, or before it is written.
LEMMA ReadsKeepLate ==
    ASSUME OpenInv, TypeInv', RowsInv, LateInv, IsFiniteSet(Handler),
           NEW h \in Handler, OthersStay(h), handleFailure(h) \/ handleRecovery(h)
    PROVE  LateInv'
<1> DEFINE existing == GetActiveForService(this(h).service)
<1>0. TypeInv
  BY DEF OpenInv
<1>1. incidents' = incidents
  BY DEF handleFailure, handleRecovery, database
<1>2. existing # 0 => existing \in Stamp /\ incidents[existing].status = "detected"
  BY <1>0, GetActiveType DEF Active
<1> HIDE DEF existing
<1>3. RowsGoOn(h)
  BY <1>1 DEF RowsGoOn
<1>4. ASSUME HoldsWell(h),
             \A i \in Stamp : pc'[h] \in Working /\ target'[h] = i =>
                 LateEntries(i) = {}
      PROVE  LateInv'
  BY <1>0, <1>1, <1>3, <1>4, HoldersKept, LateKept DEF LateInv
<1>5. \/ NextTransition(h)
      \/ /\ existing # 0 /\ this(h).to # "operational"
         /\ Work(h, existing, "updateSeverity")
      \/ /\ existing # 0 /\ Work(h, existing, "resolve")
      \/ /\ clock < MaxIncidents /\ this(h).to # "operational"
         /\ Work(h, clock + 1, "createIncident")
  BY DEF handleFailure, handleRecovery, existing, isIncidentStatus
<1>6. CASE NextTransition(h)
  <2>1. pc'[h] \notin Working
    BY <1>0, <1>6, DoneWorking
  <2> QED BY <1>4, <2>1 DEF HoldsWell, Working
<1>7. CASE /\ existing # 0 /\ this(h).to # "operational"
           /\ Work(h, existing, "updateSeverity")
  <2>1. /\ pc'[h] = "updateSeverity" /\ target'[h] = existing
        /\ transitions' = transitions
    BY <1>0, <1>7, WorkMoves
  <2>2. HoldsWell(h)
    BY <1>1, <1>2, <1>7, <2>1 DEF HoldsWell, this, Working
  <2> QED BY <1>0, <1>2, <1>4, <1>7, <2>1, <2>2, NothingLate DEF LateInv
<1>8. CASE existing # 0 /\ Work(h, existing, "resolve")
  <2>1. pc'[h] = "resolve" /\ target'[h] = existing
    BY <1>0, <1>8, WorkMoves
  <2>2. HoldsWell(h)
    BY <1>1, <1>2, <1>8, <2>1 DEF HoldsWell, Working
  <2> QED BY <1>0, <1>2, <1>4, <1>8, <2>1, <2>2, NothingLate DEF LateInv
<1>9. CASE /\ clock < MaxIncidents /\ this(h).to # "operational"
           /\ Work(h, clock + 1, "createIncident")
  <2>1. /\ pc'[h] = "createIncident" /\ target'[h] = clock + 1
        /\ transitions' = transitions
    BY <1>0, <1>9, WorkMoves
  <2>2. clock + 1 \in Stamp /\ clock + 1 > clock
    BY <1>0, <1>9, PipelineAssumption DEF TypeInv, SharedOK, Stamp
  <2>3. incidents[clock + 1] = NoIncident
    BY <2>2 DEF RowsInv
  <2>4. HoldsWell(h)
    BY <1>1, <1>9, <2>1, <2>3 DEF HoldsWell, this, Working
  <2>5. LateEntries(clock + 1) = {}
    BY <1>0, <2>2, <2>3, NothingLate DEF LateInv, NoIncident
  <2> QED BY <1>4, <2>1, <2>4, <2>5
<1> QED BY <1>5, <1>6, <1>7, <1>8, <1>9

\* One write to the row h works on that leaves the timeline alone: it was fresh,
\* or it keeps its status, or is resolved.
LEMMA WriteKeepsLate ==
    ASSUME OpenInv, TypeInv', LateInv, IsFiniteSet(Handler),
           NEW h \in Handler, OthersStay(h), pc[h] \in Working,
           NEW row, NEW line \in Working \ {"createIncident", "updateSeverity"},
           WriteIncident(h, row, line),
           row.updates = mine(h).updates, row.status # "absent",
           mine(h).status = "resolved" => row.status = "resolved",
           line = "linkService" => this(h).to # "operational",
           line = "addUpdate" /\ this(h).to = "operational" => row.status = "resolved"
    PROVE  LateInv'
<1>0. TypeInv /\ target[h] \in Stamp
  BY DEF OpenInv, TypeInv, LocalsOK, Placed
<1>1. incidents' = incidents \/ incidents' = [incidents EXCEPT ![target[h]] = row]
  BY DEF WriteIncident
<1>2. /\ incidents'[target[h]] = mine(h) \/ incidents'[target[h]] = row
      /\ \A i \in Stamp \ {target[h]} : incidents'[i] = incidents[i]
  BY <1>0, <1>1 DEF TypeInv, SharedOK, mine
<1>3. \A i \in Stamp : incidents'[i].updates = incidents[i].updates
  BY <1>2 DEF mine
<1>4. RowsGoOn(h)
  BY <1>2 DEF RowsGoOn, mine
<1>5. \/ NextTransition(h)
      \/ /\ Goto(h, line) /\ UNCHANGED locals
         /\ incidents' = [incidents EXCEPT ![target[h]] = row]
  BY DEF WriteIncident, Applied
<1>6. CASE NextTransition(h)
  <2>1. pc'[h] \notin Working
    BY <1>0, <1>6, DoneWorking
  <2>2. HoldsWell(h)
    BY <2>1 DEF HoldsWell, Working
  <2> QED BY <1>0, <1>3, <1>4, <2>1, <2>2, HoldersKept, LateKept DEF LateInv
<1>7. CASE /\ Goto(h, line) /\ UNCHANGED locals
           /\ incidents' = [incidents EXCEPT ![target[h]] = row]
  <2>1. /\ pc'[h] = line /\ target'[h] = target[h] /\ this(h)' = this(h)
        /\ incidents'[target[h]] = row
    BY <1>0, <1>7, GotoMoves DEF locals, this, TypeInv, SharedOK
  <2>2. HoldsWell(h)
    BY <2>1 DEF HoldsWell, Working
  <2>3. h \in Holders(target[h])
    BY DEF Holders
  <2> QED BY <1>0, <1>3, <1>4, <2>1, <2>2, <2>3, HoldersKept, LateKept DEF LateInv
<1> QED BY <1>5, <1>6, <1>7

\* The four writes to the row itself.
LEMMA WritesKeepLate ==
    ASSUME OpenInv, TypeInv', LateInv, IsFiniteSet(Handler),
           NEW h \in Handler, OthersStay(h),
           UpdateSeverity(h) \/ Create(h) \/ LinkService(h) \/ Resolve(h)
    PROVE  LateInv'
<1>1. pc[h] \in Working
  BY DEF UpdateSeverity, Create, LinkService, Resolve, At, Working
<1>2. target[h] \in Stamp /\ mine(h) \in Incident
  BY <1>1 DEF OpenInv, TypeInv, LocalsOK, SharedOK, Placed, mine
<1>3. CASE UpdateSeverity(h)
  <2> DEFINE row == [mine(h) EXCEPT !.severity = severityFromStatus(this(h).to)]
  <2>1. row.updates = mine(h).updates /\ row.status = mine(h).status
    BY <1>2 DEF Incident
  <2>2. WriteIncident(h, row, "addUpdate")
    BY <1>3 DEF UpdateSeverity
  <2>3. mine(h).status # "absent" /\ this(h).to # "operational"
    BY <1>1, <1>3 DEF UpdateSeverity, At, LateInv, HoldersInv, mine, Working
  <2> HIDE DEF row
  <2> QED BY <1>1, <2>1, <2>2, <2>3, WriteKeepsLate DEF Working
<1>4. CASE Create(h)
  <2>1. mine(h) = NoIncident /\ this(h).to # "operational"
    BY <1>4 DEF Create, At, LateInv, HoldersInv, mine
  <2> DEFINE row == [status |-> "detected", severity |-> severityFromStatus(this(h).to),
                     services |-> {}, opener |-> h, updates |-> <<>>]
  <2>2. WriteIncident(h, row, "linkService")
    BY <1>4 DEF Create
  <2>3. row.updates = mine(h).updates /\ row.status = "detected"
        /\ mine(h).status # "resolved"
    BY <2>1 DEF NoIncident
  <2> HIDE DEF row
  <2> QED BY <1>1, <2>1, <2>2, <2>3, WriteKeepsLate DEF Working
<1>5. CASE LinkService(h)
  <2> DEFINE row == [mine(h) EXCEPT !.services = @ \cup {this(h).service}]
  <2>1. row.updates = mine(h).updates /\ row.status = mine(h).status
    BY <1>2 DEF Incident
  <2>2. WriteIncident(h, row, "addUpdate")
    BY <1>5 DEF LinkService
  <2>3. mine(h).status # "absent" /\ this(h).to # "operational"
    BY <1>1, <1>5 DEF LinkService, At, LateInv, HoldersInv, mine, Working
  <2> HIDE DEF row
  <2> QED BY <1>1, <2>1, <2>2, <2>3, WriteKeepsLate DEF Working
<1>6. CASE Resolve(h)
  <2> DEFINE row == [mine(h) EXCEPT !.status = "resolved"]
  <2>1. row.updates = mine(h).updates /\ row.status = "resolved"
    BY <1>2 DEF Incident
  <2>2. WriteIncident(h, row, "addUpdate")
    BY <1>6 DEF Resolve
  <2> HIDE DEF row
  <2> QED BY <1>1, <2>1, <2>2, WriteKeepsLate DEF Working
<1> QED BY <1>3, <1>4, <1>5, <1>6

\* The entry of a handler that lets go of the incident: at most one late entry
\* more, and one holder less.
LEMMA AddUpdateKeepsLate ==
    ASSUME OpenInv, TypeInv', LateInv, IsFiniteSet(Handler),
           NEW h \in Handler, OthersStay(h), AddUpdate(h)
    PROVE  LateInv'
<1> DEFINE i == target[h]
           u == incidents[i].updates
           entry == IF this(h).to = "operational" THEN "resolved" ELSE "detected"
<1>0. TypeInv /\ pc[h] = "addUpdate" /\ i \in Stamp
  BY DEF OpenInv, AddUpdate, At, TypeInv, LocalsOK, Placed, Working
<1>1. /\ incidents[i] \in Incident /\ u \in Seq({"detected", "resolved"})
      /\ Len(u) \in Nat /\ DOMAIN u = 1 .. Len(u)
  BY <1>0 DEF TypeInv, SharedOK, Incident
<1>2. pc'[h] \notin Working
  BY <1>0, DoneWorking DEF AddUpdate
<1>3. HoldsWell(h)
  BY <1>2 DEF HoldsWell, Working
<1>4. \/ incidents' = incidents
      \/ incidents' = [incidents EXCEPT ![i].updates = Append(@, entry)]
  BY DEF AddUpdate
<1>5. \A j \in Stamp : Cardinality(LateEntries(j)') \in Nat
  <2> SUFFICES ASSUME NEW j \in Stamp PROVE Cardinality(LateEntries(j)') \in Nat
    OBVIOUS
  <2> DEFINE n == Len(incidents'[j].updates)
  <2>1. n \in Nat /\ DOMAIN incidents'[j].updates = 1 .. n
    BY DEF TypeInv, SharedOK, Incident
  <2> HIDE DEF n
  <2>2. IsFiniteSet(1 .. n) /\ LateEntries(j)' \in SUBSET (1 .. n)
    BY <2>1, FS_Interval DEF LateEntries
  <2> QED BY <2>2, FS_Subset, FS_CardinalityType
<1>6. CASE incidents' = incidents
  <2>1. RowsGoOn(h)
    BY <1>6 DEF RowsGoOn
  <2> QED BY <1>0, <1>2, <1>3, <1>6, <2>1, HoldersKept, LateKept DEF LateInv
<1>7. CASE incidents' = [incidents EXCEPT ![i].updates = Append(@, entry)]
  <2>1. /\ incidents'[i].updates = Append(u, entry)
        /\ incidents'[i].status = incidents[i].status
        /\ \A j \in Stamp \ {i} : incidents'[j] = incidents[j]
    BY <1>0, <1>1, <1>7 DEF TypeInv, SharedOK, Incident
  <2>2. entry = "resolved" => incidents[i].status = "resolved"
    BY <1>0 DEF LateInv, HoldersInv
  <2>3. RowsGoOn(h)
    BY <1>0, <2>1 DEF RowsGoOn, Working
  <2>4. HoldersInv'
    BY <1>3, <2>3, HoldersKept DEF LateInv
  <2> HIDE DEF entry
  <2>5. /\ DOMAIN Append(u, entry) = 1 .. Len(u) + 1
        /\ Append(u, entry)[Len(u) + 1] = entry
        /\ \A k \in 1 .. Len(u) : Append(u, entry)[k] = u[k]
    BY <1>1, AppendProperties
  <2>6. EntriesInv'
    <3> SUFFICES ASSUME NEW j \in Stamp, NEW k \in DOMAIN incidents'[j].updates,
                        incidents'[j].updates[k] = "resolved"
                 PROVE  incidents'[j].status = "resolved"
      BY DEF EntriesInv
    <3>1. CASE j # i
      BY <2>1, <3>1 DEF LateInv, EntriesInv
    <3>2. CASE j = i /\ k = Len(u) + 1
      BY <2>1, <2>2, <2>5, <3>2
    <3>3. CASE j = i /\ k # Len(u) + 1
      <4>1. k \in 1 .. Len(u) /\ u[k] = "resolved"
        BY <1>1, <2>1, <2>5, <3>3
      <4> QED BY <1>0, <1>1, <2>1, <3>3, <4>1 DEF LateInv, EntriesInv
    <3> QED BY <3>1, <3>2, <3>3
  <2>7. \A j \in Stamp : /\ IsFiniteSet(LateEntries(j))
                         /\ Cardinality(LateEntries(j)) \in Nat
    BY <1>0, LateIsFinite
  <2>8. \A j \in Stamp : Holders(j)' = Holders(j) \ {h}
    BY <1>2 DEF Holders, OthersStay
  <2>9. \A j \in Stamp : /\ IsFiniteSet(Handler \ Holders(j))
                         /\ Cardinality(Handler \ Holders(j)) \in Nat
    BY FS_Subset, FS_CardinalityType
  <2>10. SpentInv'
    <3> SUFFICES ASSUME NEW j \in Stamp
                 PROVE  Cardinality(LateEntries(j)')
                          <= Cardinality(Handler \ Holders(j)')
      BY DEF SpentInv
    <3>1. Cardinality(LateEntries(j)) <= Cardinality(Handler \ Holders(j))
      BY DEF LateInv, SpentInv
    <3>2. Handler \ Holders(j)' = (Handler \ Holders(j)) \cup {h}
      BY <2>8
    <3>3. CASE j # i
      <4>1. LateEntries(j)' = LateEntries(j)
        BY <2>1, <3>3 DEF LateEntries
      <4>2. Handler \ Holders(j)' = Handler \ Holders(j)
        BY <3>2, <3>3 DEF Holders
      <4> QED BY <3>1, <4>1, <4>2
    <3>4. CASE j = i
      <4>1. h \in Holders(j)
        BY <1>0, <3>4 DEF Holders, Working
      <4>2. Cardinality(Handler \ Holders(j)')
              = Cardinality(Handler \ Holders(j)) + 1
        BY <2>9, <3>2, <4>1, FS_AddElement
      <4>3. LateEntries(j)' \subseteq LateEntries(j) \cup {Len(u) + 1}
        <5> SUFFICES ASSUME NEW k \in LateEntries(j)', k # Len(u) + 1
                     PROVE  k \in LateEntries(j)
          OBVIOUS
        <5>1. k \in 1 .. Len(u)
          BY <1>1, <2>1, <2>5, <3>4 DEF LateEntries
        <5>2. PICK m \in 1 .. k : Append(u, entry)[m] = "resolved"
          BY <2>1, <3>4 DEF LateEntries
        <5>3. m \in 1 .. Len(u) /\ u[m] = "resolved"
          BY <1>1, <2>5, <5>1, <5>2
        <5> QED BY <1>1, <3>4, <5>1, <5>2, <5>3 DEF LateEntries
      <4> DEFINE L == LateEntries(j)
                 more == L \cup {Len(u) + 1}
                 n == Cardinality(Handler \ Holders(j))
      <4>4. IsFiniteSet(L) /\ Cardinality(L) \in Nat
        BY <2>7
      <4>5. IsFiniteSet(more) /\ Cardinality(more) <= Cardinality(L) + 1
        <5> HIDE DEF L
        <5>1. \A x : /\ IsFiniteSet(L \cup {x})
                     /\ Cardinality(L \cup {x}) <= Cardinality(L) + 1
          <6> TAKE x
          <6>1. /\ IsFiniteSet(L \cup {x})
                /\ Cardinality(L \cup {x}) \in {Cardinality(L), Cardinality(L) + 1}
            BY <4>4, FS_AddElement
          <6> QED BY <4>4, <6>1
        <5> QED BY <5>1
      <4>6. Cardinality(more) \in Nat
        BY <4>5, FS_CardinalityType
      <4>7. Cardinality(LateEntries(j)') <= Cardinality(more)
        <5>1. LateEntries(j)' \in SUBSET more
          BY <4>3
        <5> HIDE DEF more
        <5> QED BY <4>5, <5>1, FS_Subset
      <4>8. Cardinality(LateEntries(j)') \in Nat
        BY <1>5
      <4>9. n \in Nat /\ Cardinality(L) <= n
        BY <2>9, <3>1
      <4> HIDE DEF more, L
      <4>10. Cardinality(LateEntries(j)') <= n + 1
        <5> HIDE DEF n
        <5> QED BY <4>4, <4>5, <4>6, <4>7, <4>8, <4>9
      <4> QED BY <4>2, <4>10
    <3> QED BY <3>3, <3>4
  <2> QED BY <2>4, <2>6, <2>10 DEF LateInv
<1> QED BY <1>4, <1>6, <1>7

\* At first nobody holds anything and no timeline has an entry.
LEMMA LateInit == ASSUME IsFiniteSet(Handler) PROVE Init => LateInv
<1> SUFFICES ASSUME Init PROVE LateInv
  OBVIOUS
<1>1. HoldersInv /\ EntriesInv
  BY DEF Init, HoldersInv, EntriesInv, NoIncident, Working
<1>2. \A i \in Stamp : LateEntries(i) = {}
  BY <1>1, TypeInit, NothingLate DEF Init, NoIncident
<1>3. \A i \in Stamp : Cardinality(Handler \ Holders(i)) \in Nat
  BY FS_Subset, FS_CardinalityType
<1> QED BY <1>1, <1>2, <1>3, FS_EmptySet DEF LateInv, SpentInv

\* Every action keeps the bound on late entries.
LEMMA LateStep ==
    ASSUME IsFiniteSet(Handler)
    PROVE  OpenInv /\ OpenInv' /\ RowsInv /\ LateInv /\ [Next]_vars => LateInv'
<1> SUFFICES ASSUME OpenInv, OpenInv', RowsInv, LateInv, [Next]_vars PROVE LateInv'
  OBVIOUS
<1>1. CASE UNCHANGED vars
  <2>1. /\ UNCHANGED <<incidents, pc, target>>
        /\ \A g \in Handler : this(g)' = this(g)
    BY <1>1 DEF vars, database, locals, this
  <2> QED BY <2>1 DEF LateInv, HoldersInv, EntriesInv, SpentInv, Holders, LateEntries
<1>2. ASSUME NEW h \in Handler, Ingest(h) \/ check(h) \/ Step(h) \/ Crash(h)
      PROVE  LateInv'
  <2>1. TypeInv /\ TypeInv' /\ OthersStay(h)
    BY <1>2, HandlerMoves DEF OpenInv
  <2> QED BY <1>2, <2>1, EvaluationKeepsLate, ReadsKeepLate, WritesKeepLate,
             AddUpdateKeepsLate DEF Step
<1> QED BY <1>1, <1>2 DEF Next

\* What follows a resolution costs concurrency: with finitely many handlers at
\* a time, a timeline has at most that many entries from its first "resolved"
\* on, whatever the handlers read before it, whatever is refused or repeated,
\* and whoever crashes.
THEOREM LateEntriesAreBounded ==
    ASSUME IsFiniteSet(Handler)
    PROVE  Spec => []LateEntriesNeedConcurrency
<1>1. TypeInv /\ LateInv => LateEntriesNeedConcurrency
  <2> SUFFICES ASSUME TypeInv, LateInv, NEW i \in Stamp
               PROVE  Cardinality(LateEntries(i)) <= Cardinality(Handler)
    BY DEF LateEntriesNeedConcurrency
  <2>1. /\ Cardinality(Handler \ Holders(i)) <= Cardinality(Handler)
        /\ Cardinality(Handler \ Holders(i)) \in Nat /\ Cardinality(Handler) \in Nat
    BY FS_Subset, FS_CardinalityType
  <2>2. Cardinality(LateEntries(i)) <= Cardinality(Handler \ Holders(i))
    BY DEF LateInv, SpentInv
  <2>3. Cardinality(LateEntries(i)) \in Int
    BY LateIsFinite
  <2> QED BY <2>1, <2>2, <2>3
<1> QED BY <1>1, LateInit, LateStep, TypeInvariant, OpenInvariant, RowsInvariant, PTL DEF Spec

(* ----------------------- what a handler still owes --------------------- *)

\* A handler at this line with these transitions owes s its settlement.
Owes(line, ts, s) ==
    \E k \in DOMAIN ts : ts[k].service = s /\ ~(k = 1 /\ line = "addUpdate")

\* What h owes before the step, and after it.
OwedBy(h, s) == Owes(pc[h], transitions[h], s)

StillOwedBy(h, s) == Owes(pc'[h], transitions'[h], s)

\* Whatever h owes, it still owes.
DueStays(h) == \A s : StillOwedBy(h, s) <=> OwedBy(h, s)

\* The debt to s is settled, and no other.
DueSettled(h, s) ==
    /\ OwedBy(h, s) /\ ~StillOwedBy(h, s)
    /\ \A t : t # s => (StillOwedBy(h, t) <=> OwedBy(h, t))

\* With one handler, what is due is what it owes.
LEMMA DueIsOwed ==
    ASSUME NEW h, Handler = {h}
    PROVE  /\ \A s : dueOf(s) = OwedBy(h, s)
           /\ (\A s : dueOf(s) = OwedBy(h, s))'
BY DEF dueOf, Accounted, At, OwedBy, Owes

\* A handler that keeps its transitions owes what it owed.
LEMMA KeepingTransitionsKeepsDue ==
    ASSUME NEW h, transitions'[h] = transitions[h],
           pc[h] # "addUpdate", pc'[h] # "addUpdate"
    PROVE  DueStays(h)
BY DEF DueStays, OwedBy, StillOwedBy, Owes

\* The first transition has a place, and the others follow.
LEMMA HeadAndTail ==
    ASSUME TypeInv, NEW h \in Handler, pc[h] \in Processing
    PROVE  /\ this(h) = transitions[h][1] /\ 1 \in DOMAIN transitions[h]
           /\ this(h).service \in Service
           /\ \A k \in DOMAIN transitions[h] : k \in Nat /\ k >= 1
           /\ \A k \in DOMAIN transitions[h] \ {1} :
                  /\ k - 1 \in DOMAIN Tail(transitions[h])
                  /\ Tail(transitions[h])[k - 1] = transitions[h][k]
           /\ \A k \in DOMAIN Tail(transitions[h]) :
                  /\ k + 1 \in DOMAIN transitions[h] /\ k + 1 # 1
                  /\ Tail(transitions[h])[k] = transitions[h][k + 1]
<1> DEFINE ts == transitions[h]
<1>1. ts \in Seq(Transition) /\ ts # <<>>
  BY DEF TypeInv, LocalsOK, Placed
<1>2. /\ Head(ts) = ts[1] /\ Tail(ts) \in Seq(Transition)
      /\ Len(Tail(ts)) = Len(ts) - 1
      /\ \A k \in 1 .. Len(Tail(ts)) : Tail(ts)[k] = ts[k + 1]
  BY <1>1, HeadTailProperties
<1>3. /\ DOMAIN ts = 1 .. Len(ts) /\ Len(ts) \in Nat
      /\ DOMAIN Tail(ts) = 1 .. Len(Tail(ts))
  BY <1>1, <1>2, LenProperties
<1>4. Len(ts) # 0
  BY <1>1, EmptySeq
<1>5. this(h).service \in Service
  BY ThisType DEF TypeInv, Transition
<1> HIDE DEF ts
<1>6. 1 \in DOMAIN ts /\ \A k \in DOMAIN ts : k \in Nat /\ k >= 1
  BY <1>3, <1>4
<1>7. \A k \in DOMAIN ts \ {1} : k - 1 \in DOMAIN Tail(ts) /\ Tail(ts)[k - 1] = ts[k]
  <2> SUFFICES ASSUME NEW k \in DOMAIN ts \ {1}
               PROVE  k - 1 \in DOMAIN Tail(ts) /\ Tail(ts)[k - 1] = ts[k]
    OBVIOUS
  <2>1. k - 1 \in 1 .. Len(Tail(ts)) /\ (k - 1) + 1 = k
    BY <1>2, <1>3
  <2>2. Tail(ts)[k - 1] = ts[(k - 1) + 1]
    BY <1>2, <2>1
  <2> QED BY <1>3, <2>1, <2>2
<1>8. \A k \in DOMAIN Tail(ts) :
          k + 1 \in DOMAIN ts /\ k + 1 # 1 /\ Tail(ts)[k] = ts[k + 1]
  BY <1>2, <1>3
<1> QED BY <1>2, <1>5, <1>6, <1>7, <1>8 DEF this, ts

\* The next transition is the tail's first, or the handler returns.
LEMMA NextTransitionIsTail ==
    ASSUME TypeInv, NEW h \in Handler, NextTransition(h)
    PROVE  transitions'[h] = Tail(transitions[h]) /\ pc'[h] \in {"getActive", "idle"}
<1>1. transitions[h] \in Seq(Transition)
  BY DEF TypeInv, LocalsOK
<1>2. CASE Len(transitions[h]) = 1 /\ Return(h)
  <2> DEFINE tl == Tail(transitions[h])
  <2>0. transitions[h] # <<>>
    BY <1>2, EmptySeq
  <2>1. tl \in Seq(Transition) /\ Len(tl) = 0
    BY <1>1, <1>2, <2>0, HeadTailProperties
  <2> HIDE DEF tl
  <2>2. tl = <<>>
    BY <2>1, EmptySeq
  <2> QED BY <1>2, <2>2 DEF Return, Goto, TypeInv, LocalsOK, tl
<1>3. CASE /\ transitions' = [transitions EXCEPT ![h] = Tail(@)]
           /\ Goto(h, "getActive")
  BY <1>3 DEF Goto, TypeInv, LocalsOK
<1> QED BY <1>2, <1>3 DEF NextTransition

\* Dropping a transition that awaited its entry settles nothing.
LEMMA DroppingAccountedKeepsDue ==
    ASSUME TypeInv, NEW h \in Handler, pc[h] = "addUpdate", NextTransition(h)
    PROVE  DueStays(h)
<1>1. pc[h] \in Processing
  BY DEF Processing, Working
<1>2. transitions'[h] = Tail(transitions[h]) /\ pc'[h] # "addUpdate"
  BY NextTransitionIsTail
<1>3. ASSUME NEW s, OwedBy(h, s) PROVE StillOwedBy(h, s)
  <2>1. PICK k \in DOMAIN transitions[h] \ {1} : transitions[h][k].service = s
    BY <1>3 DEF OwedBy, Owes
  <2>2. k - 1 \in DOMAIN Tail(transitions[h])
        /\ Tail(transitions[h])[k - 1] = transitions[h][k]
    BY <1>1, HeadAndTail
  <2> QED BY <1>2, <2>1, <2>2 DEF StillOwedBy, Owes
<1>4. ASSUME NEW s, StillOwedBy(h, s) PROVE OwedBy(h, s)
  <2>1. PICK k \in DOMAIN Tail(transitions[h]) : Tail(transitions[h])[k].service = s
    BY <1>2, <1>4 DEF StillOwedBy, Owes
  <2>2. /\ k + 1 \in DOMAIN transitions[h] /\ k + 1 # 1
        /\ Tail(transitions[h])[k] = transitions[h][k + 1]
    BY <1>1, HeadAndTail
  <2> QED BY <2>1, <2>2 DEF OwedBy, Owes
<1> QED BY <1>3, <1>4 DEF DueStays

\* Dropping one that was owed settles its service's debt.
LEMMA DroppingSettles ==
    ASSUME TypeInv, NEW h \in Handler, pc[h] = "getActive",
           TransitionsAreTrue(h), NextTransition(h)
    PROVE  DueSettled(h, this(h).service)
<1> DEFINE s == this(h).service
<1>1. pc[h] \in Processing
  BY DEF Processing
<1>2. transitions'[h] = Tail(transitions[h]) /\ pc'[h] # "addUpdate"
  BY NextTransitionIsTail
<1>3. OwedBy(h, s)
  <2>1. 1 \in DOMAIN transitions[h] /\ transitions[h][1].service = s
    BY <1>1, HeadAndTail
  <2> QED BY <2>1 DEF OwedBy, Owes
<1>4. ASSUME NEW t, StillOwedBy(h, t) PROVE OwedBy(h, t) /\ t # s
  <2>1. PICK k \in DOMAIN Tail(transitions[h]) : Tail(transitions[h])[k].service = t
    BY <1>2, <1>4 DEF StillOwedBy, Owes
  <2>2. /\ k + 1 \in DOMAIN transitions[h] /\ k + 1 # 1
        /\ transitions[h][k + 1].service = t
    BY <1>1, <2>1, HeadAndTail
  <2>3. OwedBy(h, t)
    BY <2>2 DEF OwedBy, Owes
  <2>4. t # s
    <3>1. 1 \in DOMAIN transitions[h] /\ transitions[h][1].service = s
      BY <1>1, HeadAndTail
    <3> QED BY <2>2, <3>1 DEF TransitionsAreTrue
  <2> QED BY <2>3, <2>4
<1>5. ASSUME NEW t, t # s, OwedBy(h, t) PROVE StillOwedBy(h, t)
  <2>1. PICK k \in DOMAIN transitions[h] : transitions[h][k].service = t
    BY <1>5 DEF OwedBy, Owes
  <2>2. k # 1
    BY <1>1, <1>5, <2>1, HeadAndTail
  <2>3. k - 1 \in DOMAIN Tail(transitions[h])
        /\ Tail(transitions[h])[k - 1] = transitions[h][k]
    BY <1>1, <2>1, <2>2, HeadAndTail
  <2> QED BY <1>2, <2>1, <2>3 DEF StillOwedBy, Owes
<1> QED BY <1>3, <1>4, <1>5 DEF DueSettled

\* So does writing the incident, after which only the entry is missing.
LEMMA WritingSettles ==
    ASSUME TypeInv, NEW h \in Handler, pc[h] \in Processing,
           pc[h] # "addUpdate", pc'[h] = "addUpdate",
           transitions'[h] = transitions[h], TransitionsAreTrue(h)
    PROVE  DueSettled(h, this(h).service)
<1> DEFINE s == this(h).service
<1>1. 1 \in DOMAIN transitions[h] /\ transitions[h][1].service = s
  BY HeadAndTail
<1>2. \A k \in DOMAIN transitions[h] : transitions[h][k].service = s => k = 1
  BY <1>1 DEF TransitionsAreTrue
<1> HIDE DEF s
<1>3. OwedBy(h, s)
  BY <1>1 DEF OwedBy, Owes
<1>4. ~StillOwedBy(h, s)
  BY <1>2 DEF StillOwedBy, Owes
<1>5. ASSUME NEW t, t # s PROVE StillOwedBy(h, t) <=> OwedBy(h, t)
  BY <1>1, <1>5 DEF OwedBy, StillOwedBy, Owes
<1> QED BY <1>3, <1>4, <1>5 DEF DueSettled, s

(* --------------------- what a step does to the promise ----------------- *)

\* The newest of one.
LEMMA NewestOfOne ==
    ASSUME NEW ids \in SUBSET Stamp, NEW i \in ids, \A j \in ids : j = i
    PROVE  Newest(ids) = i
BY NewestType

\* A single handler never opens a second incident for a service.
LEMMA OneActive ==
    ASSUME OpenInv, NEW h, Handler = {h}, NEW s \in Service,
           NEW i \in Active(s), NEW j \in Active(s)
    PROVE  i = j
<1>1. incidents[i].opener = h /\ incidents[j].opener = h
  BY DEF OpenInv, LinkedInv, Active
<1> QED BY <1>1 DEF OpenInv, OneOpenPerOpener

\* The severity of a service that has an active incident, or none.
LEMMA OpenSeverityIs ==
    ASSUME OpenInv, NEW h, Handler = {h}, NEW s \in Service
    PROVE  /\ \A i \in Active(s) : openSeverity(s) = incidents[i].severity
           /\ Active(s) = {} => openSeverity(s) = "none"
<1>1. ASSUME NEW i \in Active(s)
      PROVE  openSeverity(s) = incidents[i].severity
  <2>1. \A j \in Active(s) : j = i
    BY OneActive
  <2>2. Active(s) \in SUBSET Stamp
    BY DEF Active
  <2>3. Newest(Active(s)) = i
    BY <2>1, <2>2, NewestOfOne
  <2> QED BY <2>3 DEF openSeverity
<1> QED BY <1>1 DEF openSeverity

\* A step of a service's incident that the promise can tell.
OpenStays(s) == openSeverity(s)' = openSeverity(s)

\* If no incident changes, no severity does.
LEMMA SameIncidentsSameOpen ==
    ASSUME incidents' = incidents, NEW s
    PROVE  OpenStays(s)
<1>1. Active(s)' = Active(s)
  BY DEF Active
<1> QED BY <1>1 DEF OpenStays, openSeverity

\* A write to a row that is and stays linked to another service, or to none.
LEMMA OtherRowSameOpen ==
    ASSUME NEW i, NEW s,
           \A j \in Stamp \ {i} : incidents'[j] = incidents[j],
           i \in Stamp => /\ s \notin incidents[i].services
                          /\ s \notin incidents'[i].services
    PROVE  OpenStays(s)
<1>1. Active(s)' = Active(s)
  BY DEF Active
<1>2. CASE Active(s) = {}
  BY <1>1, <1>2 DEF OpenStays, openSeverity
<1>3. CASE Active(s) # {}
  <2>1. Newest(Active(s)) \in Active(s)
    BY <1>3, NewestType DEF Active
  <2>2. incidents'[Newest(Active(s))] = incidents[Newest(Active(s))]
    BY <2>1 DEF Active
  <2>3. openSeverity(s)' = incidents'[Newest(Active(s)')].severity
    BY <1>1, <1>3 DEF openSeverity
  <2> QED BY <1>1, <1>3, <2>2, <2>3 DEF OpenStays, openSeverity
<1> QED BY <1>2, <1>3

\* What settling does, in the pipeline's own operators.
LEMMA SettledCases ==
    ASSUME NEW open, NEW st
    PROVE  /\ st = "operational" => Promise!Settled(open, st) = "none"
           /\ isIncidentStatus(st) /\ escalates(st, open) =>
                  Promise!Settled(open, st) = severityFromStatus(st)
           /\ isIncidentStatus(st) /\ ~escalates(st, open) =>
                  Promise!Settled(open, st) = open
BY DEF Promise!Settled, Promise!isIncidentStatus, Promise!severityRank,
       Promise!severityFromStatus, isIncidentStatus, escalates, severityRank,
       severityFromStatus

\* A step that changes no status, no debt and no severity is invisible.
LEMMA InvisibleStep ==
    ASSUME NEW h, Handler = {h}, UNCHANGED status, DueStays(h),
           \A s \in Service : OpenStays(s)
    PROVE  UNCHANGED Promise!vars
<1>1. [s \in Service |-> openSeverity(s)]' = [s \in Service |-> openSeverity(s)]
  BY DEF OpenStays
<1>2. [s \in Service |-> dueOf(s)]' = [s \in Service |-> dueOf(s)]
  BY DEF DueStays, OwedBy, StillOwedBy, Owes, dueOf, Accounted, At
<1> QED BY <1>1, <1>2 DEF Promise!vars

\* A step that settles the debt to s as the promise says.
LEMMA SettlingStep ==
    ASSUME NEW h, Handler = {h}, NEW s \in Service, UNCHANGED status, DueSettled(h, s),
           \A t \in Service \ {s} : OpenStays(t),
           openSeverity(s)' = Promise!Settled(openSeverity(s), status[s])
    PROVE  Promise!Settle(s)
<1> DEFINE open == [t \in Service |-> openSeverity(t)]
           due  == [t \in Service |-> dueOf(t)]
<1>1. open' = [open EXCEPT ![s] = Promise!Settled(open[s], status[s])]
  BY DEF OpenStays
<1>2. due' = [due EXCEPT ![s] = FALSE]
  <2>1. due = [t \in Service |-> OwedBy(h, t)]
    BY DEF OwedBy, Owes, dueOf, Accounted, At
  <2>2. due' = [t \in Service |-> StillOwedBy(h, t)]
    BY DEF StillOwedBy, Owes, dueOf, Accounted, At
  <2>3. \A t : t # s => StillOwedBy(h, t) = OwedBy(h, t)
    BY DEF DueSettled, StillOwedBy, OwedBy, Owes
  <2>4. StillOwedBy(h, s) = FALSE
    BY DEF DueSettled
  <2> HIDE DEF due
  <2> QED BY <2>1, <2>2, <2>3, <2>4
<1>3. due[s]
  BY DueIsOwed DEF DueSettled
<1> QED BY <1>1, <1>2, <1>3 DEF Promise!Settle

(* ------------------- one handler and no fault: the steps --------------- *)

\* Window and status agree for every service that is not being evaluated.
TrueElsewhere ==
    \A s \in Service :
        (/\ results[s] # <<>>
         /\ \A h \in Handler : pc[h] \in Evaluating =>
                \A i \in DOMAIN batch[h] : batch[h][i].service # s)
        => TrueStatus(status[s], results[s])

\* The timeline of an incident nobody is writing to.
Complete(row) ==
    LET u == row.updates
        n == IF row.status = "resolved" THEN Len(u) - 1 ELSE Len(u)
    IN  /\ n \in 1 .. severityRank(row.severity)
        /\ \A k \in 1 .. n : u[k] = "detected"
        /\ n < Len(u) => u[Len(u)] = "resolved"

\* The timeline of an incident whose last change has no entry yet.
Lagging(row) ==
    LET n == IF row.status = "resolved" THEN Len(row.updates) ELSE Len(row.updates) + 1
    IN  /\ n \in 1 .. severityRank(row.severity)
        /\ \A k \in 1 .. Len(row.updates) : row.updates[k] = "detected"

\* A handler has opened, escalated or resolved i and not yet said so.
AwaitsEntry(i) ==
    \E h \in Handler : pc[h] \in {"linkService", "addUpdate"} /\ target[h] = i

\* Every timeline is complete, or its next entry is on its way.
TimelinesInv ==
    \A i \in Stamp : incidents[i].status # "absent" =>
        IF AwaitsEntry(i) THEN Lagging(incidents[i]) ELSE Complete(incidents[i])

\* What holds besides when handlers run one at a time and nothing fails: all are
\* calm, a drawn stamp has no row yet, and page and timelines lag behind in no
\* other way than the handler at work still has to mend.
SerialInv ==
    /\ \A h \in Handler : pc[h] # "idle" => calm[h]
    /\ \A h \in Handler : pc[h] = "createIncident" => mine(h) = NoIncident
    /\ TrueElsewhere
    /\ TimelinesInv

\* The inductive invariant of one handler at a time.
OneAtATimeInv == OpenInv /\ CalmInv /\ RowsInv /\ SerialInv

\* Without faults every statement succeeds: a calm handler stays calm.
LEMMA NoFaultStaysCalm ==
    ASSUME Faults = {}, NEW h \in Handler, Step(h)
    PROVE  calm' = calm
<1>1. WriteOutcome = {"ok"} /\ ReadOutcome = {"ok"}
  BY DEF WriteOutcome, ReadOutcome
<1>2. \E o \in {"ok"} : Note(h, o)
  <2>1. CASE StoreResult(h) \/ GetService(h) \/ Evaluate(h) \/ UpdateStatus(h)
    BY <1>1, <2>1 DEF StoreResult, GetService, Evaluate, UpdateStatus
  <2>2. CASE handleFailure(h) \/ handleRecovery(h)
    BY <1>1, <2>2 DEF handleFailure, handleRecovery
  <2>3. CASE UpdateSeverity(h) \/ Create(h) \/ LinkService(h) \/ Resolve(h) \/ AddUpdate(h)
    BY <1>1, <2>3
       DEF UpdateSeverity, Create, LinkService, Resolve, AddUpdate, WriteIncident
  <2> QED BY <2>1, <2>2, <2>3 DEF Step
<1> QED BY <1>2 DEF Note

\* With one handler and no fault, every step is one of an undisturbed handler.
LEMMA SerialGoesOn ==
    ASSUME OneAtATimeInv, Faults = {}, NEW h \in Handler, Step(h)
    PROVE  calm'[h] /\ Undisturbed(h) /\ GoesOn(h)
<1>1. pc[h] # "idle"
  BY StepNotes
<1>2. calm'[h]
  BY <1>1, NoFaultStaysCalm DEF OneAtATimeInv, SerialInv
<1> QED BY <1>2, StepGoesOn DEF OneAtATimeInv, OpenInv

\* A window that is not empty has something to say.
LEMMA DetermineStatusKnown ==
    ASSUME NEW w, w # <<>>
    PROVE  determineStatus(w) \in ServiceStatus \ {"unknown"}
BY DEF determineStatus, ServiceStatus

\* A change of status is owed from now on.
DueIncurred(h, s) ==
    /\ ~OwedBy(h, s) /\ StillOwedBy(h, s)
    /\ \A t : t # s => (StillOwedBy(h, t) <=> OwedBy(h, t))

\* A step that writes a new status, and owes it, is an observation.
LEMMA ObservingStep ==
    ASSUME NEW h, Handler = {h}, NEW s \in Service, DueIncurred(h, s),
           \A t \in Service : OpenStays(t),
           NEW new \in ServiceStatus \ {"unknown", status[s]},
           status' = [status EXCEPT ![s] = new]
    PROVE  Promise!Observe(s)
<1> DEFINE open == [t \in Service |-> openSeverity(t)]
           due  == [t \in Service |-> dueOf(t)]
<1>1. open' = open
  BY DEF OpenStays
<1>2. due' = [due EXCEPT ![s] = TRUE]
  <2>1. due = [t \in Service |-> OwedBy(h, t)]
    BY DEF OwedBy, Owes, dueOf, Accounted, At
  <2>2. due' = [t \in Service |-> StillOwedBy(h, t)]
    BY DEF StillOwedBy, Owes, dueOf, Accounted, At
  <2>3. \A t : t # s => StillOwedBy(h, t) = OwedBy(h, t)
    BY DEF DueIncurred, StillOwedBy, OwedBy, Owes
  <2>4. StillOwedBy(h, s) = TRUE
    BY DEF DueIncurred, StillOwedBy, Owes
  <2> HIDE DEF due
  <2> QED BY <2>1, <2>2, <2>3, <2>4
<1>3. ~due[s]
  BY DueIsOwed DEF DueIncurred
<1>4. new \in Promise!ServiceStatus \ {"unknown", status[s]}
  BY DEF Promise!ServiceStatus, ServiceStatus
<1> QED BY <1>1, <1>2, <1>3, <1>4 DEF Promise!Observe

\* Until the status is written, evaluating is invisible.
LEMMA EvaluationIsInvisible ==
    ASSUME OneAtATimeInv, NEW h, Handler = {h}, Faults = {},
           Ingest(h) \/ check(h) \/ StoreResult(h) \/ GetService(h) \/ Evaluate(h)
    PROVE  UNCHANGED Promise!vars
<1>1. TypeInv /\ CalmInv /\ h \in Handler
  BY DEF OneAtATimeInv, OpenInv
<1>2. incidents' = incidents /\ pc'[h] # "addUpdate"
  BY <1>1, EvaluationWorksOnNothing DEF Working
<1>3. UNCHANGED status /\ pc[h] # "addUpdate"
  BY DEF Ingest, check, Start, StoreResult, GetService, Evaluate, At, database
<1>4. transitions'[h] = transitions[h]
  <2>1. CASE Ingest(h) \/ check(h)
    BY <2>1 DEF Ingest, check, Start
  <2>2. CASE StoreResult(h)
    <3>1. calm'[h] /\ transitions[h] = <<>>
      BY <1>1, <2>2, SerialGoesOn DEF Step, StoreResult, At, Undisturbed, EvaluatedSoFar
    <3>2. EvaluateFrom(h, 1, <<>>) \/ UNCHANGED transitions
      BY <1>1, <2>2, <3>1, CalmNote DEF StoreResult
    <3>3. EvaluateFrom(h, 1, <<>>) => transitions'[h] = <<>>
      BY <1>1 DEF EvaluateFrom, Return, TypeInv, LocalsOK
    <3> QED BY <3>1, <3>2, <3>3
  <2>3. CASE GetService(h) \/ Evaluate(h)
    <3>1. NextService(h) \/ UNCHANGED transitions
      BY <2>3 DEF GetService, Evaluate
    <3>2. NextService(h) => transitions'[h] = transitions[h]
      BY <1>1 DEF NextService, EvaluateFrom, Return, TypeInv, LocalsOK
    <3> QED BY <3>1, <3>2
  <2> QED BY <2>1, <2>2, <2>3
<1>5. DueStays(h)
  BY <1>2, <1>3, <1>4, KeepingTransitionsKeepsDue
<1>6. \A s \in Service : OpenStays(s)
  BY <1>2, SameIncidentsSameOpen
<1> QED BY <1>3, <1>5, <1>6, InvisibleStep

\* Writing the status is observing the change.
LEMMA UpdateStatusObserves ==
    ASSUME OneAtATimeInv, NEW h, Handler = {h}, Faults = {}, UpdateStatus(h)
    PROVE  Promise!Observe(current(h))
<1> DEFINE s     == current(h)
           ts    == transitions[h]
           moved == [service |-> s, to |-> verdict[h]]
           us    == Append(ts, moved)
<1>1. TypeInv /\ h \in Handler /\ Step(h) /\ pc[h] = "updateStatus"
      /\ pc[h] \in Evaluating /\ pc[h] \in Deciding
  BY DEF OneAtATimeInv, OpenInv, Step, UpdateStatus, At, Evaluating, Deciding
<1>2. calm'[h] /\ Undisturbed(h)
  BY <1>1, SerialGoesOn
<1>3. /\ status' = [status EXCEPT ![s] = verdict[h]]
      /\ EvaluateFrom(h, cursor[h] + 1, us)
      /\ incidents' = incidents
  BY <1>1, <1>2, CalmNote DEF UpdateStatus, Applied
<1>4. s \in Service /\ moved \in Transition /\ ts \in Seq(Transition)
  BY <1>1, CurrentType DEF TypeInv, LocalsOK, Transition
<1>5. /\ cursor[h] \in uniqueServiceIDs(batch[h])
      /\ verdict[h] = determineStatus(results[s]) /\ results[s] # <<>>
      /\ verdict[h] # status[s]
  BY <1>1, <1>2 DEF Undisturbed, EvaluatedSoFar, current, uniqueServiceIDs
<1>6. verdict[h] \in ServiceStatus \ {"unknown", status[s]}
  BY <1>5, DetermineStatusKnown
<1>7. /\ DOMAIN ts = 1 .. Len(ts) /\ Len(ts) \in Nat
      /\ DOMAIN us = 1 .. Len(ts) + 1 /\ us[Len(ts) + 1] = moved
      /\ \A k \in DOMAIN ts : us[k] = ts[k]
  BY <1>4, LenProperties
<1>8. moved.service = s
  OBVIOUS
<1>9. \A k \in DOMAIN ts : ts[k].service # s
  <2> SUFFICES ASSUME NEW k \in DOMAIN ts PROVE ts[k].service # s
    OBVIOUS
  <2>1. PICK i \in DOMAIN batch[h] : i < cursor[h] /\ batch[h][i].service = ts[k].service
    BY <1>1, <1>2 DEF Undisturbed, TransitionsAreTrue
  <2>2. i \in 1 .. cursor[h] - 1
    BY <1>1, <2>1, BatchType DEF TypeInv, LocalsOK
  <2> QED BY <1>5, <2>1, <2>2 DEF uniqueServiceIDs, current
<1>10. transitions'[h] = us /\ pc'[h] # "addUpdate"
  <2>1. us # <<>>
    <3> HIDE DEF us
    <3>1. 1 \in DOMAIN us
      BY <1>7
    <3> QED BY <3>1
  <2> HIDE DEF us
  <2> QED BY <1>1, <1>3, <2>1 DEF EvaluateFrom, Goto, TypeInv, LocalsOK
<1> HIDE DEF s, ts, moved, us
<1>11. OwedBy(h, s) = FALSE /\ StillOwedBy(h, s)
  <2>1. ~OwedBy(h, s)
    BY <1>9 DEF OwedBy, Owes, ts
  <2>2. Len(ts) + 1 \in DOMAIN us
    BY <1>7
  <2> QED BY <1>7, <1>8, <1>10, <2>1, <2>2 DEF StillOwedBy, Owes
<1>12. ASSUME NEW t, t # s PROVE StillOwedBy(h, t) <=> OwedBy(h, t)
  <2>1. OwedBy(h, t) <=> \E k \in DOMAIN ts : ts[k].service = t
    BY <1>1 DEF OwedBy, Owes, ts
  <2>2. StillOwedBy(h, t) <=> \E k \in DOMAIN us : us[k].service = t
    BY <1>10 DEF StillOwedBy, Owes
  <2>3. \A k \in DOMAIN us : k \in DOMAIN ts \/ us[k] = moved
    BY <1>7
  <2>4. \A k \in DOMAIN ts : k \in DOMAIN us
    BY <1>7
  <2> QED BY <1>7, <1>8, <1>12, <2>1, <2>2, <2>3, <2>4
<1>13. DueIncurred(h, s)
  BY <1>11, <1>12 DEF DueIncurred
<1>14. \A t \in Service : OpenStays(t)
  BY <1>3, SameIncidentsSameOpen
<1> QED BY <1>3, <1>4, <1>6, <1>13, <1>14, ObservingStep DEF s

\* The transition at hand says what the status of its service is.
LEMMA ThisIsTheStatus ==
    ASSUME OneAtATimeInv, NEW h \in Handler, pc[h] \in Processing, Undisturbed(h)
    PROVE  this(h).service \in Service /\ status[this(h).service] = this(h).to
<1>1. /\ this(h) = transitions[h][1] /\ 1 \in DOMAIN transitions[h]
      /\ this(h).service \in Service
  BY HeadAndTail DEF OneAtATimeInv, OpenInv
<1> QED BY <1>1 DEF Undisturbed, TransitionsAreTrue

\* What handleFailure reads is what the promise settles with; when it must write
\* nothing is settled yet.
LEMMA HandleFailureSettles ==
    ASSUME OneAtATimeInv, NEW h, Handler = {h}, Faults = {}, handleFailure(h),
           NEW s \in Service, s = this(h).service
    PROVE  Promise!Settle(s) \/ UNCHANGED Promise!vars
<1> DEFINE existing == GetActiveForService(s)
<1>1. TypeInv /\ OpenInv /\ h \in Handler /\ Step(h) /\ pc[h] = "getActive"
      /\ pc[h] \in Processing
  BY DEF OneAtATimeInv, OpenInv, Step, handleFailure, At, Processing
<1>2. calm'[h] /\ Undisturbed(h) /\ TransitionsAreTrue(h)
  BY <1>1, SerialGoesOn DEF Undisturbed
<1>3. s \in Service /\ status[s] = this(h).to /\ isIncidentStatus(status[s])
  BY <1>1, <1>2, ThisIsTheStatus DEF handleFailure
<1>4. UNCHANGED <<status, incidents>>
  BY DEF handleFailure, database
<1>5. \A t : OpenStays(t)
  BY <1>4, SameIncidentsSameOpen
<1>6. \/ /\ existing # 0 /\ ~escalates(this(h).to, incidents[existing].severity)
         /\ NextTransition(h)
      \/ \E i, line : line # "addUpdate" /\ Work(h, i, line)
  BY <1>2, CalmNote, <1>1 DEF handleFailure
<1>7. existing # 0 => existing \in Active(s)
  BY GetActiveType
<1> HIDE DEF existing
<1>8. CASE /\ existing # 0 /\ ~escalates(this(h).to, incidents[existing].severity)
           /\ NextTransition(h)
  <2>1. DueSettled(h, s)
    BY <1>1, <1>2, <1>8, DroppingSettles
  <2>2. openSeverity(s) = incidents[existing].severity
    BY <1>1, <1>3, <1>7, <1>8, OpenSeverityIs
  <2>3. Promise!Settled(openSeverity(s), status[s]) = openSeverity(s)
    BY <1>3, <1>8, <2>2, SettledCases
  <2>4. openSeverity(s)' = openSeverity(s)
    BY <1>5 DEF OpenStays
  <2> QED BY <1>3, <1>4, <1>5, <2>1, <2>3, <2>4, SettlingStep
<1>9. CASE \E i, line : line # "addUpdate" /\ Work(h, i, line)
  <2>1. pc'[h] # "addUpdate" /\ transitions' = transitions
    BY <1>1, <1>9, WorkMoves
  <2>2. DueStays(h)
    BY <1>1, <2>1, KeepingTransitionsKeepsDue
  <2> QED BY <1>4, <1>5, <2>2, InvisibleStep
<1> QED BY <1>6, <1>8, <1>9

\* A recovery that finds no incident has nothing to settle.
LEMMA HandleRecoverySettles ==
    ASSUME OneAtATimeInv, NEW h, Handler = {h}, Faults = {}, handleRecovery(h),
           NEW s \in Service, s = this(h).service
    PROVE  Promise!Settle(s) \/ UNCHANGED Promise!vars
<1> DEFINE existing == GetActiveForService(s)
<1>1. TypeInv /\ OpenInv /\ h \in Handler /\ Step(h) /\ pc[h] = "getActive"
      /\ pc[h] \in Processing
  BY DEF OneAtATimeInv, OpenInv, Step, handleRecovery, At, Processing
<1>2. calm'[h] /\ Undisturbed(h) /\ TransitionsAreTrue(h)
  BY <1>1, SerialGoesOn DEF Undisturbed
<1>3. s \in Service /\ status[s] = "operational"
  BY <1>1, <1>2, ThisIsTheStatus DEF handleRecovery
<1>4. UNCHANGED <<status, incidents>>
  BY DEF handleRecovery, database
<1>5. \A t : OpenStays(t)
  BY <1>4, SameIncidentsSameOpen
<1>6. \/ existing = 0 /\ NextTransition(h)
      \/ Work(h, existing, "resolve")
  BY <1>2, CalmNote, <1>1 DEF handleRecovery
<1>7. existing = 0 => Active(s) = {}
  BY GetActiveType
<1> HIDE DEF existing
<1>8. CASE existing = 0 /\ NextTransition(h)
  <2>1. DueSettled(h, s)
    BY <1>1, <1>2, <1>8, DroppingSettles
  <2>2. openSeverity(s) = "none"
    BY <1>1, <1>3, <1>7, <1>8, OpenSeverityIs
  <2>3. Promise!Settled(openSeverity(s), status[s]) = "none"
    BY <1>3, SettledCases
  <2>4. openSeverity(s)' = openSeverity(s)
    BY <1>5 DEF OpenStays
  <2> QED BY <1>3, <1>4, <1>5, <2>1, <2>2, <2>3, <2>4, SettlingStep
<1>9. CASE Work(h, existing, "resolve")
  <2>1. pc'[h] # "addUpdate" /\ transitions' = transitions
    BY <1>1, <1>9, WorkMoves
  <2>2. DueStays(h)
    BY <1>1, <2>1, KeepingTransitionsKeepsDue
  <2> QED BY <1>4, <1>5, <2>2, InvisibleStep
<1> QED BY <1>6, <1>8, <1>9

\* The severity of a service after a write to its only incident.
LEMMA OpenAfterWrite ==
    ASSUME NEW s, NEW i \in Stamp, \A j \in Active(s) : j = i,
           \A j \in Stamp \ {i} : incidents'[j] = incidents[j],
           incidents'[i].status = "detected", s \in incidents'[i].services
    PROVE  openSeverity(s)' = incidents'[i].severity
<1> DEFINE ids == {j \in Stamp : /\ incidents'[j].status = "detected"
                                 /\ s \in incidents'[j].services}
<1>1. ids \in SUBSET Stamp /\ i \in ids
  OBVIOUS
<1>2. \A j \in ids : j = i
  BY DEF Active
<1>3. Active(s)' = ids
  BY DEF Active
<1> HIDE DEF ids
<1>4. Newest(ids) = i
  BY <1>1, <1>2, NewestOfOne
<1> QED BY <1>1, <1>3, <1>4 DEF openSeverity

\* What the only handler's write changes: its row, and nothing else.
LEMMA SerialWrite ==
    ASSUME OneAtATimeInv, NEW h, Handler = {h}, Faults = {}, Step(h),
           pc[h] \in Working, NEW row, NEW line, WriteIncident(h, row, line)
    PROVE  /\ target[h] \in Stamp /\ mine(h) \in Incident
           /\ incidents'[target[h]] = row
           /\ \A j \in Stamp \ {target[h]} : incidents'[j] = incidents[j]
           /\ UNCHANGED <<status, target>> /\ transitions'[h] = transitions[h]
           /\ pc'[h] = line
           /\ this(h).service \in Service /\ status[this(h).service] = this(h).to
           /\ TargetIsTrue(h) /\ TransitionsAreTrue(h)
<1>1. TypeInv /\ h \in Handler /\ pc[h] \in Processing
  BY DEF OneAtATimeInv, OpenInv, Processing
<1>2. calm'[h] /\ Undisturbed(h)
  BY <1>1, SerialGoesOn
<1>3. /\ incidents' = [incidents EXCEPT ![target[h]] = row]
      /\ incidents'[target[h]] = row /\ target[h] \in Stamp
      /\ UNCHANGED <<status, transitions, target>> /\ pc'[h] = line
  BY <1>1, <1>2, CalmWrite
<1>4. \A j \in Stamp \ {target[h]} : incidents'[j] = incidents[j]
  BY <1>1, <1>3 DEF TypeInv, SharedOK
<1>5. mine(h) \in Incident
  BY <1>1, <1>3 DEF TypeInv, SharedOK, mine
<1>6. this(h).service \in Service /\ status[this(h).service] = this(h).to
  BY <1>1, <1>2, ThisIsTheStatus
<1> QED BY <1>1, <1>2, <1>3, <1>4, <1>5, <1>6 DEF Undisturbed

\* Escalating, linking and resolving settle the debt.
LEMMA UpdateSeveritySettles ==
    ASSUME OneAtATimeInv, NEW h, Handler = {h}, Faults = {}, UpdateSeverity(h),
           NEW s \in Service, s = this(h).service
    PROVE  Promise!Settle(s)
<1> DEFINE row == [mine(h) EXCEPT !.severity = severityFromStatus(this(h).to)]
<1>1. /\ TypeInv /\ OpenInv /\ h \in Handler /\ Step(h) /\ pc[h] = "updateSeverity"
      /\ pc[h] \in Working /\ pc[h] \in Processing /\ WriteIncident(h, row, "addUpdate")
  BY DEF OneAtATimeInv, OpenInv, Step, UpdateSeverity, At, Processing, Working
<1> HIDE DEF row
<1>2. /\ target[h] \in Stamp /\ mine(h) \in Incident
      /\ incidents'[target[h]] = row
      /\ \A j \in Stamp \ {target[h]} : incidents'[j] = incidents[j]
      /\ UNCHANGED status /\ transitions'[h] = transitions[h] /\ pc'[h] = "addUpdate"
      /\ s \in Service /\ status[s] = this(h).to
      /\ TargetIsTrue(h) /\ TransitionsAreTrue(h)
  BY <1>1, SerialWrite
<1>3. /\ row.status = mine(h).status /\ row.services = mine(h).services
      /\ row.severity = severityFromStatus(this(h).to)
  BY <1>2 DEF Incident, row
<1>4. /\ target[h] \in Active(s) /\ isIncidentStatus(this(h).to)
      /\ escalates(this(h).to, mine(h).severity)
  BY <1>1, <1>2 DEF TargetIsTrue
<1>5. openSeverity(s)' = severityFromStatus(status[s])
  <2>1. \A j \in Active(s) : j = target[h]
    BY <1>1, <1>2, <1>4, OneActive
  <2>2. incidents'[target[h]].status = "detected" /\ s \in incidents'[target[h]].services
    BY <1>2, <1>3, <1>4 DEF Active, mine
  <2> QED BY <1>2, <1>3, <2>1, <2>2, OpenAfterWrite
<1>6. openSeverity(s) = mine(h).severity
  BY <1>1, <1>2, <1>4, OpenSeverityIs DEF mine
<1>7. ASSUME NEW t \in Service \ {s} PROVE OpenStays(t)
  <2>1. s \in incidents[target[h]].services
    BY <1>4 DEF Active
  <2>2. t \notin incidents[target[h]].services
    BY <1>2, <2>1 DEF OneAtATimeInv, RowsInv
  <2>3. t \notin incidents'[target[h]].services
    BY <1>2, <1>3, <2>2 DEF mine
  <2> QED BY <1>2, <2>2, <2>3, OtherRowSameOpen
<1>8. DueSettled(h, s)
  BY <1>1, <1>2, WritingSettles
<1>9. openSeverity(s)' = Promise!Settled(openSeverity(s), status[s])
  BY <1>2, <1>4, <1>5, <1>6, SettledCases
<1> QED BY <1>2, <1>7, <1>8, <1>9, SettlingStep

\* Linking makes the new row the incident of its service.
LEMMA LinkServiceSettles ==
    ASSUME OneAtATimeInv, NEW h, Handler = {h}, Faults = {}, LinkService(h),
           NEW s \in Service, s = this(h).service
    PROVE  Promise!Settle(s)
<1> DEFINE row == [mine(h) EXCEPT !.services = @ \cup {s}]
<1>1. /\ TypeInv /\ OpenInv /\ h \in Handler /\ Step(h) /\ pc[h] = "linkService"
      /\ pc[h] \in Working /\ pc[h] \in Processing /\ WriteIncident(h, row, "addUpdate")
  BY DEF OneAtATimeInv, OpenInv, Step, LinkService, At, Processing, Working
<1> HIDE DEF row
<1>2. /\ target[h] \in Stamp /\ mine(h) \in Incident
      /\ incidents'[target[h]] = row
      /\ \A j \in Stamp \ {target[h]} : incidents'[j] = incidents[j]
      /\ UNCHANGED status /\ transitions'[h] = transitions[h] /\ pc'[h] = "addUpdate"
      /\ s \in Service /\ status[s] = this(h).to
      /\ TargetIsTrue(h) /\ TransitionsAreTrue(h)
  BY <1>1, SerialWrite
<1>3. /\ mine(h).services = {} /\ mine(h).status = "detected"
      /\ mine(h).severity = severityFromStatus(this(h).to)
      /\ Active(s) = {} /\ isIncidentStatus(this(h).to)
  BY <1>1, <1>2 DEF TargetIsTrue
<1>4. /\ row.status = "detected" /\ row.services = {s}
      /\ row.severity = severityFromStatus(this(h).to)
  BY <1>2, <1>3 DEF Incident, row
<1>5. openSeverity(s)' = severityFromStatus(status[s])
  <2>1. incidents'[target[h]].status = "detected" /\ s \in incidents'[target[h]].services
    BY <1>2, <1>4
  <2> QED BY <1>2, <1>3, <1>4, <2>1, OpenAfterWrite
<1>6. openSeverity(s) = "none"
  BY <1>1, <1>2, <1>3, OpenSeverityIs
<1>7. ASSUME NEW t \in Service \ {s} PROVE OpenStays(t)
  <2>1. t \notin incidents[target[h]].services
    BY <1>3 DEF mine
  <2>2. t \notin incidents'[target[h]].services
    BY <1>2, <1>4
  <2> QED BY <1>2, <2>1, <2>2, OtherRowSameOpen
<1>8. DueSettled(h, s)
  BY <1>1, <1>2, WritingSettles
<1>9. escalates(status[s], "none")
  BY DEF escalates, severityRank, severityFromStatus
<1>10. openSeverity(s)' = Promise!Settled(openSeverity(s), status[s])
  BY <1>2, <1>3, <1>5, <1>6, <1>9, SettledCases
<1> QED BY <1>2, <1>7, <1>8, <1>10, SettlingStep

\* Resolving leaves the service without an incident.
LEMMA ResolveSettles ==
    ASSUME OneAtATimeInv, NEW h, Handler = {h}, Faults = {}, Resolve(h),
           NEW s \in Service, s = this(h).service
    PROVE  Promise!Settle(s)
<1> DEFINE row == [mine(h) EXCEPT !.status = "resolved"]
<1>1. /\ TypeInv /\ OpenInv /\ h \in Handler /\ Step(h) /\ pc[h] = "resolve"
      /\ pc[h] \in Working /\ pc[h] \in Processing /\ WriteIncident(h, row, "addUpdate")
  BY DEF OneAtATimeInv, OpenInv, Step, Resolve, At, Processing, Working
<1> HIDE DEF row
<1>2. /\ target[h] \in Stamp /\ mine(h) \in Incident
      /\ incidents'[target[h]] = row
      /\ \A j \in Stamp \ {target[h]} : incidents'[j] = incidents[j]
      /\ UNCHANGED status /\ transitions'[h] = transitions[h] /\ pc'[h] = "addUpdate"
      /\ s \in Service /\ status[s] = this(h).to
      /\ TargetIsTrue(h) /\ TransitionsAreTrue(h)
  BY <1>1, SerialWrite
<1>3. row.status = "resolved" /\ row.services = mine(h).services
  BY <1>2 DEF Incident, row
<1>4. target[h] \in Active(s) /\ status[s] = "operational"
  BY <1>1, <1>2 DEF TargetIsTrue
<1>5. openSeverity(s)' = "none"
  <2>1. \A j \in Active(s) : j = target[h]
    BY <1>1, <1>2, <1>4, OneActive
  <2>2. Active(s)' = {}
    BY <1>2, <1>3, <2>1 DEF Active
  <2> QED BY <2>2 DEF openSeverity
<1>6. ASSUME NEW t \in Service \ {s} PROVE OpenStays(t)
  <2>1. s \in incidents[target[h]].services
    BY <1>4 DEF Active
  <2>2. t \notin incidents[target[h]].services
    BY <1>2, <2>1 DEF OneAtATimeInv, RowsInv
  <2>3. t \notin incidents'[target[h]].services
    BY <1>2, <1>3, <2>2 DEF mine
  <2> QED BY <1>2, <2>2, <2>3, OtherRowSameOpen
<1>7. DueSettled(h, s)
  BY <1>1, <1>2, WritingSettles
<1>8. openSeverity(s)' = Promise!Settled(openSeverity(s), status[s])
  BY <1>4, <1>5, SettledCases
<1> QED BY <1>2, <1>6, <1>7, <1>8, SettlingStep

\* A row that is not linked yet is nobody's incident.
LEMMA CreateIsInvisible ==
    ASSUME OneAtATimeInv, NEW h, Handler = {h}, Faults = {}, Create(h)
    PROVE  UNCHANGED Promise!vars
<1> DEFINE row == [status |-> "detected", severity |-> severityFromStatus(this(h).to),
                   services |-> {}, opener |-> h, updates |-> <<>>]
<1>1. /\ Step(h) /\ pc[h] = "createIncident" /\ pc[h] \in Working
      /\ WriteIncident(h, row, "linkService")
  BY DEF Step, Create, At, Working
<1>2. row.services = {} /\ mine(h).services = {}
  BY <1>1 DEF OneAtATimeInv, SerialInv, NoIncident
<1> HIDE DEF row
<1>3. /\ incidents'[target[h]] = row
      /\ \A j \in Stamp \ {target[h]} : incidents'[j] = incidents[j]
      /\ UNCHANGED status /\ transitions'[h] = transitions[h] /\ pc'[h] = "linkService"
  BY <1>1, SerialWrite
<1>4. DueStays(h)
  BY <1>1, <1>3, KeepingTransitionsKeepsDue
<1>5. \A s \in Service : OpenStays(s)
  BY <1>2, <1>3, OtherRowSameOpen DEF mine
<1> QED BY <1>3, <1>4, <1>5, InvisibleStep

\* What AddUpdate changes: the updates of its row.
LEMMA SerialEntry ==
    ASSUME OneAtATimeInv, NEW h, Handler = {h}, Faults = {}, AddUpdate(h)
    PROVE  LET entry == IF this(h).to = "operational" THEN "resolved" ELSE "detected"
           IN  /\ target[h] \in Stamp /\ mine(h) \in Incident
               /\ incidents'[target[h]] = [mine(h) EXCEPT !.updates = Append(@, entry)]
               /\ \A j \in Stamp \ {target[h]} : incidents'[j] = incidents[j]
               /\ UNCHANGED status /\ NextTransition(h)
               /\ TargetIsTrue(h)
<1> DEFINE entry == IF this(h).to = "operational" THEN "resolved" ELSE "detected"
<1>1. TypeInv /\ h \in Handler /\ Step(h) /\ pc[h] = "addUpdate" /\ pc[h] \in Processing
      /\ pc[h] \in Working
  BY DEF OneAtATimeInv, OpenInv, Step, AddUpdate, At, Processing, Working
<1>2. calm'[h] /\ Undisturbed(h)
  BY <1>1, SerialGoesOn
<1>3. incidents' = [incidents EXCEPT ![target[h]].updates = Append(@, entry)]
  BY <1>1, <1>2, CalmNote DEF AddUpdate, Applied
<1>4. target[h] \in Stamp /\ mine(h) \in Incident
  BY <1>1 DEF TypeInv, LocalsOK, SharedOK, Placed, mine
<1> HIDE DEF entry
<1>5. /\ incidents'[target[h]] = [mine(h) EXCEPT !.updates = Append(@, entry)]
      /\ \A j \in Stamp \ {target[h]} : incidents'[j] = incidents[j]
  BY <1>1, <1>3, <1>4 DEF TypeInv, SharedOK, mine
<1> QED BY <1>1, <1>2, <1>4, <1>5 DEF AddUpdate, Undisturbed, entry

\* The timeline is not the promise's business.
LEMMA AddUpdateIsInvisible ==
    ASSUME OneAtATimeInv, NEW h, Handler = {h}, Faults = {}, AddUpdate(h)
    PROVE  UNCHANGED Promise!vars
<1>1. TypeInv /\ h \in Handler /\ pc[h] = "addUpdate"
  BY DEF OneAtATimeInv, OpenInv, AddUpdate, At
<1>2. PICK entry :
        /\ target[h] \in Stamp /\ mine(h) \in Incident
        /\ incidents'[target[h]] = [mine(h) EXCEPT !.updates = Append(@, entry)]
        /\ \A j \in Stamp \ {target[h]} : incidents'[j] = incidents[j]
        /\ UNCHANGED status /\ NextTransition(h)
  BY SerialEntry
<1>3. \A j \in Stamp : /\ incidents'[j].status = incidents[j].status
                       /\ incidents'[j].services = incidents[j].services
                       /\ incidents'[j].severity = incidents[j].severity
  BY <1>2 DEF mine, Incident
<1>4. ASSUME NEW s \in Service PROVE OpenStays(s)
  <2>1. Active(s)' = Active(s)
    BY <1>3 DEF Active
  <2>2. CASE Active(s) = {}
    BY <2>1, <2>2 DEF OpenStays, openSeverity
  <2>3. CASE Active(s) # {}
    <3>1. Newest(Active(s)) \in Stamp
      BY <2>3, NewestType DEF Active
    <3>2. openSeverity(s)' = incidents'[Newest(Active(s)')].severity
      BY <2>1, <2>3 DEF openSeverity
    <3> QED BY <1>3, <2>1, <2>3, <3>1, <3>2 DEF OpenStays, openSeverity
  <2> QED BY <2>2, <2>3
<1>5. DueStays(h)
  BY <1>1, <1>2, DroppingAccountedKeepsDue
<1> QED BY <1>2, <1>4, <1>5, InvisibleStep

(* ------------------- one handler and no fault: the invariant ----------- *)

\* A handler that has not returned still has its batch.
LEMMA BatchStays ==
    ASSUME NEW h \in Handler,
           \/ Return(h)
           \/ \E i, ts : EvaluateFrom(h, i, ts)
           \/ NextTransition(h)
           \/ UNCHANGED batch,
           LocalsOK
    PROVE  pc'[h] # "idle" => batch' = batch
<1>1. Return(h) => pc'[h] = "idle"
  BY DEF Return, Goto, LocalsOK
<1>2. (\E i, ts : EvaluateFrom(h, i, ts)) => Return(h) \/ UNCHANGED batch
  BY DEF EvaluateFrom
<1>3. NextTransition(h) => Return(h) \/ UNCHANGED batch
  BY DEF NextTransition
<1> QED BY <1>1, <1>2, <1>3

\* A step concerns the services of its batch only, and keeps the batch.
LEMMA StepConcerns ==
    ASSUME OneAtATimeInv, Faults = {}, NEW h \in Handler, Step(h)
    PROVE  /\ pc'[h] # "idle" => batch' = batch
           /\ \A s \in Service :
                (\A i \in DOMAIN batch[h] : batch[h][i].service # s) =>
                    status'[s] = status[s] /\ results'[s] = results[s]
<1>1. TypeInv /\ LocalsOK /\ calm'[h]
  BY SerialGoesOn DEF OneAtATimeInv, OpenInv, TypeInv
<1>2. pc[h] \in Evaluating =>
          cursor[h] \in DOMAIN batch[h] /\ current(h) = batch[h][cursor[h]].service
  BY <1>1 DEF LocalsOK, Placed, current
<1>3. CASE StoreResult(h)
  <2>1. Return(h) \/ EvaluateFrom(h, 1, <<>>) \/ UNCHANGED batch
    BY <1>3 DEF StoreResult
  <2>2. pc'[h] # "idle" => batch' = batch
    BY <1>1, <2>1, BatchStays
  <2>3. pc[h] \in Evaluating /\ status' = status
    BY <1>3 DEF StoreResult, At, Evaluating
  <2>4. \A s \in Service : s # batch[h][cursor[h]].service => results'[s] = results[s]
    BY <1>1, <1>3 DEF StoreResult, TypeInv, SharedOK
  <2> QED BY <1>2, <2>2, <2>3, <2>4
<1>4. CASE UpdateStatus(h)
  <2>1. \E i, ts : EvaluateFrom(h, i, ts)
    BY <1>4 DEF UpdateStatus
  <2>2. pc'[h] # "idle" => batch' = batch
    BY <1>1, <2>1, BatchStays
  <2>3. pc[h] \in Evaluating /\ results' = results
    BY <1>4 DEF UpdateStatus, At, Evaluating
  <2>4. \A s \in Service : s # current(h) => status'[s] = status[s]
    BY <1>1, <1>4 DEF UpdateStatus, TypeInv, SharedOK
  <2> QED BY <1>2, <2>2, <2>3, <2>4
<1>5. CASE GetService(h) \/ Evaluate(h)
  <2>1. (\E i, ts : EvaluateFrom(h, i, ts)) \/ UNCHANGED batch
    BY <1>5 DEF GetService, Evaluate, NextService
  <2>2. pc'[h] # "idle" => batch' = batch
    BY <1>1, <2>1, BatchStays
  <2> QED BY <1>5, <2>2 DEF GetService, Evaluate, database
<1>6. CASE handleFailure(h) \/ handleRecovery(h)
  <2>1. NextTransition(h) \/ UNCHANGED batch
    BY <1>6 DEF handleFailure, handleRecovery, Work
  <2>2. pc'[h] # "idle" => batch' = batch
    BY <1>1, <2>1, BatchStays
  <2> QED BY <1>6, <2>2 DEF handleFailure, handleRecovery, database
<1>7. CASE UpdateSeverity(h) \/ Create(h) \/ LinkService(h) \/ Resolve(h)
  <2>1. PICK row, line : WriteIncident(h, row, line)
    BY <1>7 DEF UpdateSeverity, Create, LinkService, Resolve
  <2>2. (NextTransition(h) \/ UNCHANGED batch) /\ UNCHANGED <<status, results>>
    BY <2>1 DEF WriteIncident, locals
  <2>3. pc'[h] # "idle" => batch' = batch
    BY <1>1, <2>2, BatchStays
  <2> QED BY <2>2, <2>3
<1>8. CASE AddUpdate(h)
  <2>1. NextTransition(h) /\ UNCHANGED <<status, results>>
    BY <1>8 DEF AddUpdate
  <2>2. pc'[h] # "idle" => batch' = batch
    BY <1>1, <2>1, BatchStays
  <2> QED BY <2>1, <2>2
<1> QED BY <1>3, <1>4, <1>5, <1>6, <1>7, <1>8 DEF Step

\* Every service whose evaluation is over has the status its window calls for.
LEMMA StepKeepsTrue ==
    ASSUME OneAtATimeInv, LocalsOK', NEW h, Handler = {h}, Faults = {}, Step(h)
    PROVE  TrueElsewhere'
<1> SUFFICES ASSUME NEW s \in Service, results'[s] # <<>>,
                    pc'[h] \in Evaluating =>
                        \A i \in DOMAIN batch'[h] : batch'[h][i].service # s
             PROVE  TrueStatus(status'[s], results'[s])
  BY DEF TrueElsewhere
<1>1. h \in Handler /\ GoesOn(h)
  BY SerialGoesOn
<1>2. CASE \E i \in DOMAIN batch[h] : batch[h][i].service = s
  <2>1. PICK i \in DOMAIN batch[h] : batch[h][i].service = s
    BY <1>2
  <2>2. CASE Heals(h)
    BY <2>1, <2>2 DEF Heals
  <2>3. CASE pc'[h] # "idle" /\ Undisturbed(h)'
    <3>1. batch' = batch
      BY <1>1, <2>3, StepConcerns
    <3>2. pc'[h] \in Processing
      BY <1>1, <2>1, <2>3, <3>1 DEF LocalsOK
    <3> QED BY <2>1, <2>3, <3>1, <3>2 DEF Undisturbed, EvaluatedSoFar
  <2> QED BY <1>1, <2>2, <2>3 DEF GoesOn
<1>3. CASE \A i \in DOMAIN batch[h] : batch[h][i].service # s
  <2>1. status'[s] = status[s] /\ results'[s] = results[s]
    BY <1>1, <1>3, StepConcerns
  <2> QED BY <1>3, <2>1 DEF OneAtATimeInv, SerialInv, TrueElsewhere
<1> QED BY <1>2, <1>3

\* With one handler it is clear who an incident waits for.
LEMMA SoloAwaits ==
    ASSUME NEW h, Handler = {h}, NEW i
    PROVE  /\ AwaitsEntry(i) <=> pc[h] \in {"linkService", "addUpdate"} /\ target[h] = i
           /\ AwaitsEntry(i)' <=>
                  pc'[h] \in {"linkService", "addUpdate"} /\ target'[h] = i
BY DEF AwaitsEntry

\* A step that writes to no incident and owes no entry.
LEMMA NoWriteKeepsTimelines ==
    ASSUME NEW h, Handler = {h}, TimelinesInv, incidents' = incidents,
           pc[h] \notin {"linkService", "addUpdate"},
           pc'[h] \notin {"linkService", "addUpdate"}
    PROVE  TimelinesInv'
BY SoloAwaits DEF TimelinesInv

\* A write to the row i, after which it alone may await its entry.
LEMMA WriteKeepsTimelines ==
    ASSUME NEW h, Handler = {h}, TimelinesInv, NEW i \in Stamp,
           \A j \in Stamp \ {i} : incidents'[j] = incidents[j],
           pc[h] \in {"linkService", "addUpdate"} => target[h] = i,
           pc'[h] \in {"linkService", "addUpdate"} =>
               target'[h] = i /\ Lagging(incidents'[i]),
           pc'[h] \notin {"linkService", "addUpdate"} => Complete(incidents'[i])
    PROVE  TimelinesInv'
<1> SUFFICES ASSUME NEW j \in Stamp, incidents'[j].status # "absent"
             PROVE  IF AwaitsEntry(j)' THEN Lagging(incidents'[j])
                                       ELSE Complete(incidents'[j])
  BY DEF TimelinesInv, Lagging, Complete
<1>1. CASE j = i
  BY <1>1, SoloAwaits
<1>2. CASE j # i
  BY <1>2, SoloAwaits DEF TimelinesInv
<1> QED BY <1>1, <1>2

\* What escalating, resolving and opening leave to be entered, and what entering
\* makes of it.
LEMMA EscalatingLags ==
    ASSUME NEW row \in Incident, Complete(row), row.status = "detected",
           NEW severity, severityRank(severity) > severityRank(row.severity)
    PROVE  Lagging([row EXCEPT !.severity = severity])
<1> DEFINE new == [row EXCEPT !.severity = severity]
<1>1. new.updates = row.updates /\ new.status = row.status /\ new.severity = severity
  BY DEF Incident
<1>2. severityRank(severity) \in Nat /\ severityRank(row.severity) \in Nat
  BY SeverityRankType
<1> HIDE DEF new
<1> QED BY <1>1, <1>2 DEF Complete, Lagging, new

\* A resolved row wants its last entry.
LEMMA ResolvingLags ==
    ASSUME NEW row \in Incident, Complete(row), row.status = "detected"
    PROVE  Lagging([row EXCEPT !.status = "resolved"])
<1> DEFINE new == [row EXCEPT !.status = "resolved"]
<1>1. new.updates = row.updates /\ new.status = "resolved" /\ new.severity = row.severity
  BY DEF Incident
<1> HIDE DEF new
<1> QED BY <1>1 DEF Complete, Lagging, new

\* A new row wants its first.
LEMMA OpeningLags ==
    ASSUME NEW row, row.status = "detected", row.updates = <<>>, row.severity \in Severity
    PROVE  Lagging(row)
BY DEF Lagging, Severity, severityRank

\* With the entry the timeline is complete.
LEMMA EnteringCompletes ==
    ASSUME NEW row \in Incident, Lagging(row), NEW entry,
           IF entry = "resolved" THEN row.status = "resolved"
           ELSE entry = "detected" /\ row.status = "detected"
    PROVE  Complete([row EXCEPT !.updates = Append(@, entry)])
<1> DEFINE u == row.updates
           v == Append(u, entry)
           new == [row EXCEPT !.updates = Append(@, entry)]
<1>1. new.updates = v /\ new.status = row.status /\ new.severity = row.severity
  BY DEF Incident
<1>2. u \in Seq({"detected", "resolved"}) /\ entry \in {"detected", "resolved"}
  BY DEF Incident
<1>3. /\ Len(u) \in Nat /\ Len(v) = Len(u) + 1 /\ v[Len(u) + 1] = entry
      /\ \A k \in 1 .. Len(u) : v[k] = u[k]
  BY <1>2
<1>4. severityRank(row.severity) \in Nat
  BY SeverityRankType
<1> HIDE DEF new, v
<1>5. CASE entry = "resolved"
  <2>1. row.status = "resolved" /\ Len(u) \in 1 .. severityRank(row.severity)
        /\ \A k \in 1 .. Len(u) : u[k] = "detected"
    BY <1>5 DEF Lagging
  <2> QED BY <1>1, <1>3, <1>5, <2>1 DEF Complete, new
<1>6. CASE entry = "detected" /\ row.status = "detected"
  <2>1. Len(u) + 1 \in 1 .. severityRank(row.severity)
        /\ \A k \in 1 .. Len(u) : u[k] = "detected"
    BY <1>6 DEF Lagging
  <2>2. \A k \in 1 .. Len(u) + 1 : v[k] = "detected"
    BY <1>3, <1>6, <2>1
  <2> QED BY <1>1, <1>3, <1>6, <2>1, <2>2 DEF Complete, new
<1> QED BY <1>5, <1>6

\* No incident waits for an entry while services are evaluated or read about.
LEMMA ReadsKeepTimelines ==
    ASSUME OneAtATimeInv, NEW h, Handler = {h}, Faults = {},
           \/ Ingest(h) \/ check(h)
           \/ StoreResult(h) \/ GetService(h) \/ Evaluate(h) \/ UpdateStatus(h)
           \/ handleFailure(h) \/ handleRecovery(h)
    PROVE  TimelinesInv'
<1>1. TypeInv /\ TimelinesInv /\ h \in Handler
  BY DEF OneAtATimeInv, OpenInv, SerialInv
<1>2. incidents' = incidents
  BY DEF Ingest, check, Start, StoreResult, GetService, Evaluate, UpdateStatus,
         handleFailure, handleRecovery, database
<1>3. pc[h] \notin {"linkService", "addUpdate"}
  BY DEF Ingest, check, Start, StoreResult, GetService, Evaluate, UpdateStatus,
         handleFailure, handleRecovery, At
<1>4. pc'[h] \notin {"linkService", "addUpdate"}
  <2>1. CASE \/ Ingest(h) \/ check(h) \/ Crash(h)
             \/ StoreResult(h) \/ GetService(h) \/ Evaluate(h) \/ UpdateStatus(h)
    BY <1>1, <2>1, EvaluationWorksOnNothing DEF Working
  <2>2. CASE handleFailure(h) \/ handleRecovery(h)
    <3>1. \/ NextTransition(h)
          \/ \E i, line : Work(h, i, line) /\ line \notin {"linkService", "addUpdate"}
      BY <2>2 DEF handleFailure, handleRecovery
    <3>2. NextTransition(h) => pc'[h] \notin Working
      BY <1>1, DoneWorking
    <3> QED BY <1>1, <3>1, <3>2, WorkMoves DEF Working
  <2> QED BY <2>1, <2>2
<1> QED BY <1>1, <1>2, <1>3, <1>4, NoWriteKeepsTimelines

\* A write that leaves its row awaiting an entry keeps the other timelines.
LEMMA SerialWriteTimelines ==
    ASSUME OneAtATimeInv, NEW h, Handler = {h}, Faults = {},
           Step(h), pc[h] \in Working, NEW row,
           NEW line \in {"linkService", "addUpdate"}, WriteIncident(h, row, line),
           Lagging(row)
    PROVE  TimelinesInv'
<1>1. /\ target[h] \in Stamp /\ incidents'[target[h]] = row
      /\ \A j \in Stamp \ {target[h]} : incidents'[j] = incidents[j]
      /\ target' = target /\ pc'[h] = line
  BY SerialWrite
<1> QED BY <1>1, WriteKeepsTimelines DEF OneAtATimeInv, SerialInv

\* Escalations are few because each one outranks the severity before.
LEMMA UpdateSeverityKeepsTimelines ==
    ASSUME OneAtATimeInv, NEW h, Handler = {h}, Faults = {}, UpdateSeverity(h)
    PROVE  TimelinesInv'
<1> DEFINE severity == severityFromStatus(this(h).to)
           row      == [mine(h) EXCEPT !.severity = severity]
<1>1. /\ Step(h) /\ pc[h] = "updateSeverity" /\ pc[h] \in Working
      /\ WriteIncident(h, row, "addUpdate")
  BY DEF Step, UpdateSeverity, At, Working
<1> HIDE DEF row, severity
<1>2. /\ target[h] \in Stamp /\ mine(h) \in Incident
      /\ this(h).service \in Service /\ TargetIsTrue(h)
  BY <1>1, SerialWrite
<1>3. /\ mine(h).status = "detected"
      /\ severityRank(severity) > severityRank(mine(h).severity)
  BY <1>1, <1>2 DEF TargetIsTrue, Active, mine, escalates, severity
<1>4. Complete(mine(h))
  BY <1>1, <1>2, <1>3, SoloAwaits DEF OneAtATimeInv, SerialInv, TimelinesInv, mine
<1>5. Lagging(row)
  BY <1>2, <1>3, <1>4, EscalatingLags DEF row
<1> QED BY <1>1, <1>5, SerialWriteTimelines

\* Only open incidents are resolved.
LEMMA ResolveKeepsTimelines ==
    ASSUME OneAtATimeInv, NEW h, Handler = {h}, Faults = {}, Resolve(h)
    PROVE  TimelinesInv'
<1> DEFINE row == [mine(h) EXCEPT !.status = "resolved"]
<1>1. /\ Step(h) /\ pc[h] = "resolve" /\ pc[h] \in Working
      /\ WriteIncident(h, row, "addUpdate")
  BY DEF Step, Resolve, At, Working
<1> HIDE DEF row
<1>2. target[h] \in Stamp /\ mine(h) \in Incident /\ TargetIsTrue(h)
  BY <1>1, SerialWrite
<1>3. mine(h).status = "detected"
  BY <1>1, <1>2 DEF TargetIsTrue, Active, mine
<1>4. Complete(mine(h))
  BY <1>1, <1>2, <1>3, SoloAwaits DEF OneAtATimeInv, SerialInv, TimelinesInv, mine
<1>5. Lagging(row)
  BY <1>2, <1>3, <1>4, ResolvingLags DEF row
<1> QED BY <1>1, <1>5, SerialWriteTimelines

\* A row is created and linked before its first entry.
LEMMA OpeningKeepsTimelines ==
    ASSUME OneAtATimeInv, NEW h, Handler = {h}, Faults = {},
           Create(h) \/ LinkService(h)
    PROVE  TimelinesInv'
<1>1. CASE Create(h)
  <2> DEFINE row == [status |-> "detected", severity |-> severityFromStatus(this(h).to),
                     services |-> {}, opener |-> h, updates |-> <<>>]
  <2>1. /\ Step(h) /\ pc[h] \in Working /\ WriteIncident(h, row, "linkService")
    BY <1>1 DEF Step, Create, At, Working
  <2>2. row.status = "detected" /\ row.updates = <<>> /\ row.severity \in Severity
    BY SeverityFromStatusType
  <2> HIDE DEF row
  <2>3. Lagging(row)
    BY <2>2, OpeningLags
  <2> QED BY <2>1, <2>3, SerialWriteTimelines
<1>2. CASE LinkService(h)
  <2> DEFINE row == [mine(h) EXCEPT !.services = @ \cup {this(h).service}]
  <2>1. /\ Step(h) /\ pc[h] = "linkService" /\ pc[h] \in Working
        /\ WriteIncident(h, row, "addUpdate")
    BY <1>2 DEF Step, LinkService, At, Working
  <2>2. mine(h) \in Incident
    <3> HIDE DEF row
    <3> QED BY <2>1, SerialWrite
  <2>3. TargetIsTrue(h)
    <3> HIDE DEF row
    <3> QED BY <2>1, SerialWrite
  <2>4. /\ row.status = mine(h).status /\ row.updates = mine(h).updates
        /\ row.severity = mine(h).severity
    BY <2>2 DEF Incident
  <2>5. /\ mine(h).status = "detected" /\ mine(h).updates = <<>>
        /\ mine(h).severity = severityFromStatus(this(h).to)
    BY <2>1, <2>3 DEF TargetIsTrue
  <2> HIDE DEF row
  <2>6. Lagging(row)
    BY <2>4, <2>5, OpeningLags, SeverityFromStatusType
  <2> QED BY <2>1, <2>6, SerialWriteTimelines
<1> QED BY <1>1, <1>2

\* The entry says what was done.
LEMMA AddUpdateKeepsTimelines ==
    ASSUME OneAtATimeInv, NEW h, Handler = {h}, Faults = {}, AddUpdate(h)
    PROVE  TimelinesInv'
<1> DEFINE entry == IF this(h).to = "operational" THEN "resolved" ELSE "detected"
           row   == [mine(h) EXCEPT !.updates = Append(@, entry)]
<1>1. TypeInv /\ h \in Handler /\ pc[h] = "addUpdate"
  BY DEF OneAtATimeInv, OpenInv, AddUpdate, At
<1>2. /\ target[h] \in Stamp /\ mine(h) \in Incident
      /\ incidents'[target[h]] = row
      /\ \A j \in Stamp \ {target[h]} : incidents'[j] = incidents[j]
      /\ NextTransition(h) /\ TargetIsTrue(h)
  BY SerialEntry
<1>3. IF entry = "resolved" THEN mine(h).status = "resolved"
      ELSE entry = "detected" /\ mine(h).status = "detected"
  BY <1>1, <1>2 DEF TargetIsTrue, Active, mine
<1> HIDE DEF row, entry
<1>4. Lagging(mine(h))
  <2>1. mine(h).status # "absent"
    BY <1>3
  <2>2. AwaitsEntry(target[h])
    BY <1>1 DEF AwaitsEntry
  <2> QED BY <1>2, <2>1, <2>2 DEF OneAtATimeInv, SerialInv, TimelinesInv, mine
<1>5. Complete(row)
  BY <1>2, <1>3, <1>4, EnteringCompletes DEF row
<1>6. pc'[h] \notin {"linkService", "addUpdate"}
  BY <1>1, <1>2, NextTransitionIsTail
<1> QED BY <1>1, <1>2, <1>5, <1>6, WriteKeepsTimelines DEF OneAtATimeInv, SerialInv

\* A stamp that was just drawn has no row yet.
LEMMA FreshTarget ==
    ASSUME OneAtATimeInv, NEW h, Handler = {h}, Faults = {},
           Ingest(h) \/ check(h) \/ Step(h), pc'[h] = "createIncident"
    PROVE  mine(h)' = NoIncident
<1>1. TypeInv /\ h \in Handler /\ "createIncident" \in Working
  BY DEF OneAtATimeInv, OpenInv, Working
<1>2. CASE \/ Ingest(h) \/ check(h) \/ Crash(h)
           \/ StoreResult(h) \/ GetService(h) \/ Evaluate(h) \/ UpdateStatus(h)
  BY <1>1, <1>2, EvaluationWorksOnNothing
<1>3. CASE handleFailure(h)
  <2>1. ~NextTransition(h)
    BY <1>1, DoneWorking
  <2>2. \/ \E i : Work(h, i, "updateSeverity")
        \/ clock < MaxIncidents /\ Work(h, clock + 1, "createIncident")
    BY <1>3, <2>1 DEF handleFailure
  <2>3. clock < MaxIncidents /\ target'[h] = clock + 1
    BY <1>1, <2>2, WorkMoves
  <2>4. incidents' = incidents /\ clock \in 0 .. MaxIncidents /\ MaxIncidents \in Nat
    BY <1>1, <1>3, PipelineAssumption DEF handleFailure, database, TypeInv, SharedOK
  <2>5. incidents[clock + 1] = NoIncident
    BY <2>3, <2>4 DEF OneAtATimeInv, RowsInv, Stamp
  <2> QED BY <2>3, <2>4, <2>5 DEF mine
<1>4. CASE handleRecovery(h)
  <2>1. ~NextTransition(h)
    BY <1>1, DoneWorking
  <2>2. \E i : Work(h, i, "resolve")
    BY <1>4, <2>1 DEF handleRecovery
  <2> QED BY <1>1, <2>2, WorkMoves
<1>5. CASE UpdateSeverity(h) \/ Create(h) \/ LinkService(h) \/ Resolve(h)
  <2>1. PICK row, line : WriteIncident(h, row, line) /\ line # "createIncident"
    BY <1>5 DEF UpdateSeverity, Create, LinkService, Resolve
  <2>2. pc[h] \in Working /\ Step(h)
    BY <1>5 DEF UpdateSeverity, Create, LinkService, Resolve, At, Working, Step
  <2>3. pc'[h] = line
    BY <2>1, <2>2, SerialWrite
  <2> QED BY <2>1, <2>3
<1>6. CASE AddUpdate(h)
  <2>1. NextTransition(h)
    BY <1>6 DEF AddUpdate
  <2> QED BY <1>1, <2>1, DoneWorking
<1> QED BY <1>2, <1>3, <1>4, <1>5, <1>6 DEF Step

\* At first there is nothing to be wrong about.
LEMMA SerialInit == Init => SerialInv
BY DEF Init, SerialInv, TrueElsewhere, TimelinesInv, NoIncident

\* One handler and no fault: every step keeps the invariant.
LEMMA SerialStep ==
    ASSUME OneAtATimeInv, OpenInv', NEW h, Handler = {h}, Faults = {}, [Next]_vars
    PROVE  SerialInv'
<1>1. h \in Handler /\ TypeInv /\ SerialInv /\ LocalsOK'
  BY DEF OneAtATimeInv, OpenInv, TypeInv
<1>2. CASE UNCHANGED vars
  BY <1>1, <1>2 DEF vars, database, locals, SerialInv, TrueElsewhere, TimelinesInv,
                    AwaitsEntry, mine
<1>3. CASE Ingest(h) \/ check(h)
  <2>1. PICK items : Start(h, items)
    BY <1>3 DEF Ingest, check
  <2>2. calm'[h]
    BY <1>1, <2>1 DEF Start
  <2>3. pc'[h] = "createIncident" => mine(h)' = NoIncident
    BY <1>3, FreshTarget
  <2>4. TrueElsewhere'
    <3>1. UNCHANGED <<status, results>> /\ pc[h] \notin Evaluating
      BY <2>1 DEF Start, database, At, Evaluating
    <3> QED BY <1>1, <3>1 DEF SerialInv, TrueElsewhere
  <2>5. TimelinesInv'
    BY <1>3, ReadsKeepTimelines
  <2> QED BY <2>2, <2>3, <2>4, <2>5 DEF SerialInv
<1>4. CASE Step(h)
  <2>1. calm'[h]
    BY <1>1, <1>4, SerialGoesOn
  <2>2. pc'[h] = "createIncident" => mine(h)' = NoIncident
    BY <1>4, FreshTarget
  <2>3. TrueElsewhere'
    BY <1>1, <1>4, StepKeepsTrue
  <2>4. TimelinesInv'
    BY <1>4, ReadsKeepTimelines, UpdateSeverityKeepsTimelines, ResolveKeepsTimelines,
       OpeningKeepsTimelines, AddUpdateKeepsTimelines DEF Step
  <2> QED BY <2>1, <2>2, <2>3, <2>4 DEF SerialInv
<1>5. ~Crash(h)
  BY DEF Crash
<1> QED BY <1>2, <1>3, <1>4, <1>5 DEF Next

\* And so the conjunction is inductive.
LEMMA OneAtATimeStep ==
    ASSUME OneAtATimeInv, NEW h, Handler = {h}, Faults = {}, [Next]_vars
    PROVE  OneAtATimeInv'
<1>1. OpenInv /\ CalmInv /\ RowsInv /\ TypeInv
  BY DEF OneAtATimeInv, OpenInv
<1>2. OpenInv'
  BY <1>1, OpenStep
<1>3. CalmInv'
  BY <1>1, <1>2, CalmStep DEF OpenInv
<1>4. RowsInv'
  BY <1>1, RowsStep
<1>5. SerialInv'
  BY <1>2, SerialStep
<1> QED BY <1>2, <1>3, <1>4, <1>5 DEF OneAtATimeInv

\* Handlers one at a time, statements without errors: the invariant.
THEOREM OneAtATimeInvariant ==
    ASSUME NEW h, Handler = {h}, Faults = {}
    PROVE  Spec => []OneAtATimeInv
<1>1. Init => OneAtATimeInv
  BY OpenInit, CalmInit, RowsInit, SerialInit DEF OneAtATimeInv
<1>2. OneAtATimeInv /\ [Next]_vars => OneAtATimeInv'
  BY OneAtATimeStep
<1> QED BY <1>1, <1>2, PTL DEF Spec

(* ----------------------------- the refinement -------------------------- *)

\* Nothing is owed at first.
LEMMA PromiseInit == Init => Promise!Init
<1> SUFFICES ASSUME Init PROVE Promise!Init
  OBVIOUS
<1>1. \A s \in Service : openSeverity(s) = "none" /\ dueOf(s) = FALSE
  BY DEF Init, openSeverity, Active, NoIncident, dueOf
<1> QED BY <1>1 DEF Init, Promise!Init

\* Every step is a step of the promise, or one it does not see.
LEMMA PromiseStep ==
    ASSUME OneAtATimeInv, NEW h, Handler = {h}, Faults = {}, [Next]_vars
    PROVE  [Promise!Next]_Promise!vars
<1>1. h \in Handler /\ TypeInv
  BY DEF OneAtATimeInv, OpenInv
<1>2. CASE UNCHANGED vars
  <2>1. UNCHANGED status /\ DueStays(h)
    BY <1>2 DEF vars, database, locals, DueStays, OwedBy, StillOwedBy
  <2>2. \A s \in Service : OpenStays(s)
    BY <1>2, SameIncidentsSameOpen DEF vars, database
  <2> QED BY <2>1, <2>2, InvisibleStep
<1>3. CASE Ingest(h) \/ check(h) \/ StoreResult(h) \/ GetService(h) \/ Evaluate(h)
  BY <1>3, EvaluationIsInvisible
<1>4. CASE UpdateStatus(h)
  <2>1. current(h) \in Service
    BY <1>1, <1>4, CurrentType DEF TypeInv, UpdateStatus, At, Evaluating
  <2> QED BY <1>4, <2>1, UpdateStatusObserves DEF Promise!Next
<1>5. CASE \/ handleFailure(h) \/ handleRecovery(h)
           \/ UpdateSeverity(h) \/ LinkService(h) \/ Resolve(h)
  <2>1. this(h).service \in Service
    BY <1>1, <1>5, HeadAndTail
       DEF handleFailure, handleRecovery, UpdateSeverity, LinkService, Resolve, At,
           Processing, Working
  <2>2. PICK s \in Service : s = this(h).service
    BY <2>1
  <2>3. Promise!Settle(s) \/ UNCHANGED Promise!vars
    BY <1>5, <2>2, HandleFailureSettles, HandleRecoverySettles, UpdateSeveritySettles,
       LinkServiceSettles, ResolveSettles
  <2> QED BY <2>3 DEF Promise!Next
<1>6. CASE Create(h)
  BY <1>6, CreateIsInvisible
<1>7. CASE AddUpdate(h)
  BY <1>7, AddUpdateIsInvisible
<1>8. ~Crash(h)
  BY DEF Crash
<1> QED BY <1>1, <1>2, <1>3, <1>4, <1>5, <1>6, <1>7, <1>8 DEF Next, Step

\* Handlers that run one at a time, without errors, keep the promise of
\* IncidentPromise: the safety part of KeepsPromise.
THEOREM PipelineKeepsPromise ==
    ASSUME NEW h, Handler = {h}, Faults = {}
    PROVE  Spec => Promise!Spec
<1>1. OneAtATimeInv /\ [Next]_vars => [Promise!Next]_Promise!vars
  BY PromiseStep
<1>2. Spec => []OneAtATimeInv
  BY OneAtATimeInvariant
<1> QED BY <1>1, <1>2, PromiseInit, PTL DEF Spec, Promise!Spec

\* The theorems of the promise, read over the pipeline's state.
Kept == INSTANCE IncidentPromiseProofs WITH
    incident <- [s \in Service |-> openSeverity(s)],
    due      <- [s \in Service |-> dueOf(s)]

\* The two instances of the promise are the same.
LEMMA PromiseIsKept ==
    /\ Promise!Init => Kept!Init
    /\ [Promise!Next]_Promise!vars => [Kept!Next]_Kept!vars
BY DEF Promise!Init, Kept!Init, Promise!vars, Kept!vars, Promise!Next, Kept!Next,
       Promise!Observe, Kept!Observe, Promise!Settle, Kept!Settle,
       Promise!ServiceStatus, Kept!ServiceStatus, Promise!Settled, Kept!Settled,
       Promise!isIncidentStatus, Kept!isIncidentStatus,
       Promise!severityRank, Kept!severityRank,
       Promise!severityFromStatus, Kept!severityFromStatus

\* Between handlers nothing is owed, and settled is what a visitor sees.
LEMMA SettledIsSeen ==
    ASSUME NEW h, Handler = {h}, OneAtATimeInv, Kept!SettledIsConsistent
    PROVE  PageTellsTheTruth
<1> SUFFICES ASSUME Quiet, NEW s \in Service
             PROVE  /\ results[s] # <<>> => status[s] = determineStatus(results[s])
                    /\ IF isIncidentStatus(status[s])
                       THEN \E i \in Stamp :
                               /\ Active(s) = {i}
                               /\ severityRank(incidents[i].severity)
                                     >= severityRank(severityFromStatus(status[s]))
                       ELSE Active(s) = {}
  BY DEF PageTellsTheTruth
<1>1. OpenInv /\ CalmInv /\ SerialInv /\ h \in Handler /\ pc[h] = "idle"
  BY DEF OneAtATimeInv, Quiet, At
<1>2. results[s] # <<>> => status[s] = determineStatus(results[s])
  BY <1>1 DEF SerialInv, TrueElsewhere, Evaluating, TrueStatus
<1>3. ~dueOf(s)
  BY <1>1 DEF CalmInv, dueOf
<1>4. IF isIncidentStatus(status[s])
      THEN severityRank(openSeverity(s)) >= severityRank(severityFromStatus(status[s]))
      ELSE openSeverity(s) = "none"
  BY <1>3 DEF Kept!SettledIsConsistent, Kept!isIncidentStatus, isIncidentStatus,
              Kept!severityRank, severityRank, Kept!severityFromStatus, severityFromStatus
<1>5. CASE isIncidentStatus(status[s])
  <2>1. Active(s) # {}
    BY <1>1, <1>4, <1>5, OpenSeverityIs DEF severityRank, severityFromStatus
  <2>2. PICK i \in Active(s) : TRUE
    BY <2>1
  <2>3. i \in Stamp /\ openSeverity(s) = incidents[i].severity
    BY <1>1, <2>2, OpenSeverityIs DEF Active
  <2>4. Active(s) = {i}
    BY <1>1, <2>2, OneActive
  <2> QED BY <1>2, <1>4, <1>5, <2>3, <2>4
<1>6. CASE ~isIncidentStatus(status[s])
  <2>1. ASSUME NEW i \in Active(s) PROVE FALSE
    <3>1. incidents[i].severity \in Severity /\ openSeverity(s) = incidents[i].severity
      BY <1>1, <2>1, OpenSeverityIs DEF Active, OpenInv, TypeInv, SharedOK, Incident
    <3> QED BY <1>4, <1>6, <3>1 DEF Severity
  <2> QED BY <1>2, <1>6, <2>1
<1> QED BY <1>5, <1>6

\* Between two handlers the public page is right.
THEOREM PageIsRight ==
    ASSUME NEW h, Handler = {h}, Faults = {}
    PROVE  Spec => []PageTellsTheTruth
<1>1. Spec => Promise!Spec
  BY PipelineKeepsPromise
<1>2. Promise!Spec => Kept!Spec
  BY PromiseIsKept, PTL DEF Promise!Spec, Kept!Spec
<1>3. Kept!Spec => []Kept!SettledIsConsistent
  BY Kept!SettledConsistency
<1>4. Spec => []OneAtATimeInv
  BY OneAtATimeInvariant
<1>5. OneAtATimeInv /\ Kept!SettledIsConsistent => PageTellsTheTruth
  BY SettledIsSeen
<1> QED BY <1>1, <1>2, <1>3, <1>4, <1>5, PTL

\* The timeline a visitor reads between two handlers is complete.
THEOREM TimelinesAreComplete ==
    ASSUME NEW h, Handler = {h}, Faults = {}
    PROVE  Spec => []TimelineIsComplete
<1>1. OneAtATimeInv => TimelineIsComplete
  BY DEF OneAtATimeInv, SerialInv, TimelinesInv, TimelineIsComplete, Quiet, At,
         AwaitsEntry, Complete
<1>2. Spec => []OneAtATimeInv
  BY OneAtATimeInvariant
<1> QED BY <1>1, <1>2, PTL
=============================================================================
