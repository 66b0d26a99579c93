-------------------------- MODULE StatusPageProofs -------------------------
(***************************************************************************)
(* What the pages show of any number of services.                          *)
(***************************************************************************)
EXTENDS StatusPage, FiniteSetTheorems, TLAPS

Promised == INSTANCE IncidentPromiseProofs

AnswerType ==
    [at : {"asked", "services", "incidents", "shown"}, found : BOOLEAN, whole : BOOLEAN,
     services : SUBSET Service, st : [Service -> ServiceStatus],
     open : [Service -> {"none"} \cup Severity]]

\* What has been read of a service that did not change, or move, is still so, ...
ReadIsCurrent ==
    /\ changed \subseteq moved
    /\ answer.at \in {"services", "incidents"} =>
            \A s \in Service \ changed :
                answer.st[s] = status[s] /\ (s \in registered => s \in answer.services)
    /\ answer.at # "shown" => \A s \in Service \ moved : ~due[s]
    /\ answer.at = "incidents" /\ answer.whole =>
            \A s \in Service \ moved : answer.open[s] = incident[s]

\* ... so what is listed agrees with the rows from the moment it is read.
Agrees(a) ==
    \A s \in Service \ moved :
        IF isIncidentStatus(a.st[s])
        THEN severityRank(a.open[s]) >= severityRank(severityFromStatus(a.st[s]))
        ELSE a.open[s] = "none"

PageInv ==
    /\ Promised!PromiseInv
    /\ answer \in AnswerType /\ moved \in SUBSET Service /\ registered \in SUBSET Service
    /\ ReadIsCurrent
    /\ answer.at \in {"incidents", "shown"} /\ answer.whole => Agrees(answer)

(* The words of the pipeline mean the same wherever they are used.          *)
LEMMA SameWords ==
  /\ Pipeline!Init <=> Promised!Init
  /\ \A s \in Service : Pipeline!Observe(s) <=> Promised!Observe(s)
  /\ \A s \in Service : Pipeline!Settle(s) <=> Promised!Settle(s)
  BY DEF Pipeline!Init, Promised!Init, Pipeline!Observe, Promised!Observe,
         Pipeline!Settle, Promised!Settle, Pipeline!Settled, Promised!Settled,
         Pipeline!ServiceStatus, Promised!ServiceStatus,
         Pipeline!isIncidentStatus, Promised!isIncidentStatus,
         Pipeline!severityRank, Promised!severityRank,
         Pipeline!severityFromStatus, Promised!severityFromStatus

(* A step of the pipeline keeps what IncidentPromiseProofs proves of it.    *)
LEMMA PipelineStep ==
  ASSUME PageInv,
         \/ \E s \in Service : Pipeline!Observe(s) \/ Pipeline!Settle(s)
         \/ UNCHANGED pipeline
  PROVE  Promised!PromiseInv'
  <1>1. Promised!PromiseInv BY DEF PageInv
  <1>2. [Promised!Next]_(Promised!vars)
    BY SameWords DEF Promised!Next, Promised!vars, pipeline
  <1> QED BY <1>1, <1>2, Promised!PromiseStep

(* What a settled service's incident is, in this module's words.            *)
LEMMA SettledAgrees ==
  ASSUME PageInv
  PROVE  /\ status \in [Service -> ServiceStatus]
         /\ incident \in [Service -> {"none"} \cup Severity]
         /\ due \in [Service -> BOOLEAN]
         /\ \A s \in Service : ~due[s] =>
                IF isIncidentStatus(status[s])
                THEN severityRank(incident[s]) >= severityRank(severityFromStatus(status[s]))
                ELSE incident[s] = "none"
  BY DEF PageInv, Promised!PromiseInv, Promised!TypeOK, Promised!SettledIsConsistent,
         Promised!ServiceStatus, ServiceStatus, Promised!Severity, Severity,
         Promised!isIncidentStatus, isIncidentStatus, Promised!severityRank, severityRank,
         Promised!severityFromStatus, severityFromStatus

LEMMA InitPage == Init => PageInv
  <1> SUFFICES ASSUME Init PROVE PageInv OBVIOUS
  <1>1. Promised!PromiseInv BY SameWords, Promised!PromiseInit DEF Init
  <1>2. answer \in AnswerType /\ answer.at = "shown" /\ ~answer.whole
    BY DEF Init, Null, Asked, AnswerType, ServiceStatus
  <1>3. ReadIsCurrent BY <1>2 DEF Init, ReadIsCurrent
  <1> QED BY <1>1, <1>2, <1>3 DEF Init, PageInv

(* A step of the pipeline is noted as long as an answer is being built.     *)
LEMMA MoveKeeps ==
  ASSUME PageInv, NEW s \in Service, Moves(s), UNCHANGED answer, Promised!PromiseInv',
         \/ Changes(s)
         \/ UNCHANGED <<changed, status, registered>>,
         \A t \in Service \ {s} : /\ status'[t] = status[t] /\ incident'[t] = incident[t]
                                 /\ due'[t] = due[t] /\ (t \in registered' <=> t \in registered),
         registered' \in SUBSET Service
  PROVE  PageInv'
  <1>1. /\ moved \subseteq moved' /\ moved' \in SUBSET Service
        /\ answer.at # "shown" => s \in moved'
    BY DEF Moves, PageInv
  <1>2. /\ changed \subseteq changed' /\ changed' \subseteq moved'
        /\ answer.at # "shown" => s \in changed' \/ UNCHANGED <<status, registered>>
    BY <1>1 DEF Moves, Changes, PageInv, ReadIsCurrent
  <1>3. answer' \in AnswerType /\ registered' \in SUBSET Service BY DEF PageInv
  <1>4. ReadIsCurrent' BY <1>1, <1>2 DEF PageInv, ReadIsCurrent
  <1>5. (answer.at \in {"incidents", "shown"} /\ answer.whole => Agrees(answer))'
    BY <1>1 DEF PageInv, Agrees
  <1> QED BY <1>1, <1>3, <1>4, <1>5 DEF PageInv

LEMMA PipelineKeeps ==
  ASSUME PageInv, NEW s \in Service, Register(s) \/ Observe(s) \/ Settle(s)
  PROVE  PageInv'
  <1>0. registered \in SUBSET Service /\ status \in [Service -> ServiceStatus]
        /\ incident \in [Service -> {"none"} \cup Severity] /\ due \in [Service -> BOOLEAN]
    BY SettledAgrees DEF PageInv
  <1>1. CASE Register(s)
    <2>1. Promised!PromiseInv' BY <1>1, PipelineStep DEF Register
    <2> QED BY <1>0, <1>1, <2>1, MoveKeeps DEF Register, pipeline
  <1>2. CASE Observe(s)
    <2>1. Promised!PromiseInv' BY <1>2, PipelineStep DEF Observe
    <2> QED BY <1>0, <1>2, <2>1, MoveKeeps DEF Observe, Pipeline!Observe
  <1>3. CASE Settle(s)
    <2>1. Promised!PromiseInv' BY <1>3, PipelineStep DEF Settle
    <2> QED BY <1>0, <1>3, <2>1, MoveKeeps DEF Settle, Pipeline!Settle
  <1> QED BY <1>1, <1>2, <1>3

(* A step of the endpoint reads what is so of the services that do not move.*)
LEMMA EndpointKeeps ==
  ASSUME PageInv, getPublicStatus \/ Fails \/ ReadServices \/ ReadIncidents \/ Arrives
  PROVE  PageInv'
  <1>1. UNCHANGED <<status, incident, due, registered>>
    BY DEF getPublicStatus, Fails, ReadServices, ReadIncidents, Arrives, pipeline
  <1>2. Promised!PromiseInv' BY <1>1, PipelineStep DEF pipeline
  <1>3. /\ status \in [Service -> ServiceStatus] /\ due \in [Service -> BOOLEAN]
        /\ incident \in [Service -> {"none"} \cup Severity] /\ registered \in SUBSET Service
        /\ answer \in AnswerType /\ moved \in SUBSET Service
    BY SettledAgrees DEF PageInv
  <1>4. CASE getPublicStatus
    <2>1. /\ answer' \in AnswerType /\ answer'.at = "asked"
          /\ changed' = {} /\ moved' = {s \in Service : due[s]}
      BY <1>4 DEF getPublicStatus, Asked, AnswerType, ServiceStatus
    <2> QED BY <1>1, <1>2, <1>3, <2>1 DEF PageInv, ReadIsCurrent
  <1>5. CASE Fails
    <2>1. /\ answer' \in AnswerType /\ answer'.at = "shown" /\ ~answer'.whole
          /\ UNCHANGED <<changed, moved>>
      BY <1>5 DEF Fails, history, Null, Asked, AnswerType, ServiceStatus
    <2> QED BY <1>1, <1>2, <1>3, <2>1 DEF PageInv, ReadIsCurrent
  <1>6. CASE ReadServices
    <2>1. /\ answer' \in AnswerType /\ answer'.at = "services" /\ UNCHANGED <<changed, moved>>
          /\ answer'.st = status /\ answer'.services = registered /\ answer.at = "asked"
      BY <1>3, <1>6 DEF ReadServices, history, AnswerType
    <2>2. ReadIsCurrent' BY <1>1, <2>1 DEF PageInv, ReadIsCurrent
    <2> QED BY <1>1, <1>2, <1>3, <2>1, <2>2 DEF PageInv
  <1>7. CASE ReadIncidents
    <2>1. /\ answer' \in AnswerType /\ answer'.at = "incidents" /\ UNCHANGED <<changed, moved>>
          /\ answer'.st = answer.st /\ answer'.services = answer.services
          /\ answer'.whole => answer'.open = incident
          /\ answer.at = "services"
      BY <1>3, <1>7 DEF ReadIncidents, history, GetByOrgID, AnswerType
    <2>2. ReadIsCurrent' BY <1>1, <2>1 DEF PageInv, ReadIsCurrent
    <2>3. answer'.whole => Agrees(answer)'
      BY <1>1, <2>1, SettledAgrees DEF PageInv, ReadIsCurrent, Agrees
    <2> QED BY <1>1, <1>2, <1>3, <2>1, <2>2, <2>3 DEF PageInv
  <1>8. CASE Arrives
    <2>1. /\ answer' \in AnswerType /\ answer'.at = "shown" /\ UNCHANGED <<changed, moved>>
          /\ answer'.st = answer.st /\ answer'.open = answer.open
          /\ answer'.whole = answer.whole /\ answer.at = "incidents"
      BY <1>3, <1>8 DEF Arrives, history, AnswerType
    <2>2. ReadIsCurrent' BY <2>1 DEF PageInv, ReadIsCurrent
    <2>3. answer'.whole => Agrees(answer)' BY <2>1 DEF PageInv, Agrees
    <2> QED BY <1>1, <1>2, <1>3, <2>1, <2>2, <2>3 DEF PageInv
  <1> QED BY <1>4, <1>5, <1>6, <1>7, <1>8

LEMMA NextKeepsPage == PageInv /\ [Next]_vars => PageInv'
  <1> SUFFICES ASSUME PageInv, [Next]_vars PROVE PageInv' OBVIOUS
  <1>1. CASE UNCHANGED vars
    <2>1. Promised!PromiseInv' BY <1>1, PipelineStep DEF vars
    <2> QED BY <1>1, <2>1 DEF vars, pipeline, history, PageInv, ReadIsCurrent, Agrees
  <1>2. CASE Next BY <1>2, PipelineKeeps, EndpointKeeps DEF Next
  <1> QED BY <1>1, <1>2

(* For any number of services: rows and incident cards of an answer whose   *)
(* incidents could be read agree on every service that did not move.        *)
THEOREM PagesAgree == Spec => []PageAgreesWhenCalm
  <1>1. PageInv => PageAgreesWhenCalm
    <2> SUFFICES ASSUME PageInv, Shown, answer.whole, NEW s \in answer.services \ moved
                 PROVE  IF isIncidentStatus(ServiceRow(answer, s))
                        THEN /\ s \in IncidentCards(answer)
                             /\ severityRank(answer.open[s])
                                    >= severityRank(severityFromStatus(ServiceRow(answer, s)))
                        ELSE s \notin IncidentCards(answer)
      BY DEF PageAgreesWhenCalm
    <2>1. s \in Service /\ answer.found /\ answer.st[s] \in ServiceStatus
      BY DEF PageInv, AnswerType, Shown
    <2>2. IF isIncidentStatus(answer.st[s])
          THEN severityRank(answer.open[s]) >= severityRank(severityFromStatus(answer.st[s]))
          ELSE answer.open[s] = "none"
      BY <2>1 DEF PageInv, Agrees, Shown
    <2>3. isIncidentStatus(answer.st[s]) =>
            ~(severityRank("none") >= severityRank(severityFromStatus(answer.st[s])))
      BY <2>1 DEF isIncidentStatus, severityRank, severityFromStatus
    <2>4. ServiceRow(answer, s) = answer.st[s] BY <2>1 DEF ServiceRow
    <2> QED BY <2>1, <2>2, <2>3, <2>4 DEF IncidentCards
  <1> QED BY InitPage, NextKeepsPage, <1>1, PTL DEF Spec

(* A set of services is counted as none exactly when it is empty.           *)
LEMMA Counted ==
  ASSUME NEW a, a.services \in SUBSET Service, NEW sts
  PROVE  /\ Count(a, sts) \in Nat
         /\ Count(a, sts) > 0 <=> \E s \in a.services : a.found /\ a.st[s] \in sts
  <1> DEFINE C == {s \in a.services : a.found /\ a.st[s] \in sts}
  <1>1. IsFiniteSet(C) BY ServicesAssumption, FS_Subset
  <1>2. Cardinality(C) \in Nat /\ (Cardinality(C) = 0 <=> C = {})
    BY <1>1, FS_CardinalityType, FS_EmptySet
  <1> QED BY <1>2 DEF Count

(* For any number of services and any answer: the banner says what the      *)
(* cards count.                                                             *)
THEOREM BannerIsTheWorst == Spec => []BannerTellsTheWorst
  <1>1. PageInv => BannerTellsTheWorst
    <2> SUFFICES ASSUME PageInv, Shown PROVE BannerTellsTheWorst
      BY DEF BannerTellsTheWorst
    <2>1. answer.services \in SUBSET Service /\ answer.found BY DEF PageInv, AnswerType, Shown
    <2>2. \A sts : Count(answer, sts) \in Nat /\
                   (Count(answer, sts) > 0 <=> \E x \in sts : x \in Statuses(answer))
      BY <2>1, Counted DEF Statuses
    <2> QED BY <2>1, <2>2
            DEF BannerTellsTheWorst, StatusBanner, StatusPill, StatCards, overallStatus
  <1> QED BY InitPage, NextKeepsPage, <1>1, PTL DEF Spec

(* For any number of services: no all-clear covers a service that is down   *)
(* and whose row has not changed since the page was asked for, whichever    *)
(* read failed.                                                             *)
THEOREM NeverAFalseAllClear == Spec => NoFalseAllClear
  <1>1. ASSUME PageInv, [Next]_vars, answer.at # "shown", answer'.at = "shown",
               StatusBanner(answer') = "operational", NEW s \in registered \ changed
        PROVE  ~isIncidentStatus(status[s])
    <2>1. answer'.found BY <1>1 DEF StatusBanner
    <2>2. Arrives
      <3>1. ~UNCHANGED answer BY <1>1
      <3>2. ~getPublicStatus BY <1>1 DEF getPublicStatus
      <3>3. ~Fails BY <2>1 DEF Fails, Null, Asked
      <3>4. ~ReadServices /\ ~ReadIncidents
        BY <1>1 DEF ReadServices, ReadIncidents, PageInv, AnswerType
      <3> QED
        BY <1>1, <3>1, <3>2, <3>3, <3>4 DEF Next, vars, Register, Observe, Settle
    <2>3. /\ answer.at = "incidents" /\ answer'.found
          /\ answer'.services = answer.services /\ answer'.st = answer.st
      BY <1>1, <2>2 DEF Arrives, PageInv, AnswerType
    <2>4. s \in answer.services /\ answer.st[s] = status[s]
      BY <1>1, <2>3 DEF PageInv, ReadIsCurrent
    <2>5. status[s] \in Statuses(answer') BY <2>3, <2>4 DEF Statuses
    <2> QED BY <1>1, <2>1, <2>5 DEF StatusBanner, overallStatus, isIncidentStatus
  <1>2. PageInv /\ [Next]_vars =>
            [ answer.at # "shown" /\ answer'.at = "shown"
              /\ StatusBanner(answer') = "operational" =>
                 \A s \in registered \ changed : ~isIncidentStatus(status[s]) ]_vars
    BY <1>1
  <1> QED BY InitPage, NextKeepsPage, <1>2, PTL DEF Spec, NoFalseAllClear
=============================================================================
