----------------------- MODULE IncidentPromiseProofs -----------------------
(***************************************************************************)
(* What the promise of IncidentPromise implies, for every set of services. *)
(* Settled settles by the maximum of two ranks; the two lemmas say so.     *)
(***************************************************************************)
EXTENDS IncidentPromise, TLAPS

\* The incident after settling is a severity or none.
LEMMA SettledType ==
    ASSUME NEW open \in {"none"} \cup Severity, NEW st \in ServiceStatus
    PROVE  Settled(open, st) \in {"none"} \cup Severity
BY DEF Settled, Severity, severityFromStatus, isIncidentStatus, ServiceStatus

\* After settling an incident status the incident covers both that status and
\* the incident that was open; after any other status, no severity is lost.
LEMMA SettledCovers ==
    ASSUME NEW open \in {"none"} \cup Severity, NEW st \in ServiceStatus
    PROVE  /\ isIncidentStatus(st) =>
                 severityRank(Settled(open, st)) >= severityRank(severityFromStatus(st))
           /\ st = "operational" => Settled(open, st) = "none"
           /\ st # "operational" =>
                 severityRank(Settled(open, st)) >= severityRank(open)
BY DEF Settled, Severity, severityRank, severityFromStatus, isIncidentStatus,
       ServiceStatus

\* A service whose status is still unknown owes nothing and has no incident:
\* the strengthening that makes SettledIsConsistent inductive.
UnknownIsBlank ==
    \A s \in Service : status[s] = "unknown" => ~due[s] /\ incident[s] = "none"

PromiseInv == TypeOK /\ UnknownIsBlank /\ SettledIsConsistent

LEMMA PromiseInit == Init => PromiseInv
BY DEF Init, PromiseInv, TypeOK, UnknownIsBlank, SettledIsConsistent,
       ServiceStatus, isIncidentStatus

LEMMA ObservePreserves ==
    ASSUME PromiseInv, NEW s \in Service, Observe(s)
    PROVE  PromiseInv'
<1>1. PICK new \in ServiceStatus \ {"unknown", status[s]} :
          status' = [status EXCEPT ![s] = new]
    BY DEF Observe
<1>2. due' = [due EXCEPT ![s] = TRUE] /\ incident' = incident
    BY DEF Observe
<1>3. TypeOK'
    BY <1>1, <1>2 DEF PromiseInv, TypeOK
<1>4. UnknownIsBlank'
    BY <1>1, <1>2 DEF PromiseInv, UnknownIsBlank, TypeOK
<1>5. SettledIsConsistent'
    BY <1>1, <1>2 DEF PromiseInv, SettledIsConsistent, TypeOK
<1>6. QED
    BY <1>3, <1>4, <1>5 DEF PromiseInv

LEMMA SettlePreserves ==
    ASSUME PromiseInv, NEW s \in Service, Settle(s)
    PROVE  PromiseInv'
<1>1. /\ status' = status
      /\ due' = [due EXCEPT ![s] = FALSE]
      /\ incident' = [incident EXCEPT ![s] = Settled(incident[s], status[s])]
      /\ due[s]
    BY DEF Settle
<1>2. /\ incident[s] \in {"none"} \cup Severity
      /\ status[s] \in ServiceStatus /\ status[s] # "unknown"
    BY <1>1 DEF PromiseInv, TypeOK, UnknownIsBlank
<1>3. TypeOK'
    BY <1>1, <1>2, SettledType DEF PromiseInv, TypeOK
<1>4. UnknownIsBlank'
    BY <1>1, <1>2 DEF PromiseInv, UnknownIsBlank, TypeOK
<1>5. SettledIsConsistent'
    <2> SUFFICES ASSUME NEW t \in Service, ~due'[t]
                 PROVE  IF isIncidentStatus(status'[t])
                        THEN severityRank(incident'[t])
                               >= severityRank(severityFromStatus(status'[t]))
                        ELSE incident'[t] = "none"
        BY DEF SettledIsConsistent
    <2>1. CASE t = s
        <3>1. incident'[s] = Settled(incident[s], status[s]) /\ status'[s] = status[s]
            BY <1>1 DEF PromiseInv, TypeOK
        <3>2. ~isIncidentStatus(status[s]) => status[s] = "operational"
            BY <1>2 DEF isIncidentStatus, ServiceStatus
        <3>3. QED
            BY <1>2, <2>1, <3>1, <3>2, SettledCovers
    <2>2. CASE t # s
        <3>1. incident'[t] = incident[t] /\ status'[t] = status[t] /\ ~due[t]
            BY <1>1, <2>2 DEF PromiseInv, TypeOK
        <3>2. QED
            BY <3>1 DEF PromiseInv, SettledIsConsistent
    <2>3. QED
        BY <2>1, <2>2
<1>6. QED
    BY <1>3, <1>4, <1>5 DEF PromiseInv

LEMMA PromiseStep == PromiseInv /\ [Next]_vars => PromiseInv'
<1> SUFFICES ASSUME PromiseInv, [Next]_vars PROVE PromiseInv'
    OBVIOUS
<1>1. CASE Next
    BY <1>1, ObservePreserves, SettlePreserves DEF Next
<1>2. CASE UNCHANGED vars
    BY <1>2 DEF vars, PromiseInv, TypeOK, UnknownIsBlank, SettledIsConsistent
<1>3. QED
    BY <1>1, <1>2

\* Once a change of status is accounted for, a service has an open incident, at
\* least as severe as its status, exactly when it is not operational.
THEOREM SettledConsistency == Spec => []SettledIsConsistent
<1>1. Spec => []PromiseInv
    BY PromiseInit, PromiseStep, PTL DEF Spec
<1>2. PromiseInv => SettledIsConsistent
    BY DEF PromiseInv
<1>3. QED
    BY <1>1, <1>2, PTL

\* An open incident never becomes less severe.
THEOREM SeverityRises == Spec => SeverityRisesWhileOpen
<1> DEFINE Rises == \A s \in Service :
                        \/ incident'[s] = "none"
                        \/ severityRank(incident'[s]) >= severityRank(incident[s])
<1>1. Spec => []PromiseInv
    BY PromiseInit, PromiseStep, PTL DEF Spec
<1>2. PromiseInv /\ [Next]_vars => [Rises]_vars
    <2> SUFFICES ASSUME PromiseInv, Next, NEW t \in Service
                 PROVE  \/ incident'[t] = "none"
                        \/ severityRank(incident'[t]) >= severityRank(incident[t])
        OBVIOUS
    <2>0. incident[t] \in {"none"} \cup Severity /\ severityRank(incident[t]) \in Nat
        BY DEF PromiseInv, TypeOK, severityRank
    <2>1. CASE incident'[t] = incident[t]
        BY <2>0, <2>1
    <2>2. CASE incident'[t] # incident[t]
        <3>1. Settle(t)
            BY <2>2 DEF Next, Observe, Settle, PromiseInv, TypeOK
        <3>2. incident'[t] = Settled(incident[t], status[t])
            BY <3>1 DEF Settle, PromiseInv, TypeOK
        <3>3. status[t] \in ServiceStatus
            BY DEF PromiseInv, TypeOK
        <3>4. QED
            BY <2>0, <3>2, <3>3, SettledCovers
    <2>3. QED
        BY <2>1, <2>2
<1>3. Spec => [][Rises]_vars
    BY <1>1, <1>2, PTL DEF Spec
<1>4. QED
    BY <1>3 DEF SeverityRisesWhileOpen
=============================================================================
