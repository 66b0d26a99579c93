------------------------ MODULE MonitorWorkerProofs ------------------------
(***************************************************************************)
(* What the schedule guarantees for every set of services and probers and  *)
(* every interval, time-out, period and budget.                            *)
(***************************************************************************)
EXTENDS MonitorWorker, FiniteSetTheorems, WellFoundedInduction, TLAPS

ProbeState == {"none", "waiting", "answered", "gaveUp"}

Shape ==
    /\ age \in [Service -> Nat]
    /\ pc \in [Prober -> {"idle", "query", "round", "done", "stopped"}]
    /\ probe \in [Prober -> [Service -> ProbeState]]
    /\ silent \in [Prober -> [Service -> Nat]]
    /\ left \in [Prober -> Int]
    /\ ownAge \in [Prober -> [Service -> Nat]]

\* Goroutines run during a round only, ...
RoundsOnly == \A p \in Prober : pc[p] # "round" => probe[p] = NoProbes

\* ... for services whose last result, anyone's and so the prober's own, is an
\* interval old; ages stop counting there.
DueWhenProbed ==
    \A p \in Prober, s \in Service :
        /\ age[s] <= ownAge[p][s] /\ ownAge[p][s] <= Interval[s]
        /\ probe[p][s] # "none" => ownAge[p][s] = Interval[s]

\* A probe is only given up at its time-out or with the prober's context.
GaveUpForAReason ==
    \A p \in Prober, s \in Service :
        probe[p][s] = "gaveUp" => silent[p][s] = Limit(s) \/ Cancelled(p)

ScheduleInv == Shape /\ RoundsOnly /\ DueWhenProbed /\ GaveUpForAReason

USE DEF Prober, Sound, ProbeState

(* Changing one entry of a table of tables keeps its type.                  *)
LEMMA EntryType ==
  ASSUME NEW P, NEW S, NEW V, NEW f \in [P -> [S -> V]],
         NEW p \in P, NEW s \in S, NEW v \in V
  PROVE  /\ [f EXCEPT ![p][s] = v] \in [P -> [S -> V]]
         /\ [f EXCEPT ![p][s] = v][p][s] = v
         /\ \A q \in P, t \in S :
              (q # p \/ t # s) => [f EXCEPT ![p][s] = v][q][t] = f[q][t]
  <1>1. [f[p] EXCEPT ![s] = v] \in [S -> V] OBVIOUS
  <1>2. [f EXCEPT ![p][s] = v] = [f EXCEPT ![p] = [f[p] EXCEPT ![s] = v]] OBVIOUS
  <1> QED BY <1>1, <1>2

(* The schedule's invariant holds at the start, when every service is due.  *)
LEMMA InitSchedule == Init => ScheduleInv
  BY WorkerAssumption
     DEF Init, ScheduleInv, Shape, RoundsOnly, DueWhenProbed, GaveUpForAReason,
         NoProbes, Lifetime

(* Asking for the due services keeps it: what is probed is an interval old. *)
LEMMA QueryKeeps ==
  ASSUME ScheduleInv, NEW p \in Prober, Query(p)
  PROVE  ScheduleInv'
  <1> USE DEF ScheduleInv, Query
  <1>1. CASE pc' = [pc EXCEPT ![p] = "done"] /\ probe' = probe
    BY <1>1 DEF Shape, RoundsOnly, DueWhenProbed, GaveUpForAReason, Cancelled, Limit
  <1>2. CASE /\ pc' = [pc EXCEPT ![p] = "round"]
             /\ probe' = [probe EXCEPT ![p] =
                    [s \in Service |-> IF s \in GetDueForMonitoring \cap Sound
                                       THEN "waiting" ELSE "none"]]
    <2>1. Shape' BY <1>2 DEF Shape
    <2>2. RoundsOnly' BY <1>2 DEF Shape, RoundsOnly
    <2>3. DueWhenProbed'
      <3> SUFFICES ASSUME NEW q \in Prober, NEW s \in Service
                   PROVE  /\ age[s] <= ownAge[q][s] /\ ownAge[q][s] <= Interval[s]
                          /\ probe'[q][s] # "none" => ownAge[q][s] = Interval[s]
        BY DEF DueWhenProbed
      <3>1. CASE q = p
        <4>1. probe'[q][s] # "none" => age[s] >= Interval[s]
          BY <1>2, <3>1 DEF Shape, GetDueForMonitoring, Due
        <4>2. {age[s], ownAge[q][s], Interval[s]} \subseteq Nat
          BY WorkerAssumption DEF Shape
        <4> QED BY <4>1, <4>2 DEF DueWhenProbed
      <3>2. CASE q # p
        BY <1>2, <3>2 DEF Shape, DueWhenProbed
      <3> QED BY <3>1, <3>2
    <2>4. GaveUpForAReason' BY <1>2 DEF Shape, GaveUpForAReason, Cancelled, Limit
    <2> QED BY <2>1, <2>2, <2>3, <2>4
  <1> QED BY <1>1, <1>2

(* A probe that ends keeps it: it gives up for a reason.                    *)
LEMMA ProbeKeeps ==
  ASSUME ScheduleInv, NEW p \in Prober, NEW s \in Service, GiveUp(p, s) \/ Answer(p, s)
  PROVE  ScheduleInv'
  <1> USE DEF ScheduleInv
  <1>1. UNCHANGED <<pc, age, silent, left, ownAge>> /\ probe[p][s] = "waiting"
    BY DEF GiveUp, Answer, Clocks
  <1>2. PICK v \in {"answered", "gaveUp"} :
            /\ probe' = [probe EXCEPT ![p][s] = v]
            /\ v = "gaveUp" => TimedOut(p, s)
    BY DEF GiveUp, Answer
  <1>3. /\ probe' \in [Prober -> [Service -> ProbeState]]
        /\ probe'[p][s] = v
        /\ \A q \in Prober, t \in Service :
             (q # p \/ t # s) => probe'[q][t] = probe[q][t]
    <2>1. v \in ProbeState OBVIOUS
    <2> QED BY <1>2, <2>1, EntryType DEF Shape
  <1>4. Shape' BY <1>1, <1>3 DEF Shape
  <1>5. RoundsOnly'
    <2>1. pc[p] = "round" BY <1>1 DEF RoundsOnly, NoProbes
    <2>2. \A q \in Prober : q # p => probe'[q] = probe[q] BY <1>2 DEF Shape
    <2> QED BY <1>1, <2>1, <2>2 DEF RoundsOnly
  <1>6. DueWhenProbed' BY <1>1, <1>3 DEF DueWhenProbed
  <1>7. GaveUpForAReason'
    <2>1. silent[p][s] = Limit(s) \/ Cancelled(p) \/ v # "gaveUp"
      BY <1>2 DEF TimedOut
    <2> QED BY <1>1, <1>3, <2>1 DEF GaveUpForAReason, Cancelled, Limit
  <1> QED BY <1>4, <1>5, <1>6, <1>7

(* Storing a result keeps it: the age starts over for everyone.             *)
LEMMA StoreKeeps ==
  ASSUME ScheduleInv, NEW p \in Prober, NEW s \in Service, Store(p, s)
  PROVE  ScheduleInv'
  <1> USE DEF ScheduleInv, Store
  <1>1. Shape'
    <2>1. age' \in [Service -> Nat] BY DEF Shape
    <2>2. probe' \in [Prober -> [Service -> ProbeState]] BY DEF Shape
    <2>3. silent' \in [Prober -> [Service -> Nat]] BY DEF Shape
    <2>4. ownAge' \in [Prober -> [Service -> Nat]]
      <3>1. CASE ownAge' = ownAge BY <3>1 DEF Shape
      <3>2. CASE ownAge' = [ownAge EXCEPT ![p][s] = 0]
        <4>1. 0 \in Nat /\ ownAge \in [Prober -> [Service -> Nat]] BY DEF Shape
        <4> QED BY <3>2, <4>1, EntryType
      <3> QED BY <3>1, <3>2
    <2> QED BY <2>1, <2>2, <2>3, <2>4 DEF Shape
  <1>2. RoundsOnly' BY DEF Shape, RoundsOnly, NoProbes
  <1>3. DueWhenProbed' BY WorkerAssumption DEF Shape, DueWhenProbed
  <1>4. GaveUpForAReason' BY DEF Shape, GaveUpForAReason, Cancelled, Limit
  <1> QED BY <1>1, <1>2, <1>3, <1>4

(* The steps of a prober's caller keep it: no goroutine is running.         *)
LEMMA CallerKeeps ==
  ASSUME ScheduleInv, NEW p \in Prober,
         \/ RoundEnds(p) \/ Select(p) \/ Signal(p)
         \/ CronHandler(p) \/ CronFails(p) \/ CronReturns(p)
  PROVE  ScheduleInv'
  <1> USE DEF ScheduleInv, Shape, RoundsOnly, NoProbes, DueWhenProbed,
              GaveUpForAReason, Cancelled, Limit, Clocks
  <1>1. CASE RoundEnds(p) BY <1>1 DEF RoundEnds
  <1>2. CASE Select(p) BY <1>2 DEF Select
  <1>3. CASE Signal(p) BY <1>3 DEF Signal
  <1>4. CASE CronHandler(p) BY <1>4 DEF CronHandler
  <1>5. CASE CronFails(p) BY <1>5 DEF CronFails
  <1>6. CASE CronReturns(p) BY <1>6, WorkerAssumption DEF CronReturns
  <1> QED BY <1>1, <1>2, <1>3, <1>4, <1>5, <1>6

(* A restart keeps it: the goroutines of the old process are gone.          *)
LEMMA BootKeeps ==
  ASSUME ScheduleInv, NEW p \in Prober, Boot(p)
  PROVE  ScheduleInv'
  BY WorkerAssumption
     DEF Boot, Lifetime, ScheduleInv, Shape, RoundsOnly, NoProbes, DueWhenProbed,
         GaveUpForAReason, Cancelled, Limit

(* Time keeps it: it waits for what is given up, and all ages grow alike.   *)
LEMMA PassKeeps ==
  ASSUME ScheduleInv, Pass
  PROVE  ScheduleInv'
  <1> USE WorkerAssumption DEF ScheduleInv, Pass
  <1>1. Shape' BY DEF Shape, Up, Limit
  <1>2. RoundsOnly' BY DEF RoundsOnly
  <1>3. DueWhenProbed' BY DEF Shape, DueWhenProbed, Up
  <1>4. GaveUpForAReason' BY DEF GaveUpForAReason, Urgent
  <1> QED BY <1>1, <1>2, <1>3, <1>4

(* The invariant of the schedule, from which the theorems below follow.     *)
LEMMA ScheduleInvariant == Spec => []ScheduleInv
  <1>1. ScheduleInv /\ [Next]_vars => ScheduleInv'
    <2> SUFFICES ASSUME ScheduleInv, [Next]_vars PROVE ScheduleInv'
      OBVIOUS
    <2>1. CASE Pass BY <2>1, PassKeeps
    <2>2. CASE \E p \in Prober : Step(p) \/ Environment(p)
      BY <2>2, QueryKeeps, ProbeKeeps, StoreKeeps, CallerKeeps, BootKeeps
         DEF Step, Environment
    <2>3. CASE UNCHANGED vars
      BY <2>3 DEF vars, ScheduleInv, Shape, RoundsOnly, DueWhenProbed,
                  GaveUpForAReason, Cancelled, Limit
    <2> QED BY <2>1, <2>2, <2>3 DEF Next
  <1> QED BY <1>1, InitSchedule, PTL DEF Spec

(* A prober never stores two results of a service closer together than its   *)
(* check_interval, whatever the other probers do.                            *)
THEOREM ProbesAreSpaced == Spec => SpacedOut
  <1>1. ScheduleInv =>
          \A p \in Prober, s \in Service :
            (probe[p][s] # "none" /\ ownAge'[p][s] = 0) => ownAge[p][s] >= Interval[s]
    BY WorkerAssumption DEF ScheduleInv, DueWhenProbed
  <1> QED BY <1>1, ScheduleInvariant, PTL DEF SpacedOut

(* A probe that was given up early leaves no result: it was cancelled, and a *)
(* cancelled context refuses the INSERT.                                     *)
LEMMA EarlyLeavesNothing ==
  ASSUME ScheduleInv, [Next]_vars, NEW p \in Prober, NEW s \in Service,
         probe[p][s] = "gaveUp", silent[p][s] < Limit(s), probe'[p][s] = "none"
  PROVE  age'[s] = age[s]
  <1>1. Cancelled(p)
    <2>1. silent[p][s] # Limit(s)
      <3>1. silent[p][s] \in Nat /\ Limit(s) \in Int
        BY WorkerAssumption DEF ScheduleInv, Shape, Limit
      <3> QED BY <3>1
    <2> QED BY <2>1 DEF ScheduleInv, GaveUpForAReason
  <1>2. CASE Pass
    BY <1>2 DEF Pass, Urgent
  <1>3. ASSUME NEW q \in Prober, NEW t \in Service, Store(q, t) PROVE age'[s] = age[s]
    <2>1. CASE q = p /\ t = s
      BY <1>1, <1>3, <2>1 DEF Store, Result
    <2>2. CASE ~(q = p /\ t = s)
      BY <1>3, <2>2 DEF Store, ScheduleInv, Shape
    <2> QED BY <2>1, <2>2
  <1>4. ASSUME NEW q \in Prober, Environment(q) PROVE age' = age
    BY <1>4 DEF Environment, Answer, Signal, Boot, CronHandler, CronFails, Clocks
  <1>5. ASSUME NEW q \in Prober,
               Query(q) \/ RoundEnds(q) \/ Select(q) \/ CronReturns(q)
                   \/ \E t \in Service : GiveUp(q, t)
        PROVE  age' = age
    BY <1>5 DEF Query, RoundEnds, Select, CronReturns, GiveUp, Clocks
  <1>6. CASE UNCHANGED vars
    BY <1>6 DEF vars
  <1> QED BY <1>2, <1>3, <1>4, <1>5, <1>6 DEF Next, Step

(* A service is not reported down because its prober was shut down or ran    *)
(* out of time.                                                              *)
THEOREM CutOffsAreSilent == Spec => NoFalseAlarm
  <1>1. ScheduleInv /\ [Next]_vars =>
          \A p \in Prober, s \in Service :
            (probe[p][s] = "gaveUp" /\ silent[p][s] < Limit(s) /\ probe'[p][s] = "none")
                => age'[s] = age[s]
    BY EarlyLeavesNothing
  <1> QED BY <1>1, ScheduleInvariant, PTL DEF Spec, NoFalseAlarm

(* ------------------------------ time-outs ------------------------------ *)

(* Every probe has a time-out, DefaultTimeout if the service names none.     *)
LEMMA LimitType ==
  ASSUME NEW s \in Service
  PROVE  Limit(s) \in Nat \ {0}
  BY WorkerAssumption DEF Limit

(* One of the time-outs or the ticker's period is the longest of them, for   *)
(* there are finitely many services: no round takes longer.                  *)
LEMMA HoldIsLongest ==
  /\ Hold \in Nat \ {0} /\ Hold >= Period
  /\ \A s \in Service : Limit(s) <= Hold
  <1> DEFINE V == {Period} \cup {Limit(s) : s \in Service}
             n == Cardinality(Service)
  <1>1. n \in Nat /\ ExistsBijection(1 .. n, Service)
    BY WorkerAssumption, FS_CardinalityType
  <1>2. PICK f \in [1 .. n -> Service] : \A s \in Service : \E i \in 1 .. n : f[i] = s
    BY <1>1 DEF ExistsBijection, Bijection, Injection, Surjection
  <1> DEFINE Longest(k, m) == m \in V /\ m >= Period /\ \A i \in 1 .. k : Limit(f[i]) <= m
             S == {k \in 0 .. n : ~\E m : Longest(k, m)}
             less == {ss \in Nat \X Nat : ss[1] < ss[2]}
  <1>3. V \subseteq Nat \ {0} /\ Period \in V
    BY LimitType, WorkerAssumption
  <1>4. S = {}
    <2> SUFFICES ASSUME S # {} PROVE FALSE OBVIOUS
    <2>1. IsWellFoundedOn(less, Nat) BY NatLessThanWellFounded DEF OpToRel
    <2>2. S \in SUBSET Nat OBVIOUS
    <2>3. PICK x \in S : \A y \in S : ~(<<y, x>> \in less)
      <3> HIDE DEF S, less
      <3> QED BY <2>1, <2>2, WFMin
    <2>4. x # 0
      <3>1. Longest(0, Period) BY <1>3
      <3> QED BY <3>1
    <2>5. x - 1 \in 0 .. n /\ x \in 1 .. n BY <1>1, <2>4
    <2>6. x - 1 \notin S
      <3>1. x \in Nat /\ x - 1 \in Nat /\ x - 1 < x BY <2>5
      <3>2. <<x - 1, x>> \in less BY <3>1
      <3> HIDE DEF S, less
      <3> QED BY <2>3, <3>2
    <2>7. PICK m : Longest(x - 1, m) BY <2>5, <2>6
    <2>8. Limit(f[x]) \in V /\ Limit(f[x]) \in Nat BY <1>2, <2>5, LimitType
    <2>9. CASE Limit(f[x]) <= m
      <3>1. Longest(x, m)
        <4>1. \A i \in 1 .. x : i \in 1 .. x - 1 \/ i = x BY <2>5
        <4> QED BY <2>7, <2>9, <4>1
      <3> QED BY <3>1
    <2>10. CASE ~(Limit(f[x]) <= m)
      <3>1. m \in Nat /\ Period \in Nat BY <1>3, <2>7
      <3>2. Longest(x, Limit(f[x]))
        <4>1. \A i \in 1 .. x : i \in 1 .. x - 1 \/ i = x BY <2>5
        <4>2. \A i \in 1 .. x : Limit(f[i]) \in Nat
          <5> TAKE i \in 1 .. x
          <5>1. i \in 1 .. n BY <1>1, <2>5
          <5>2. f[i] \in Service BY <1>2, <5>1
          <5> QED BY <5>2, LimitType
        <4>3. \A i \in 1 .. x - 1 : Limit(f[i]) <= m BY <2>7
        <4>4. \A i \in 1 .. x : Limit(f[i]) <= Limit(f[x])
          <5> TAKE i \in 1 .. x
          <5>1. CASE i = x BY <2>8, <5>1
          <5>2. CASE i \in 1 .. x - 1
            <6>1. Limit(f[i]) <= m /\ Limit(f[i]) \in Nat BY <4>2, <4>3, <5>2
            <6> QED BY <2>8, <2>10, <3>1, <6>1
          <5> QED BY <4>1, <5>1, <5>2
        <4>5. Limit(f[x]) >= Period BY <2>7, <2>8, <2>10, <3>1
        <4> QED BY <2>8, <4>4, <4>5
      <3> QED BY <3>2
    <2> QED BY <2>9, <2>10
  <1>5. PICK m : Longest(n, m)
    <2>1. n \in 0 .. n BY <1>1
    <2> QED BY <1>4, <2>1
  <1>6. m \in V /\ m >= Period /\ \A s \in Service : m >= Limit(s)
    <2>1. m \in Nat BY <1>3, <1>5
    <2>2. \A s \in Service : Limit(s) <= m BY <1>2, <1>5
    <2>3. \A s \in Service : Limit(s) \in Nat BY LimitType
    <2>4. \A s \in Service : m >= Limit(s) BY <2>1, <2>2, <2>3
    <2> QED BY <1>5, <2>4
  <1>7. Hold \in V /\ Hold >= Period /\ \A s \in Service : Hold >= Limit(s)
    BY <1>6 DEF Hold
  <1>8. Hold \in Nat \ {0} BY <1>3, <1>7
  <1>9. \A s \in Service : Limit(s) <= Hold BY <1>7, <1>8, LimitType
  <1> QED BY <1>7, <1>8, <1>9

(* ------------------------ ranges of the variables ---------------------- *)

\* Ages, clocks and channels stay in their ranges; a round only waits while its
\* context is not cancelled, so what is left of it stays above zero.
Ranges ==
    /\ waiting \in [Sound -> Nat] /\ \A s \in Sound : waiting[s] <= Bound(s)
    /\ \A s \in Service : age[s] <= Interval[s]
    /\ \A p \in Prober, s \in Service : silent[p][s] <= Limit(s)
    /\ \A p \in Prober, s \in Service : probe[p][s] = "none" => silent[p][s] = 0
    /\ \A p \in Prober : left[p] \in 0 .. Lifetime(p)
    /\ tickIn \in [Server -> 1 .. Period] /\ tick \in [Server -> BOOLEAN]
    /\ pool \in [Cron -> {"none", "open", "broken"}]
    /\ \A p \in Cron : pc[p] # "stopped"
    /\ \A p \in Server : pc[p] # "idle" /\ (pc[p] = "stopped" => Cancelled(p))

(* What a result may be late is made of an interval, a hold and a time-out.  *)
LEMMA BoundType ==
  ASSUME NEW s \in Service
  PROVE  /\ Bound(s) \in Nat /\ Limit(s) \in Nat \ {0} /\ Interval[s] \in Nat
         /\ Bound(s) = Interval[s] + Hold + Limit(s) /\ Hold \in Nat \ {0}
  BY WorkerAssumption, LimitType, HoldIsLongest DEF Bound

(* Every context has some time left when it is made.                        *)
LEMMA LifetimeType ==
  ASSUME NEW p \in Prober
  PROVE  Lifetime(p) \in Nat \ {0}
  BY WorkerAssumption DEF Lifetime

(* All clocks are in their ranges at the start.                              *)
LEMMA InitRanges == Init => Ranges
  <1> SUFFICES ASSUME Init PROVE Ranges OBVIOUS
  <1>1. waiting \in [Sound -> Nat] /\ \A s \in Sound : waiting[s] <= Bound(s)
    BY WorkerAssumption, BoundType DEF Init
  <1>2. \A p \in Prober, s \in Service : silent[p][s] = 0 /\ silent[p][s] <= Limit(s)
    BY LimitType DEF Init
  <1>3. \A p \in Prober : left[p] \in 0 .. Lifetime(p)
    BY LifetimeType DEF Init
  <1>4. tickIn \in [Server -> 1 .. Period] /\ tick \in [Server -> BOOLEAN]
    BY WorkerAssumption DEF Init
  <1>5. pool \in [Cron -> {"none", "open", "broken"}]
    BY DEF Init
  <1>6. \A p \in Prober : pc[p] = IF p \in Server THEN "query" ELSE "idle"
    BY DEF Init
  <1>7. Server \cap Cron = {} BY WorkerAssumption
  <1>8. \A s \in Service : age[s] <= Interval[s]
    BY WorkerAssumption DEF Init
  <1> QED BY <1>1, <1>2, <1>3, <1>4, <1>5, <1>6, <1>7, <1>8 DEF Ranges

(* The query starts goroutines that have not waited yet.                     *)
LEMMA RangesQuery ==
  ASSUME ScheduleInv, Ranges, NEW p \in Prober, Query(p)
  PROVE  Ranges'
  <1>1. UNCHANGED <<age, silent, left, tickIn, tick, pool, ownAge>> BY DEF Query
  <1>2. pc' = [pc EXCEPT ![p] = pc'[p]] /\ pc'[p] \in {"round", "done"}
    BY DEF Query, ScheduleInv, Shape
  <1>3. waiting' = [s \in Sound |-> 0] \/ waiting' = waiting
    BY DEF Query
  <1>4. \A q \in Prober, s \in Service : silent[q][s] = 0 \/ (probe'[q][s] # "none")
    <2>1. \A s \in Service : silent[p][s] = 0
      <3>1. pc[p] = "query" BY DEF Query
      <3> QED BY <3>1 DEF Ranges, ScheduleInv, RoundsOnly, NoProbes
    <2>2. \A q \in Prober : q # p => probe'[q] = probe[q]
      BY DEF Query, ScheduleInv, Shape
    <2> QED BY <2>1, <2>2 DEF Ranges
  <1>5. waiting' \in [Sound -> Nat] /\ \A s \in Sound : waiting'[s] <= Bound(s)
    BY <1>3, BoundType DEF Ranges
  <1>6. \A q \in Prober : q # p => pc'[q] = pc[q]
    BY <1>2 DEF ScheduleInv, Shape
  <1> QED BY <1>1, <1>2, <1>4, <1>5, <1>6 DEF Ranges, Cancelled, Bound, Limit, Hold, Lifetime

(* The end of a probe stops no clock.                                        *)
LEMMA RangesProbe ==
  ASSUME ScheduleInv, Ranges, NEW p \in Prober, NEW s \in Service, GiveUp(p, s) \/ Answer(p, s)
  PROVE  Ranges'
  <1>1. UNCHANGED <<pc, tick, pool, age, silent, left, tickIn, waiting, ownAge>>
        /\ probe[p][s] = "waiting"
    BY DEF GiveUp, Answer, Clocks
  <1>2. \A q \in Prober, t \in Service : probe'[q][t] = "none" => probe[q][t] = "none"
    <2>1. PICK v \in {"answered", "gaveUp"} : probe' = [probe EXCEPT ![p][s] = v]
      BY DEF GiveUp, Answer
    <2>2. v \in ProbeState /\ probe \in [Prober -> [Service -> ProbeState]]
      BY DEF ScheduleInv, Shape
    <2> QED BY <2>1, <2>2, EntryType
  <1> QED BY <1>1, <1>2 DEF Ranges, Cancelled, Bound, Limit, Hold, Lifetime

(* Storing a result resets the clocks of one service.                        *)
LEMMA RangesStore ==
  ASSUME ScheduleInv, Ranges, NEW p \in Prober, NEW s \in Service, Store(p, s)
  PROVE  Ranges'
  <1>1. UNCHANGED <<pc, left, tickIn, tick, pool>> BY DEF Store
  <1>2. /\ silent \in [Prober -> [Service -> Nat]] /\ 0 \in Nat
        /\ probe \in [Prober -> [Service -> ProbeState]] /\ "none" \in ProbeState
        /\ silent' = [silent EXCEPT ![p][s] = 0] /\ probe' = [probe EXCEPT ![p][s] = "none"]
    BY DEF Store, ScheduleInv, Shape
  <1>3. \A q \in Prober, t \in Service :
          /\ silent'[q][t] = IF q = p /\ t = s THEN 0 ELSE silent[q][t]
          /\ probe'[q][t] = IF q = p /\ t = s THEN "none" ELSE probe[q][t]
    BY <1>2, EntryType
  <1>4. waiting' \in [Sound -> Nat] /\ \A t \in Sound : waiting'[t] <= Bound(t)
    <2>1. \A t \in Sound : waiting'[t] \in {0, waiting[t]}
      BY DEF Store, Ranges
    <2>2. waiting' \in [Sound -> Nat]
      <3>1. PICK b : waiting' = [waiting EXCEPT ![s] = IF b THEN 0 ELSE @] BY DEF Store
      <3> QED BY <3>1 DEF Ranges
    <2>3. \A t \in Sound : Bound(t) \in Nat /\ waiting[t] <= Bound(t)
      BY BoundType DEF Ranges
    <2> QED BY <2>1, <2>2, <2>3
  <1>5. \A q \in Prober, t \in Service :
          silent'[q][t] <= Limit(t) /\ (probe'[q][t] = "none" => silent'[q][t] = 0)
    BY <1>3, LimitType DEF Ranges
  <1>6. \A t \in Service : age'[t] <= Interval[t]
    <2>1. \A t \in Service : age'[t] \in {0, age[t]}
      BY DEF Store, ScheduleInv, Shape
    <2> QED BY <2>1, WorkerAssumption DEF Ranges
  <1> QED BY <1>1, <1>4, <1>5, <1>6 DEF Ranges, Cancelled, Bound, Limit, Hold, Lifetime

(* What starts, ends and cancels rounds touches contexts and channels only.  *)
LEMMA RangesCaller ==
  ASSUME ScheduleInv, Ranges, NEW p \in Prober,
         \/ RoundEnds(p) \/ Select(p) \/ Signal(p)
         \/ CronHandler(p) \/ CronFails(p) \/ CronReturns(p)
  PROVE  Ranges'
  <1>1. UNCHANGED <<age, silent, probe, waiting, tickIn>>
    BY DEF RoundEnds, Select, Signal, CronHandler, CronFails, CronReturns, Clocks
  <1>2. Server \cap Cron = {} BY WorkerAssumption
  <1>3. \A q \in Prober : left'[q] \in 0 .. Lifetime(q)
    <2> USE <1>2, LifetimeType DEF ScheduleInv, Shape, Ranges
    <2>1. CASE UNCHANGED left BY <2>1
    <2>2. CASE Signal(p) BY <2>2 DEF Signal
    <2>3. CASE CronReturns(p)
      <3>1. left' = [left EXCEPT ![p] = Budget] /\ Lifetime(p) = Budget
        BY <2>3 DEF CronReturns, Lifetime
      <3>2. Budget \in 0 .. Budget BY WorkerAssumption
      <3> QED BY <3>1, <3>2
    <2> QED BY <2>1, <2>2, <2>3 DEF RoundEnds, Select, CronHandler, CronFails, Clocks
  <1>4. tick' \in [Server -> BOOLEAN]
    BY DEF Ranges, RoundEnds, Select, Signal, CronHandler, CronFails, CronReturns, Clocks
  <1>5. pool' \in [Cron -> {"none", "open", "broken"}]
    BY DEF Ranges, RoundEnds, Select, Signal, CronHandler, CronFails, CronReturns, Clocks
  <1>6. \A q \in Cron : pc'[q] # "stopped"
    BY <1>2 DEF ScheduleInv, Shape, Ranges, RoundEnds, Select, Signal, CronHandler, CronFails,
                CronReturns
  <1>7. \A q \in Server : pc'[q] # "idle" /\ (pc'[q] = "stopped" => left'[q] = 0)
    BY <1>2 DEF ScheduleInv, Shape, Ranges, Cancelled, RoundEnds, Select, Signal, CronHandler,
                CronFails, CronReturns, Clocks
  <1> QED BY <1>1, <1>3, <1>4, <1>5, <1>6, <1>7 DEF Ranges, Cancelled, Bound, Limit, Hold,
                                                    Lifetime

(* A new server process starts its clocks afresh.                            *)
LEMMA RangesBoot ==
  ASSUME ScheduleInv, Ranges, NEW p \in Prober, Boot(p)
  PROVE  Ranges'
  <1>1. waiting' \in [Sound -> Nat] /\ \A t \in Sound : waiting'[t] <= Bound(t)
    BY BoundType DEF Boot
  <1>2. \A q \in Prober, t \in Service :
          silent'[q][t] <= Limit(t) /\ (probe'[q][t] = "none" => silent'[q][t] = 0)
    BY LimitType DEF Boot, Ranges, ScheduleInv, Shape
  <1>3. \A q \in Prober : left'[q] \in 0 .. Lifetime(q)
    BY LifetimeType DEF Boot, Ranges, ScheduleInv, Shape
  <1>4. /\ tickIn' \in [Server -> 1 .. Period] /\ tick' \in [Server -> BOOLEAN]
        /\ UNCHANGED <<age, pool>>
    BY WorkerAssumption DEF Boot, Ranges
  <1>5. /\ \A q \in Cron : pc'[q] # "stopped"
        /\ \A q \in Server : pc'[q] # "idle" /\ (pc'[q] = "stopped" => left'[q] = 0)
    BY WorkerAssumption DEF Boot, Ranges, ScheduleInv, Shape, Cancelled
  <1> QED BY <1>1, <1>2, <1>3, <1>4, <1>5 DEF Ranges, Cancelled, Bound, Limit, Hold, Lifetime

\* Time only passes while a cron instance that is at work waits for a probe.
LEMMA NotUrgent ==
  ASSUME ScheduleInv, Ranges, NEW p \in Prober, ~Urgent(p)
  PROVE  /\ pc[p] # "query" /\ (p \in Cron => pc[p] \in {"idle", "round"})
         /\ \A s \in Service : probe[p][s] \in {"none", "waiting"}
         /\ \A s \in Service : probe[p][s] = "waiting" =>
                silent[p][s] < Limit(s) /\ ~Cancelled(p)
         /\ pc[p] = "round" => \E s \in Service : probe[p][s] = "waiting"
         /\ (p \in Server /\ pc[p] = "done") => ~tick[p] /\ ~Cancelled(p)
  <1>1. /\ probe[p] \in [Service -> ProbeState] /\ pc[p] \in {"idle", "query", "round", "done", "stopped"}
        /\ \A s \in Service : silent[p][s] \in Nat /\ silent[p][s] <= Limit(s)
    BY DEF ScheduleInv, Shape, Ranges
  <1>2. \A s \in Service : probe[p][s] \in {"none", "waiting"}
    BY <1>1 DEF Urgent
  <1>3. \A s \in Service : probe[p][s] = "waiting" => silent[p][s] < Limit(s) /\ ~Cancelled(p)
    BY <1>1, LimitType DEF Urgent, TimedOut
  <1>4. pc[p] = "round" => \E s \in Service : probe[p][s] = "waiting"
    <2>1. pc[p] = "round" => probe[p] # NoProbes BY DEF Urgent
    <2> QED BY <1>1, <1>2, <2>1 DEF NoProbes
  <1>5. p \in Cron => pc[p] \in {"idle", "round"}
    BY <1>1 DEF Urgent, Ranges
  <1>6. (p \in Server /\ pc[p] = "done") => ~tick[p] /\ ~Cancelled(p)
    BY DEF Urgent
  <1> QED BY <1>2, <1>3, <1>4, <1>5, <1>6 DEF Urgent

(* Time stops counting at the ends of the ranges, and a cron instance whose  *)
(* budget is used up does something before time goes on.                     *)
LEMMA RangesPass ==
  ASSUME ScheduleInv, Ranges, Pass
  PROVE  Ranges'
  <1>1. \A p \in Prober : ~Urgent(p) BY DEF Pass
  <1>2. waiting' \in [Sound -> Nat] /\ \A t \in Sound : waiting'[t] <= Bound(t)
    BY BoundType DEF Pass, Ranges, Up
  <1>3. ASSUME NEW p \in Prober, NEW s \in Service
        PROVE  silent'[p][s] <= Limit(s) /\ (probe'[p][s] = "none" => silent'[p][s] = 0)
    <2>1. silent'[p][s] = (IF probe[p][s] = "waiting" THEN Up(silent[p][s], Limit(s)) ELSE 0)
          /\ probe' = probe
      BY DEF Pass
    <2>2. silent[p][s] \in Nat /\ silent[p][s] <= Limit(s) /\ Limit(s) \in Nat
      BY LimitType DEF ScheduleInv, Shape, Ranges
    <2> QED BY <2>1, <2>2 DEF Up
  <1>4. ASSUME NEW p \in Prober
        PROVE  left'[p] \in 0 .. Lifetime(p)
    <2>1. left[p] \in 0 .. Lifetime(p) /\ Lifetime(p) \in Nat
      BY LifetimeType DEF Ranges
    <2>2. p \in Cron /\ pc[p] # "idle" => left[p] # 0
      <3>1. p \in Cron /\ pc[p] # "idle" => pc[p] = "round" BY <1>1, NotUrgent
      <3> QED BY <1>1, <3>1, NotUrgent DEF Cancelled
    <2>3. left'[p] = IF p \in Cron /\ pc[p] # "idle" THEN left[p] - 1 ELSE left[p]
      BY DEF Pass
    <2> QED BY <2>1, <2>2, <2>3
  <1>5. /\ tickIn' \in [Server -> 1 .. Period] /\ tick' \in [Server -> BOOLEAN]
        /\ pool' = pool /\ pc' = pc
    BY WorkerAssumption DEF Pass, Ranges
  <1>6. \A p \in Server : left'[p] = left[p]
    BY WorkerAssumption DEF Pass
  <1>7. \A s \in Service : age'[s] <= Interval[s]
    <2> TAKE s \in Service
    <2>1. age'[s] = Up(age[s], Interval[s]) BY DEF Pass
    <2>2. age[s] <= Interval[s] /\ age[s] \in Nat /\ Interval[s] \in Nat
      BY WorkerAssumption DEF Ranges, ScheduleInv, Shape
    <2> QED BY <2>1, <2>2 DEF Up
  <1> QED BY <1>2, <1>3, <1>4, <1>5, <1>6, <1>7 DEF Ranges, Cancelled, Bound, Limit, Hold,
                                                    Lifetime

(* The ranges hold in every behaviour.                                       *)
LEMMA RangesInvariant == Spec => []Ranges
  <1>1. ScheduleInv /\ Ranges /\ [Next]_vars => Ranges'
    <2> SUFFICES ASSUME ScheduleInv, Ranges, [Next]_vars PROVE Ranges' OBVIOUS
    <2>1. CASE Pass BY <2>1, RangesPass
    <2>2. CASE \E p \in Prober : Step(p) \/ Environment(p)
      BY <2>2, RangesQuery, RangesProbe, RangesStore, RangesCaller, RangesBoot
         DEF Step, Environment
    <2>3. CASE UNCHANGED vars
      BY <2>3 DEF vars, Ranges, Cancelled, Bound, Limit, Hold, Lifetime
    <2> QED BY <2>1, <2>2, <2>3 DEF Next
  <1> QED BY <1>1, InitRanges, ScheduleInvariant, PTL DEF Spec

(* -------------------------- the worker keeps up ------------------------ *)

\* The latest that a service which is due may have to wait for the next query.
Latest(s) == Interval[s] + Hold - 1

\* What the server p still needs until it looks at s, from where it is in its
\* round, fits into what s can wait.
KeepsUp(p, s) ==
    /\ age[s] < Interval[s] => waiting[s] <= age[s]
    /\ probe[p][s] = "none" => waiting[s] <= Latest(s)
    /\ probe[p][s] = "waiting" => waiting[s] <= Latest(s) + silent[p][s]
    /\ probe[p][s] \in {"answered", "gaveUp"} => waiting[s] <= Latest(s) + Limit(s)
    /\ probe[p][s] = "none" /\ age[s] = Interval[s] =>
        /\ pc[p] = "round" => \A t \in Service :
              probe[p][t] = "waiting" => waiting[s] + Limit(t) - silent[p][t] <= Latest(s)
        /\ pc[p] \in {"round", "done"} => tick[p] \/ waiting[s] + tickIn[p] <= Latest(s)

KeepsUpInv ==
    \A p \in Server, s \in Sound : (~Cancelled(p) /\ Interval[s] > 0) => KeepsUp(p, s)

\* The types that the argument needs.
LEMMA KeepsUpTypes ==
  ASSUME ScheduleInv, Ranges, NEW p \in Server, NEW s \in Sound
  PROVE  /\ age[s] \in Nat /\ age[s] <= Interval[s] /\ Interval[s] \in Nat
         /\ waiting[s] \in Nat /\ waiting[s] <= Bound(s)
         /\ Latest(s) = Interval[s] + Hold - 1 /\ Bound(s) = Latest(s) + Limit(s) + 1
         /\ Latest(s) \in Nat /\ Hold \in Nat \ {0} /\ Period \in Nat \ {0} /\ Period <= Hold
         /\ tickIn[p] \in 1 .. Period /\ tick[p] \in BOOLEAN
         /\ \A t \in Service : /\ silent[p][t] \in Nat /\ silent[p][t] <= Limit(t)
                               /\ Limit(t) \in Nat \ {0} /\ Limit(t) <= Hold
  <1>1. /\ age[s] \in Nat /\ Interval[s] \in Nat /\ Hold \in Nat \ {0}
        /\ Period \in Nat \ {0} /\ Period <= Hold /\ Limit(s) \in Nat
    BY WorkerAssumption, HoldIsLongest, LimitType DEF ScheduleInv, Shape
  <1>2. age[s] <= Interval[s]
    BY DEF Ranges
  <1>3. Latest(s) = Interval[s] + Hold - 1 /\ Bound(s) = Interval[s] + Hold + Limit(s)
    BY DEF Latest, Bound
  <1>4. \A t \in Service : /\ silent[p][t] \in Nat /\ silent[p][t] <= Limit(t)
                           /\ Limit(t) \in Nat \ {0} /\ Limit(t) <= Hold
    BY LimitType, HoldIsLongest DEF ScheduleInv, Shape, Ranges
  <1>5. waiting[s] \in Nat /\ waiting[s] <= Bound(s)
        /\ tickIn[p] \in 1 .. Period /\ tick[p] \in BOOLEAN
    BY DEF Ranges
  <1> QED BY <1>1, <1>2, <1>3, <1>4, <1>5

\* A service that has just been heard of can wait for whatever p is doing.
LEMMA HeardOfKeepsUp ==
  ASSUME ScheduleInv', Ranges', NEW p \in Server, NEW s \in Sound, Interval[s] > 0,
         waiting'[s] = 0
  PROVE  KeepsUp(p, s)'
  <1>1. /\ Interval[s] \in Nat /\ Hold \in Nat \ {0} /\ Period \in Nat \ {0} /\ Period <= Hold
    BY WorkerAssumption, HoldIsLongest
  <1>2. /\ age'[s] \in Nat /\ tickIn'[p] \in 1 .. Period /\ tick'[p] \in BOOLEAN
        /\ \A t \in Service : /\ silent'[p][t] \in Nat /\ silent'[p][t] <= Limit(t)
                              /\ Limit(t) \in Nat \ {0} /\ Limit(t) <= Hold
    <2>1. /\ age' \in [Service -> Nat] /\ silent' \in [Prober -> [Service -> Nat]]
      BY DEF ScheduleInv, Shape
    <2>2. \A q \in Prober, t \in Service : silent'[q][t] <= Limit(t)
      BY DEF Ranges, Limit
    <2> QED BY <2>1, <2>2, LimitType, HoldIsLongest DEF Ranges
  <1>3. /\ Latest(s)' = Interval[s] + Hold - 1
        /\ \A t \in Service : Limit(t)' = Limit(t)
    BY DEF Latest, Hold, Limit
  <1>4. \A t \in Service : 0 + Limit(t) - silent'[p][t] <= Interval[s] + Hold - 1
    BY <1>1, <1>2
  <1>5. 0 + tickIn'[p] <= Interval[s] + Hold - 1
    BY <1>1, <1>2
  <1>6. 0 <= Interval[s] + Hold - 1 /\ 0 <= Interval[s] + Hold - 1 + silent'[p][s]
        /\ 0 <= Interval[s] + Hold - 1 + Limit(s)
    BY <1>1, <1>2
  <1>7. age'[s] < Interval[s] => 0 <= age'[s] BY <1>2
  <1> QED BY <1>3, <1>4, <1>5, <1>6, <1>7 DEF KeepsUp

\* Nothing about s changes, and p only goes on with its round.
LEMMA UnmovedKeepsUp ==
  ASSUME NEW p \in Server, NEW s \in Sound, KeepsUp(p, s),
         waiting'[s] = waiting[s], age'[s] = age[s], probe'[p][s] = probe[p][s],
         \A t \in Service : probe'[p][t] = "waiting" =>
             probe[p][t] = "waiting" /\ silent'[p][t] = silent[p][t],
         \/ pc'[p] = "query"
         \/ /\ tickIn'[p] = tickIn[p] /\ tick'[p] = tick[p]
            /\ pc'[p] = pc[p] \/ (pc[p] = "round" /\ pc'[p] = "done")
  PROVE  KeepsUp(p, s)'
  <1>1. /\ Latest(s)' = Latest(s) /\ \A t \in Service : Limit(t)' = Limit(t)
    BY DEF Latest, Hold, Limit
  <1> QED BY <1>1 DEF KeepsUp

\* p asks for the due services: s is among them, or has time.
LEMMA QueryKeepsUp ==
  ASSUME ScheduleInv, Ranges, ScheduleInv', Ranges', NEW p \in Server, NEW s \in Sound,
         Interval[s] > 0, KeepsUp(p, s), Query(p)
  PROVE  KeepsUp(p, s)'
  <1>1. CASE waiting' = [t \in Sound |-> 0]
    BY <1>1, HeardOfKeepsUp
  <1>2. CASE waiting' # [t \in Sound |-> 0]
    <2>1. /\ waiting' = waiting /\ pc'[p] = "round"
          /\ probe'[p] = [t \in Service |-> IF t \in GetDueForMonitoring \cap Sound
                                            THEN "waiting" ELSE "none"]
          /\ age' = age /\ silent' = silent
      BY <1>2 DEF Query, ScheduleInv, Shape
    <2>2. probe[p][s] = "none"
      BY DEF Query, ScheduleInv, RoundsOnly, NoProbes
    <2>3. waiting[s] <= Latest(s) /\ silent[p][s] = 0
      BY <2>2 DEF KeepsUp, Ranges
    <2>4. age[s] \in Nat /\ age[s] <= Interval[s] /\ Interval[s] \in Nat /\ Latest(s) \in Nat
      BY KeepsUpTypes
    <2>5. CASE age[s] = Interval[s]
      <3>1. probe'[p][s] = "waiting"
        BY <2>1, <2>4, <2>5 DEF GetDueForMonitoring, Due
      <3>2. waiting[s] <= Latest(s) + silent[p][s]
        BY <2>3, <2>4
      <3>3. Latest(s)' = Latest(s)
        BY DEF Latest, Hold, Limit
      <3> QED BY <2>1, <2>5, <3>1, <3>2, <3>3 DEF KeepsUp
    <2>6. CASE age[s] # Interval[s]
      <3>1. probe'[p][s] = "none"
        BY <2>1, <2>4, <2>6 DEF GetDueForMonitoring, Due
      <3>2. Latest(s)' = Latest(s)
        BY DEF Latest, Hold, Limit
      <3> QED BY <2>1, <2>3, <2>6, <3>1, <3>2 DEF KeepsUp
    <2> QED BY <2>5, <2>6
  <1> QED BY <1>1, <1>2

\* The probe of s ends, at its time-out at the latest.
LEMMA ProbeKeepsUp ==
  ASSUME ScheduleInv, Ranges, NEW p \in Server, NEW s \in Sound, KeepsUp(p, s),
         GiveUp(p, s) \/ Answer(p, s)
  PROVE  KeepsUp(p, s)'
  <1>1. /\ probe[p][s] = "waiting" /\ probe'[p][s] \in {"answered", "gaveUp"}
        /\ UNCHANGED <<pc, tick, age, silent, tickIn, waiting>>
    BY DEF GiveUp, Answer, Clocks, ScheduleInv, Shape
  <1>2. waiting[s] <= Latest(s) + silent[p][s] /\ (age[s] < Interval[s] => waiting[s] <= age[s])
    BY <1>1 DEF KeepsUp
  <1>3. waiting[s] <= Latest(s) + Limit(s)
    BY <1>2, KeepsUpTypes
  <1>4. Latest(s)' = Latest(s) /\ Limit(s)' = Limit(s)
    BY DEF Latest, Hold, Limit
  <1> QED BY <1>1, <1>2, <1>3, <1>4 DEF KeepsUp

\* Time passes: every probe p waits for and the ticker come closer to their end.
LEMMA PassKeepsUp ==
  ASSUME ScheduleInv, Ranges, NEW p \in Server, NEW s \in Sound, Interval[s] > 0,
         ~Cancelled(p), KeepsUp(p, s), Pass
  PROVE  KeepsUp(p, s)'
  <1> DEFINE L == Latest(s)  W == waiting[s]
  <1>1. /\ pc[p] # "query" /\ \A t \in Service : probe[p][t] \in {"none", "waiting"}
        /\ \A t \in Service : probe[p][t] = "waiting" => silent[p][t] < Limit(t)
        /\ pc[p] = "round" => \E t \in Service : probe[p][t] = "waiting"
        /\ pc[p] = "done" => ~tick[p]
    BY NotUrgent DEF Pass
  <1>2. /\ age'[s] = Up(age[s], Interval[s]) /\ waiting'[s] = Up(W, Bound(s))
        /\ \A t \in Service :
             silent'[p][t] = IF probe[p][t] = "waiting" THEN Up(silent[p][t], Limit(t)) ELSE 0
        /\ tickIn'[p] = IF tickIn[p] = 1 THEN Period ELSE tickIn[p] - 1
        /\ tick'[p] = (tick[p] \/ tickIn[p] = 1)
        /\ pc' = pc /\ probe' = probe
    BY DEF Pass
  <1>3. waiting'[s] <= W + 1 /\ waiting'[s] \in Nat /\ W \in Nat
    BY <1>2, KeepsUpTypes DEF Up
  <1>4. \A t \in Service : probe[p][t] = "waiting" => silent'[p][t] = silent[p][t] + 1
    BY <1>1, <1>2 DEF Up
  <1>5. pc[p] \in {"round", "done"}
    <2>1. pc[p] \in {"idle", "query", "round", "done", "stopped"} /\ pc[p] # "idle"
          /\ pc[p] # "stopped"
      BY DEF ScheduleInv, Shape, Ranges
    <2> QED BY <1>1, <2>1
  <1>6. age'[s] < Interval[s] => age[s] < Interval[s] /\ age'[s] = age[s] + 1
    BY <1>2, KeepsUpTypes DEF Up
  <1>7. age'[s] < Interval[s] => waiting'[s] <= age'[s]
    BY <1>3, <1>6, KeepsUpTypes DEF KeepsUp
  <1>8. ASSUME probe[p][s] = "none"
        PROVE  /\ waiting'[s] <= L
               /\ age'[s] = Interval[s] =>
                    /\ \A t \in Service : probe[p][t] = "waiting" =>
                          waiting'[s] + Limit(t) - silent'[p][t] <= L
                    /\ tick'[p] \/ waiting'[s] + tickIn'[p] <= L
    <2>1. CASE age[s] < Interval[s]
      <3>1. W <= age[s] /\ waiting'[s] <= Interval[s]
        BY <1>3, <2>1, KeepsUpTypes DEF KeepsUp
      <3>2. waiting'[s] <= L
        BY <1>3, <3>1, KeepsUpTypes
      <3>3. ASSUME NEW t \in Service, probe[p][t] = "waiting"
            PROVE  waiting'[s] + Limit(t) - silent'[p][t] <= L
        <4>1. silent'[p][t] = silent[p][t] + 1 BY <1>4, <3>3
        <4> QED BY <1>3, <3>1, <4>1, KeepsUpTypes
      <3>4. tick'[p] \/ waiting'[s] + tickIn'[p] <= L
        <4>1. tick'[p] \/ tickIn'[p] = tickIn[p] - 1 BY <1>2
        <4> QED BY <1>3, <3>1, <4>1, KeepsUpTypes
      <3> QED BY <3>2, <3>3, <3>4
    <2>2. CASE age[s] = Interval[s]
      <3>1. ASSUME NEW t \in Service, probe[p][t] = "waiting", pc[p] = "round"
            PROVE  waiting'[s] + Limit(t) - silent'[p][t] <= L
        <4>1. silent'[p][t] = silent[p][t] + 1 BY <1>4, <3>1
        <4>2. W + Limit(t) - silent[p][t] <= L BY <1>8, <2>2, <3>1 DEF KeepsUp
        <4> QED BY <1>3, <4>1, <4>2, KeepsUpTypes
      <3>2. ASSUME NEW t \in Service, probe[p][t] = "waiting"
            PROVE  pc[p] = "round"
        BY <3>2 DEF ScheduleInv, RoundsOnly, NoProbes
      <3>3. tick'[p] \/ waiting'[s] + tickIn'[p] <= L
        <4>1. tick[p] \/ W + tickIn[p] <= L BY <1>5, <1>8, <2>2 DEF KeepsUp
        <4>2. tick'[p] \/ (~tick[p] /\ tickIn'[p] = tickIn[p] - 1)
          BY <1>2, KeepsUpTypes
        <4> QED BY <1>2, <1>3, <4>1, <4>2, KeepsUpTypes
      <3>4. waiting'[s] <= L
        <4>1. CASE pc[p] = "done"
          <5>1. W + tickIn[p] <= L BY <1>1, <1>8, <2>2, <4>1 DEF KeepsUp
          <5> QED BY <1>3, <5>1, KeepsUpTypes
        <4>2. CASE pc[p] = "round"
          <5>1. PICK t \in Service : probe[p][t] = "waiting" BY <1>1, <4>2
          <5>2. W + Limit(t) - silent[p][t] <= L /\ silent[p][t] < Limit(t)
            BY <1>1, <1>8, <2>2, <4>2, <5>1 DEF KeepsUp
          <5> QED BY <1>3, <5>2, KeepsUpTypes
        <4> QED BY <1>5, <4>1, <4>2
      <3> QED BY <3>1, <3>2, <3>3, <3>4
    <2> QED BY <2>1, <2>2, KeepsUpTypes
  <1>9. probe[p][s] = "waiting" => waiting'[s] <= L + silent'[p][s]
    <2>1. probe[p][s] = "waiting" => W <= L + silent[p][s] BY DEF KeepsUp
    <2> QED BY <1>3, <1>4, <2>1, KeepsUpTypes
  <1>10. Latest(s)' = L /\ \A t \in Service : Limit(t)' = Limit(t)
    BY DEF Latest, Hold, Limit
  <1>11. probe'[p][s] = probe[p][s] /\ probe[p][s] \in {"none", "waiting"}
    BY <1>1, <1>2
  <1> HIDE DEF L, W
  <1> QED BY <1>2, <1>7, <1>8, <1>9, <1>10, <1>11 DEF KeepsUp

\* A result is stored: of s, or of another service.
LEMMA StoreKeepsUp ==
  ASSUME ScheduleInv, Ranges, ScheduleInv', Ranges', NEW p \in Server, NEW s \in Sound,
         Interval[s] > 0, KeepsUp(p, s), NEW q \in Prober, NEW t \in Service, Store(q, t)
  PROVE  KeepsUp(p, s)'
  <1>1. /\ probe \in [Prober -> [Service -> ProbeState]] /\ "none" \in ProbeState
        /\ silent \in [Prober -> [Service -> Nat]] /\ 0 \in Nat
        /\ age \in [Service -> Nat] /\ waiting \in [Sound -> Nat]
    BY DEF ScheduleInv, Shape, Ranges
  <1>2. /\ \A r \in Prober, u \in Service :
             /\ silent'[r][u] = IF r = q /\ u = t THEN 0 ELSE silent[r][u]
             /\ probe'[r][u] = IF r = q /\ u = t THEN "none" ELSE probe[r][u]
        /\ UNCHANGED <<pc, left, tickIn, tick, pool>>
    BY <1>1, EntryType DEF Store
  <1>3. CASE t # s
    <2>1. waiting'[s] = waiting[s] /\ age'[s] = age[s]
      BY <1>1, <1>3 DEF Store
    <2> QED BY <1>2, <1>3, <2>1, UnmovedKeepsUp
  <1>4. CASE t = s /\ waiting'[s] = 0
    BY <1>4, HeardOfKeepsUp
  <1>5. CASE t = s /\ waiting'[s] # 0
    <2>1. q # p /\ waiting'[s] = waiting[s] /\ age' = age
      <3>1. age'[s] # 0 /\ q \notin Server /\ waiting'[s] = waiting[s]
        BY <1>1, <1>5 DEF Store
      <3> QED BY <1>1, <1>5, <3>1 DEF Store
    <2> QED BY <1>2, <2>1, UnmovedKeepsUp
  <1> QED BY <1>3, <1>4, <1>5

\* Every step keeps what the servers that run need within what a service can wait.
LEMMA NextKeepsUp ==
  ASSUME ScheduleInv, Ranges, ScheduleInv', Ranges', KeepsUpInv, [Next]_vars
  PROVE  KeepsUpInv'
  <1> SUFFICES ASSUME NEW p \in Server, NEW s \in Sound, left'[p] # 0, Interval[s] > 0
               PROVE  KeepsUp(p, s)'
    BY DEF KeepsUpInv, Cancelled
  <1>1. Server \cap Cron = {} BY WorkerAssumption
  <1>2. ASSUME NEW q \in Prober, Boot(q) PROVE KeepsUp(p, s)'
    BY <1>2, HeardOfKeepsUp DEF Boot
  <1>3. ASSUME NEW q \in Prober, Signal(q)
        PROVE  ~Cancelled(p) /\ KeepsUp(p, s)'
    <2>1. q # p /\ left'[p] = left[p] /\ UNCHANGED <<pc, age, probe, silent, tickIn, tick, waiting>>
      BY <1>3 DEF Signal, ScheduleInv, Shape
    <2>2. ~Cancelled(p) BY <2>1 DEF Cancelled
    <2>3. KeepsUp(p, s) BY <2>2 DEF KeepsUpInv
    <2> QED BY <2>1, <2>2, <2>3, UnmovedKeepsUp
  <1>4. ASSUME left'[p] = left[p] PROVE ~Cancelled(p) /\ KeepsUp(p, s)
    BY <1>4 DEF KeepsUpInv, Cancelled
  <1>5. CASE Pass
    <2>1. left'[p] = left[p] BY <1>1, <1>5 DEF Pass
    <2> QED BY <1>4, <1>5, <2>1, PassKeepsUp
  <1>6. ASSUME NEW q \in Prober, Query(q) PROVE KeepsUp(p, s)'
    <2>1. left'[p] = left[p] BY <1>6 DEF Query
    <2>2. CASE q = p BY <1>4, <1>6, <2>1, <2>2, QueryKeepsUp
    <2>3. CASE q # p
      <3>1. CASE waiting'[s] = 0 BY <3>1, HeardOfKeepsUp
      <3>2. CASE waiting'[s] # 0
        <4>1. waiting' = waiting BY <1>6, <3>2 DEF Query
        <4>2. probe'[p] = probe[p] /\ pc'[p] = pc[p] /\ UNCHANGED <<age, silent, tickIn, tick>>
          BY <1>6, <2>3 DEF Query, ScheduleInv, Shape
        <4> QED BY <1>4, <2>1, <4>1, <4>2, UnmovedKeepsUp
      <3> QED BY <3>1, <3>2
    <2> QED BY <2>2, <2>3
  <1>7. ASSUME NEW q \in Prober, NEW t \in Service, GiveUp(q, t) \/ Answer(q, t)
        PROVE  KeepsUp(p, s)'
    <2>1. UNCHANGED <<pc, tick, pool, age, silent, left, tickIn, waiting>>
      BY <1>7 DEF GiveUp, Answer, Clocks
    <2>2. CASE q = p /\ t = s BY <1>4, <1>7, <2>1, <2>2, ProbeKeepsUp
    <2>3. CASE ~(q = p /\ t = s)
      <3>1. PICK v \in {"answered", "gaveUp"} : probe' = [probe EXCEPT ![q][t] = v]
        BY <1>7 DEF GiveUp, Answer
      <3>2. v \in ProbeState /\ probe \in [Prober -> [Service -> ProbeState]]
        BY DEF ScheduleInv, Shape
      <3>3. \A u \in Service :
              /\ probe'[p][u] = "waiting" => probe[p][u] = "waiting"
              /\ u = s => probe'[p][u] = probe[p][u]
        BY <2>3, <3>1, <3>2, EntryType
      <3> QED BY <1>4, <2>1, <3>3, UnmovedKeepsUp
    <2> QED BY <2>2, <2>3
  <1>8. ASSUME NEW q \in Prober, NEW t \in Service, Store(q, t) PROVE KeepsUp(p, s)'
    <2>1. left' = left BY <1>8 DEF Store
    <2> QED BY <1>4, <1>8, <2>1, StoreKeepsUp
  <1>9. ASSUME NEW q \in Prober,
               RoundEnds(q) \/ Select(q) \/ CronHandler(q) \/ CronFails(q) \/ CronReturns(q)
        PROVE  KeepsUp(p, s)'
    <2>1. UNCHANGED <<age, probe, silent, tickIn, waiting>> /\ left'[p] = left[p]
      BY <1>1, <1>9 DEF RoundEnds, Select, CronHandler, CronFails, CronReturns, Clocks,
                        ScheduleInv, Shape
    <2>2. ~Cancelled(p) BY <1>4, <2>1
    <2>3. \/ pc'[p] = "query"
          \/ /\ tick'[p] = tick[p]
             /\ pc'[p] = pc[p] \/ (pc[p] = "round" /\ pc'[p] = "done")
      <3>1. CASE q # p
        <4>1. pc'[p] = pc[p] /\ tick'[p] = tick[p]
          BY <1>9, <3>1 DEF RoundEnds, Select, CronHandler, CronFails, CronReturns, Clocks,
                            ScheduleInv, Shape, Ranges
        <4> QED BY <4>1
      <3>2. CASE q = p /\ RoundEnds(q)
        BY <3>2 DEF RoundEnds, ScheduleInv, Shape
      <3>3. CASE q = p /\ Select(q)
        BY <2>2, <3>3 DEF Select, ScheduleInv, Shape
      <3>4. q = p => q \notin Cron BY <1>1
      <3> QED BY <1>9, <3>1, <3>2, <3>3, <3>4 DEF CronHandler, CronFails, CronReturns
    <2> QED BY <1>4, <2>1, <2>3, UnmovedKeepsUp
  <1>10. CASE UNCHANGED vars
    <2>1. UNCHANGED <<age, pc, probe, silent, left, tickIn, tick, waiting>> BY <1>10 DEF vars
    <2> QED BY <1>4, <2>1, UnmovedKeepsUp
  <1> QED BY <1>2, <1>3, <1>5, <1>6, <1>7, <1>8, <1>9, <1>10 DEF Next, Step, Environment

\* Nobody waits at the start, when every server is about to look.
LEMMA InitKeepsUp ==
  ASSUME Init
  PROVE  KeepsUpInv
  <1> SUFFICES ASSUME NEW p \in Server, NEW s \in Sound, Interval[s] > 0
               PROVE  KeepsUp(p, s)
    BY DEF KeepsUpInv
  <1>1. /\ waiting[s] = 0 /\ age[s] = Interval[s] /\ probe[p][s] = "none" /\ pc[p] = "query"
    BY DEF Init, NoProbes
  <1>2. 0 <= Latest(s) /\ Interval[s] \in Nat
    BY WorkerAssumption, HoldIsLongest DEF Latest
  <1> QED BY <1>1, <1>2 DEF KeepsUp

(* What the running servers need fits into what the services can wait.       *)
LEMMA KeepsUpInvariant == Spec => []KeepsUpInv
  <1> QED BY InitKeepsUp, NextKeepsUp, ScheduleInvariant, RangesInvariant, PTL DEF Spec

(* The worker keeps up: while any server runs, every service that can be     *)
(* probed and leaves time between two probes is heard of within its          *)
(* interval, the longest round or period and its own time-out, however many  *)
(* services there are and however slowly the others answer.                  *)
THEOREM WorkerKeepsUp == Spec => []ProbedInTime
  <1>1. ASSUME ScheduleInv, Ranges, KeepsUpInv PROVE ProbedInTime
    <2> SUFFICES ASSUME NEW p \in Server, ~Cancelled(p), NEW s \in Sound, Interval[s] > 0
                 PROVE  waiting[s] < Bound(s)
      BY DEF ProbedInTime
    <2>1. KeepsUp(p, s) BY <1>1 DEF KeepsUpInv
    <2>2. probe[p][s] \in ProbeState BY <1>1 DEF ScheduleInv, Shape
    <2> QED BY <1>1, <2>1, <2>2, KeepsUpTypes DEF KeepsUp
  <1> QED BY <1>1, ScheduleInvariant, RangesInvariant, KeepsUpInvariant, PTL

(* Type correctness: a round is one of five, a goroutine one of four things, *)
(* and no clock leaves its range, a cron instance's budget included.         *)
THEOREM WorkerTypeCorrect == Spec => []TypeOK
  <1>1. ASSUME ScheduleInv, Ranges PROVE TypeOK
    <2>1. ASSUME NEW s \in Service, NEW p \in Prober
          PROVE  silent[p][s] \in 0 .. Limit(s) /\ ownAge[p][s] \in 0 .. Interval[s]
      <3>1. /\ silent[p][s] \in Nat /\ silent[p][s] <= Limit(s) /\ Limit(s) \in Nat
            /\ ownAge[p][s] \in Nat /\ ownAge[p][s] <= Interval[s] /\ Interval[s] \in Nat
        BY <1>1, LimitType, WorkerAssumption DEF ScheduleInv, Shape, DueWhenProbed, Ranges
      <3> QED BY <3>1
    <2>2. ASSUME NEW s \in Service PROVE age[s] \in 0 .. Interval[s]
      BY <1>1, WorkerAssumption DEF ScheduleInv, Shape, Ranges
    <2>3. \A s \in Sound : waiting[s] \in 0 .. Bound(s)
      BY <1>1, BoundType DEF Ranges
    <2> QED BY <1>1, <2>1, <2>2, <2>3 DEF TypeOK, ScheduleInv, Shape, Ranges
  <1> QED BY <1>1, ScheduleInvariant, RangesInvariant, PTL
=============================================================================
