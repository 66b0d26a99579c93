--------------------------- MODULE MonitorWorker ---------------------------
(***************************************************************************)
(* The schedule of the probes: when a service is due, who probes it, and   *)
(* what holds a round up.                                                  *)
(*                                                                         *)
(* A prober is the worker of a server process, which starts a round at     *)
(* every tick, or a cron instance, which runs one round per request within *)
(* a budget.  A round asks the database which services are due, probes     *)
(* each in a goroutine of its own, and waits for all of them.              *)
(*                                                                         *)
(* Time is discrete.  It is kept as ages and time left, which stop         *)
(* counting where the code no longer tells values apart, so a behaviour    *)
(* need not be cut off.  Probes and ticks take time, statements do not:    *)
(* time passes when no prober has a statement to execute.                  *)
(***************************************************************************)
EXTENDS Integers, FiniteSets

CONSTANTS
    Service,          \* the services with a URL
    Malformed,        \* those whose URL no request can be made of
    Interval,         \* check_interval, per service
    Timeout,          \* timeout, per service
    DefaultTimeout,   \* when it is not positive (10 s in the code)
    Period,           \* of the ticker (10 s)
    Budget,           \* of a cron round (55 s)
    Server, Cron,     \* the probers
    Faults            \* "refused": a statement or a connection fails

ASSUME WorkerAssumption ==
    /\ IsFiniteSet(Service) /\ Malformed \subseteq Service
    /\ Interval \in [Service -> Nat] /\ Timeout \in [Service -> Int]
    /\ {DefaultTimeout, Period, Budget} \subseteq Nat \ {0}
    /\ Server \cap Cron = {} /\ Faults \subseteq {"refused"}

VARIABLES
    age,       \* time since checked_at of the latest external result
    pc,        \* what a prober does
    probe,     \* its goroutine for a service: not running, waiting for the
               \* answer, or about to store what came of it
    silent,    \* how long the goroutine has waited
    left,      \* what is left of the prober's context, 0 once it is cancelled
    tickIn,    \* when the ticker fires next
    tick,      \* its channel holds a tick
    pool,      \* the connection pool of a cron instance, opened once
    (* history *)
    waiting,   \* time since the last result of a service, or since it was
               \* last missed because a statement failed or no server ran
    ownAge     \* time since the prober itself stored a result of the service

vars == <<age, pc, probe, silent, left, tickIn, tick, pool, waiting, ownAge>>

Prober == Server \cup Cron
Sound  == Service \ Malformed

\* A result older than the interval is as good as none: the service is due.
Due(s) == age[s] >= Interval[s]

\* The time-out of a probe.
Limit(s) == IF Timeout[s] <= 0 THEN DefaultTimeout ELSE Timeout[s]

\* A server's context has no deadline; it only counts as left or not.
Lifetime(p) == IF p \in Cron THEN Budget ELSE 1

NoProbes == [s \in Service |-> "none"]

Init ==
    /\ age = Interval                                     \* no result yet
    /\ pc = [p \in Prober |-> IF p \in Server THEN "query" ELSE "idle"]
    /\ probe = [p \in Prober |-> NoProbes]
    /\ silent = [p \in Prober |-> [s \in Service |-> 0]]
    /\ left = [p \in Prober |-> Lifetime(p)]
    /\ tickIn = [p \in Server |-> Period]
    /\ tick = [p \in Server |-> FALSE]
    /\ pool = [p \in Cron |-> "none"]
    /\ waiting = [s \in Sound |-> 0]
    /\ ownAge = [p \in Prober |-> Interval]

Outcome == {"ok"} \cup Faults

Cancelled(p) == left[p] = 0

\* What a statement of p may come to: nothing works once the context is done.
Result(p) == IF Cancelled(p) THEN {"refused"} ELSE Outcome

Clocks == <<age, silent, left, tickIn, waiting, ownAge>>

(* ------------------------------- a round ------------------------------- *)

\* The mistake of a LIMIT on the services of a round.
GetDueForMonitoring_One ==
    IF \E s \in Service : Due(s) THEN {CHOOSE s \in Service : Due(s)} ELSE {}

\* The mistake of forgetting the interval.
GetDueForMonitoring_All == Service

GetDueForMonitoring == {s \in Service : Due(s)}

\* A URL that cannot be parsed ends its goroutine at once.
Query(p) ==
    /\ pc[p] = "query"
    /\ \/ /\ "refused" \in Result(p)
          /\ pc' = [pc EXCEPT ![p] = "done"]
          /\ waiting' = IF p \in Server THEN [s \in Sound |-> 0] ELSE waiting
          /\ UNCHANGED probe
       \/ /\ "ok" \in Result(p)
          /\ pc' = [pc EXCEPT ![p] = "round"]
          /\ probe' = [probe EXCEPT ![p] =
                 [s \in Service |-> IF s \in GetDueForMonitoring \cap Sound
                                    THEN "waiting" ELSE "none"]]
          /\ UNCHANGED waiting
    /\ UNCHANGED <<age, silent, left, tickIn, tick, pool, ownAge>>

\* The mistake of probing without a time-out.
TimedOut_Never(p, s) == Cancelled(p)

\* The request fails at the service's own time-out, or with the prober's context.
TimedOut(p, s) == silent[p][s] = Limit(s) \/ Cancelled(p)

GiveUp(p, s) ==
    /\ probe[p][s] = "waiting" /\ TimedOut(p, s)
    /\ probe' = [probe EXCEPT ![p][s] = "gaveUp"]
    /\ UNCHANGED <<pc, tick, pool, Clocks>>

\* The service answers, as expected or not, or refuses the connection.
Answer(p, s) ==
    /\ probe[p][s] = "waiting"
    /\ probe' = [probe EXCEPT ![p][s] = "answered"]
    /\ UNCHANGED <<pc, tick, pool, Clocks>>

\* The mistake of storing what is known even when the context is done.
Store_Always(p, s) ==
    /\ probe[p][s] \in {"answered", "gaveUp"}
    /\ probe' = [probe EXCEPT ![p][s] = "none"]
    /\ age' = [age EXCEPT ![s] = 0]
    /\ waiting' = [waiting EXCEPT ![s] = 0]
    /\ ownAge' = [ownAge EXCEPT ![p][s] = 0]
    /\ silent' = [silent EXCEPT ![p][s] = 0]
    /\ UNCHANGED <<pc, left, tickIn, tick, pool>>

\* checkResultRepo.Create and all that follows it, which StatusPipeline models.
Store(p, s) ==
    /\ probe[p][s] \in {"answered", "gaveUp"}
    /\ probe' = [probe EXCEPT ![p][s] = "none"]
    /\ \/ /\ "refused" \in Result(p)
          /\ UNCHANGED <<age, ownAge>>
       \/ /\ "ok" \in Result(p)
          /\ age' = [age EXCEPT ![s] = 0]
          /\ ownAge' = [ownAge EXCEPT ![p][s] = 0]
    /\ waiting' = [waiting EXCEPT ![s] = IF p \in Server \/ age'[s] = 0 THEN 0 ELSE @]
    /\ silent' = [silent EXCEPT ![p][s] = 0]
    /\ UNCHANGED <<pc, left, tickIn, tick, pool>>

\* wg.Wait returns.
RoundEnds(p) ==
    /\ pc[p] = "round" /\ probe[p] = NoProbes
    /\ pc' = [pc EXCEPT ![p] = "done"]
    /\ UNCHANGED <<probe, tick, pool, Clocks>>

(* ------------------------------- a server ------------------------------ *)

\* The loop's select: a tick, or the end of the context; either, if both.
Select(p) ==
    /\ p \in Server /\ pc[p] = "done"
    /\ \/ /\ tick[p]
          /\ tick' = [tick EXCEPT ![p] = FALSE]
          /\ pc' = [pc EXCEPT ![p] = "query"]
       \/ /\ Cancelled(p)
          /\ pc' = [pc EXCEPT ![p] = "stopped"]
          /\ UNCHANGED tick
    /\ UNCHANGED <<probe, pool, Clocks>>

\* A signal cancels the context.
Signal(p) ==
    /\ p \in Server /\ ~Cancelled(p)
    /\ left' = [left EXCEPT ![p] = 0]
    /\ UNCHANGED <<age, pc, probe, silent, tickIn, tick, pool, waiting, ownAge>>

\* The mistake of a ticker that is given no period.
Boot_NoPeriod(p) ==
    /\ p \in Server /\ Cancelled(p)
    /\ pc' = [pc EXCEPT ![p] = "query"]
    /\ probe' = [probe EXCEPT ![p] = NoProbes]
    /\ left' = [left EXCEPT ![p] = Lifetime(p)]
    /\ tickIn' = [tickIn EXCEPT ![p] = 0]
    /\ UNCHANGED <<age, silent, tick, pool, waiting, ownAge>>

\* A new process takes over.  main does not wait for the worker, so the old one
\* may end in the middle of a round.
Boot(p) ==
    /\ p \in Server /\ Cancelled(p)
    /\ pc' = [pc EXCEPT ![p] = "query"]
    /\ probe' = [probe EXCEPT ![p] = NoProbes]
    /\ silent' = [silent EXCEPT ![p] = [s \in Service |-> 0]]
    /\ left' = [left EXCEPT ![p] = Lifetime(p)]
    /\ tickIn' = [tickIn EXCEPT ![p] = Period]
    /\ tick' = [tick EXCEPT ![p] = FALSE]
    /\ waiting' = [s \in Sound |-> 0]
    /\ UNCHANGED <<age, pool, ownAge>>

(* ---------------------------- a cron instance -------------------------- *)

\* sync.Once: the pool is opened by the first request, or never.
CronHandler(p) ==
    /\ p \in Cron /\ pc[p] = "idle"
    /\ pool' = [pool EXCEPT ![p] = IF @ = "none" THEN "open" ELSE @]
    /\ pool'[p] = "open"
    /\ pc' = [pc EXCEPT ![p] = "query"]
    /\ UNCHANGED <<probe, tick, Clocks>>

CronFails(p) ==
    /\ p \in Cron /\ pc[p] = "idle"
    /\ "refused" \in Faults /\ pool[p] = "none"
    /\ pool' = [pool EXCEPT ![p] = "broken"]
    /\ UNCHANGED <<pc, probe, tick, Clocks>>

CronReturns(p) ==
    /\ p \in Cron /\ pc[p] = "done"
    /\ pc' = [pc EXCEPT ![p] = "idle"]
    /\ left' = [left EXCEPT ![p] = Budget]          \* for the next request
    /\ UNCHANGED <<age, probe, silent, tickIn, tick, pool, waiting, ownAge>>

(* --------------------------------- time -------------------------------- *)

\* Something happens before time goes on.
Urgent(p) ==
    \/ pc[p] = "query"
    \/ pc[p] = "round" /\ probe[p] = NoProbes
    \/ p \in Cron /\ pc[p] = "done"
    \/ p \in Server /\ pc[p] = "done" /\ (tick[p] \/ Cancelled(p))
    \/ \E s \in Service :
        \/ probe[p][s] \in {"answered", "gaveUp"}
        \/ probe[p][s] = "waiting" /\ TimedOut(p, s)

Up(n, cap) == IF n < cap THEN n + 1 ELSE n

\* The longest a round may keep the worker from looking again.
Hold == CHOOSE n \in {Period} \cup {Limit(s) : s \in Service} :
            n >= Period /\ \A s \in Service : n >= Limit(s)

\* A result is at most this much later than the one before it.
Bound(s) == Interval[s] + Hold + Limit(s)

Pass ==
    /\ \A p \in Prober : ~Urgent(p)
    /\ age' = [s \in Service |-> Up(age[s], Interval[s])]
    /\ silent' = [p \in Prober |-> [s \in Service |->
           IF probe[p][s] = "waiting" THEN Up(silent[p][s], Limit(s)) ELSE 0]]
    /\ left' = [p \in Prober |->
           IF p \in Cron /\ pc[p] # "idle" THEN left[p] - 1 ELSE left[p]]
    /\ tickIn' = [p \in Server |-> IF tickIn[p] = 1 THEN Period ELSE tickIn[p] - 1]
    /\ tick' = [p \in Server |-> tick[p] \/ tickIn[p] = 1]
    /\ waiting' = [s \in Sound |-> Up(waiting[s], Bound(s))]
    /\ ownAge' = [p \in Prober |-> [s \in Service |-> Up(ownAge[p][s], Interval[s])]]
    /\ UNCHANGED <<pc, probe, pool>>

Step(p) ==
    \/ Query(p) \/ RoundEnds(p) \/ Select(p) \/ CronReturns(p)
    \/ \E s \in Service : GiveUp(p, s) \/ Store(p, s)

Environment(p) ==
    \/ \E s \in Service : Answer(p, s)
    \/ Signal(p) \/ Boot(p) \/ CronHandler(p) \/ CronFails(p)

Next ==
    \/ Pass
    \/ \E p \in Prober : Step(p) \/ Environment(p)

Spec == Init /\ [][Next]_vars

\* Goroutines run and statements are answered; a probe need not be.  Time goes on:
\* only so many requests and restarts fit into a second.
FairSpec == Spec /\ []<><<Pass>>_vars /\ \A p \in Prober : WF_vars(Step(p))

(* ------------------------------ properties ----------------------------- *)

TypeOK ==
    /\ \A s \in Service : age[s] \in 0 .. Interval[s]
    /\ \A s \in Sound : waiting[s] \in 0 .. Bound(s)
    /\ pc \in [Prober -> {"idle", "query", "round", "done", "stopped"}]
    /\ probe \in [Prober -> [Service -> {"none", "waiting", "answered", "gaveUp"}]]
    /\ \A p \in Prober, s \in Service :
        /\ silent[p][s] \in 0 .. Limit(s)
        /\ ownAge[p][s] \in 0 .. Interval[s]
    /\ \A p \in Prober : left[p] \in 0 .. Lifetime(p)
    /\ tickIn \in [Server -> 1 .. Period] /\ tick \in [Server -> BOOLEAN]
    /\ pool \in [Cron -> {"none", "open", "broken"}]

\* The worker keeps up: while a server runs, a result is stored within the
\* service's interval, one round or tick, and its own time-out; one silent
\* service may hold the others up, but no longer than that.  (An interval of 0,
\* which a registration may ask for, leaves no time between two rounds: the
\* bound itself can be reached.)
ProbedInTime ==
    (\E p \in Server : ~Cancelled(p)) =>
        \A s \in Sound : Interval[s] > 0 => waiting[s] < Bound(s)

\* A prober does not probe more often than it was asked to, so a service sees
\* at most as many probes per interval as there are probers.
SpacedOut ==
    [][ \A p \in Prober, s \in Service :
          (probe[p][s] # "none" /\ ownAge'[p][s] = 0) => ownAge[p][s] >= Interval[s] ]_vars

\* A service is not reported down because the prober ran out of time or was
\* shut down: a probe given up before its own time-out leaves no result.
NoFalseAlarm ==
    [][ \A p \in Prober, s \in Service :
          (probe[p][s] = "gaveUp" /\ silent[p][s] < Limit(s) /\ probe'[p][s] = "none")
              => age'[s] = age[s] ]_vars

\* Every round ends, so no service holds the worker up for ever.
RoundsEnd == \A p \in Prober : pc[p] = "round" ~> pc[p] # "round"
=============================================================================
