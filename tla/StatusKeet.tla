----------------------------- MODULE StatusKeet ----------------------------
(***************************************************************************)
(* One StatusKeet object of the Node SDK: start, stop, beat, report, check,*)
(* the interval timer and the heartbeats in flight.                        *)
(*                                                                         *)
(* JavaScript runs one piece of code at a time and switches only at an     *)
(* await, so an action is everything from one await to the next.  Calls of *)
(* start, and heartbeats, may be suspended side by side.                   *)
(***************************************************************************)
EXTENDS Integers, FiniteSetsExt

CONSTANTS
    NumServices,    \* options.services, in order, by distinct names
    Unlisted,       \* other names the application passes to report()
    Call,           \* bound: calls of start() the application makes
    Timer, App,     \* who else begins a heartbeat: an interval, the application
    Slot,           \* bound: heartbeats in flight at the same time
    MaxReports,     \* bound: calls of report()
    MaxStops        \* bound: calls of stop()

Services == 1 .. NumServices
Names    == Services \cup Unlisted
Reports  == 1 .. MaxReports

ASSUME SDKAssumption ==
    /\ NumServices \in Nat \ {0} /\ Unlisted \cap Services = {}
    /\ IsFiniteSet(Call)
    /\ Timer \notin Call /\ App \notin Call /\ Timer # App
    /\ MaxReports \in Nat /\ MaxStops \in Nat

VARIABLES
    timer,       \* this.timer: an interval, or 0 for null
    live,        \* the intervals that were set and not cleared
    registered,  \* this.registered
    checks,      \* this.checks: the services that have a check function
    call,        \* where each call of start() is
    beats,       \* the heartbeats in flight
    manual,      \* this.manualStatuses: the report pending for a name, or 0
    reports,     \* calls of report() so far
    stops,       \* calls of stop() so far
    confirmed,   \* history: the server accepted a registration
    delivered,   \* history: how often the server received each report
    stopped,     \* history: stop() was called, and start() not since
    overlapped   \* history: start() or stop() was called while a start() ran

history == <<confirmed, delivered, stopped, overlapped>>
vars == <<timer, live, registered, checks, call, beats, manual, reports, stops,
          history>>

\* A heartbeat: waiting for the check of service `at`, or for the server, with
\* the reports it carries and who awaits it.
Beat == [phase : {"idle", "check", "fetch"}, at : 0 .. NumServices + 1,
         taken : SUBSET Reports, caller : Call \cup {Timer, App}]

NoBeat == [phase |-> "idle", at |-> 0, taken |-> {}, caller |-> Timer]

Init ==
    /\ timer = 0 /\ live = {}
    /\ registered = FALSE /\ checks = {}
    /\ call = [c \in Call |-> "new"]
    /\ beats = [b \in Slot |-> NoBeat]
    /\ manual = [s \in Names |-> 0]
    /\ reports = 0 /\ stops = 0
    /\ confirmed = FALSE /\ delivered = [r \in Reports |-> 0]
    /\ stopped = FALSE /\ overlapped = FALSE

Starting == {c \in Call : call[c] \in {"registering", "beating"}}

(* ------------------------------- heartbeats ---------------------------- *)

\* The mistake of preferring the check function to the report.
NextCheck_ChecksFirst(i) ==
    Min({k \in Services : k >= i /\ k \in checks} \cup {NumServices + 1})

\* The first service from i on whose check function the loop must await, or the
\* end of the loop.  A pending report is used instead of the check.
NextCheck(i) ==
    Min({k \in Services : k >= i /\ k \in checks /\ manual[k] = 0}
            \cup {NumServices + 1})

\* The mistake of an entry for every service, with or without a report.
Collected_EvenNone(i, next, taken, caller) ==
    [phase  |-> IF next \in Services THEN "check" ELSE "fetch",
     at     |-> next,
     taken  |-> taken \cup {manual[k] : k \in i .. next - 1},
     caller |-> caller]

\* The heartbeat with the reports of services i .. next - 1 added to it.
Collected(i, next, taken, caller) ==
    [phase  |-> IF next \in Services THEN "check" ELSE "fetch",
     at     |-> next,
     taken  |-> taken \cup ({manual[k] : k \in i .. next - 1} \ {0}),
     caller |-> caller]

\* The mistake of reading a manual status and leaving it in place.
collectStatuses_KeepsReports(b, i, taken, caller) ==
    /\ beats' = [beats EXCEPT ![b] = Collected(i, NextCheck(i), taken, caller)]
    /\ UNCHANGED manual

\* The loop over options.services, from service i to the next await.  A report
\* that is used is removed; one under any other name is not looked up.  At the
\* end of the loop the request is sent.  A check that throws counts as down.
collectStatuses(b, i, taken, caller) ==
    LET next == NextCheck(i)
    IN  /\ beats' = [beats EXCEPT ![b] = Collected(i, next, taken, caller)]
        /\ manual' = [k \in Names |-> IF k \in i .. next - 1 THEN 0 ELSE manual[k]]

beat(b, caller) ==
    /\ beats[b] = NoBeat
    /\ collectStatuses(b, 1, {}, caller)

\* The awaited check function of a heartbeat has settled.
CheckSettles(b) ==
    /\ beats[b].phase = "check"
    /\ collectStatuses(b, beats[b].at + 1, beats[b].taken, beats[b].caller)
    /\ UNCHANGED <<timer, live, registered, checks, call, reports, stops, history>>

\* The heartbeat request has settled.  The server may have received it even if
\* the SDK sees an error; the first heartbeat of a start() decides whether that
\* start() sets an interval or throws.
FetchSettles(b) ==
    /\ beats[b].phase = "fetch"
    /\ \E received, ok \in BOOLEAN :
        LET c  == beats[b].caller
            id == Cardinality({d \in Call : call[d] = "running"}) + 1
        IN  /\ ok => received
            /\ delivered' = [r \in Reports |->
                   delivered[r] + (IF received /\ r \in beats[b].taken THEN 1 ELSE 0)]
            /\ \/ c \notin Call /\ UNCHANGED <<call, timer, live>>
               \/ /\ c \in Call /\ ~ok
                  /\ call' = [call EXCEPT ![c] = "failed"]
                  /\ UNCHANGED <<timer, live>>
               \/ /\ c \in Call /\ ok
                  /\ call' = [call EXCEPT ![c] = "running"]
                  /\ timer' = id
                  /\ live' = live \cup {id}
    /\ beats' = [beats EXCEPT ![b] = NoBeat]
    /\ UNCHANGED <<registered, checks, manual, reports, stops, confirmed, stopped,
                   overlapped>>

\* An interval fires.  Nothing waits for the previous heartbeat.
Tick ==
    /\ live # {}
    /\ \E b \in Slot : beat(b, Timer)
    /\ UNCHANGED <<timer, live, registered, checks, call, reports, stops, history>>

(* ------------------------- the application's calls --------------------- *)

\* beat() is public: it works without start() and without registration.
SendBeat ==
    /\ \E b \in Slot : beat(b, App)
    /\ UNCHANGED <<timer, live, registered, checks, call, reports, stops, history>>

start(c) ==
    /\ call[c] = "new"
    /\ \/ /\ timer # 0
          /\ call' = [call EXCEPT ![c] = "returned"]
          /\ UNCHANGED <<beats, manual>>
       \/ /\ timer = 0 /\ ~registered
          /\ call' = [call EXCEPT ![c] = "registering"]
          /\ UNCHANGED <<beats, manual>>
       \/ /\ timer = 0 /\ registered
          /\ call' = [call EXCEPT ![c] = "beating"]
          /\ \E b \in Slot : beat(b, c)
    /\ stopped' = FALSE
    /\ overlapped' = (overlapped \/ Starting # {})
    /\ UNCHANGED <<timer, live, registered, checks, reports, stops, confirmed,
                   delivered>>

\* The mistake of remembering the attempt instead of the success.
register_MarksFirst(c) ==
    /\ call[c] = "registering"
    /\ registered' = TRUE
    /\ \/ /\ call' = [call EXCEPT ![c] = "failed"]
          /\ UNCHANGED <<confirmed, beats, manual>>
       \/ /\ confirmed' = TRUE
          /\ call' = [call EXCEPT ![c] = "beating"]
          /\ \E b \in Slot : beat(b, c)
    /\ UNCHANGED <<timer, live, checks, reports, stops, delivered, stopped, overlapped>>

\* The registration request of a start() has settled: it throws, or goes on to
\* its first heartbeat.
register(c) ==
    /\ call[c] = "registering"
    /\ \/ /\ call' = [call EXCEPT ![c] = "failed"]
          /\ UNCHANGED <<registered, confirmed, beats, manual>>
       \/ /\ registered' = TRUE /\ confirmed' = TRUE
          /\ call' = [call EXCEPT ![c] = "beating"]
          /\ \E b \in Slot : beat(b, c)
    /\ UNCHANGED <<timer, live, checks, reports, stops, delivered, stopped, overlapped>>

\* The mistake of forgetting the timer without clearing it.
stop_ForgetsOnly ==
    /\ stops < MaxStops /\ stops' = stops + 1
    /\ timer' = 0
    /\ stopped' = TRUE
    /\ overlapped' = (overlapped \/ Starting # {})
    /\ UNCHANGED <<live, registered, checks, call, beats, manual, reports, confirmed,
                   delivered>>

\* stop() clears the interval it knows of; without one it does nothing.
stop ==
    /\ stops < MaxStops /\ stops' = stops + 1
    /\ live' = live \ {timer}
    /\ timer' = 0
    /\ stopped' = TRUE
    /\ overlapped' = (overlapped \/ Starting # {})
    /\ UNCHANGED <<registered, checks, call, beats, manual, reports, confirmed,
                   delivered>>

\* report() accepts any name, and replaces a report of the same name that is
\* still pending.
report ==
    /\ reports < MaxReports /\ reports' = reports + 1
    /\ \E s \in Names : manual' = [manual EXCEPT ![s] = reports']
    /\ UNCHANGED <<timer, live, registered, checks, call, beats, stops, history>>

\* check() gives a service a check function.  One under an unlisted name is
\* stored and never called: nothing here could tell it from none.
check ==
    /\ \E s \in Services \ checks : checks' = checks \cup {s}
    /\ UNCHANGED <<timer, live, registered, call, beats, manual, reports, stops,
                   history>>

Next ==
    \/ \E c \in Call : start(c) \/ register(c)
    \/ \E b \in Slot : CheckSettles(b) \/ FetchSettles(b)
    \/ Tick \/ SendBeat \/ stop \/ report \/ check

Spec == Init /\ [][Next]_vars

\* The event loop fires intervals, check functions settle (the application's
\* part) and requests end, if only with fetch's own time limit.  Nothing is
\* assumed of the application's calls.
FairSpec ==
    /\ Spec /\ WF_vars(Tick)
    /\ \A b \in Slot : WF_vars(CheckSettles(b)) /\ WF_vars(FetchSettles(b))
    /\ \A c \in Call : WF_vars(register(c))

(* ------------------------------ properties ----------------------------- *)

TypeOK ==
    /\ timer \in 0 .. Cardinality(Call)
    /\ live \subseteq 1 .. Cardinality(Call)
    /\ registered \in BOOLEAN /\ checks \subseteq Services
    /\ call \in [Call -> {"new", "registering", "beating", "running", "failed", "returned"}]
    /\ beats \in [Slot -> Beat]
    /\ manual \in [Names -> Reports \cup {0}]
    /\ reports \in 0 .. MaxReports /\ stops \in 0 .. MaxStops
    /\ confirmed \in BOOLEAN /\ delivered \in [Reports -> Nat]
    /\ stopped \in BOOLEAN /\ overlapped \in BOOLEAN

\* "Used once, then cleared" (docs page): however heartbeats overlap and fail,
\* the server receives a manual report at most once, and a report is never
\* both pending and under way, nor under way twice.
ReportUsedOnce ==
    /\ \A r \in Reports : delivered[r] <= 1
    /\ \A b \in Slot : \A r \in beats[b].taken :
        /\ delivered[r] = 0
        /\ \A s \in Names : manual[s] # r
        /\ \A d \in Slot : r \in beats[d].taken => d = b

\* A heartbeat of start() or of an interval is only sent once the server has
\* accepted a registration, however many start() calls failed half-way before.
RegisteredBeforeHeartbeat ==
    (live # {} \/ \E b \in Slot : beats[b] # NoBeat /\ beats[b].caller # App)
        => confirmed

\* A heartbeat the application did not ask for begins.
BeatBegins ==
    \E b \in Slot : beats[b] = NoBeat /\ beats'[b] # NoBeat /\ beats'[b].caller # App

\* For such an application stop() stops: no heartbeat begins until the next
\* start().
StopStopsWhenAwaited ==
    [][ (stopped /\ stopped' /\ ~overlapped') => ~BeatBegins ]_vars

\* A pending report of a listed service is taken as long as an interval is alive,
\* check functions or not.  One under another name is accepted and never taken:
\* no heartbeat looks it up.
ReportIsTaken ==
    \A s \in Services : (manual[s] # 0 /\ live # {}) ~> (manual[s] = 0 \/ live = {})

\* "Stop sending heartbeats. Safe to call multiple times." (docs page): once
\* stop() has been called no heartbeat begins until the next start().
StopStops == [][ (stopped /\ stopped') => ~BeatBegins ]_vars
=============================================================================
