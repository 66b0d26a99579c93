---------------------------- MODULE StatusWindow ---------------------------
(***************************************************************************)
(* The window of recent results of one service, fed one result at a time,  *)
(* and the status the evaluator derives from it.  It is the smallest state *)
(* machine around determineStatus: every window the database can return is *)
(* a state, so invariants quantify over all of them.                       *)
(***************************************************************************)
EXTENDS StatusLogic

CONSTANT WindowSize     \* results GetRecent is asked for (defaultWindowSize)

ASSUME WindowSizeAssumption == WindowSize \in Nat \ {0}

VARIABLE window         \* the newest results of the service, newest first

vars == <<window>>

Init == window = <<>>

\* One result is stored, as the k-th newest.  k = WindowSize + 1 is a result
\* older than everything the window shows.
Store ==
    \E r \in Result, k \in 1 .. Len(window) + 1 :
        window' = GetRecent(window, r, k, WindowSize)

Next == Store

Spec == Init /\ [][Next]_vars

(* ------------------------------ properties ----------------------------- *)

StatusRank(status) ==
    CASE status = "major_outage"   -> 3
      [] status = "partial_outage" -> 2
      [] status = "degraded"       -> 1
      [] OTHER                     -> 0

SingleSource(w) == \A i, j \in DOMAIN w : w[i].source = w[j].source

\* Badness of one result: a failure is worse than a degraded report.
ResultRank(r) == IF Failed(r) THEN 2 ELSE IF r.status = "degraded" THEN 1 ELSE 0

\* While only one source reports on a service, replacing any result of the
\* window by a worse one never improves the status: determineStatus is
\* monotone.  (With both sources it is not: a second source that starts to
\* fail turns a partial outage into a degradation.)
MonotoneInOneSource ==
    SingleSource(window) =>
        \A i \in DOMAIN window : \A r \in Result :
            /\ r.source = window[i].source
            /\ ResultRank(r) >= ResultRank(window[i])
            => StatusRank(determineStatus([window EXCEPT ![i] = r]))
                 >= StatusRank(determineStatus(window))

\* The client's clock cannot change the verdict while the window still has
\* room: wherever checked_at places a result among the others, the status
\* derived is the one it would give as the newest.  (On a full window it can:
\* the position decides which result is dropped.)
ClockOnlyMattersWhenFull ==
    Len(window) < WindowSize =>
        \A r \in Result, k \in 1 .. Len(window) + 1 :
            determineStatus(GetRecent(window, r, k, WindowSize))
                = determineStatus(GetRecent(window, r, 1, WindowSize))

\* Debouncing: on a full window one stored result never takes a service from
\* operational straight to a major outage, nor back, wherever the timestamp
\* places it.
NoSwingOnOneResult ==
    [][ LET before == determineStatus(window)
            after  == determineStatus(window')
        IN  Len(window) = WindowSize
              => /\ ~(before = "operational" /\ after = "major_outage")
                 /\ ~(before = "major_outage" /\ after = "operational") ]_vars
=============================================================================
