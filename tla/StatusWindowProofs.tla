------------------------- MODULE StatusWindowProofs ------------------------
(***************************************************************************)
(* What determineStatus promises about the window of recent results for    *)
(* every window size, and the lemmas about counting failures in a window   *)
(* on which that rests.                                                    *)
(***************************************************************************)
EXTENDS StatusWindow, SequenceTheorems, FiniteSetTheorems, TLAPS

(* -------------------------- windows as sequences ------------------------ *)

\* Storing a result moves the older ones by one place.
LEMMA InsertAtProperties ==
  ASSUME NEW w \in Seq(Result), NEW r \in Result, NEW k \in 1 .. Len(w) + 1
  PROVE  /\ InsertAt(w, k, r) \in Seq(Result)
         /\ Len(InsertAt(w, k, r)) = Len(w) + 1
         /\ \A i \in 1 .. Len(w) + 1 :
              InsertAt(w, k, r)[i] = IF i < k THEN w[i] ELSE IF i = k THEN r ELSE w[i - 1]
  <1> DEFINE newer == SubSeq(w, 1, k - 1)
             older == SubSeq(w, k, Len(w))
  <1>1. Len(w) \in Nat /\ k \in Nat /\ 1 <= k /\ k <= Len(w) + 1
        /\ \A i \in 1 .. Len(w) : w[i] \in Result
    BY LenProperties, ElementOfSeq
  <1>2. /\ newer \in Seq(Result) /\ Len(newer) = k - 1
        /\ \A i \in 1 .. k - 1 : newer[i] = w[i]
    <2>1. \A i \in 1 .. k - 1 : w[i] \in Result BY <1>1
    <2>2. newer \in Seq(Result) /\ Len(newer) = IF 1 <= k - 1 THEN k - 1 - 1 + 1 ELSE 0
      BY <1>1, <2>1, SubSeqProperties
    <2>3. \A i \in 1 .. k - 1 : newer[i] = w[1 + i - 1]
      BY <1>1, <2>1, SubSeqProperties
    <2> HIDE DEF newer
    <2> QED BY <1>1, <2>2, <2>3
  <1>3. /\ older \in Seq(Result) /\ Len(older) = Len(w) - k + 1
        /\ \A i \in 1 .. Len(w) - k + 1 : older[i] = w[k + i - 1]
    <2>1. \A i \in k .. Len(w) : w[i] \in Result BY <1>1
    <2>2. older \in Seq(Result) /\ Len(older) = IF k <= Len(w) THEN Len(w) - k + 1 ELSE 0
      BY <1>1, <2>1, SubSeqProperties
    <2>3. \A i \in 1 .. Len(w) - k + 1 : older[i] = w[k + i - 1]
      BY <1>1, <2>1, SubSeqProperties
    <2> HIDE DEF older
    <2> QED BY <1>1, <2>2, <2>3
  <1>4. InsertAt(w, k, r) = (newer \o <<r>>) \o older BY DEF InsertAt
  <1> HIDE DEF newer, older
  <1>5. <<r>> \in Seq(Result) /\ Len(<<r>>) = 1 /\ <<r>>[1] = r OBVIOUS
  <1> DEFINE front == newer \o <<r>>
  <1>6. /\ front \in Seq(Result) /\ Len(front) = k
        /\ \A i \in 1 .. k : front[i] = IF i < k THEN w[i] ELSE r
    <2>1. /\ front \in Seq(Result) /\ Len(front) = Len(newer) + 1
          /\ \A i \in 1 .. Len(newer) + 1 :
               front[i] = IF i <= Len(newer) THEN newer[i] ELSE <<r>>[i - Len(newer)]
      BY <1>2, <1>5, ConcatProperties
    <2> HIDE DEF front
    <2>2. ASSUME NEW i \in 1 .. k PROVE front[i] = IF i < k THEN w[i] ELSE r
      <3>1. front[i] = IF i <= k - 1 THEN newer[i] ELSE <<r>>[i - (k - 1)]
        BY <1>1, <1>2, <2>1
      <3>2. CASE i < k BY <1>1, <1>2, <3>1, <3>2
      <3>3. CASE i = k
        <4>1. i - (k - 1) = 1 /\ ~(i <= k - 1) /\ ~(i < k) BY <1>1, <3>3
        <4> QED BY <1>5, <3>1, <4>1
      <3> QED BY <1>1, <3>2, <3>3
    <2> QED BY <1>1, <1>2, <2>1, <2>2
  <1> HIDE DEF front
  <1>7. /\ front \o older \in Seq(Result) /\ Len(front \o older) = k + (Len(w) - k + 1)
        /\ \A i \in 1 .. k + (Len(w) - k + 1) :
             (front \o older)[i] = IF i <= k THEN front[i] ELSE older[i - k]
    BY <1>3, <1>6, ConcatProperties
  <1>8. ASSUME NEW i \in 1 .. Len(w) + 1
        PROVE  (front \o older)[i] = IF i < k THEN w[i] ELSE IF i = k THEN r ELSE w[i - 1]
    <2>1. (front \o older)[i] = IF i <= k THEN front[i] ELSE older[i - k] BY <1>1, <1>7
    <2>2. i <= k => front[i] = IF i < k THEN w[i] ELSE r BY <1>1, <1>6
    <2>3. i > k => older[i - k] = w[i - 1]
      <3>1. i > k => i - k \in 1 .. Len(w) - k + 1 /\ k + (i - k) - 1 = i - 1 BY <1>1
      <3> QED BY <1>3, <3>1
    <2> QED BY <1>1, <2>1, <2>2, <2>3
  <1> QED BY <1>1, <1>4, <1>7, <1>8 DEF front

\* The positions of the failures of a window, whose number FailCount is.
Failures(w) == {i \in DOMAIN w : Failed(w[i])}

\* Their number is a number.
LEMMA FailCountType ==
  ASSUME NEW w \in Seq(Result)
  PROVE  /\ DOMAIN w = 1 .. Len(w) /\ Len(w) \in Nat
         /\ IsFiniteSet(Failures(w))
         /\ FailCount(w) = Cardinality(Failures(w)) /\ FailCount(w) \in Nat
         /\ FailCount(w) = 0 <=> \A i \in 1 .. Len(w) : ~Failed(w[i])
  <1>1. DOMAIN w = 1 .. Len(w) /\ Len(w) \in Nat BY LenProperties
  <1>2. IsFiniteSet(1 .. Len(w)) BY <1>1, FS_Interval
  <1>3. Failures(w) \in SUBSET (1 .. Len(w)) BY <1>1 DEF Failures
  <1>4. IsFiniteSet(Failures(w)) BY <1>2, <1>3, FS_Subset
  <1>5. FailCount(w) = Cardinality(Failures(w)) BY DEF FailCount, Failures
  <1>6. FailCount(w) \in Nat BY <1>4, <1>5, FS_CardinalityType
  <1>7. FailCount(w) = 0 <=> Failures(w) = {} BY <1>4, <1>5, FS_EmptySet
  <1> QED BY <1>1, <1>4, <1>5, <1>6, <1>7 DEF Failures

\* Each stored result counts once, wherever its timestamp places it.
LEMMA InsertFailCount ==
  ASSUME NEW w \in Seq(Result), NEW r \in Result, NEW k \in 1 .. Len(w) + 1
  PROVE  FailCount(InsertAt(w, k, r)) = FailCount(w) + IF Failed(r) THEN 1 ELSE 0
  <1> DEFINE all == InsertAt(w, k, r)
             place == [i \in Failures(w) |-> IF i < k THEN i ELSE i + 1]
             old == Failures(all) \ {k}
  <1>1. /\ all \in Seq(Result) /\ Len(all) = Len(w) + 1
        /\ \A i \in 1 .. Len(w) + 1 :
             all[i] = IF i < k THEN w[i] ELSE IF i = k THEN r ELSE w[i - 1]
    BY InsertAtProperties
  <1> HIDE DEF all
  <1>2. /\ DOMAIN w = 1 .. Len(w) /\ Len(w) \in Nat /\ IsFiniteSet(Failures(w))
        /\ FailCount(w) = Cardinality(Failures(w)) /\ FailCount(w) \in Nat
    BY FailCountType
  <1>3. /\ DOMAIN all = 1 .. Len(w) + 1 /\ IsFiniteSet(Failures(all))
        /\ FailCount(all) = Cardinality(Failures(all))
    BY <1>1, FailCountType
  <1>4. k \in Int /\ 1 <= k /\ k <= Len(w) + 1 BY <1>2
  <1>5. ASSUME NEW i \in Failures(w) PROVE place[i] \in old
    <2>1. i \in 1 .. Len(w) /\ Failed(w[i]) BY <1>2 DEF Failures
    <2>2. CASE i < k
      <3>1. all[i] = w[i] /\ i \in 1 .. Len(w) + 1 /\ i # k BY <1>1, <1>2, <1>4, <2>1, <2>2
      <3> QED BY <1>3, <2>1, <2>2, <3>1 DEF Failures
    <2>3. CASE ~(i < k)
      <3>1. i + 1 \in 1 .. Len(w) + 1 /\ ~(i + 1 < k) /\ i + 1 # k /\ (i + 1) - 1 = i
        BY <1>2, <1>4, <2>1, <2>3
      <3>2. all[i + 1] = w[i] BY <1>1, <3>1
      <3> QED BY <1>3, <2>1, <2>3, <3>1, <3>2 DEF Failures
    <2> QED BY <2>2, <2>3
  <1>6. place \in Bijection(Failures(w), old)
    <2>1. place \in [Failures(w) -> old] BY <1>5
    <2>2. ASSUME NEW i \in Failures(w), NEW j \in Failures(w), place[i] = place[j]
          PROVE  i = j
      <3>1. i \in Int /\ j \in Int BY <1>2 DEF Failures
      <3> QED BY <1>4, <2>2, <3>1
    <2>3. ASSUME NEW j \in old PROVE \E i \in Failures(w) : place[i] = j
      <3>1. j \in 1 .. Len(w) + 1 /\ j # k /\ Failed(all[j]) BY <1>3 DEF Failures
      <3>2. CASE j < k
        <4>1. j \in 1 .. Len(w) /\ all[j] = w[j] BY <1>1, <1>2, <1>4, <3>1, <3>2
        <4>2. j \in Failures(w) BY <1>2, <3>1, <4>1 DEF Failures
        <4> QED BY <3>2, <4>2
      <3>3. CASE ~(j < k)
        <4>1. j - 1 \in 1 .. Len(w) /\ all[j] = w[j - 1] /\ ~(j - 1 < k) /\ (j - 1) + 1 = j
          BY <1>1, <1>2, <1>4, <3>1, <3>3
        <4>2. j - 1 \in Failures(w) BY <1>2, <3>1, <4>1 DEF Failures
        <4> QED BY <4>1, <4>2
      <3> QED BY <3>2, <3>3
    <2> HIDE DEF place, old
    <2> QED BY <2>1, <2>2, <2>3 DEF Bijection, Injection, Surjection, IsInjective
  <1>7. IsFiniteSet(old) /\ Cardinality(old) = FailCount(w)
    <2>1. ExistsBijection(Failures(w), old) BY <1>6 DEF ExistsBijection
    <2> HIDE DEF old
    <2> QED BY <1>2, <2>1, FS_Bijection
  <1>8. all[k] = r /\ k \in DOMAIN all BY <1>1, <1>2, <1>3, <1>4
  <1>9. CASE Failed(r)
    <2>1. Failures(all) = old \cup {k} /\ k \notin old BY <1>8, <1>9 DEF Failures
    <2>2. Cardinality(Failures(all)) = Cardinality(old) + 1
      <3> HIDE DEF old
      <3> QED BY <1>7, <2>1, FS_AddElement
    <2> QED BY <1>3, <1>7, <1>9, <2>2 DEF all
  <1>10. CASE ~Failed(r)
    <2>1. Failures(all) = old BY <1>8, <1>10 DEF Failures
    <2> HIDE DEF old
    <2> QED BY <1>2, <1>3, <1>7, <1>10, <2>1 DEF all
  <1> QED BY <1>9, <1>10

\* Dropping the oldest result of a window that is too long forgets at most one
\* failure.
LEMMA DropOldestFailCount ==
  ASSUME NEW w \in Seq(Result), NEW n \in Nat, Len(w) = n + 1
  PROVE  /\ SubSeq(w, 1, n) \in Seq(Result) /\ Len(SubSeq(w, 1, n)) = n
         /\ FailCount(SubSeq(w, 1, n)) <= FailCount(w)
         /\ FailCount(w) <= FailCount(SubSeq(w, 1, n)) + 1
  <1> DEFINE kept == SubSeq(w, 1, n)
  <1>1. \A i \in 1 .. n : w[i] \in Result BY ElementOfSeq
  <1>2. /\ kept \in Seq(Result) /\ Len(kept) = n
        /\ \A i \in 1 .. n : kept[i] = w[i]
    <2>1. /\ kept \in Seq(Result) /\ Len(kept) = IF 1 <= n THEN n - 1 + 1 ELSE 0
          /\ \A i \in 1 .. n - 1 + 1 : kept[i] = w[1 + i - 1]
      BY <1>1, SubSeqProperties
    <2> HIDE DEF kept
    <2> QED BY <2>1
  <1> HIDE DEF kept
  <1>3. /\ DOMAIN w = 1 .. n + 1 /\ DOMAIN kept = 1 .. n
        /\ IsFiniteSet(Failures(w)) /\ IsFiniteSet(Failures(kept))
        /\ FailCount(w) = Cardinality(Failures(w)) /\ FailCount(w) \in Nat
        /\ FailCount(kept) = Cardinality(Failures(kept)) /\ FailCount(kept) \in Nat
    BY <1>2, FailCountType
  <1>4. Failures(kept) \in SUBSET Failures(w) BY <1>2, <1>3 DEF Failures
  <1>5. Failures(w) \in SUBSET (Failures(kept) \cup {n + 1})
    BY <1>2, <1>3 DEF Failures
  <1>6. FailCount(kept) <= FailCount(w)
    <2>1. Cardinality(Failures(kept)) <= Cardinality(Failures(w)) BY <1>3, <1>4, FS_Subset
    <2> QED BY <1>3, <2>1
  <1>7. /\ IsFiniteSet(Failures(kept) \cup {n + 1})
        /\ Cardinality(Failures(kept) \cup {n + 1}) <= FailCount(kept) + 1
        /\ Cardinality(Failures(kept) \cup {n + 1}) \in Nat
    <2>1. n + 1 \notin Failures(kept) BY <1>3 DEF Failures
    <2>2. /\ IsFiniteSet(Failures(kept) \cup {n + 1})
          /\ Cardinality(Failures(kept) \cup {n + 1}) = Cardinality(Failures(kept)) + 1
      BY <1>3, <2>1, FS_AddElement
    <2> QED BY <1>3, <2>2
  <1>8. FailCount(w) <= Cardinality(Failures(kept) \cup {n + 1})
    <2>1. Cardinality(Failures(w)) <= Cardinality(Failures(kept) \cup {n + 1})
      BY <1>5, <1>7, FS_Subset
    <2> QED BY <1>3, <2>1
  <1> QED BY <1>2, <1>3, <1>6, <1>7, <1>8 DEF kept

\* The window after one more result is stored: its failures are those before,
\* one more or one less.
LEMMA GetRecentFailCount ==
  ASSUME NEW w \in Seq(Result), NEW r \in Result, NEW k \in 1 .. Len(w) + 1,
         NEW limit \in Nat, Len(w) <= limit
  PROVE  /\ GetRecent(w, r, k, limit) \in Seq(Result)
         /\ Len(GetRecent(w, r, k, limit)) = IF Len(w) < limit THEN Len(w) + 1 ELSE limit
         /\ Len(w) < limit => GetRecent(w, r, k, limit) = InsertAt(w, k, r)
         /\ FailCount(GetRecent(w, r, k, limit)) <= FailCount(w) + 1
         /\ FailCount(w) <= FailCount(GetRecent(w, r, k, limit)) + 1
  <1> DEFINE all == InsertAt(w, k, r)
  <1>1. /\ all \in Seq(Result) /\ Len(all) = Len(w) + 1 /\ Len(w) \in Nat
        /\ FailCount(all) = FailCount(w) + IF Failed(r) THEN 1 ELSE 0
        /\ FailCount(w) \in Nat /\ FailCount(all) \in Nat
    <2>1. all \in Seq(Result) /\ Len(all) = Len(w) + 1 BY InsertAtProperties
    <2>2. FailCount(all) = FailCount(w) + IF Failed(r) THEN 1 ELSE 0 BY InsertFailCount
    <2> HIDE DEF all
    <2> QED BY <2>1, <2>2, FailCountType
  <1>2. GetRecent(w, r, k, limit) = IF Len(all) <= limit THEN all ELSE SubSeq(all, 1, limit)
    BY DEF GetRecent
  <1>3. CASE Len(w) < limit
    <2>1. GetRecent(w, r, k, limit) = all BY <1>1, <1>2, <1>3
    <2> HIDE DEF all
    <2>2. GetRecent(w, r, k, limit) = InsertAt(w, k, r) BY <2>1 DEF all
    <2> QED BY <1>1, <1>3, <2>1, <2>2
  <1>4. CASE ~(Len(w) < limit)
    <2>1. GetRecent(w, r, k, limit) = SubSeq(all, 1, limit) /\ Len(all) = limit + 1
      BY <1>1, <1>2, <1>4
    <2> HIDE DEF all
    <2>2. /\ SubSeq(all, 1, limit) \in Seq(Result) /\ Len(SubSeq(all, 1, limit)) = limit
          /\ FailCount(SubSeq(all, 1, limit)) <= FailCount(all)
          /\ FailCount(all) <= FailCount(SubSeq(all, 1, limit)) + 1
      BY <1>1, <2>1, DropOldestFailCount
    <2>3. FailCount(SubSeq(all, 1, limit)) \in Nat BY <2>2, FailCountType
    <2> QED BY <1>1, <1>4, <2>1, <2>2, <2>3
  <1> QED BY <1>3, <1>4

(* ------------------------------ the window ----------------------------- *)

\* What the database returns is a window of results, of at most WindowSize.
WindowInv == window \in Seq(Result) /\ Len(window) <= WindowSize

\* Storing a result, wherever its timestamp places it, keeps that.
LEMMA WindowInvariant == Spec => []WindowInv
  <1>1. Init => WindowInv
    BY WindowSizeAssumption, EmptySeq DEF Init, WindowInv
  <1>2. WindowInv /\ [Next]_vars => WindowInv'
    <2> SUFFICES ASSUME WindowInv, [Next]_vars PROVE WindowInv' OBVIOUS
    <2>1. CASE Store
      <3>1. PICK r \in Result, k \in 1 .. Len(window) + 1 :
              window' = GetRecent(window, r, k, WindowSize)
        BY <2>1 DEF Store
      <3>2. Len(window) \in Nat /\ window \in Seq(Result) /\ Len(window) <= WindowSize
            /\ WindowSize \in Nat
        BY WindowSizeAssumption, LenProperties DEF WindowInv
      <3>3. /\ GetRecent(window, r, k, WindowSize) \in Seq(Result)
            /\ Len(GetRecent(window, r, k, WindowSize))
                 = IF Len(window) < WindowSize THEN Len(window) + 1 ELSE WindowSize
        BY <3>2, GetRecentFailCount
      <3> QED BY <3>1, <3>2, <3>3 DEF WindowInv
    <2>2. CASE UNCHANGED vars BY <2>2 DEF vars, WindowInv
    <2> QED BY <2>1, <2>2 DEF Next
  <1> QED BY <1>1, <1>2, PTL DEF Spec

(* ------------------------- determineStatus is monotone ------------------ *)

\* The rank of each status that determineStatus returns.
LEMMA StatusRanks ==
  /\ StatusRank("unknown") = 0 /\ StatusRank("operational") = 0
  /\ StatusRank("degraded") = 1 /\ StatusRank("partial_outage") = 2
  /\ StatusRank("major_outage") = 3
  BY DEF StatusRank

\* A rank of a result tells a failure, a degraded report and the rest apart.
LEMMA ResultRanks ==
  ASSUME NEW r \in Result
  PROVE  /\ ResultRank(r) \in {0, 1, 2} /\ (ResultRank(r) = 2 <=> Failed(r))
         /\ ResultRank(r) = 1 <=> r.status = "degraded"
         /\ r.source \in {"heartbeat", "external"}
  BY DEF ResultRank, Failed, Result, HeartbeatResult, ExternalResult

\* One result of a window replaced by a worse one of the same source makes the
\* status no better.
LEMMA WorseResultWorseStatus ==
  ASSUME NEW w \in Seq(Result), SingleSource(w), NEW i \in DOMAIN w, NEW r \in Result,
         r.source = w[i].source, ResultRank(r) >= ResultRank(w[i])
  PROVE  StatusRank(determineStatus([w EXCEPT ![i] = r])) >= StatusRank(determineStatus(w))
  <1> DEFINE v == [w EXCEPT ![i] = r]
             deg(x) == \E j \in DOMAIN x : x[j].status = "degraded"
  <1>1. /\ DOMAIN w = 1 .. Len(w) /\ Len(w) \in Nat /\ w \in [1 .. Len(w) -> Result]
        /\ \A j \in 1 .. Len(w) : w[j] \in Result
    BY LenProperties
  <1>2. /\ v \in Seq(Result) /\ Len(v) = Len(w) /\ DOMAIN v = 1 .. Len(w)
        /\ \A j \in 1 .. Len(w) : v[j] = IF j = i THEN r ELSE w[j]
    BY <1>1
  <1> HIDE DEF v
  <1>3. w # <<>> /\ v # <<>>
    <2>1. Len(w) # 0 BY <1>1
    <2> QED BY <1>2, <2>1, EmptySeq
  <1>4. \A x \in {w, v} : ~SourcesDisagree(x)
    <2>1. \A x \in {w, v} : \A j, k \in DOMAIN x : x[j].source = x[k].source
      BY <1>1, <1>2 DEF SingleSource
    <2> QED BY <2>1 DEF SourcesDisagree, Reports
  <1>5. /\ FailCount(w) \in Nat /\ FailCount(v) \in Nat
        /\ IsFiniteSet(Failures(v))
        /\ FailCount(w) = Cardinality(Failures(w)) /\ FailCount(v) = Cardinality(Failures(v))
        /\ FailCount(v) = 0 <=> \A j \in 1 .. Len(v) : ~Failed(v[j])
    BY <1>2, FailCountType
  <1>6. FailCount(w) <= FailCount(v)
    <2>1. Failed(w[i]) => Failed(r)
      BY <1>1, ResultRanks
    <2>2. Failures(w) \in SUBSET Failures(v)
      BY <1>1, <1>2, <2>1 DEF Failures
    <2>3. Cardinality(Failures(w)) <= Cardinality(Failures(v))
      BY <1>5, <2>2, FS_Subset
    <2> QED BY <1>5, <2>3
  <1>7. MajorityFails(w) => MajorityFails(v)
    BY <1>1, <1>2, <1>5, <1>6 DEF MajorityFails
  <1>8. FailCount(v) = 0 /\ deg(w) => deg(v)
    <2> SUFFICES ASSUME FailCount(v) = 0, NEW j \in 1 .. Len(w), w[j].status = "degraded"
                 PROVE  \E k \in 1 .. Len(w) : v[k].status = "degraded"
      BY <1>1, <1>2
    <2>1. CASE j # i BY <1>2, <2>1
    <2>2. CASE j = i
      <3>1. ~Failed(r) BY <1>1, <1>2, <1>5
      <3>2. ResultRank(w[i]) = 1 /\ ResultRank(r) \in {0, 1, 2} /\ ResultRank(r) # 2
        BY <1>1, <2>2, <3>1, ResultRanks
      <3>3. ResultRank(r) = 1 BY <3>2
      <3>4. r.status = "degraded" BY <3>3, ResultRanks
      <3> QED BY <1>1, <1>2, <3>4
    <2> QED BY <2>1, <2>2
  <1>9. \A x \in {w, v} :
          determineStatus(x) = IF FailCount(x) = 0
                               THEN IF deg(x) THEN "degraded" ELSE "operational"
                               ELSE IF MajorityFails(x) THEN "major_outage" ELSE "degraded"
    BY <1>3, <1>4 DEF determineStatus
  <1> HIDE DEF deg
  <1>10. CASE FailCount(w) = 0
    <2>1. CASE deg(w)
      <3>1. determineStatus(w) = "degraded" BY <1>9, <1>10, <2>1
      <3>2. determineStatus(v) \in {"degraded", "major_outage"} BY <1>8, <1>9, <2>1
      <3> QED BY <3>1, <3>2, StatusRanks DEF v
    <2>2. CASE ~deg(w)
      <3>1. determineStatus(w) = "operational" BY <1>9, <1>10, <2>2
      <3>2. determineStatus(v) \in {"operational", "degraded", "major_outage"} BY <1>9
      <3> QED BY <3>1, <3>2, StatusRanks DEF v
    <2> QED BY <2>1, <2>2
  <1>11. CASE FailCount(w) # 0
    <2>1. FailCount(v) # 0 BY <1>5, <1>6, <1>11
    <2>2. CASE MajorityFails(w)
      <3>1. determineStatus(w) = "major_outage" /\ determineStatus(v) = "major_outage"
        BY <1>7, <1>9, <1>11, <2>1, <2>2
      <3> QED BY <3>1, StatusRanks DEF v
    <2>3. CASE ~MajorityFails(w)
      <3>1. determineStatus(w) = "degraded" BY <1>9, <1>11, <2>3
      <3>2. determineStatus(v) \in {"degraded", "major_outage"} BY <1>9, <2>1
      <3> QED BY <3>1, <3>2, StatusRanks DEF v
    <2> QED BY <2>2, <2>3
  <1> QED BY <1>10, <1>11

\* determineStatus is monotone while one source reports: replacing any result of
\* any window by a worse one never improves the status, for every window size.
THEOREM StatusIsMonotone == Spec => []MonotoneInOneSource
  <1>1. ASSUME WindowInv PROVE MonotoneInOneSource
    BY <1>1, WorseResultWorseStatus DEF WindowInv, MonotoneInOneSource
  <1> QED BY <1>1, WindowInvariant, PTL

(* --------------------------- the client's clock ------------------------- *)

\* A window with one more result holds the same results wherever it is placed.
LEMMA SameResults ==
  ASSUME NEW w \in Seq(Result), NEW r \in Result, NEW k \in 1 .. Len(w) + 1
  PROVE  /\ \A j \in DOMAIN InsertAt(w, k, r) :
              \E i \in DOMAIN InsertAt(w, 1, r) : InsertAt(w, 1, r)[i] = InsertAt(w, k, r)[j]
         /\ \A j \in DOMAIN InsertAt(w, 1, r) :
              \E i \in DOMAIN InsertAt(w, k, r) : InsertAt(w, k, r)[i] = InsertAt(w, 1, r)[j]
  <1> DEFINE a == InsertAt(w, k, r)
             b == InsertAt(w, 1, r)
  <1>1. Len(w) \in Nat /\ 1 \in 1 .. Len(w) + 1 BY LenProperties
  <1>2. /\ a \in Seq(Result) /\ Len(a) = Len(w) + 1
        /\ \A i \in 1 .. Len(w) + 1 :
             a[i] = IF i < k THEN w[i] ELSE IF i = k THEN r ELSE w[i - 1]
    BY InsertAtProperties
  <1>3. /\ b \in Seq(Result) /\ Len(b) = Len(w) + 1
        /\ \A i \in 1 .. Len(w) + 1 :
             b[i] = IF i < 1 THEN w[i] ELSE IF i = 1 THEN r ELSE w[i - 1]
    BY <1>1, InsertAtProperties
  <1> HIDE DEF a, b
  <1>4. DOMAIN a = 1 .. Len(w) + 1 /\ DOMAIN b = 1 .. Len(w) + 1
    BY <1>2, <1>3, LenProperties
  <1>5. ASSUME NEW j \in 1 .. Len(w) + 1
        PROVE  \E i \in 1 .. Len(w) + 1 : b[i] = a[j]
    <2>1. CASE j < k
      <3>1. j + 1 \in 1 .. Len(w) + 1 /\ ~(j + 1 < 1) /\ j + 1 # 1 /\ (j + 1) - 1 = j
        BY <1>1, <2>1
      <3>2. b[j + 1] = w[j] /\ a[j] = w[j] BY <1>2, <1>3, <2>1, <3>1
      <3> QED BY <3>1, <3>2
    <2>2. CASE j = k
      <3>1. b[1] = r /\ a[j] = r BY <1>1, <1>2, <1>3, <2>2
      <3> QED BY <1>1, <3>1
    <2>3. CASE j > k
      <3>1. a[j] = w[j - 1] /\ b[j] = w[j - 1] BY <1>1, <1>2, <1>3, <2>3
      <3> QED BY <3>1
    <2> QED BY <1>1, <2>1, <2>2, <2>3
  <1>6. ASSUME NEW j \in 1 .. Len(w) + 1
        PROVE  \E i \in 1 .. Len(w) + 1 : a[i] = b[j]
    <2>1. CASE j = 1
      <3>1. b[j] = r /\ a[k] = r BY <1>1, <1>2, <1>3, <2>1
      <3> QED BY <3>1
    <2>2. CASE j # 1 /\ j - 1 < k
      <3>1. b[j] = w[j - 1] /\ j - 1 \in 1 .. Len(w) + 1 BY <1>1, <1>3, <2>2
      <3>2. a[j - 1] = w[j - 1] BY <1>2, <2>2, <3>1
      <3> QED BY <3>1, <3>2
    <2>3. CASE j # 1 /\ ~(j - 1 < k)
      <3>1. b[j] = w[j - 1] /\ a[j] = w[j - 1] BY <1>1, <1>2, <1>3, <2>3
      <3> QED BY <3>1
    <2> QED BY <2>1, <2>2, <2>3
  <1> QED BY <1>4, <1>5, <1>6 DEF a, b

\* The status depends on which results a window holds, and how many of them
\* failed, not on their order.
LEMMA StatusOfSameResults ==
  ASSUME NEW a \in Seq(Result), NEW b \in Seq(Result), Len(a) = Len(b),
         FailCount(a) = FailCount(b),
         \A j \in DOMAIN a : \E i \in DOMAIN b : b[i] = a[j],
         \A j \in DOMAIN b : \E i \in DOMAIN a : a[i] = b[j]
  PROVE  determineStatus(a) = determineStatus(b)
  <1>1. a = <<>> <=> b = <<>>
    <2>1. \A x \in Seq(Result) : x = <<>> <=> Len(x) = 0 BY EmptySeq
    <2> QED BY <2>1
  <1>2. \A x : Reports(a, x) <=> Reports(b, x) BY DEF Reports
  <1>3. \A x : FailsIn(a, x) = FailsIn(b, x) BY DEF FailsIn
  <1>4. SourcesDisagree(a) <=> SourcesDisagree(b)
    BY <1>2, <1>3 DEF SourcesDisagree
  <1>5. MajorityFails(a) <=> MajorityFails(b) BY DEF MajorityFails
  <1>6. (\E i \in DOMAIN a : a[i].status = "degraded")
          <=> (\E i \in DOMAIN b : b[i].status = "degraded")
    OBVIOUS
  <1> QED BY <1>1, <1>4, <1>5, <1>6 DEF determineStatus

\* The client's clock decides nothing while the window has room, for every
\* window size: a result gives the same status wherever checked_at places it.
THEOREM ClockDecidesNothing == Spec => []ClockOnlyMattersWhenFull
  <1>1. ASSUME WindowInv PROVE ClockOnlyMattersWhenFull
    <2> SUFFICES ASSUME Len(window) < WindowSize, NEW r \in Result,
                        NEW k \in 1 .. Len(window) + 1
                 PROVE  determineStatus(GetRecent(window, r, k, WindowSize))
                          = determineStatus(GetRecent(window, r, 1, WindowSize))
      BY DEF ClockOnlyMattersWhenFull
    <2>1. /\ window \in Seq(Result) /\ Len(window) <= WindowSize /\ WindowSize \in Nat
          /\ 1 \in 1 .. Len(window) + 1
      BY <1>1, WindowSizeAssumption, LenProperties DEF WindowInv
    <2>2. \A p \in 1 .. Len(window) + 1 :
            /\ GetRecent(window, r, p, WindowSize) = InsertAt(window, p, r)
            /\ InsertAt(window, p, r) \in Seq(Result)
            /\ Len(InsertAt(window, p, r)) = Len(window) + 1
            /\ FailCount(InsertAt(window, p, r))
                 = FailCount(window) + IF Failed(r) THEN 1 ELSE 0
      BY <2>1, GetRecentFailCount, InsertAtProperties, InsertFailCount
    <2>3. determineStatus(InsertAt(window, k, r)) = determineStatus(InsertAt(window, 1, r))
      BY <2>1, <2>2, SameResults, StatusOfSameResults
    <2> QED BY <2>1, <2>2, <2>3
  <1> QED BY <1>1, WindowInvariant, PTL

(* ------------------------------ debouncing ------------------------------ *)

\* Debouncing, for every window of at least two results (the code asks for
\* five; with one, the newest result alone decides): on a full window no single
\* result takes a service from operational to a major outage, nor back.
THEOREM NoSwing ==
  ASSUME WindowSize >= 2
  PROVE  Spec => NoSwingOnOneResult
  <1>1. ASSUME WindowInv, [Next]_vars
        PROVE  [ LET before == determineStatus(window)
                     after  == determineStatus(window')
                 IN  Len(window) = WindowSize
                       => /\ ~(before = "operational" /\ after = "major_outage")
                          /\ ~(before = "major_outage" /\ after = "operational") ]_vars
    <2> SUFFICES ASSUME Store, Len(window) = WindowSize
                 PROVE  /\ ~(determineStatus(window) = "operational"
                               /\ determineStatus(window') = "major_outage")
                        /\ ~(determineStatus(window) = "major_outage"
                               /\ determineStatus(window') = "operational")
      BY <1>1 DEF Next
    <2>1. PICK r \in Result, k \in 1 .. Len(window) + 1 :
            window' = GetRecent(window, r, k, WindowSize)
      BY DEF Store
    <2>2. window \in Seq(Result) /\ WindowSize \in Nat /\ Len(window) <= WindowSize
      BY <1>1, WindowSizeAssumption DEF WindowInv
    <2>3. /\ window' \in Seq(Result) /\ Len(window') = WindowSize
          /\ FailCount(window') <= FailCount(window) + 1
          /\ FailCount(window) <= FailCount(window') + 1
      BY <2>1, <2>2, GetRecentFailCount
    <2>4. FailCount(window) \in Nat /\ FailCount(window') \in Nat
      BY <2>2, <2>3, FailCountType
    <2>5. \A w : determineStatus(w) = "operational" => FailCount(w) = 0
      BY DEF determineStatus
    <2>6. \A w : determineStatus(w) = "major_outage" => MajorityFails(w)
      BY DEF determineStatus
    <2>7. \A w \in {window, window'} : MajorityFails(w) => FailCount(w) >= 2
      BY <2>2, <2>3, <2>4 DEF MajorityFails
    <2> QED BY <2>3, <2>4, <2>5, <2>6, <2>7
  <1> QED BY <1>1, WindowInvariant, PTL DEF Spec, NoSwingOnOneResult
=============================================================================
