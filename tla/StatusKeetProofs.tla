-------------------------- MODULE StatusKeetProofs -------------------------
(***************************************************************************)
(* What one StatusKeet object guarantees for any number of services, calls *)
(* of start(), heartbeats in flight and reports.                           *)
(***************************************************************************)
EXTENDS StatusKeet, FiniteSetTheorems, WellFoundedInduction, TLAPS

\* Every report is in one place: not made, pending under one name, carried by
\* one heartbeat, received by the server, or lost.
ReportsInOnePlace ==
    /\ ReportUsedOnce
    /\ \A r \in Reports : r > reports =>
        /\ delivered[r] = 0
        /\ \A s \in Names : manual[s] # r
        /\ \A b \in Slot : r \notin beats[b].taken
    /\ \A s \in Names : manual[s] # 0 =>
        /\ delivered[manual[s]] = 0
        /\ \A t \in Names : manual[t] = manual[s] => t = s

\* What the SDK remembers of a registration is true of the server.
RegistrationIsReal ==
    /\ registered => confirmed
    /\ RegisteredBeforeHeartbeat

\* A heartbeat that a start() awaits is the only one, and is awaited.
CallersWait ==
    \A b \in Slot : beats[b].caller \in Call =>
        /\ call[beats[b].caller] = "beating"
        /\ \A d \in Slot : beats[d].caller = beats[b].caller => d = b

\* As long as no start() was overlapped there is one interval at most, and it
\* is the one stop() knows of.
OneInterval ==
    ~overlapped =>
        /\ live \subseteq {timer} /\ (timer = 0 => live = {})
        /\ \A c, d \in Starting : c = d
        /\ Starting # {} => live = {}
        /\ stopped => live = {} /\ Starting = {}

SDKInv == TypeOK /\ ReportsInOnePlace /\ RegistrationIsReal /\ CallersWait /\ OneInterval

USE SDKAssumption
USE DEF Services, Names, Reports, history

(* The loop stops at a service or at its end.                               *)
LEMMA NextCheckInRange ==
  ASSUME NEW i \in Nat
  PROVE  NextCheck(i) \in 1 .. NumServices + 1
  <1> DEFINE S == {k \in Services : k >= i /\ k \in checks /\ manual[k] = 0}
                    \cup {NumServices + 1}
         less == {ss \in Nat \X Nat : ss[1] < ss[2]}
  <1>1. S \in SUBSET Nat /\ S # {} /\ S \subseteq 1 .. NumServices + 1 OBVIOUS
  <1>2. IsWellFoundedOn(less, Nat) BY NatLessThanWellFounded DEF OpToRel
  <1>3. PICK x \in S : \A y \in S : ~(<<y, x>> \in less)
    <2> HIDE DEF S, less
    <2> QED BY <1>1, <1>2, WFMin
  <1>4. \A y \in S : x <= y
    <2> TAKE y \in S
    <2>1. x \in Nat /\ y \in Nat BY <1>1
    <2>2. <<y, x>> \notin less BY <1>3
    <2> QED BY <2>1, <2>2
  <1>5. Min(S) \in S BY <1>4 DEF Min
  <1> QED BY <1>1, <1>5 DEF NextCheck

\* Heartbeat b goes on from service i, for a caller: it takes the reports that
\* were pending at the services before the one it stops at.
Moves(b, i, caller) ==
    \E next \in 1 .. NumServices + 1 :
        /\ \A d \in Slot \ {b} : beats'[d] = beats[d]
        /\ beats'[b].caller = caller /\ beats'[b] # NoBeat
        /\ beats'[b].taken = beats[b].taken \cup ({manual[k] : k \in i .. next - 1} \ {0})
        /\ \A s \in Names : manual'[s] = IF s \in i .. next - 1 THEN 0 ELSE manual[s]

(* Going on with a heartbeat moves the pending reports of the services it   *)
(* passes into the heartbeat.                                               *)
LEMMA CollectMoves ==
  ASSUME TypeOK, NEW b \in Slot, NEW i \in Nat \ {0},
         NEW caller \in Call \cup {Timer, App},
         collectStatuses(b, i, beats[b].taken, caller)
  PROVE  /\ beats' \in [Slot -> Beat] /\ manual' \in [Names -> Reports \cup {0}]
         /\ Moves(b, i, caller)
  <1> DEFINE next == NextCheck(i)
             new  == Collected(i, next, beats[b].taken, caller)
  <1>1. next \in 1 .. NumServices + 1 BY NextCheckInRange
  <1>2. i .. next - 1 \subseteq Services BY <1>1
  <1>3. /\ beats' = [beats EXCEPT ![b] = new]
        /\ manual' = [k \in Names |-> IF k \in i .. next - 1 THEN 0 ELSE manual[k]]
    BY DEF collectStatuses
  <1> HIDE DEF next
  <1>4. {manual[k] : k \in i .. next - 1} \ {0} \subseteq Reports BY <1>2 DEF TypeOK
  <1>5. beats[b].taken \subseteq Reports BY DEF TypeOK, Beat
  <1>6. new \in Beat BY <1>1, <1>4, <1>5 DEF Collected, Beat
  <1>7. /\ new.caller = caller /\ new # NoBeat
        /\ new.taken = beats[b].taken \cup ({manual[k] : k \in i .. next - 1} \ {0})
    BY DEF Collected, NoBeat
  <1> HIDE DEF new
  <1>8. beats \in [Slot -> Beat] /\ manual \in [Names -> Reports \cup {0}] BY DEF TypeOK
  <1> QED BY <1>1, <1>3, <1>6, <1>7, <1>8 DEF Moves

(* ... and so leaves every report in one place.                             *)
LEMMA CollectKeepsReports ==
  ASSUME TypeOK, ReportsInOnePlace, NEW b \in Slot, NEW i \in Nat \ {0},
         NEW caller \in Call \cup {Timer, App},
         collectStatuses(b, i, beats[b].taken, caller), UNCHANGED <<delivered, reports>>
  PROVE  ReportsInOnePlace'
  <1>0. Moves(b, i, caller) BY CollectMoves
  <1>1. PICK next \in 1 .. NumServices + 1 :
           /\ \A d \in Slot \ {b} : beats'[d] = beats[d]
           /\ beats'[b].taken = beats[b].taken \cup ({manual[k] : k \in i .. next - 1} \ {0})
           /\ \A s \in Names : manual'[s] = IF s \in i .. next - 1 THEN 0 ELSE manual[s]
    BY <1>0 DEF Moves
  <1>2. i .. next - 1 \subseteq Names OBVIOUS
  <1>3. \A s \in Names : manual'[s] # 0 => s \notin i .. next - 1 /\ manual'[s] = manual[s]
    BY <1>1
  <1>4. ASSUME NEW r \in beats'[b].taken, r \notin beats[b].taken
        PROVE  \E k \in Names : k \in i .. next - 1 /\ manual[k] = r /\ r # 0
    BY <1>1, <1>2, <1>4
  <1>5. \A r \in Reports : r # 0 OBVIOUS
  <1> HIDE DEF Services, Names, Reports
  <1>6. ASSUME NEW d \in Slot, NEW r \in beats'[d].taken
        PROVE  /\ delivered[r] = 0
               /\ \A s \in Names : manual'[s] # r
               /\ \A e \in Slot : r \in beats'[e].taken => e = d
    <2>1. CASE r \in beats[d].taken
      <3>1. r \in Reports BY <2>1 DEF TypeOK, Beat
      <3>2. \A s \in Names : manual[s] # r
        BY <2>1 DEF ReportsInOnePlace, ReportUsedOnce
      <3> QED BY <1>1, <1>3, <1>4, <1>5, <2>1, <3>1, <3>2 DEF ReportsInOnePlace, ReportUsedOnce
    <2>2. CASE r \notin beats[d].taken
      <3>1. d = b BY <1>1, <1>6, <2>2
      <3>2. PICK k \in Names : k \in i .. next - 1 /\ manual[k] = r /\ r # 0
        BY <1>4, <1>6, <2>2, <3>1
      <3>3. /\ delivered[r] = 0
            /\ \A t \in Names : manual[t] = r => t = k
        BY <3>2 DEF ReportsInOnePlace
      <3>4. \A s \in Names : manual'[s] # r BY <1>3, <3>2, <3>3
      <3>5. \A e \in Slot : r \notin beats[e].taken
        BY <3>2 DEF ReportsInOnePlace, ReportUsedOnce
      <3> QED BY <1>1, <3>1, <3>3, <3>4, <3>5
    <2> QED BY <2>1, <2>2
  <1>7. ReportUsedOnce'
    BY <1>6 DEF ReportsInOnePlace, ReportUsedOnce
  <1>8. ASSUME NEW r \in Reports, r > reports
        PROVE  /\ delivered[r] = 0
               /\ \A s \in Names : manual'[s] # r
               /\ \A d \in Slot : r \notin beats'[d].taken
    <2>1. /\ delivered[r] = 0
          /\ \A s \in Names : manual[s] # r
          /\ \A d \in Slot : r \notin beats[d].taken
      BY <1>8 DEF ReportsInOnePlace
    <2> QED BY <1>1, <1>3, <1>4, <1>5, <2>1
  <1>9. ASSUME NEW s \in Names, manual'[s] # 0
        PROVE  /\ delivered[manual'[s]] = 0
               /\ \A t \in Names : manual'[t] = manual'[s] => t = s
    BY <1>3, <1>9 DEF ReportsInOnePlace
  <1> QED BY <1>7, <1>8, <1>9 DEF ReportsInOnePlace

\* Heartbeat b is under way for a caller, and the others are as they were.
UnderWay(b, caller) ==
    /\ beats' \in [Slot -> Beat] /\ manual' \in [Names -> Reports \cup {0}]
    /\ ReportsInOnePlace'
    /\ \A d \in Slot \ {b} : beats'[d] = beats[d]
    /\ beats'[b].caller = caller /\ beats'[b] # NoBeat

LEMMA CollectGoesOn ==
  ASSUME SDKInv, NEW b \in Slot, NEW i \in Nat \ {0},
         NEW caller \in Call \cup {Timer, App},
         collectStatuses(b, i, beats[b].taken, caller), UNCHANGED <<delivered, reports>>
  PROVE  UnderWay(b, caller)
  <1>1. /\ beats' \in [Slot -> Beat] /\ manual' \in [Names -> Reports \cup {0}]
        /\ Moves(b, i, caller)
    BY CollectMoves DEF SDKInv
  <1>2. ReportsInOnePlace' BY CollectKeepsReports DEF SDKInv
  <1> QED BY <1>1, <1>2 DEF UnderWay, Moves

LEMMA BeatGoesOn ==
  ASSUME SDKInv, NEW b \in Slot, NEW caller \in Call \cup {Timer, App},
         beat(b, caller), UNCHANGED <<delivered, reports>>
  PROVE  UnderWay(b, caller) /\ beats[b] = NoBeat
  <1>1. beats[b] = NoBeat /\ collectStatuses(b, 1, {}, caller) BY DEF beat
  <1>2. beats[b].taken = {} BY <1>1 DEF NoBeat
  <1>3. collectStatuses(b, 1, beats[b].taken, caller) BY <1>1, <1>2
  <1> QED BY <1>1, <1>3, CollectGoesOn

LEMMA InitSDK == Init => SDKInv
  <1> SUFFICES ASSUME Init PROVE SDKInv OBVIOUS
  <1>1. Cardinality(Call) \in Nat BY FS_CardinalityType
  <1>2. NoBeat \in Beat /\ NoBeat.taken = {} /\ NoBeat.caller = Timer
    BY DEF NoBeat, Beat
  <1>3. TypeOK
    <2>1. 0 \in 0 .. Cardinality(Call) /\ 0 \in 0 .. MaxReports /\ 0 \in 0 .. MaxStops
      BY <1>1
    <2>2. beats \in [Slot -> Beat] BY <1>2 DEF Init
    <2> QED BY <2>1, <2>2 DEF Init, TypeOK
  <1>4. ReportsInOnePlace BY <1>2 DEF Init, ReportsInOnePlace, ReportUsedOnce
  <1>5. RegistrationIsReal BY DEF Init, RegistrationIsReal, RegisteredBeforeHeartbeat
  <1>6. CallersWait BY <1>2 DEF Init, CallersWait
  <1>7. OneInterval BY DEF Init, OneInterval, Starting
  <1> QED BY <1>3, <1>4, <1>5, <1>6, <1>7 DEF SDKInv

(* ------------------------------- heartbeats ---------------------------- *)

LEMMA CheckSettlesKeeps ==
  ASSUME SDKInv, NEW b \in Slot, CheckSettles(b)
  PROVE  SDKInv'
  <1>1. beats[b] \in Beat /\ beats[b].phase = "check" BY DEF CheckSettles, SDKInv, TypeOK
  <1>2. beats[b].at + 1 \in Nat \ {0} /\ beats[b].caller \in Call \cup {Timer, App}
    BY <1>1 DEF Beat
  <1>3. UNCHANGED <<timer, live, registered, checks, call, reports, stops, confirmed,
                    delivered, stopped, overlapped>>
    BY DEF CheckSettles
  <1>4. UnderWay(b, beats[b].caller)
    BY <1>2, <1>3, CollectGoesOn DEF CheckSettles
  <1>5. beats[b] # NoBeat BY <1>1 DEF NoBeat
  <1>6. TypeOK' BY <1>3, <1>4 DEF UnderWay, SDKInv, TypeOK
  <1>7. RegistrationIsReal'
    BY <1>3, <1>4, <1>5 DEF UnderWay, SDKInv, RegistrationIsReal, RegisteredBeforeHeartbeat
  <1>8. CallersWait' BY <1>3, <1>4 DEF UnderWay, SDKInv, CallersWait
  <1>9. OneInterval' BY <1>3 DEF SDKInv, OneInterval, Starting
  <1> QED BY <1>4, <1>6, <1>7, <1>8, <1>9 DEF UnderWay, SDKInv

(* A heartbeat that no start() awaits begins.                               *)
LEMMA LooseBeatKeeps ==
  ASSUME SDKInv, NEW b \in Slot, NEW caller \in {Timer, App}, beat(b, caller),
         caller # App => confirmed,
         UNCHANGED <<timer, live, registered, checks, call, reports, stops, confirmed,
                     delivered, stopped, overlapped>>
  PROVE  SDKInv'
  <1>1. UnderWay(b, caller) BY BeatGoesOn
  <1>2. caller \notin Call OBVIOUS
  <1>3. TypeOK' BY <1>1 DEF UnderWay, SDKInv, TypeOK
  <1>4. RegistrationIsReal'
    BY <1>1 DEF UnderWay, SDKInv, RegistrationIsReal, RegisteredBeforeHeartbeat
  <1>5. CallersWait' BY <1>1, <1>2 DEF UnderWay, SDKInv, CallersWait
  <1>6. OneInterval' BY DEF SDKInv, OneInterval, Starting
  <1> QED BY <1>1, <1>3, <1>4, <1>5, <1>6 DEF UnderWay, SDKInv

LEMMA TickKeeps == ASSUME SDKInv, Tick PROVE SDKInv'
  <1>1. PICK b \in Slot : beat(b, Timer) BY DEF Tick
  <1>2. confirmed BY DEF Tick, SDKInv, RegistrationIsReal, RegisteredBeforeHeartbeat
  <1> QED BY <1>1, <1>2, LooseBeatKeeps DEF Tick

LEMMA SendBeatKeeps == ASSUME SDKInv, SendBeat PROVE SDKInv'
  <1>1. PICK b \in Slot : beat(b, App) BY DEF SendBeat
  <1> QED BY <1>1, LooseBeatKeeps DEF SendBeat

(* A heartbeat that begins for a start() which goes on to wait for it.      *)
LEMMA AwaitedBeatKeeps ==
  ASSUME SDKInv, NEW b \in Slot, NEW c \in Call, beat(b, c), call[c] # "beating",
         call' = [call EXCEPT ![c] = "beating"], confirmed',
         UNCHANGED <<timer, live, checks, reports, stops, delivered>>,
         registered' \in BOOLEAN, stopped' \in BOOLEAN, overlapped' \in BOOLEAN,
         OneInterval'
  PROVE  SDKInv'
  <1>1. UnderWay(b, c) BY BeatGoesOn
  <1>3. TypeOK' BY <1>1 DEF UnderWay, SDKInv, TypeOK
  <1>4. RegistrationIsReal' BY DEF RegistrationIsReal, RegisteredBeforeHeartbeat
  <1>5. call'[c] = "beating" /\ \A d \in Call \ {c} : call'[d] = call[d]
    BY DEF SDKInv, TypeOK
  <1>6. CallersWait' BY <1>1, <1>5 DEF UnderWay, SDKInv, CallersWait
  <1> QED BY <1>1, <1>3, <1>4, <1>6 DEF UnderWay, SDKInv

(* The number of a new interval is within its type: the start() that sets   *)
(* it is not yet counted.                                                   *)
LEMMA IntervalNumber ==
  ASSUME NEW c \in Call, call[c] # "running"
  PROVE  Cardinality({d \in Call : call[d] = "running"}) + 1 \in 1 .. Cardinality(Call)
  <1> DEFINE R == {d \in Call : call[d] = "running"}
  <1>1. IsFiniteSet(R) BY FS_Subset
  <1>2. Cardinality(R) \in Nat BY <1>1, FS_CardinalityType
  <1>3. IsFiniteSet(R \cup {c}) /\ Cardinality(R \cup {c}) = Cardinality(R) + 1
    BY <1>1, FS_AddElement
  <1>4. Cardinality(R \cup {c}) <= Cardinality(Call)
    <2>1. R \cup {c} \in SUBSET Call OBVIOUS
    <2> HIDE DEF R
    <2> QED BY <2>1, FS_Subset
  <1>5. Cardinality(Call) \in Nat BY FS_CardinalityType
  <1> QED BY <1>2, <1>3, <1>4, <1>5

(* A report that was under way is received, or lost.                        *)
LEMMA FetchKeepsReports ==
  ASSUME TypeOK, ReportsInOnePlace, NEW b \in Slot, NEW received \in BOOLEAN,
         beats' = [beats EXCEPT ![b] = NoBeat], UNCHANGED <<manual, reports>>,
         delivered' = [r \in Reports |->
             delivered[r] + (IF received /\ r \in beats[b].taken THEN 1 ELSE 0)]
  PROVE  ReportsInOnePlace' /\ delivered' \in [Reports -> Nat]
  <1>1. NoBeat.taken = {} BY DEF NoBeat
  <1>2. \A d \in Slot : beats'[d].taken = IF d = b THEN {} ELSE beats[d].taken
    BY <1>1 DEF TypeOK
  <1>3. delivered \in [Reports -> Nat] /\ beats[b].taken \subseteq Reports
    BY DEF TypeOK, Beat
  <1>4. delivered' \in [Reports -> Nat] BY <1>3
  <1>5. \A r \in Reports : r \notin beats[b].taken => delivered'[r] = delivered[r]
    BY <1>3
  <1>6. \A r \in beats[b].taken : delivered[r] = 0 /\ delivered'[r] <= 1
    <2> TAKE r \in beats[b].taken
    <2>1. r \in Reports /\ delivered[r] = 0
      BY <1>3 DEF ReportsInOnePlace, ReportUsedOnce
    <2> QED BY <2>1
  <1>7. ReportUsedOnce'
    <2>1. \A r \in Reports : delivered'[r] <= 1
      BY <1>5, <1>6 DEF ReportsInOnePlace, ReportUsedOnce
    <2>2. ASSUME NEW d \in Slot, NEW r \in beats'[d].taken
          PROVE  /\ delivered'[r] = 0
                 /\ \A s \in Names : manual[s] # r
                 /\ \A e \in Slot : r \in beats'[e].taken => e = d
      <3>1. d # b /\ r \in beats[d].taken BY <1>2, <2>2
      <3>2. r \in Reports /\ r \notin beats[b].taken
        BY <3>1 DEF TypeOK, Beat, ReportsInOnePlace, ReportUsedOnce
      <3> QED BY <1>2, <1>5, <3>1, <3>2 DEF ReportsInOnePlace, ReportUsedOnce
    <2> QED BY <2>1, <2>2 DEF ReportUsedOnce
  <1>8. ASSUME NEW r \in Reports, r > reports
        PROVE  /\ delivered'[r] = 0
               /\ \A s \in Names : manual[s] # r
               /\ \A d \in Slot : r \notin beats'[d].taken
    <2>1. /\ delivered[r] = 0
          /\ \A s \in Names : manual[s] # r
          /\ \A d \in Slot : r \notin beats[d].taken
      BY <1>8 DEF ReportsInOnePlace
    <2>2. \A d \in Slot : r \notin beats'[d].taken
      <3> TAKE d \in Slot
      <3>1. beats'[d].taken = {} \/ beats'[d].taken = beats[d].taken BY <1>2
      <3> QED BY <2>1, <3>1
    <2>3. delivered'[r] = delivered[r] BY <1>5, <2>1
    <2> QED BY <2>1, <2>2, <2>3
  <1>9. ASSUME NEW s \in Names, manual[s] # 0
        PROVE  /\ delivered'[manual[s]] = 0
               /\ \A t \in Names : manual[t] = manual[s] => t = s
    <2>1. manual[s] \in Reports BY <1>9 DEF TypeOK
    <2>2. manual[s] \notin beats[b].taken BY DEF ReportsInOnePlace, ReportUsedOnce
    <2> QED BY <1>5, <1>9, <2>1, <2>2 DEF ReportsInOnePlace
  <1> QED BY <1>4, <1>7, <1>8, <1>9 DEF ReportsInOnePlace

LEMMA FetchSettlesKeeps ==
  ASSUME SDKInv, NEW b \in Slot, FetchSettles(b)
  PROVE  SDKInv'
  <1> DEFINE c  == beats[b].caller
             id == Cardinality({d \in Call : call[d] = "running"}) + 1
  <1>1. beats[b] \in Beat /\ beats[b].phase = "fetch" /\ beats[b] # NoBeat
    BY DEF FetchSettles, SDKInv, TypeOK, NoBeat
  <1>2. /\ beats' = [beats EXCEPT ![b] = NoBeat]
        /\ UNCHANGED <<registered, checks, manual, reports, stops, confirmed, stopped,
                       overlapped>>
    BY DEF FetchSettles
  <1>3. PICK received \in BOOLEAN, ok \in BOOLEAN :
          /\ delivered' = [r \in Reports |->
                 delivered[r] + (IF received /\ r \in beats[b].taken THEN 1 ELSE 0)]
          /\ \/ c \notin Call /\ UNCHANGED <<call, timer, live>>
             \/ /\ c \in Call /\ ~ok
                /\ call' = [call EXCEPT ![c] = "failed"]
                /\ UNCHANGED <<timer, live>>
             \/ /\ c \in Call /\ ok
                /\ call' = [call EXCEPT ![c] = "running"]
                /\ timer' = id
                /\ live' = live \cup {id}
    BY DEF FetchSettles
  <1>4. ReportsInOnePlace' /\ delivered' \in [Reports -> Nat]
    BY <1>2, <1>3, FetchKeepsReports DEF SDKInv
  <1>5. NoBeat \in Beat /\ NoBeat.caller = Timer BY DEF NoBeat, Beat
  <1>6. beats' \in [Slot -> Beat] BY <1>2, <1>5 DEF SDKInv, TypeOK
  <1>7. \A d \in Slot : beats'[d] = IF d = b THEN NoBeat ELSE beats[d]
    BY <1>2 DEF SDKInv, TypeOK
  <1>8. c \in Call => call[c] = "beating" /\ confirmed
    BY <1>1 DEF SDKInv, CallersWait, RegistrationIsReal, RegisteredBeforeHeartbeat
  <1>9. c \in Call => id \in 1 .. Cardinality(Call) BY <1>8, IntervalNumber
  <1> HIDE DEF id
  <1>14. /\ call' \in [Call -> {"new", "registering", "beating", "running", "failed",
                               "returned"}]
         /\ \A d \in Call : d # c => call'[d] = call[d]
    <2> HIDE DEF c
    <2>1. call \in [Call -> {"new", "registering", "beating", "running", "failed",
                             "returned"}]
      BY DEF SDKInv, TypeOK
    <2>2. call' = call \/ (c \in Call /\ \E v \in {"failed", "running"} :
                              call' = [call EXCEPT ![c] = v])
      BY <1>3
    <2> QED BY <2>1, <2>2
  <1>10. TypeOK'
    <2>1. \/ UNCHANGED <<timer, live>>
          \/ /\ timer' = id /\ live' = live \cup {id}
             /\ id \in 1 .. Cardinality(Call)
      BY <1>3, <1>9
    <2>2. timer' \in 0 .. Cardinality(Call) /\ live' \subseteq 1 .. Cardinality(Call)
      <3>1. Cardinality(Call) \in Nat BY FS_CardinalityType
      <3>2. timer \in 0 .. Cardinality(Call) /\ live \subseteq 1 .. Cardinality(Call)
        BY DEF SDKInv, TypeOK
      <3>3. CASE UNCHANGED <<timer, live>> BY <3>2, <3>3
      <3>4. CASE timer' = id /\ live' = live \cup {id} /\ id \in 1 .. Cardinality(Call)
        BY <3>1, <3>2, <3>4
      <3> QED BY <2>1, <3>3, <3>4
    <2> QED BY <1>2, <1>4, <1>6, <1>14, <2>2 DEF SDKInv, TypeOK
  <1>11. RegistrationIsReal'
    <2>1. \A d \in Slot : beats'[d] # NoBeat /\ beats'[d].caller # App
                            => beats[d] # NoBeat /\ beats[d].caller # App
      BY <1>7
    <2>2. live' # {} => live # {} \/ confirmed BY <1>3, <1>8
    <2> QED
      BY <1>2, <2>1, <2>2 DEF SDKInv, RegistrationIsReal, RegisteredBeforeHeartbeat
  <1>12. CallersWait'
    <2> SUFFICES ASSUME NEW d \in Slot, beats'[d].caller \in Call
                 PROVE  /\ call'[beats'[d].caller] = "beating"
                        /\ \A e \in Slot : beats'[e].caller = beats'[d].caller => e = d
      BY DEF CallersWait
    <2>1. d # b /\ beats'[d] = beats[d] BY <1>5, <1>7
    <2>2. beats[d].caller # c /\ call[beats[d].caller] = "beating"
      BY <2>1 DEF SDKInv, CallersWait
    <2>3. call'[beats[d].caller] = call[beats[d].caller]
      BY <1>14, <2>1, <2>2
    <2>4. \A e \in Slot : beats'[e].caller = beats[d].caller => e = d
      BY <1>5, <1>7, <2>1 DEF SDKInv, CallersWait
    <2> QED BY <2>1, <2>2, <2>3, <2>4
  <1>13. OneInterval'
    <2> SUFFICES ASSUME ~overlapped PROVE OneInterval'
      BY <1>2 DEF OneInterval
    <2>1. CASE c \notin Call
      BY <1>2, <1>3, <2>1 DEF SDKInv, OneInterval, Starting
    <2>2. CASE c \in Call
      <3>1. Starting = {c} BY <1>8, <2>2 DEF SDKInv, OneInterval, Starting
      <3>2. live = {} /\ ~stopped BY <3>1 DEF SDKInv, OneInterval, TypeOK
      <3>3. call'[c] \in {"failed", "running"} /\ \A d \in Call \ {c} : call'[d] = call[d]
        BY <1>3, <2>2 DEF SDKInv, TypeOK
      <3>4. Starting' = {} BY <3>1, <3>3 DEF Starting
      <3>5. live' \subseteq {timer'} /\ (timer' = 0 => live' = {})
        BY <1>3, <1>9, <2>2, <3>2
      <3> QED BY <1>2, <3>2, <3>4, <3>5 DEF OneInterval
    <2> QED BY <2>1, <2>2
  <1> QED BY <1>4, <1>10, <1>11, <1>12, <1>13 DEF SDKInv

(* -------------------------- the application's calls -------------------- *)

LEMMA StartKeeps ==
  ASSUME SDKInv, NEW c \in Call, start(c)
  PROVE  SDKInv'
  <1>1. /\ call[c] = "new" /\ stopped' = FALSE
        /\ overlapped' = (overlapped \/ Starting # {})
        /\ UNCHANGED <<timer, live, registered, checks, reports, stops, confirmed, delivered>>
    BY DEF start
  <1>2. \A v \in {"returned", "registering", "beating"} :
          call' = [call EXCEPT ![c] = v] =>
            /\ call' \in [Call -> {"new", "registering", "beating", "running", "failed",
                                   "returned"}]
            /\ call'[c] = v /\ \A d \in Call \ {c} : call'[d] = call[d]
    BY DEF SDKInv, TypeOK
  <1>3. overlapped' \in BOOLEAN BY <1>1 DEF SDKInv, TypeOK
  <1>4. CASE call' = [call EXCEPT ![c] = "returned"] /\ UNCHANGED <<beats, manual>>
    <2>1. TypeOK' BY <1>1, <1>2, <1>3, <1>4 DEF SDKInv, TypeOK
    <2>2. ReportsInOnePlace' BY <1>1, <1>4 DEF SDKInv, ReportsInOnePlace, ReportUsedOnce
    <2>3. RegistrationIsReal'
      BY <1>1, <1>4 DEF SDKInv, RegistrationIsReal, RegisteredBeforeHeartbeat
    <2>4. CallersWait' BY <1>1, <1>2, <1>4 DEF SDKInv, CallersWait
    <2>5. Starting' = Starting BY <1>1, <1>2, <1>4 DEF Starting
    <2>6. OneInterval' BY <1>1, <2>5 DEF SDKInv, OneInterval, TypeOK
    <2> QED BY <2>1, <2>2, <2>3, <2>4, <2>6 DEF SDKInv
  <1>5. ASSUME call' = [call EXCEPT ![c] = "registering"] \/ call' = [call EXCEPT ![c] = "beating"],
               timer = 0
        PROVE  OneInterval'
    <2>1. Starting' = Starting \cup {c} BY <1>1, <1>2, <1>5 DEF Starting
    <2>2. ~overlapped' => ~overlapped /\ Starting' = {c} /\ live = {}
      BY <1>1, <1>5, <2>1 DEF SDKInv, OneInterval, TypeOK
    <2> QED BY <1>1, <2>2 DEF OneInterval
  <1>6. CASE call' = [call EXCEPT ![c] = "registering"] /\ UNCHANGED <<beats, manual>> /\ timer = 0
    <2>1. TypeOK' BY <1>1, <1>2, <1>3, <1>6 DEF SDKInv, TypeOK
    <2>2. ReportsInOnePlace' BY <1>1, <1>6 DEF SDKInv, ReportsInOnePlace, ReportUsedOnce
    <2>3. RegistrationIsReal'
      BY <1>1, <1>6 DEF SDKInv, RegistrationIsReal, RegisteredBeforeHeartbeat
    <2>4. CallersWait' BY <1>1, <1>2, <1>6 DEF SDKInv, CallersWait
    <2> QED BY <1>5, <1>6, <2>1, <2>2, <2>3, <2>4 DEF SDKInv
  <1>7. CASE call' = [call EXCEPT ![c] = "beating"] /\ timer = 0 /\ registered
             /\ \E b \in Slot : beat(b, c)
    <2>1. confirmed' = TRUE /\ registered' \in BOOLEAN
      BY <1>1, <1>7 DEF SDKInv, RegistrationIsReal, TypeOK
    <2>2. PICK b \in Slot : beat(b, c) BY <1>7
    <2>3. OneInterval' BY <1>5, <1>7
    <2> QED BY <1>1, <1>3, <1>7, <2>1, <2>2, <2>3, AwaitedBeatKeeps
  <1> QED BY <1>4, <1>6, <1>7 DEF start

LEMMA RegisterKeeps ==
  ASSUME SDKInv, NEW c \in Call, register(c)
  PROVE  SDKInv'
  <1>1. /\ call[c] = "registering"
        /\ UNCHANGED <<timer, live, checks, reports, stops, delivered, stopped, overlapped>>
    BY DEF register
  <1>2. \A v \in {"failed", "beating"} :
          call' = [call EXCEPT ![c] = v] =>
            /\ call' \in [Call -> {"new", "registering", "beating", "running", "failed",
                                   "returned"}]
            /\ call'[c] = v /\ \A d \in Call \ {c} : call'[d] = call[d]
    BY DEF SDKInv, TypeOK
  <1>3. CASE call' = [call EXCEPT ![c] = "failed"]
             /\ UNCHANGED <<registered, confirmed, beats, manual>>
    <2>1. TypeOK' BY <1>1, <1>2, <1>3 DEF SDKInv, TypeOK
    <2>2. ReportsInOnePlace' BY <1>1, <1>3 DEF SDKInv, ReportsInOnePlace, ReportUsedOnce
    <2>3. RegistrationIsReal'
      BY <1>1, <1>3 DEF SDKInv, RegistrationIsReal, RegisteredBeforeHeartbeat
    <2>4. CallersWait' BY <1>1, <1>2, <1>3 DEF SDKInv, CallersWait
    <2>5. Starting' \subseteq Starting BY <1>1, <1>2, <1>3 DEF Starting
    <2>6. OneInterval' BY <1>1, <2>5 DEF SDKInv, OneInterval
    <2> QED BY <2>1, <2>2, <2>3, <2>4, <2>6 DEF SDKInv
  <1>4. CASE call' = [call EXCEPT ![c] = "beating"] /\ registered' = TRUE
             /\ confirmed' = TRUE /\ \E b \in Slot : beat(b, c)
    <2>1. Starting' = Starting BY <1>1, <1>2, <1>4 DEF Starting
    <2>2. OneInterval' BY <1>1, <2>1 DEF SDKInv, OneInterval
    <2>3. PICK b \in Slot : beat(b, c) BY <1>4
    <2>4. stopped' \in BOOLEAN /\ overlapped' \in BOOLEAN BY <1>1 DEF SDKInv, TypeOK
    <2> QED BY <1>1, <1>4, <2>2, <2>3, <2>4, AwaitedBeatKeeps
  <1> QED BY <1>3, <1>4 DEF register

LEMMA StopKeeps == ASSUME SDKInv, stop PROVE SDKInv'
  <1>1. /\ stops' \in 0 .. MaxStops /\ live' = live \ {timer} /\ timer' = 0 /\ stopped' = TRUE
        /\ overlapped' = (overlapped \/ Starting # {})
        /\ UNCHANGED <<registered, checks, call, beats, manual, reports, confirmed, delivered>>
    BY DEF stop, SDKInv, TypeOK
  <1>2. TypeOK'
    <2>1. 0 \in 0 .. Cardinality(Call) BY FS_CardinalityType
    <2> QED BY <1>1, <2>1 DEF SDKInv, TypeOK
  <1>3. ReportsInOnePlace' BY <1>1 DEF SDKInv, ReportsInOnePlace, ReportUsedOnce
  <1>4. RegistrationIsReal'
    BY <1>1 DEF SDKInv, RegistrationIsReal, RegisteredBeforeHeartbeat
  <1>5. CallersWait' BY <1>1 DEF SDKInv, CallersWait
  <1>6. OneInterval' BY <1>1 DEF SDKInv, OneInterval, Starting
  <1> QED BY <1>2, <1>3, <1>4, <1>5, <1>6 DEF SDKInv

LEMMA ReportKeeps == ASSUME SDKInv, report PROVE SDKInv'
  <1>1. /\ reports < MaxReports /\ reports' = reports + 1
        /\ UNCHANGED <<timer, live, registered, checks, call, beats, stops, confirmed,
                       delivered, stopped, overlapped>>
    BY DEF report
  <1>2. PICK s \in Names : manual' = [manual EXCEPT ![s] = reports'] BY DEF report
  <1>3. reports' \in Reports /\ reports' > reports /\ reports \in Nat
    BY <1>1 DEF SDKInv, TypeOK
  <1>4. \A t \in Names : manual'[t] = IF t = s THEN reports' ELSE manual[t]
    BY <1>2 DEF SDKInv, TypeOK
  <1>5. TypeOK'
    <2>1. manual' \in [Names -> Reports \cup {0}] BY <1>2, <1>3 DEF SDKInv, TypeOK
    <2> QED BY <1>1, <1>3, <2>1 DEF SDKInv, TypeOK
  <1>6. /\ delivered[reports'] = 0
        /\ \A t \in Names : manual[t] # reports'
        /\ \A b \in Slot : reports' \notin beats[b].taken
    BY <1>3 DEF SDKInv, ReportsInOnePlace
  <1>7. ReportsInOnePlace'
    <2>1. ReportUsedOnce' BY <1>1, <1>4, <1>6 DEF SDKInv, ReportsInOnePlace, ReportUsedOnce
    <2>2. \A r \in Reports : r > reports' => r > reports /\ r # reports' BY <1>3
    <2>3. \A r \in Reports : r > reports' =>
            /\ delivered[r] = 0
            /\ \A t \in Names : manual'[t] # r
            /\ \A b \in Slot : r \notin beats[b].taken
      BY <1>4, <2>2 DEF SDKInv, ReportsInOnePlace
    <2>4. ASSUME NEW t \in Names, manual'[t] # 0
          PROVE  /\ delivered[manual'[t]] = 0
                 /\ \A u \in Names : manual'[u] = manual'[t] => u = t
      BY <1>4, <1>6, <2>4 DEF SDKInv, ReportsInOnePlace
    <2> QED BY <1>1, <2>1, <2>3, <2>4 DEF ReportsInOnePlace
  <1>8. RegistrationIsReal'
    BY <1>1 DEF SDKInv, RegistrationIsReal, RegisteredBeforeHeartbeat
  <1>9. CallersWait' BY <1>1 DEF SDKInv, CallersWait
  <1>10. OneInterval' BY <1>1 DEF SDKInv, OneInterval, Starting
  <1> QED BY <1>5, <1>7, <1>8, <1>9, <1>10 DEF SDKInv

(* A step that changes at most the check functions.                         *)
LEMMA CheckKeeps ==
  ASSUME SDKInv, checks' \subseteq Services,
         UNCHANGED <<timer, live, registered, call, beats, manual, reports, stops,
                     confirmed, delivered, stopped, overlapped>>
  PROVE  SDKInv'
  <1>1. TypeOK' BY DEF SDKInv, TypeOK
  <1>2. ReportsInOnePlace' BY DEF SDKInv, ReportsInOnePlace, ReportUsedOnce
  <1>3. RegistrationIsReal' BY DEF SDKInv, RegistrationIsReal, RegisteredBeforeHeartbeat
  <1>4. CallersWait' BY DEF SDKInv, CallersWait
  <1>5. OneInterval' BY DEF SDKInv, OneInterval, Starting
  <1> QED BY <1>1, <1>2, <1>3, <1>4, <1>5 DEF SDKInv

LEMMA StepSDK == SDKInv /\ [Next]_vars => SDKInv'
  <1> SUFFICES ASSUME SDKInv, [Next]_vars PROVE SDKInv' OBVIOUS
  <1>1. ASSUME NEW c \in Call, start(c) PROVE SDKInv' BY <1>1, StartKeeps
  <1>2. ASSUME NEW c \in Call, register(c) PROVE SDKInv' BY <1>2, RegisterKeeps
  <1>3. ASSUME NEW b \in Slot, CheckSettles(b) PROVE SDKInv' BY <1>3, CheckSettlesKeeps
  <1>4. ASSUME NEW b \in Slot, FetchSettles(b) PROVE SDKInv' BY <1>4, FetchSettlesKeeps
  <1>5. CASE Tick BY <1>5, TickKeeps
  <1>6. CASE SendBeat BY <1>6, SendBeatKeeps
  <1>7. CASE stop BY <1>7, StopKeeps
  <1>8. CASE report BY <1>8, ReportKeeps
  <1>9. CASE check
    <2>1. checks' \subseteq Services BY <1>9 DEF check, SDKInv, TypeOK
    <2> QED BY <1>9, <2>1, CheckKeeps DEF check
  <1>10. CASE UNCHANGED vars
    <2>1. checks' \subseteq Services BY <1>10 DEF vars, SDKInv, TypeOK
    <2> QED BY <1>10, <2>1, CheckKeeps DEF vars
  <1> QED BY <1>1, <1>2, <1>3, <1>4, <1>5, <1>6, <1>7, <1>8, <1>9, <1>10 DEF Next

LEMMA SDKInvariant == Spec => []SDKInv
  BY InitSDK, StepSDK, PTL DEF Spec

(* -------------------------------- results ------------------------------ *)

(* Once stop() was called, no heartbeat of the object's own begins: neither *)
(* an interval is left nor a start() that would begin one.                  *)
LEMMA NothingBeginsOnceStopped ==
  ASSUME SDKInv, Next, stopped, stopped', ~overlapped'
  PROVE  ~BeatBegins
  <1> SUFFICES ASSUME NEW d \in Slot, beats[d] = NoBeat, beats'[d] # NoBeat,
                      beats'[d].caller # App
               PROVE  FALSE
    BY DEF BeatBegins
  <1>1. NoBeat.phase = "idle" BY DEF NoBeat
  <1>2. beats \in [Slot -> Beat] BY DEF SDKInv, TypeOK
  <1>3. ~overlapped => live = {} /\ Starting = {} BY DEF SDKInv, OneInterval
  <1>4. ASSUME NEW c \in Call, start(c) PROVE FALSE BY <1>4 DEF start
  <1>5. ASSUME NEW c \in Call, register(c) PROVE FALSE
    BY <1>3, <1>5 DEF register, Starting
  <1>6. ASSUME NEW b \in Slot, CheckSettles(b) PROVE FALSE
    <2>1. d # b BY <1>1, <1>6 DEF CheckSettles
    <2> QED BY <1>2, <1>6, <2>1 DEF CheckSettles, collectStatuses
  <1>7. ASSUME NEW b \in Slot, FetchSettles(b) PROVE FALSE
    BY <1>2, <1>7 DEF FetchSettles
  <1>8. CASE Tick BY <1>3, <1>8 DEF Tick
  <1>9. CASE SendBeat
    <2>1. PICK b \in Slot : beat(b, App) BY <1>9 DEF SendBeat
    <2>2. UnderWay(b, App) BY <1>9, <2>1, BeatGoesOn DEF SendBeat
    <2> QED BY <2>2 DEF UnderWay
  <1>10. CASE stop \/ report \/ check BY <1>10 DEF stop, report, check
  <1> QED BY <1>4, <1>5, <1>6, <1>7, <1>8, <1>9, <1>10 DEF Next

\* However many heartbeats overlap and fail, a manual report reaches the server
\* at most once, and it is never both pending and under way.
THEOREM ReportsUsedOnce == Spec => []ReportUsedOnce
  <1>1. SDKInv => ReportUsedOnce BY DEF SDKInv, ReportsInOnePlace
  <1> QED BY <1>1, SDKInvariant, PTL

\* However many calls of start() fail half-way, no heartbeat of the object's own
\* is sent before the server accepted a registration.
THEOREM RegistrationFirst == Spec => []RegisteredBeforeHeartbeat
  <1>1. SDKInv => RegisteredBeforeHeartbeat BY DEF SDKInv, RegistrationIsReal
  <1> QED BY <1>1, SDKInvariant, PTL

\* For an application that never calls start() or stop() while a start() runs,
\* stop() stops: no heartbeat begins until the next start().
THEOREM StopStopsForTheCareful == Spec => StopStopsWhenAwaited
  <1>1. SDKInv /\ [Next]_vars =>
          [(stopped /\ stopped' /\ ~overlapped') => ~BeatBegins]_vars
    BY NothingBeginsOnceStopped
  <1> QED BY <1>1, SDKInvariant, PTL DEF Spec, StopStopsWhenAwaited

\* Every variable of the object keeps its type, and the intervals are numbered
\* within the calls of start().
THEOREM SDKTypeOK == Spec => []TypeOK
  <1>1. SDKInv => TypeOK BY DEF SDKInv
  <1> QED BY <1>1, SDKInvariant, PTL
=============================================================================
