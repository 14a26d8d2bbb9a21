--------------------------- MODULE Scanner_proofs ---------------------------
(***************************************************************************)
(* Theorems about what scans and reads the market: the scan's alerts and   *)
(* its countdown (ScanScheduler) for any profiles, intervals, workers and  *)
(* failures, the chart (DivapDetection) and the score of its context       *)
(* (ContextScore) for any prices, sentiments and changes of the market.    *)
(***************************************************************************)
EXTENDS ScanScheduler, DivapDetection, ContextScore, FiniteSetTheorems, NaturalsInduction,
        SequenceTheorems, TLAPS

LEMMA LeastNatural ==
    ASSUME NEW S \in SUBSET Nat, S # {}
    PROVE  \E n \in S : \A m \in S : n <= m
<1>1. PICK n \in S : \A m \in S : <<m, n>> \notin OpToRel(<, Nat)
  BY WFMin, NatLessThanWellFounded, Zenon
<1>2. \A m \in S : ~(m < n)
  BY <1>1, Zenon DEF OpToRel
<1> QED
  BY <1>2

-----------------------------------------------------------------------------
(***************************************************************************)
(* ScanScheduler.                                                          *)
(***************************************************************************)
Shaped(r) == r = [at |-> r.at, plans |-> r.plans, pairs |-> r.pairs, setup |-> r.setup]

ScanTypes ==
    /\ active \in ActiveChoices
    /\ DOMAIN worker = Scanners /\ \A w \in Scanners : Shaped(worker[w])
    /\ alerts \in [Setups -> Seq(Nat)]
    /\ lastScan \in [Profiles -> Nat \cup {Never}]

ScanInv == ScanTypes /\ AlertsPerWindow

LEMMA SavingIsFinite ==
    ASSUME NEW s
    PROVE  /\ IsFiniteSet(Saving(s)) /\ Cardinality(Saving(s)) \in Nat
           /\ Cardinality(Scanners) \in Nat /\ Cardinality(Saving(s)) <= Cardinality(Scanners)
<1>1. IsFiniteSet(Scanners) /\ Saving(s) \in SUBSET Scanners
  BY ScanAssumption DEF Saving
<1> QED
  BY <1>1, FS_Subset, FS_CardinalityType

(* Some alerts grow too old: there are no more of them.                     *)
LEMMA AgedShortens ==
    ASSUME NEW ages \in Seq(Nat)
    PROVE  Aged(ages) \in Seq(Nat) /\ Len(Aged(ages)) <= Len(ages)
<1> DEFINE older == [i \in DOMAIN ages |-> ages[i] + 1]
           gone == {i \in DOMAIN ages : ages[i] + 1 >= RecentHours}
           k == Cardinality(gone)
<1>1. Len(ages) \in Nat /\ DOMAIN ages = 1..Len(ages)
  OBVIOUS
<1>2. k \in Nat
  <2>1. IsFiniteSet(DOMAIN ages) /\ gone \in SUBSET (DOMAIN ages)
    BY <1>1, FS_Interval
  <2> QED
    BY <2>1, FS_Subset, FS_CardinalityType
<1>3. older \in Seq(Nat) /\ Len(older) = Len(ages)
  <2>1. \A i \in 1..Len(ages) : ages[i] + 1 \in Nat
    OBVIOUS
  <2> QED
    BY <1>1, <2>1
<1>4. Aged(ages) = SubSeq(older, k + 1, Len(ages))
  BY DEF Aged
<1> HIDE DEF older, k
<1>5. SubSeq(older, k + 1, Len(ages)) \in Seq(Nat)
  <2>1. \A i \in (k + 1)..Len(ages) : i \in 1..Len(older)
    BY <1>2, <1>3
  <2> QED
    BY <1>1, <1>2, <1>3, <2>1
<1>6. Len(SubSeq(older, k + 1, Len(ages))) <= Len(ages)
  BY <1>1, <1>2, <1>3
<1> QED
  BY <1>4, <1>5, <1>6

(* A step of one scan that saves nothing and is not about to.               *)
LEMMA NoOneMoreSaves ==
    ASSUME ScanInv, NEW w \in Scanners, NEW r, Shaped(r), r.at # "save",
           worker' = [worker EXCEPT ![w] = r],
           alerts' \in [Setups -> Seq(Nat)],
           \A s \in Setups : Len(alerts'[s]) <= Len(alerts[s])
    PROVE  /\ DOMAIN worker' = Scanners /\ \A v \in Scanners : Shaped(worker'[v])
           /\ AlertsPerWindow'
<1>1. DOMAIN worker' = Scanners /\ \A v \in Scanners : worker'[v] = IF v = w THEN r ELSE worker[v]
  BY DEF ScanInv, ScanTypes
<1>2. \A v \in Scanners : Shaped(worker'[v])
  BY <1>1 DEF ScanInv, ScanTypes
<1>3. ASSUME NEW s \in Setups
      PROVE  Len(alerts'[s]) + Cardinality(Saving(s)') <= Cardinality(Scanners)
  <2>1. Saving(s)' \in SUBSET Saving(s)
    BY <1>1 DEF Saving
  <2>2. Cardinality(Saving(s)') \in Nat /\ Cardinality(Saving(s)') <= Cardinality(Saving(s))
    BY <2>1, SavingIsFinite, FS_Subset, FS_CardinalityType
  <2>3. Len(alerts'[s]) \in Nat /\ Len(alerts[s]) \in Nat
    BY DEF ScanInv, ScanTypes
  <2>4. Len(alerts[s]) + Cardinality(Saving(s)) <= Cardinality(Scanners)
    BY DEF ScanInv, AlertsPerWindow
  <2> QED
    BY <2>2, <2>3, <2>4, SavingIsFinite
<1> QED
  BY <1>1, <1>2, <1>3 DEF AlertsPerWindow

(* Of a record that has the shape, whatever of it is replaced.               *)
LEMMA ShapeOfUpdates ==
    ASSUME NEW r, Shaped(r), NEW at, NEW x
    PROVE  /\ LET q == [r EXCEPT !.at = at]
              IN  Shaped(q) /\ q.at = at /\ q.setup = r.setup
           /\ LET q == [r EXCEPT !.plans = x] IN Shaped(q) /\ q.at = r.at
           /\ LET q == [r EXCEPT !.pairs = x] IN Shaped(q) /\ q.at = r.at
           /\ LET q == [r EXCEPT !.setup = x] IN Shaped(q) /\ q.at = r.at
<1> DEFINE a == r.at
           l == r.plans
           p == r.pairs
           s == r.setup
<1>1. r = [at |-> a, plans |-> l, pairs |-> p, setup |-> s]
  BY DEF Shaped
<1> HIDE DEF a, l, p, s
<1>2. r.at = a /\ r.setup = s
  BY <1>1
<1>3. /\ [r EXCEPT !.at = at] = [at |-> at, plans |-> l, pairs |-> p, setup |-> s]
      /\ [r EXCEPT !.plans = x] = [at |-> a, plans |-> x, pairs |-> p, setup |-> s]
      /\ [r EXCEPT !.pairs = x] = [at |-> a, plans |-> l, pairs |-> x, setup |-> s]
      /\ [r EXCEPT !.setup = x] = [at |-> a, plans |-> l, pairs |-> p, setup |-> x]
  BY <1>1
<1>4. \A at2, x2, y2, z2 : LET q == [at |-> at2, plans |-> x2, pairs |-> y2, setup |-> z2]
                           IN  Shaped(q) /\ q.at = at2 /\ q.setup = z2
  BY DEF Shaped
<1> QED
  BY <1>2, <1>3, <1>4

LEMMA ShapeWithPlans ==
    ASSUME NEW r, Shaped(r), NEW at, NEW x
    PROVE  LET q == [r EXCEPT !.at = at, !.plans = x] IN Shaped(q) /\ q.at = at
<1> DEFINE q == [r EXCEPT !.at = at]
<1>1. Shaped(q) /\ q.at = at
  BY ShapeOfUpdates
<1>2. [r EXCEPT !.at = at, !.plans = x] = [q EXCEPT !.plans = x]
  BY Zenon
<1> HIDE DEF q
<1>3. LET u == [q EXCEPT !.plans = x] IN Shaped(u) /\ u.at = at
  BY <1>1, ShapeOfUpdates
<1> QED
  BY <1>2, <1>3

LEMMA ShapeWithPairs ==
    ASSUME NEW r, Shaped(r), NEW at, NEW x
    PROVE  LET q == [r EXCEPT !.at = at, !.pairs = x] IN Shaped(q) /\ q.at = at
<1> DEFINE q == [r EXCEPT !.at = at]
<1>1. Shaped(q) /\ q.at = at
  BY ShapeOfUpdates
<1>2. [r EXCEPT !.at = at, !.pairs = x] = [q EXCEPT !.pairs = x]
  BY Zenon
<1> HIDE DEF q
<1>3. LET u == [q EXCEPT !.pairs = x] IN Shaped(u) /\ u.at = at
  BY <1>1, ShapeOfUpdates
<1> QED
  BY <1>2, <1>3

LEMMA ShapeWithSetup ==
    ASSUME NEW r, Shaped(r), NEW at, NEW x
    PROVE  LET q == [r EXCEPT !.at = at, !.setup = x] IN Shaped(q) /\ q.at = at
<1> DEFINE q == [r EXCEPT !.at = at]
<1>1. Shaped(q) /\ q.at = at
  BY ShapeOfUpdates
<1>2. [r EXCEPT !.at = at, !.setup = x] = [q EXCEPT !.setup = x]
  BY Zenon
<1> HIDE DEF q
<1>3. LET u == [q EXCEPT !.setup = x] IN Shaped(u) /\ u.at = at
  BY <1>1, ShapeOfUpdates
<1> QED
  BY <1>2, <1>3

LEMMA ShapeOfResting == Shaped(Resting) /\ Resting.at = "idle"
BY DEF Shaped, Resting

(* A record of a scan lasts as long as nobody forgets it.                   *)
LEMMA ScanMovesKeep ==
    ASSUME ScanInv, NEW w \in Scanners,
           ScanMoves(w) \/ TaskFails(w) \/ TakeTask(w) \/ ManualScan(w)
    PROVE  ScanInv'
<1> USE DEF ScanInv
<1>1. active' = active /\ active \in ActiveChoices
  BY DEF ScanMoves, LookAtPlan, ScanPair, CheckRecent, SaveSignal, RecordScan, Monitor,
         TaskFails, TakeTask, ManualScan, ScanTypes
<1>2. lastScan' \in [Profiles -> Nat \cup {Never}]
  <2>1. UNCHANGED lastScan \/ RecordScan(w)
    BY DEF ScanMoves, LookAtPlan, ScanPair, CheckRecent, SaveSignal, Monitor, TaskFails,
           TakeTask, ManualScan
  <2> QED
    BY <2>1 DEF RecordScan, ScanTypes
<1>3. (\A s \in Setups : Len(alerts[s]) \in Nat) /\ Shaped(worker[w])
  BY DEF ScanTypes
<1>0. Shaped(NextPair(w)) /\ NextPair(w).at = "pair"
  <2> DEFINE r == worker[w]
             q == [r EXCEPT !.at = "pair", !.pairs = Tail(r.pairs)]
  <2>1. Shaped(q) /\ q.at = "pair"
    BY <1>3, ShapeWithPairs, Zenon
  <2>2. NextPair(w) = [q EXCEPT !.setup = <<>>]
    BY Zenon DEF NextPair
  <2> HIDE DEF q
  <2>3. LET u == [q EXCEPT !.setup = <<>>] IN Shaped(u) /\ u.at = "pair"
    BY <2>1, ShapeOfUpdates
  <2> QED
    BY <2>2, <2>3
<1>4. ASSUME UNCHANGED alerts, NEW r, Shaped(r), r.at # "save", worker' = [worker EXCEPT ![w] = r]
      PROVE  ScanInv'
  <2>1. alerts' \in [Setups -> Seq(Nat)] /\ \A s \in Setups : Len(alerts'[s]) <= Len(alerts[s])
    BY <1>3, <1>4 DEF ScanTypes
  <2> QED
    BY <1>1, <1>2, <1>4, <2>1, NoOneMoreSaves DEF ScanTypes
<1>5. ASSUME UNCHANGED <<alerts, worker>> PROVE ScanInv'
  BY <1>1, <1>2, <1>5 DEF ScanTypes, AlertsPerWindow, Saving
<1>6. CASE LookAtPlan(w)
  <2>1. UNCHANGED alerts /\ worker[w].at # "save"
    BY <1>6 DEF LookAtPlan
  <2>2. \/ worker' = [worker EXCEPT ![w] = Resting]
        \/ \E pairs : worker' = [worker EXCEPT ![w] =
                                  [worker[w] EXCEPT !.at = "pair", !.pairs = pairs]]
        \/ \E plans : worker' = [worker EXCEPT ![w] = [worker[w] EXCEPT !.plans = plans]]
    BY <1>6, Zenon DEF LookAtPlan, Set
  <2>3. CASE worker' = [worker EXCEPT ![w] = Resting]
    BY <1>4, <2>1, <2>3, ShapeOfResting
  <2>4. ASSUME NEW pairs,
               worker' = [worker EXCEPT ![w] = [worker[w] EXCEPT !.at = "pair", !.pairs = pairs]]
        PROVE  ScanInv'
    <3> DEFINE r == [worker[w] EXCEPT !.at = "pair", !.pairs = pairs]
    <3>1. Shaped(r) /\ r.at = "pair" /\ worker' = [worker EXCEPT ![w] = r]
      BY <1>3, <2>4, ShapeWithPairs, Zenon
    <3> HIDE DEF r
    <3> QED
      BY <1>4, <2>1, <3>1
  <2>5. ASSUME NEW plans, worker' = [worker EXCEPT ![w] = [worker[w] EXCEPT !.plans = plans]]
        PROVE  ScanInv'
    <3> DEFINE r == [worker[w] EXCEPT !.plans = plans]
    <3>1. Shaped(r) /\ r.at = worker[w].at /\ worker' = [worker EXCEPT ![w] = r]
      BY <1>3, <2>5, ShapeOfUpdates
    <3> HIDE DEF r
    <3> QED
      BY <1>4, <2>1, <3>1
  <2> QED
    BY <2>2, <2>3, <2>4, <2>5
<1>7. CASE ScanPair(w)
  <2>1. UNCHANGED alerts
    BY <1>7 DEF ScanPair
  <2>2. \/ worker' = [worker EXCEPT ![w] = NextPair(w)]
        \/ \E setup : worker' = [worker EXCEPT ![w] =
                                  [worker[w] EXCEPT !.at = "check", !.setup = setup]]
    BY <1>7, Zenon DEF ScanPair, Set
  <2>3. CASE worker' = [worker EXCEPT ![w] = NextPair(w)]
    BY <1>0, <1>4, <2>1, <2>3
  <2>4. ASSUME NEW setup,
               worker' = [worker EXCEPT ![w] = [worker[w] EXCEPT !.at = "check", !.setup = setup]]
        PROVE  ScanInv'
    <3> DEFINE r == [worker[w] EXCEPT !.at = "check", !.setup = setup]
    <3>1. Shaped(r) /\ r.at = "check" /\ worker' = [worker EXCEPT ![w] = r]
      BY <1>3, <2>4, ShapeWithSetup, Zenon
    <3> HIDE DEF r
    <3> QED
      BY <1>4, <2>1, <3>1
  <2> QED
    BY <2>2, <2>3, <2>4
<1>8. CASE CheckRecent(w)
  <2> DEFINE setup == worker[w].setup
             r == [worker[w] EXCEPT !.at = "save"]
  <2>1. CASE Recent(setup)
    BY <1>0, <1>4, <1>8, <2>1 DEF CheckRecent, Set
  <2>2. CASE ~Recent(setup)
    <3>1. worker' = [worker EXCEPT ![w] = r] /\ UNCHANGED alerts /\ alerts[setup] = <<>>
      BY <1>8, <2>2 DEF CheckRecent, At, Set, Recent
    <3>2. Shaped(r) /\ r.at = "save" /\ r.setup = setup
      BY <1>3, ShapeOfUpdates
    <3> HIDE DEF r
    <3>3. DOMAIN worker' = Scanners /\ \A v \in Scanners : worker'[v] = IF v = w THEN r ELSE worker[v]
      BY <3>1 DEF ScanTypes
    <3>4. ASSUME NEW s \in Setups
          PROVE  Len(alerts[s]) + Cardinality(Saving(s)') <= Cardinality(Scanners)
      <4>1. CASE s = setup
        <5>1. Saving(s)' \in SUBSET Scanners
          BY DEF Saving
        <5>2. Cardinality(Saving(s)') \in Nat /\ Cardinality(Saving(s)') <= Cardinality(Scanners)
          BY <5>1, ScanAssumption, FS_Subset, FS_CardinalityType
        <5> QED
          BY <3>1, <4>1, <5>2, SavingIsFinite
      <4>2. CASE s # setup
        <5>1. Saving(s)' = Saving(s)
          BY <1>8, <3>2, <3>3, <4>2 DEF Saving, CheckRecent
        <5> QED
          BY <5>1 DEF AlertsPerWindow
      <4> QED
        BY <4>1, <4>2
    <3> QED
      BY <1>1, <1>2, <3>1, <3>2, <3>3, <3>4 DEF ScanTypes, AlertsPerWindow
  <2> QED
    BY <2>1, <2>2
<1>9. CASE SaveSignal(w)
  <2> DEFINE setup == worker[w].setup
  <2>1. /\ worker[w].at = "save"
        /\ alerts' = [alerts EXCEPT ![setup] = Append(alerts[setup], 0)]
        /\ worker' = [worker EXCEPT ![w] = NextPair(w)]
    BY <1>9 DEF SaveSignal, Set
  <2>2. Shaped(NextPair(w)) /\ NextPair(w).at = "pair"
    BY <1>0
  <2>3. /\ DOMAIN worker' = Scanners
        /\ \A v \in Scanners : worker'[v] = IF v = w THEN NextPair(w) ELSE worker[v]
    BY <2>1 DEF ScanTypes
  <2>4. alerts' \in [Setups -> Seq(Nat)]
    <3>1. setup \in Setups => Append(alerts[setup], 0) \in Seq(Nat)
      BY DEF ScanTypes
    <3> QED
      BY <2>1, <3>1 DEF ScanTypes
  <2>5. ASSUME NEW s \in Setups
        PROVE  Len(alerts'[s]) + Cardinality(Saving(s)') <= Cardinality(Scanners)
    <3>0. Len(alerts[s]) + Cardinality(Saving(s)) <= Cardinality(Scanners)
      BY DEF AlertsPerWindow
    <3>1. CASE s = setup
      <4>1. alerts'[s] = Append(alerts[s], 0) /\ alerts[s] \in Seq(Nat)
        BY <2>1, <3>1 DEF ScanTypes
      <4>2. Len(alerts'[s]) = Len(alerts[s]) + 1
        BY <4>1
      <4>3. Saving(s)' = Saving(s) \ {w} /\ w \in Saving(s)
        BY <2>1, <2>2, <2>3, <3>1 DEF Saving
      <4>4. Cardinality(Saving(s)') = Cardinality(Saving(s)) - 1
        BY <4>3, SavingIsFinite, FS_RemoveElement
      <4> QED
        BY <1>3, <3>0, <4>2, <4>4, SavingIsFinite
    <3>2. CASE s # setup
      <4>1. alerts'[s] = alerts[s]
        BY <2>1, <3>2 DEF ScanTypes
      <4>2. Saving(s)' = Saving(s)
        BY <2>2, <2>3, <3>2 DEF Saving
      <4> QED
        BY <3>0, <4>1, <4>2
    <3> QED
      BY <3>1, <3>2
  <2> QED
    BY <1>1, <1>2, <2>2, <2>3, <2>4, <2>5 DEF ScanTypes, AlertsPerWindow
<1>10. CASE RecordScan(w)
  <2> DEFINE r == [worker[w] EXCEPT !.at = "plan", !.plans = Tail(worker[w].plans)]
  <2>1. UNCHANGED alerts /\ worker' = [worker EXCEPT ![w] = r]
    BY <1>10 DEF RecordScan, Set
  <2>2. Shaped(r) /\ r.at = "plan"
    BY <1>3, ShapeWithPlans, Zenon
  <2> HIDE DEF r
  <2> QED
    BY <1>4, <2>1, <2>2
<1>11. CASE Monitor(w)
  BY <1>4, <1>11, ShapeOfResting DEF Monitor, Set
<1>12. CASE TaskFails(w)
  BY <1>4, <1>12, ShapeOfResting DEF TaskFails, Set
<1>13. ASSUME UNCHANGED alerts, NEW at, NEW plans, at # "save",
              worker' = [worker EXCEPT ![w] = [Resting EXCEPT !.at = at, !.plans = plans]]
       PROVE  ScanInv'
  <2> DEFINE r == [Resting EXCEPT !.at = at, !.plans = plans]
  <2>1. Shaped(r) /\ r.at = at /\ worker' = [worker EXCEPT ![w] = r]
    BY <1>13, ShapeOfResting, ShapeWithPlans, Zenon
  <2> HIDE DEF r
  <2> QED
    BY <1>4, <1>13, <2>1
<1>14. CASE TakeTask(w)
  <2>1. UNCHANGED alerts
    BY <1>14 DEF TakeTask
  <2>2. \/ \E plans : worker' = [worker EXCEPT ![w] = [Resting EXCEPT !.at = "plan", !.plans = plans]]
        \/ \E plans : worker' = [worker EXCEPT ![w] = [Resting EXCEPT !.at = "monitor", !.plans = plans]]
        \/ UNCHANGED worker
    BY <1>14, Zenon DEF TakeTask, Set
  <2>3. "plan" # "save" /\ "monitor" # "save"
    OBVIOUS
  <2> QED
    BY <1>5, <1>13, <2>1, <2>2, <2>3
<1>15. CASE ManualScan(w)
  BY <1>13, <1>15 DEF ManualScan, Set
<1> QED
  BY <1>6, <1>7, <1>8, <1>9, <1>10, <1>11, <1>12, <1>14, <1>15 DEF ScanMoves

LEMMA ScanInitInv == ScanInit => ScanInv
<1> SUFFICES ASSUME ScanInit PROVE ScanInv
  OBVIOUS
<1>1. ScanTypes
  BY DEF ScanInit, ScanTypes, Shaped, Resting
<1>2. ASSUME NEW s \in Setups
      PROVE  Len(alerts[s]) + Cardinality(Saving(s)) <= Cardinality(Scanners)
  <2>1. alerts[s] = <<>>
    BY DEF ScanInit
  <2> QED
    BY <2>1, SavingIsFinite
<1> QED
  BY <1>1, <1>2 DEF ScanInv, AlertsPerWindow

LEMMA ScanNextInv == ScanInv /\ [ScanNext]_scanVars => ScanInv'
<1> SUFFICES ASSUME ScanInv, [ScanNext]_scanVars PROVE ScanInv'
  OBVIOUS
<1>1. CASE Beat
  <2>1. alerts' = [s \in Setups |-> Aged(alerts[s])] /\ UNCHANGED <<active, worker>>
        /\ lastScan' = [p \in Profiles |-> Older(lastScan[p], ScanEvery[p])]
    BY <1>1 DEF Beat
  <2>2. alerts' \in [Setups -> Seq(Nat)]
    BY <2>1, AgedShortens DEF ScanInv, ScanTypes
  <2>3. lastScan' \in [Profiles -> Nat \cup {Never}]
    BY <2>1, ScanAssumption DEF ScanInv, ScanTypes, Older
  <2>4. ASSUME NEW s \in Setups
        PROVE  Len(alerts'[s]) + Cardinality(Saving(s)') <= Cardinality(Scanners)
    <3>1. alerts[s] \in Seq(Nat) /\ alerts'[s] = Aged(alerts[s])
      BY <2>1 DEF ScanInv, ScanTypes
    <3>2. Len(alerts'[s]) <= Len(alerts[s]) /\ Len(alerts'[s]) \in Nat /\ Len(alerts[s]) \in Nat
      BY <3>1, AgedShortens
    <3>3. Saving(s)' = Saving(s)
      BY <2>1 DEF Saving
    <3>4. Len(alerts[s]) + Cardinality(Saving(s)) <= Cardinality(Scanners)
      BY DEF ScanInv, AlertsPerWindow
    <3> QED
      BY <3>2, <3>3, <3>4, SavingIsFinite
  <2> QED
    BY <2>1, <2>2, <2>3, <2>4 DEF ScanInv, ScanTypes, AlertsPerWindow
<1>2. CASE SaveActive
  BY <1>2 DEF SaveActive, ScanInv, ScanTypes, AlertsPerWindow, Saving
<1>3. CASE UNCHANGED scanVars
  BY <1>3 DEF scanVars, ScanInv, ScanTypes, AlertsPerWindow, Saving
<1>4. ASSUME NEW w \in Scanners, ScanMoves(w) \/ TaskFails(w) \/ TakeTask(w) \/ ManualScan(w)
      PROVE  ScanInv'
  BY <1>4, ScanMovesKeep
<1> QED
  BY <1>1, <1>2, <1>3, <1>4 DEF ScanNext, Scanners

LEMMA ScanIsInvariant == ScanSpec => []ScanInv
BY ScanInitInv, ScanNextInv, PTL DEF ScanSpec

(* The window of has_recent_alert: though the look for an alert and its     *)
(* insertion are two statements, and scans and the panel race, a setup has  *)
(* at no time more live alerts, counting those about to be saved, than      *)
(* there are scans.                                                         *)
THEOREM AlertsAreFewEver == ScanSpec => []AlertsPerWindow
<1>1. ScanInv => AlertsPerWindow
  BY DEF ScanInv
<1> QED
  BY <1>1, ScanIsInvariant, PTL

(* The recursion of the plans defines what it says: up to the least number  *)
(* of ids at which it would not, it does.                                   *)
LEMMA PlansById ==
    ASSUME NEW ids \in Seq(Profiles)
    PROVE  LET plans == ScannableOf(ids)
           IN  \A n \in 0..Len(ids) :
                 plans[n] = IF n = 0 THEN <<>>
                            ELSE IF Scannable(ids[n]) /\ ids[n] \notin ToSet(plans[n - 1])
                                 THEN Append(plans[n - 1], ids[n])
                                 ELSE plans[n - 1]
<1> DEFINE Value(plans, n) == IF n = 0 THEN <<>>
                              ELSE IF Scannable(ids[n]) /\ ids[n] \notin ToSet(plans[n - 1])
                                   THEN Append(plans[n - 1], ids[n])
                                   ELSE plans[n - 1]
           UpTo(n, plans) == plans = [k \in 0..n |-> Value(plans, k)]
           Undefined == {n \in Nat : \A plans : ~UpTo(n, plans)}
<1>1. Undefined = {}
  <2> SUFFICES ASSUME Undefined # {} PROVE FALSE
    OBVIOUS
  <2>1. Undefined \in SUBSET Nat
    OBVIOUS
  <2> HIDE DEF Undefined
  <2>2. PICK n \in Undefined : \A m \in Undefined : n <= m
    BY <2>1, LeastNatural
  <2>3. n \in Nat
    BY <2>1
  <2>4. CASE n = 0
    <3> DEFINE first == [k \in 0..0 |-> <<>>]
    <3>1. UpTo(0, first)
      <4>1. \A k \in 0..0 : k = 0
        OBVIOUS
      <4>2. [k \in 0..0 |-> Value(first, k)] = first
        BY <4>1
      <4> QED
        BY <4>2
    <3>2. \A plans : ~UpTo(0, plans)
      BY <2>2, <2>4 DEF Undefined
    <3> HIDE DEF UpTo
    <3> QED
      BY <3>1, <3>2
  <2>5. CASE n > 0
    <3>1. n - 1 \in Nat /\ n - 1 \notin Undefined
      BY <2>2, <2>3, <2>5
    <3>2. PICK before : UpTo(n - 1, before)
      BY <3>1 DEF Undefined
    <3> DEFINE plans == [k \in 0..n |-> Value(before, k)]
    <3>3. \A k \in 0..(n - 1) : before[k] = Value(before, k)
      <4> HIDE DEF Value
      <4> QED
        BY <3>2
    <3>4. \A k \in 0..(n - 1) : plans[k] = before[k]
      <4>1. \A k \in 0..(n - 1) : k \in 0..n
        BY <2>3
      <4> HIDE DEF Value
      <4> QED
        BY <3>3, <4>1
    <3>5. \A k \in 0..n : Value(plans, k) = Value(before, k)
      <4> SUFFICES ASSUME NEW k \in 0..n, k # 0 PROVE plans[k - 1] = before[k - 1]
        BY DEF Value
      <4>1. k - 1 \in 0..(n - 1)
        BY <2>3
      <4> HIDE DEF plans
      <4> QED
        BY <3>4, <4>1
    <3>6. UpTo(n, plans)
      <4>1. [k \in 0..n |-> Value(plans, k)] = [k \in 0..n |-> Value(before, k)]
        <5> HIDE DEF Value, plans
        <5> QED
          BY <3>5
      <4> QED
        BY <4>1
    <3>7. ~UpTo(n, plans)
      BY <2>2 DEF Undefined
    <3> QED
      BY <3>6, <3>7
  <2> QED
    BY <2>3, <2>4, <2>5
<1>2. Len(ids) \in Nat
  OBVIOUS
<1>3. \E plans : UpTo(Len(ids), plans)
  BY <1>1, <1>2
<1>4. ScannableOf(ids) = CHOOSE plans : UpTo(Len(ids), plans)
  BY DEF ScannableOf
<1>5. UpTo(Len(ids), ScannableOf(ids))
  <2> HIDE DEF UpTo
  <2> QED
    BY <1>3, <1>4
<1>6. \A n \in 0..Len(ids) : ScannableOf(ids)[n] = Value(ScannableOf(ids), n)
  <2> HIDE DEF Value
  <2> QED
    BY <1>5
<1> QED
  BY <1>6

(* There is always a plan to scan, and it is of a profile.                  *)
LEMMA PlansAreProfiles ==
    ASSUME NEW ids \in ActiveChoices
    PROVE  /\ ActivePlans(ids) \in Seq(Profiles)
           /\ ToSet(ActivePlans(ids)) # {} /\ ToSet(ActivePlans(ids)) \subseteq Profiles
<1>1. ids \in Seq(Profiles) /\ ids # <<>> /\ Len(ids) \in Nat
  BY ScanAssumption
<1> DEFINE plans == ScannableOf(ids)
           Odd == {n \in 0..Len(ids) : plans[n] \notin Seq(Profiles)}
<1>2. \A n \in 0..Len(ids) :
        plans[n] = IF n = 0 THEN <<>>
                   ELSE IF Scannable(ids[n]) /\ ids[n] \notin ToSet(plans[n - 1])
                        THEN Append(plans[n - 1], ids[n])
                        ELSE plans[n - 1]
  BY <1>1, PlansById
<1> HIDE DEF plans
<1>3. Odd = {}
  <2> SUFFICES ASSUME Odd # {} PROVE FALSE
    OBVIOUS
  <2>1. Odd \in SUBSET Nat
    BY <1>1
  <2> HIDE DEF Odd
  <2>2. PICK n \in Odd : \A m \in Odd : n <= m
    BY <2>1, LeastNatural
  <2>3. n \in 0..Len(ids) /\ plans[n] \notin Seq(Profiles)
    BY <2>2 DEF Odd
  <2>4. n # 0
    <3>1. <<>> \in Seq(Profiles)
      OBVIOUS
    <3> QED
      BY <1>2, <2>3, <3>1, Zenon
  <2>5. n - 1 \in 0..Len(ids) /\ n - 1 \notin Odd /\ n \in 1..Len(ids)
    BY <1>1, <2>2, <2>3, <2>4
  <2>6. plans[n - 1] \in Seq(Profiles) /\ ids[n] \in Profiles
    BY <1>1, <2>5 DEF Odd
  <2>7. Append(plans[n - 1], ids[n]) \in Seq(Profiles)
    BY <2>6
  <2> QED
    BY <1>2, <2>3, <2>4, <2>6, <2>7, Zenon
<1>4. plans[Len(ids)] \in Seq(Profiles)
  BY <1>1, <1>3
<1>5. ActivePlans(ids) = IF plans[Len(ids)] = <<>> THEN <<PrimaryPlan(ids)>> ELSE plans[Len(ids)]
  BY DEF ActivePlans, plans
<1>6. PrimaryPlan(ids) \in Profiles
  BY <1>1, ScanAssumption DEF PrimaryPlan
<1>7. ActivePlans(ids) \in Seq(Profiles) /\ ActivePlans(ids) # <<>>
  BY <1>4, <1>5, <1>6
<1>8. /\ DOMAIN ActivePlans(ids) = 1..Len(ActivePlans(ids)) /\ Len(ActivePlans(ids)) \in Nat \ {0}
      /\ \A i \in 1..Len(ActivePlans(ids)) : ActivePlans(ids)[i] \in Profiles
  BY <1>7
<1> QED
  BY <1>7, <1>8 DEF ToSet

LEMMA MinOfNaturals ==
    ASSUME NEW S \in SUBSET Nat, S # {}
    PROVE  Min(S) \in S /\ \A n \in S : Min(S) <= n
BY LeastNatural DEF Min

(* The panel counts down to the end of the shortest interval of the active  *)
(* profiles since the latest scan of any: when it ends, at least one of     *)
(* them is due, whatever was scanned and activated in between.              *)
THEOREM CountdownKeptEver == ScanSpec => []CountdownKept
<1>1. ScanTypes => CountdownKept
  <2> SUFFICES ASSUME ScanTypes, CountdownOver
               PROVE  \E p \in ToSet(ActivePlans(active)) : ShouldRun(ScanEvery[p], lastScan[p])
    BY DEF CountdownKept
  <2> DEFINE plans == ToSet(ActivePlans(active))
             every == {ScanEvery[p] : p \in plans}
             ages == {lastScan[p] : p \in plans} \ {Never}
  <2>1. plans # {} /\ plans \subseteq Profiles
    BY PlansAreProfiles DEF ScanTypes
  <2>2. every \in SUBSET Nat /\ every # {} /\ ages \in SUBSET Nat
    BY <2>1, ScanAssumption DEF ScanTypes
  <2>3. LatestScan = (IF ages = {} THEN lastAny ELSE Min(ages)) /\ LatestScan >= Min(every)
    BY DEF CountdownOver, LatestScan
  <2> HIDE DEF plans
  <2>4. Min(every) \in every
    BY <2>2, MinOfNaturals
  <2>5. PICK p \in plans : ScanEvery[p] = Min(every)
    BY <2>4
  <2>6. CASE lastScan[p] = Never
    BY <2>5, <2>6 DEF ShouldRun, plans
  <2>7. CASE lastScan[p] # Never
    <3>1. lastScan[p] \in ages
      BY <2>7
    <3>2. Min(ages) \in Nat /\ Min(ages) <= lastScan[p] /\ LatestScan = Min(ages)
          /\ lastScan[p] \in Nat
      BY <2>2, <2>3, <3>1, MinOfNaturals
    <3>3. lastScan[p] >= ScanEvery[p]
      <4>1. ScanEvery[p] \in Nat
        BY <2>1, ScanAssumption
      <4> QED
        BY <2>3, <2>5, <3>2, <4>1
    <3> QED
      BY <3>3 DEF ShouldRun, plans
  <2> QED
    BY <2>6, <2>7
<1> QED
  BY <1>1, ScanIsInvariant, PTL DEF ScanInv

-----------------------------------------------------------------------------
(***************************************************************************)
(* DivapDetection: charts and their windows.                               *)
(***************************************************************************)
LEMMA ChartTypes ==
    ASSUME NEW c, ChartOK(c)
    PROVE  LET S == {c.candles[i] : i \in DOMAIN c.candles}
           IN  /\ c.candles \in Seq(S) /\ Len(c.candles) \in Nat /\ Len(c.candles) > 0
               /\ DOMAIN c.candles = 1..Len(c.candles)
               /\ \A x \in S : IsCandle(x)
<1> DEFINE S == {c.candles[i] : i \in DOMAIN c.candles}
           n == Len(c.candles)
<1>1. n \in Nat \ {0} /\ c.candles = [i \in 1..n |-> c.candles[i]]
  BY DEF ChartOK
<1>2. DOMAIN c.candles = 1..n
  BY <1>1, Zenon
<1>3. \A i \in 1..n : c.candles[i] \in S
  BY <1>2
<1>4. [i \in 1..n |-> c.candles[i]] \in Seq(S)
  <2> HIDE DEF S
  <2> QED
    BY <1>1, <1>3
<1>5. \A x \in S : IsCandle(x)
  BY DEF ChartOK
<1> QED
  BY <1>1, <1>2, <1>4, <1>5

(* The last of a series, the current one the last of them.                  *)
LEMMA LastOfTypes ==
    ASSUME NEW S, NEW series \in Seq(S), NEW n \in Nat
    PROVE  LET window == LastOf(series, n)
           IN  /\ window \in Seq(S) /\ DOMAIN window = 1..Len(window)
               /\ Len(window) = IF Len(series) > n THEN n ELSE Len(series)
               /\ \A i \in 1..Len(window) :
                    window[i] = series[Len(series) - Len(window) + i]
<1> DEFINE l == Len(series)
           m == IF l > n THEN l - n + 1 ELSE 1
           window == SubSeq(series, m, l)
<1>1. l \in Nat /\ m \in Int /\ 1 <= m /\ m <= l + 1
      /\ l - m + 1 = IF l > n THEN n ELSE l
  OBVIOUS
<1>2. LastOf(series, n) = window
  BY DEF LastOf
<1>3. \A i \in m..l : series[i] \in S
  BY <1>1
<1> HIDE DEF l, m
<1>4. /\ window \in Seq(S) /\ Len(window) = l - m + 1
      /\ \A i \in 1..(l - m + 1) : window[i] = series[m + i - 1]
  BY <1>1, <1>3, SubSeqProperties
<1> HIDE DEF window
<1>5. DOMAIN window = 1..Len(window)
  BY <1>4
<1>6. \A i \in 1..Len(window) : window[i] = series[l - Len(window) + i]
  <2> SUFFICES ASSUME NEW i \in 1..Len(window) PROVE m + i - 1 = l - Len(window) + i
    BY <1>4
  <2> QED
    BY <1>1, <1>4
<1> QED
  BY <1>1, <1>2, <1>4, <1>5, <1>6 DEF l

-----------------------------------------------------------------------------
(***************************************************************************)
(* DivapDetection: the chart upside down.                                  *)
(***************************************************************************)
(* The recursion of the pivots defines what it says.                        *)
LEMMA PivotsByIndex ==
    ASSUME NEW turns, NEW size \in Nat
    PROVE  LET kept == PivotsUpTo(turns, size)
           IN  \A n \in 0..size :
                 kept[n] = IF n = 0 THEN <<>>
                            ELSE IF /\ n \in turns
                                    /\ kept[n - 1] # <<>> =>
                                         n - kept[n - 1][Len(kept[n - 1])] >= MinDistance
                                 THEN Append(kept[n - 1], n)
                                 ELSE kept[n - 1]
<1> DEFINE Value(kept, n) == IF n = 0 THEN <<>>
                              ELSE IF /\ n \in turns
                                      /\ kept[n - 1] # <<>> =>
                                           n - kept[n - 1][Len(kept[n - 1])] >= MinDistance
                                   THEN Append(kept[n - 1], n)
                                   ELSE kept[n - 1]
           UpTo(n, kept) == kept = [k \in 0..n |-> Value(kept, k)]
           Undefined == {n \in Nat : \A kept : ~UpTo(n, kept)}
<1>1. Undefined = {}
  <2> SUFFICES ASSUME Undefined # {} PROVE FALSE
    OBVIOUS
  <2>1. Undefined \in SUBSET Nat
    OBVIOUS
  <2> HIDE DEF Undefined
  <2>2. PICK n \in Undefined : \A m \in Undefined : n <= m
    BY <2>1, LeastNatural
  <2>3. n \in Nat
    BY <2>1
  <2>4. CASE n = 0
    <3> DEFINE first == [k \in 0..0 |-> <<>>]
    <3>1. UpTo(0, first)
      <4>1. \A k \in 0..0 : k = 0
        OBVIOUS
      <4>2. [k \in 0..0 |-> Value(first, k)] = first
        BY <4>1
      <4> QED
        BY <4>2
    <3>2. \A kept : ~UpTo(0, kept)
      BY <2>2, <2>4 DEF Undefined
    <3> HIDE DEF UpTo
    <3> QED
      BY <3>1, <3>2
  <2>5. CASE n > 0
    <3>1. n - 1 \in Nat /\ n - 1 \notin Undefined
      BY <2>2, <2>3, <2>5
    <3>2. PICK before : UpTo(n - 1, before)
      BY <3>1 DEF Undefined
    <3> DEFINE kept == [k \in 0..n |-> Value(before, k)]
    <3>3. \A k \in 0..(n - 1) : before[k] = Value(before, k)
      <4> HIDE DEF Value
      <4> QED
        BY <3>2
    <3>4. \A k \in 0..(n - 1) : kept[k] = before[k]
      <4>1. \A k \in 0..(n - 1) : k \in 0..n
        BY <2>3
      <4> HIDE DEF Value
      <4> QED
        BY <3>3, <4>1
    <3>5. \A k \in 0..n : Value(kept, k) = Value(before, k)
      <4> SUFFICES ASSUME NEW k \in 0..n PROVE Value(kept, k) = Value(before, k)
        OBVIOUS
      <4>1. CASE k = 0
        BY <4>1 DEF Value
      <4>2. CASE k # 0
        <5>1. k - 1 \in 0..(n - 1)
          BY <2>3, <4>2
        <5>2. kept[k - 1] = before[k - 1]
          BY <3>4, <5>1
        <5> HIDE DEF kept
        <5> QED
          BY <5>2, Zenon DEF Value
      <4> QED
        BY <4>1, <4>2
    <3>6. UpTo(n, kept)
      <4>1. [k \in 0..n |-> Value(kept, k)] = [k \in 0..n |-> Value(before, k)]
        <5> HIDE DEF Value, kept
        <5> QED
          BY <3>5
      <4> QED
        BY <4>1
    <3>7. ~UpTo(n, kept)
      BY <2>2 DEF Undefined
    <3> QED
      BY <3>6, <3>7
  <2> QED
    BY <2>3, <2>4, <2>5
<1>3. \E kept : UpTo(size, kept)
  <2> HIDE DEF UpTo
  <2> QED
    BY <1>1
<1>4. PivotsUpTo(turns, size) = CHOOSE kept : UpTo(size, kept)
  BY DEF PivotsUpTo
<1>5. UpTo(size, PivotsUpTo(turns, size))
  <2> HIDE DEF UpTo
  <2> QED
    BY <1>3, <1>4
<1>6. \A n \in 0..size : PivotsUpTo(turns, size)[n] = Value(PivotsUpTo(turns, size), n)
  <2> HIDE DEF Value
  <2> QED
    BY <1>5
<1> QED
  BY <1>6

LEMMA PivotsAreTurns ==
    ASSUME NEW turns, NEW size \in Nat
    PROVE  PivotsUpTo(turns, size)[size] \in Seq(turns)
<1> DEFINE kept == PivotsUpTo(turns, size)
           Odd == {n \in 0..size : kept[n] \notin Seq(turns)}
<1>1. \A n \in 0..size :
        \/ n = 0 /\ kept[n] = <<>>
        \/ n # 0 /\ n \in turns /\ kept[n] = Append(kept[n - 1], n)
        \/ n # 0 /\ kept[n] = kept[n - 1]
  BY PivotsByIndex
<1> HIDE DEF kept
<1>2. Odd = {}
  <2> SUFFICES ASSUME Odd # {} PROVE FALSE
    OBVIOUS
  <2>1. Odd \in SUBSET Nat
    OBVIOUS
  <2> HIDE DEF Odd
  <2>2. PICK n \in Odd : \A m \in Odd : n <= m
    BY <2>1, LeastNatural
  <2>3. n \in 0..size /\ kept[n] \notin Seq(turns)
    BY <2>2 DEF Odd
  <2>4. <<>> \in Seq(turns)
    OBVIOUS
  <2>5. n # 0 => kept[n - 1] \in Seq(turns)
    <3>1. n # 0 => n - 1 \in 0..size /\ n - 1 \notin Odd
      BY <2>2, <2>3
    <3> QED
      BY <3>1 DEF Odd
  <2>6. n # 0 /\ n \in turns => Append(kept[n - 1], n) \in Seq(turns)
    BY <2>5
  <2> QED
    BY <1>1, <2>3, <2>4, <2>5, <2>6, Zenon
<1>3. size \in 0..size
  OBVIOUS
<1> QED
  BY <1>2, <1>3 DEF kept

(* The divergence of the lows and that of the highs.                        *)
Falls(values, rsi) == Diverges(values, rsi, <)
Rises(values, rsi) == Diverges(values, rsi, >)

(* A falling series upside down rises, and turns where it turned.           *)
LEMMA DivergesFlips ==
    ASSUME NEW n \in Nat, NEW values, NEW flipped, NEW rsi, NEW mirrored,
           Len(values) = n, Len(flipped) = n,
           \A i \in 1..n : /\ values[i] \in Int /\ flipped[i] = Flip(values[i])
                           /\ rsi[i] \in 0..MaxRsi \cup {NoRsi}
                           /\ mirrored[i] = IF rsi[i] = NoRsi THEN NoRsi ELSE MaxRsi - rsi[i]
    PROVE  /\ Falls(flipped, mirrored) <=> Rises(values, rsi)
           /\ Rises(flipped, mirrored) <=> Falls(values, rsi)
<1>0. MaxPrice \in Int /\ MaxRsi \in Nat /\ NoRsi \notin 0..MaxRsi
  BY DetectionAssumption
<1>1. \A i, j \in 1..n : /\ flipped[i] < flipped[j] <=> values[i] > values[j]
                         /\ flipped[i] > flipped[j] <=> values[i] < values[j]
  BY <1>0 DEF Flip
<1>2. \A i \in 1..n : rsi[i] = NoRsi <=> mirrored[i] = NoRsi
  BY <1>0
<1>3. \A i, j \in 1..n : rsi[i] # NoRsi /\ rsi[j] # NoRsi =>
        /\ mirrored[i] < mirrored[j] <=> rsi[i] > rsi[j]
        /\ mirrored[i] > mirrored[j] <=> rsi[i] < rsi[j]
  <2>1. \A i \in 1..n : rsi[i] # NoRsi => rsi[i] \in Int /\ mirrored[i] = MaxRsi - rsi[i]
    BY <1>0
  <2> SUFFICES ASSUME NEW i \in 1..n, NEW j \in 1..n, rsi[i] # NoRsi, rsi[j] # NoRsi
               PROVE  /\ mirrored[i] < mirrored[j] <=> rsi[i] > rsi[j]
                      /\ mirrored[i] > mirrored[j] <=> rsi[i] < rsi[j]
    OBVIOUS
  <2>2. /\ rsi[i] \in Int /\ mirrored[i] = MaxRsi - rsi[i]
        /\ rsi[j] \in Int /\ mirrored[j] = MaxRsi - rsi[j]
    BY <2>1
  <2> QED
    BY <1>0, <2>2
<1>4. \A i \in 2..(n - 1) : i \in 1..n /\ i - 1 \in 1..n /\ i + 1 \in 1..n
  OBVIOUS
<1>5. Turns(flipped, <) = Turns(values, >) /\ Turns(flipped, >) = Turns(values, <)
  BY <1>1, <1>4 DEF Turns
<1>6. Turns(values, >) \subseteq 1..n /\ Turns(values, <) \subseteq 1..n
  BY <1>4 DEF Turns
<1>7. ASSUME NEW turns \in SUBSET (1..n), NEW pivots, pivots = PivotsUpTo(turns, n)[n],
             Len(pivots) >= 2
      PROVE  pivots[Len(pivots) - 1] \in 1..n /\ pivots[Len(pivots)] \in 1..n
  <2>1. pivots \in Seq(turns)
    BY <1>7, PivotsAreTurns
  <2>2. Len(pivots) - 1 \in 1..Len(pivots) /\ Len(pivots) \in 1..Len(pivots)
    BY <1>7, <2>1
  <2>3. \A k \in 1..Len(pivots) : pivots[k] \in turns
    BY <2>1
  <2> QED
    BY <2>2, <2>3
<1>8. Falls(flipped, mirrored) <=> Rises(values, rsi)
  <2> DEFINE pivots == PivotsUpTo(Turns(values, >), n)[n]
             i == pivots[Len(pivots) - 1]
             j == pivots[Len(pivots)]
  <2>1. Rises(values, rsi) <=>
          /\ Len(pivots) >= 2 /\ rsi[i] # NoRsi /\ rsi[j] # NoRsi
          /\ values[j] > values[i] /\ rsi[i] > rsi[j]
    BY DEF Falls, Rises, Diverges
  <2>2. Falls(flipped, mirrored) <=>
          /\ Len(pivots) >= 2 /\ mirrored[i] # NoRsi /\ mirrored[j] # NoRsi
          /\ flipped[j] < flipped[i] /\ mirrored[i] < mirrored[j]
    BY <1>5 DEF Falls, Rises, Diverges
  <2>3. Len(pivots) >= 2 => i \in 1..n /\ j \in 1..n
    BY <1>6, <1>7
  <2> HIDE DEF i, j, pivots
  <2> QED
    BY <1>1, <1>2, <1>3, <2>1, <2>2, <2>3
<1>9. Rises(flipped, mirrored) <=> Falls(values, rsi)
  <2> DEFINE pivots == PivotsUpTo(Turns(values, <), n)[n]
             i == pivots[Len(pivots) - 1]
             j == pivots[Len(pivots)]
  <2>1. Falls(values, rsi) <=>
          /\ Len(pivots) >= 2 /\ rsi[i] # NoRsi /\ rsi[j] # NoRsi
          /\ values[j] < values[i] /\ rsi[i] < rsi[j]
    BY DEF Falls, Rises, Diverges
  <2>2. Rises(flipped, mirrored) <=>
          /\ Len(pivots) >= 2 /\ mirrored[i] # NoRsi /\ mirrored[j] # NoRsi
          /\ flipped[j] > flipped[i] /\ mirrored[i] > mirrored[j]
    BY <1>5 DEF Falls, Rises, Diverges
  <2>3. Len(pivots) >= 2 => i \in 1..n /\ j \in 1..n
    BY <1>6, <1>7
  <2> HIDE DEF i, j, pivots
  <2> QED
    BY <1>1, <1>2, <1>3, <2>1, <2>2, <2>3
<1> QED
  BY <1>8, <1>9

(* A candle upside down.                                                    *)
Flipped(k) ==
    [open |-> Flip(k.open), close |-> Flip(k.close), high |-> Flip(k.low), low |-> Flip(k.high),
     volume |-> k.volume]

LEMMA CandleFlips ==
    ASSUME NEW k, IsCandle(k)
    PROVE  LET f == Flipped(k)
           IN  /\ f.open = MaxPrice + 1 - k.open /\ f.close = MaxPrice + 1 - k.close
               /\ f.high = MaxPrice + 1 - k.low /\ f.low = MaxPrice + 1 - k.high
               /\ f.volume = k.volume
               /\ {k.open, k.close, k.high, k.low, MaxPrice} \subseteq Int
               /\ k.low <= Lower(k) /\ Lower(k) <= Upper(k) /\ Upper(k) <= k.high
               /\ Lower(k) \in Int /\ Upper(k) \in Int
               /\ Upper(f) = MaxPrice + 1 - Lower(k) /\ Lower(f) = MaxPrice + 1 - Upper(k)
<1>1. /\ MaxPrice \in Int /\ k.open \in Int /\ k.close \in Int /\ k.high \in Int /\ k.low \in Int
      /\ k.low <= k.open /\ k.low <= k.close /\ k.open <= k.high /\ k.close <= k.high
  BY DetectionAssumption DEF IsCandle, Prices
<1> DEFINE f == Flipped(k)
<1>2. /\ f.open = MaxPrice + 1 - k.open /\ f.close = MaxPrice + 1 - k.close
      /\ f.high = MaxPrice + 1 - k.low /\ f.low = MaxPrice + 1 - k.high /\ f.volume = k.volume
  BY DEF Flipped, Flip
<1> HIDE DEF f
<1>3. /\ k.low <= Lower(k) /\ Lower(k) <= Upper(k) /\ Upper(k) <= k.high
      /\ Lower(k) \in Int /\ Upper(k) \in Int
  BY <1>1 DEF Lower, Upper
<1>4. Upper(f) = MaxPrice + 1 - Lower(k) /\ Lower(f) = MaxPrice + 1 - Upper(k)
  BY <1>1, <1>2 DEF Lower, Upper
<1> QED
  BY <1>1, <1>2, <1>3, <1>4 DEF f

LEMMA PatternsFlip ==
    ASSUME NEW j, NEW k, IsCandle(j), IsCandle(k)
    PROVE  /\ IsBullishEngulfing(Flipped(j), Flipped(k)) <=> IsBearishEngulfing(j, k)
           /\ IsBearishEngulfing(Flipped(j), Flipped(k)) <=> IsBullishEngulfing(j, k)
           /\ IsHammer(Flipped(k)) <=> IsShootingStar(k)
           /\ IsShootingStar(Flipped(k)) <=> IsHammer(k)
           /\ IsHarami(Flipped(j), Flipped(k)) <=> IsHarami(j, k)
           /\ ~(IsBullishEngulfing(j, k) /\ IsBearishEngulfing(j, k))
           /\ ~(IsHammer(k) /\ IsShootingStar(k))
<1> DEFINE f == Flipped(j)
           g == Flipped(k)
<1>1. /\ f.open = MaxPrice + 1 - j.open /\ f.close = MaxPrice + 1 - j.close
      /\ j.open \in Int /\ j.close \in Int /\ MaxPrice \in Int
      /\ Lower(j) \in Int /\ Upper(j) \in Int
      /\ Upper(f) = MaxPrice + 1 - Lower(j) /\ Lower(f) = MaxPrice + 1 - Upper(j)
  BY CandleFlips
<1>2. /\ g.open = MaxPrice + 1 - k.open /\ g.close = MaxPrice + 1 - k.close
      /\ g.high = MaxPrice + 1 - k.low /\ g.low = MaxPrice + 1 - k.high
      /\ k.open \in Int /\ k.close \in Int /\ k.high \in Int /\ k.low \in Int
      /\ k.low <= Lower(k) /\ Lower(k) <= Upper(k) /\ Upper(k) <= k.high
      /\ Lower(k) \in Int /\ Upper(k) \in Int
      /\ Upper(g) = MaxPrice + 1 - Lower(k) /\ Lower(g) = MaxPrice + 1 - Upper(k)
  BY CandleFlips
<1> HIDE DEF f, g
<1>3. /\ IsBullishEngulfing(f, g) <=> IsBearishEngulfing(j, k)
      /\ IsBearishEngulfing(f, g) <=> IsBullishEngulfing(j, k)
      /\ ~(IsBullishEngulfing(j, k) /\ IsBearishEngulfing(j, k))
  BY <1>1, <1>2 DEF IsBullishEngulfing, IsBearishEngulfing
<1>4. /\ Body(f) = Body(j) /\ Body(g) = Body(k)
      /\ UpperWick(g) = LowerWick(k) /\ LowerWick(g) = UpperWick(k)
      /\ g.high - g.low = k.high - k.low /\ (g.high = g.low <=> k.high = k.low)
      /\ Body(k) \in Int /\ UpperWick(k) \in Int /\ LowerWick(k) \in Int
      /\ Body(k) >= 0 /\ UpperWick(k) >= 0 /\ LowerWick(k) >= 0
      /\ k.high - k.low = Body(k) + UpperWick(k) + LowerWick(k)
  BY <1>1, <1>2 DEF Body, UpperWick, LowerWick
<1>5. IsHammer(g) <=> IsShootingStar(k)
  BY <1>4 DEF IsHammer, IsShootingStar, Pinned
<1>6. IsShootingStar(g) <=> IsHammer(k)
  BY <1>4 DEF IsHammer, IsShootingStar, Pinned
<1>7. ~(IsHammer(k) /\ IsShootingStar(k))
  <2> SUFFICES ASSUME IsHammer(k), IsShootingStar(k) PROVE FALSE
    OBVIOUS
  <2>1. /\ k.high # k.low /\ LowerWick(k) >= 2 * Body(k) /\ 2 * UpperWick(k) <= Body(k)
        /\ UpperWick(k) >= 2 * Body(k) /\ 2 * LowerWick(k) <= Body(k)
    BY DEF IsHammer, IsShootingStar, Pinned
  <2>2. Body(k) = 0 /\ UpperWick(k) = 0 /\ LowerWick(k) = 0
    BY <1>4, <2>1
  <2> QED
    BY <1>2, <1>4, <2>1, <2>2
<1>8. IsHarami(f, g) <=> IsHarami(j, k)
  BY <1>1, <1>2, <1>4 DEF IsHarami
<1> QED
  BY <1>3, <1>5, <1>6, <1>7, <1>8 DEF f, g

LEMMA MirrorTypes ==
    ASSUME NEW c, ChartOK(c)
    PROVE  LET n == Len(c.candles)
               m == Mirror(c).candles
               R == 0..MaxRsi \cup {NoRsi}
           IN  /\ n \in Nat /\ n > 0 /\ Len(m) = n /\ DOMAIN m = 1..n
               /\ \A i \in 1..n : IsCandle(c.candles[i]) /\ m[i] = Flipped(c.candles[i])
               /\ \E S : c.candles \in Seq(S) /\ \A x \in S : IsCandle(x)
               /\ \E S : m \in Seq(S)
               /\ c.rsi \in Seq(R) /\ Len(c.rsi) = n
               /\ \E S : Mirror(c).rsi \in Seq(S)
               /\ Len(Mirror(c).rsi) = n
               /\ \A i \in 1..n : Mirror(c).rsi[i] = IF c.rsi[i] = NoRsi THEN NoRsi
                                                     ELSE MaxRsi - c.rsi[i]
<1> DEFINE n == Len(c.candles)
           m == Mirror(c).candles
           R == 0..MaxRsi \cup {NoRsi}
           S == {c.candles[i] : i \in DOMAIN c.candles}
           T == {Flipped(c.candles[i]) : i \in 1..n}
           Q == {IF c.rsi[i] = NoRsi THEN NoRsi ELSE MaxRsi - c.rsi[i] : i \in 1..n}
<1>1. /\ c.candles \in Seq(S) /\ n \in Nat /\ n > 0 /\ DOMAIN c.candles = 1..n
      /\ \A x \in S : IsCandle(x)
  BY ChartTypes
<1>2. \A i \in 1..n : IsCandle(c.candles[i])
  BY <1>1
<1>3. m = [i \in 1..n |-> Flipped(c.candles[i])]
  BY <1>1 DEF Mirror, Flipped
<1>4. m \in Seq(T) /\ Len(m) = n /\ DOMAIN m = 1..n /\ \A i \in 1..n : m[i] = Flipped(c.candles[i])
  <2> HIDE DEF m
  <2> DEFINE e(i) == Flipped(c.candles[i])
  <2>1. \A i \in 1..n : e(i) \in T
    OBVIOUS
  <2>2. m = [i \in 1..n |-> e(i)]
    BY <1>3
  <2> HIDE DEF T, e
  <2>3. m \in Seq(T) /\ Len(m) = n /\ DOMAIN m = 1..n /\ \A i \in 1..n : m[i] = e(i)
    BY <1>1, <2>1, <2>2
  <2> QED
    BY <2>3 DEF e
<1>5. c.rsi \in [1..n -> R]
  BY <1>1 DEF ChartOK
<1>6. c.rsi \in Seq(R) /\ Len(c.rsi) = n /\ DOMAIN c.rsi = 1..n
  <2> HIDE DEF R
  <2> QED
    BY <1>1, <1>5
<1>7. Mirror(c).rsi = [i \in 1..n |-> IF c.rsi[i] = NoRsi THEN NoRsi ELSE MaxRsi - c.rsi[i]]
  BY <1>6 DEF Mirror
<1>8. /\ Mirror(c).rsi \in Seq(Q) /\ Len(Mirror(c).rsi) = n
      /\ \A i \in 1..n : Mirror(c).rsi[i] = IF c.rsi[i] = NoRsi THEN NoRsi ELSE MaxRsi - c.rsi[i]
  <2> DEFINE q == Mirror(c).rsi
             e(i) == IF c.rsi[i] = NoRsi THEN NoRsi ELSE MaxRsi - c.rsi[i]
  <2>1. \A i \in 1..n : e(i) \in Q
    OBVIOUS
  <2>2. q = [i \in 1..n |-> e(i)]
    BY <1>7
  <2> HIDE DEF Q, e, q
  <2>3. q \in Seq(Q) /\ Len(q) = n /\ \A i \in 1..n : q[i] = e(i)
    BY <1>1, <2>1, <2>2
  <2> QED
    BY <2>3 DEF e, q
<1> HIDE DEF m, S, T, Q, R
<1>9. (\E A : c.candles \in Seq(A) /\ \A x \in A : IsCandle(x)) /\ (\E A : m \in Seq(A))
      /\ (\E A : Mirror(c).rsi \in Seq(A))
  BY <1>1, <1>4, <1>8
<1> QED
  BY <1>1, <1>2, <1>4, <1>6, <1>8, <1>9 DEF m, R

(* What is read in the mirror, reading by reading.                          *)
LEMMA PatternMirrors ==
    ASSUME NEW c, ChartOK(c)
    PROVE  Pattern(Mirror(c).candles) = Opposite(Pattern(c.candles))
<1> DEFINE n == Len(c.candles)
           m == Mirror(c).candles
           prev == c.candles[n - 1]
           k == c.candles[n]
<1>1. n \in Nat /\ n > 0 /\ Len(m) = n /\ \A i \in 1..n : IsCandle(c.candles[i]) /\ m[i] = Flipped(c.candles[i])
  BY MirrorTypes
<1> HIDE DEF m
<1>2. CASE n < 2
  <2>1. Pattern(m) = "none" /\ Pattern(c.candles) = "none"
    BY <1>1, <1>2 DEF Pattern
  <2> QED
    BY <2>1 DEF m, Opposite
<1>3. CASE ~(n < 2)
  <2>1. IsCandle(prev) /\ IsCandle(k) /\ m[n - 1] = Flipped(prev) /\ m[n] = Flipped(k)
    BY <1>1, <1>3
  <2> DEFINE up == IsBullishEngulfing(prev, k)
             down == IsBearishEngulfing(prev, k)
             hammer == IsHammer(k)
             star == IsShootingStar(k)
             harami == IsHarami(prev, k)
  <2>2. /\ IsBullishEngulfing(m[n - 1], m[n]) = down /\ IsBearishEngulfing(m[n - 1], m[n]) = up
        /\ IsHammer(m[n]) = star /\ IsShootingStar(m[n]) = hammer
        /\ IsHarami(m[n - 1], m[n]) = harami
        /\ ~(up /\ down) /\ ~(hammer /\ star)
    <3>1. /\ IsBullishEngulfing(Flipped(prev), Flipped(k)) <=> IsBearishEngulfing(prev, k)
          /\ IsBearishEngulfing(Flipped(prev), Flipped(k)) <=> IsBullishEngulfing(prev, k)
          /\ IsHammer(Flipped(k)) <=> IsShootingStar(k)
          /\ IsShootingStar(Flipped(k)) <=> IsHammer(k)
          /\ IsHarami(Flipped(prev), Flipped(k)) <=> IsHarami(prev, k)
          /\ ~(up /\ down) /\ ~(hammer /\ star)
      BY <2>1, PatternsFlip
    <3>2. /\ (IsBullishEngulfing(Flipped(prev), Flipped(k))) \in BOOLEAN /\ down \in BOOLEAN
          /\ IsBearishEngulfing(Flipped(prev), Flipped(k)) \in BOOLEAN /\ up \in BOOLEAN
          /\ IsHammer(Flipped(k)) \in BOOLEAN /\ star \in BOOLEAN
          /\ IsShootingStar(Flipped(k)) \in BOOLEAN /\ hammer \in BOOLEAN
          /\ IsHarami(Flipped(prev), Flipped(k)) \in BOOLEAN /\ harami \in BOOLEAN
      BY DEF IsBullishEngulfing, IsBearishEngulfing, IsHammer, IsShootingStar, Pinned, IsHarami
    <3> QED
      BY <2>1, <3>1, <3>2
  <2>3. Pattern(c.candles) = IF up THEN "bullish_engulfing" ELSE IF down THEN "bearish_engulfing"
                             ELSE IF hammer THEN "hammer" ELSE IF star THEN "shooting_star"
                             ELSE IF harami THEN "harami" ELSE "none"
    BY <1>3 DEF Pattern, Previous, Current
  <2>4. Pattern(m) = IF down THEN "bullish_engulfing" ELSE IF up THEN "bearish_engulfing"
                     ELSE IF star THEN "hammer" ELSE IF hammer THEN "shooting_star"
                     ELSE IF harami THEN "harami" ELSE "none"
    BY <1>1, <1>3, <2>2 DEF Pattern, Previous, Current
  <2> HIDE DEF up, down, hammer, star, harami
  <2>5. CASE up
    BY <2>2, <2>3, <2>4, <2>5 DEF Opposite, m
  <2>6. CASE down
    BY <2>2, <2>3, <2>4, <2>6 DEF Opposite, m
  <2>7. CASE ~up /\ ~down /\ hammer
    BY <2>2, <2>3, <2>4, <2>7 DEF Opposite, m
  <2>8. CASE ~up /\ ~down /\ star
    BY <2>2, <2>3, <2>4, <2>8 DEF Opposite, m
  <2>9. CASE ~up /\ ~down /\ ~hammer /\ ~star
    BY <2>3, <2>4, <2>9 DEF Opposite, m
  <2> QED
    BY <2>5, <2>6, <2>7, <2>8, <2>9
<1> QED
  BY <1>2, <1>3

LEMMA VolumeMirrors ==
    ASSUME NEW c, ChartOK(c)
    PROVE  VolumeConfirms(Mirror(c).candles) = VolumeConfirms(c.candles)
<1> DEFINE n == Len(c.candles)
           m == Mirror(c).candles
           k == c.candles
           early == SubSeq(k, 1, n - 1)
           earlyM == SubSeq(m, 1, n - 1)
           before == LastOf(early, VolumePeriod)
           beforeM == LastOf(earlyM, VolumePeriod)
           volumes == [i \in DOMAIN before |-> before[i].volume]
           volumesM == [i \in DOMAIN beforeM |-> beforeM[i].volume]
<1>1. /\ n \in Nat /\ n > 0 /\ Len(m) = n
      /\ \A i \in 1..n : IsCandle(k[i]) /\ m[i] = Flipped(k[i])
      /\ (\E S : k \in Seq(S)) /\ (\E S : m \in Seq(S))
  BY MirrorTypes
<1>2. PICK S : k \in Seq(S)
  BY <1>1
<1>3. PICK T : m \in Seq(T)
  BY <1>1
<1> HIDE DEF m, k
<1>4. n = Len(k)
  BY DEF k
<1> HIDE DEF n
<1>5. \A i \in 1..n : m[i].volume = k[i].volume
  BY <1>1, CandleFlips
<1>6. /\ early \in Seq(S) /\ Len(early) = n - 1 /\ \A i \in 1..(n - 1) : early[i] = k[i]
      /\ earlyM \in Seq(T) /\ Len(earlyM) = n - 1 /\ \A i \in 1..(n - 1) : earlyM[i] = m[i]
  <2>1. (\A i \in 1..(n - 1) : k[i] \in S) /\ (\A i \in 1..(n - 1) : m[i] \in T)
    BY <1>1, <1>2, <1>3, <1>4
  <2>2. 1 \in Int /\ n - 1 \in Int /\ (IF 1 <= n - 1 THEN (n - 1) - 1 + 1 ELSE 0) = n - 1
        /\ \A i \in 1..(n - 1) : i \in 1..((n - 1) - 1 + 1) /\ 1 + i - 1 = i
    BY <1>1
  <2>3. /\ early \in Seq(S) /\ Len(early) = IF 1 <= n - 1 THEN (n - 1) - 1 + 1 ELSE 0
        /\ \A i \in 1..((n - 1) - 1 + 1) : early[i] = k[1 + i - 1]
    BY <2>1, <2>2, SubSeqProperties
  <2>4. /\ earlyM \in Seq(T) /\ Len(earlyM) = IF 1 <= n - 1 THEN (n - 1) - 1 + 1 ELSE 0
        /\ \A i \in 1..((n - 1) - 1 + 1) : earlyM[i] = m[1 + i - 1]
    BY <2>1, <2>2, SubSeqProperties
  <2> HIDE DEF early, earlyM
  <2>5. ASSUME NEW i \in 1..(n - 1) PROVE early[i] = k[i] /\ earlyM[i] = m[i]
    <3>1. i \in 1..((n - 1) - 1 + 1) /\ 1 + i - 1 = i
      BY <2>2
    <3>2. early[i] = k[1 + i - 1] /\ earlyM[i] = m[1 + i - 1]
      BY <2>3, <2>4, <3>1
    <3> QED
      BY <3>1, <3>2
  <2> QED
    BY <2>2, <2>3, <2>4, <2>5
<1> HIDE DEF early, earlyM
<1>7. VolumePeriod \in Nat
  BY DetectionAssumption
<1>8. /\ DOMAIN before = 1..Len(before)
      /\ Len(before) = IF n - 1 > VolumePeriod THEN VolumePeriod ELSE n - 1
      /\ \A i \in 1..Len(before) : before[i] = early[n - 1 - Len(before) + i]
      /\ DOMAIN beforeM = 1..Len(beforeM)
      /\ Len(beforeM) = IF n - 1 > VolumePeriod THEN VolumePeriod ELSE n - 1
      /\ \A i \in 1..Len(beforeM) : beforeM[i] = earlyM[n - 1 - Len(beforeM) + i]
  <2>1. /\ DOMAIN before = 1..Len(before)
        /\ Len(before) = IF Len(early) > VolumePeriod THEN VolumePeriod ELSE Len(early)
        /\ \A i \in 1..Len(before) : before[i] = early[Len(early) - Len(before) + i]
    BY <1>6, <1>7, LastOfTypes
  <2>2. /\ DOMAIN beforeM = 1..Len(beforeM)
        /\ Len(beforeM) = IF Len(earlyM) > VolumePeriod THEN VolumePeriod ELSE Len(earlyM)
        /\ \A i \in 1..Len(beforeM) : beforeM[i] = earlyM[Len(earlyM) - Len(beforeM) + i]
    BY <1>6, <1>7, LastOfTypes
  <2> HIDE DEF before, beforeM
  <2> QED
    BY <1>6, <2>1, <2>2
<1> HIDE DEF before, beforeM
<1>9. \A i \in DOMAIN before : beforeM[i].volume = before[i].volume
  <2> SUFFICES ASSUME NEW i \in 1..Len(before) PROVE beforeM[i].volume = before[i].volume
    BY <1>8
  <2>1. n - 1 - Len(before) + i \in 1..(n - 1) /\ n - 1 - Len(before) + i \in 1..n
        /\ Len(beforeM) = Len(before)
    BY <1>1, <1>7, <1>8
  <2> QED
    BY <1>5, <1>6, <1>8, <2>1
<1>10. volumesM = volumes
  BY <1>8, <1>9
<1>11. Total(volumesM) = Total(volumes)
  BY <1>10, Zenon
<1>12. VolumeConfirms(k) = (/\ n > VolumePeriod
                            /\ Total(volumes) # 0 /\ k[n].volume * VolumePeriod > Total(volumes))
  BY <1>4 DEF VolumeConfirms, Current, before, early
<1>13. VolumeConfirms(m) = (/\ n > VolumePeriod
                            /\ Total(volumesM) # 0 /\ m[n].volume * VolumePeriod > Total(volumesM))
  BY <1>1 DEF VolumeConfirms, Current, beforeM, earlyM
<1>14. m[n].volume = k[n].volume
  BY <1>1, <1>5
<1> HIDE DEF volumes, volumesM
<1>15. VolumeConfirms(m) = VolumeConfirms(k)
  <2> DEFINE total == Total(volumes)
             volume == k[n].volume
             confirms == n > VolumePeriod /\ total # 0 /\ volume * VolumePeriod > total
  <2>1. Total(volumesM) = total /\ m[n].volume = volume
    BY <1>11, <1>14
  <2>2. VolumeConfirms(k) = confirms
    BY <1>12
  <2> HIDE DEF total, volume
  <2>3. VolumeConfirms(m) = confirms
    BY <1>13, <2>1
  <2> HIDE DEF confirms
  <2> QED
    BY <2>2, <2>3
<1> QED
  BY <1>15 DEF m, k

LEMMA DivergenceMirrors ==
    ASSUME NEW c, ChartOK(c)
    PROVE  /\ DivergesUp(Mirror(c)) <=> DivergesDown(c)
           /\ DivergesDown(Mirror(c)) <=> DivergesUp(c)
<1> DEFINE k == c.candles
           m == Mirror(c).candles
           r == c.rsi
           q == Mirror(c).rsi
           n == Len(k)
           w == LastOf(k, Lookback)
           v == LastOf(m, Lookback)
           x == LastOf(r, Lookback)
           y == LastOf(q, Lookback)
           size == IF n > Lookback THEN Lookback ELSE n
           highs == [i \in DOMAIN w |-> w[i].high]
           lows == [i \in DOMAIN w |-> w[i].low]
           highsM == [i \in DOMAIN v |-> v[i].high]
           lowsM == [i \in DOMAIN v |-> v[i].low]
<1>1. /\ n \in Nat /\ n > 0 /\ Len(m) = n
      /\ \A i \in 1..n : IsCandle(k[i]) /\ m[i] = Flipped(k[i])
      /\ (\E S : k \in Seq(S)) /\ (\E S : m \in Seq(S))
  BY MirrorTypes
<1>2. /\ (\E S : r \in Seq(S)) /\ Len(r) = n /\ (\E S : q \in Seq(S)) /\ Len(q) = n
      /\ \A i \in 1..n : r[i] \in 0..MaxRsi \cup {NoRsi}
      /\ \A i \in 1..n : q[i] = IF r[i] = NoRsi THEN NoRsi ELSE MaxRsi - r[i]
  <2>1. /\ r \in Seq(0..MaxRsi \cup {NoRsi}) /\ Len(r) = n /\ (\E S : q \in Seq(S)) /\ Len(q) = n
        /\ \A i \in 1..n : q[i] = IF r[i] = NoRsi THEN NoRsi ELSE MaxRsi - r[i]
    BY MirrorTypes
  <2> HIDE DEF r, q, n
  <2> QED
    BY <2>1
<1>3. Lookback \in Nat
  BY DetectionAssumption
<1>4. Len(k) = n
  OBVIOUS
<1>5. /\ DivergesUp(Mirror(c)) <=> Len(m) >= Lookback /\ Falls(lowsM, y)
      /\ DivergesDown(Mirror(c)) <=> Len(m) >= Lookback /\ Rises(highsM, y)
      /\ DivergesUp(c) <=> n >= Lookback /\ Falls(lows, x)
      /\ DivergesDown(c) <=> n >= Lookback /\ Rises(highs, x)
  BY Zenon DEF DivergesUp, DivergesDown, Falls, Rises
<1> HIDE DEF m, k, r, q, n
<1>6. /\ DOMAIN w = 1..size /\ Len(w) = size /\ \A i \in 1..size : w[i] = k[n - size + i]
      /\ DOMAIN v = 1..size /\ Len(v) = size /\ \A i \in 1..size : v[i] = m[n - size + i]
      /\ Len(x) = size /\ \A i \in 1..size : x[i] = r[n - size + i]
      /\ Len(y) = size /\ \A i \in 1..size : y[i] = q[n - size + i]
  <2>1. ASSUME NEW S, NEW s \in Seq(S), Len(s) = n
        PROVE  /\ DOMAIN LastOf(s, Lookback) = 1..size /\ Len(LastOf(s, Lookback)) = size
               /\ \A i \in 1..size : LastOf(s, Lookback)[i] = s[n - size + i]
    <3> DEFINE l == LastOf(s, Lookback)
    <3>1. /\ DOMAIN l = 1..Len(l)
          /\ Len(l) = IF Len(s) > Lookback THEN Lookback ELSE Len(s)
          /\ \A i \in 1..Len(l) : l[i] = s[Len(s) - Len(l) + i]
      BY <1>3, LastOfTypes
    <3> HIDE DEF l
    <3>2. Len(l) = size
      BY <2>1, <3>1
    <3> HIDE DEF size
    <3> QED
      BY <2>1, <3>1, <3>2 DEF l
  <2>2. PICK S : k \in Seq(S)
    BY <1>1
  <2>3. PICK T : m \in Seq(T)
    BY <1>1
  <2>4. PICK U : r \in Seq(U)
    BY <1>2
  <2>5. PICK V : q \in Seq(V)
    BY <1>2
  <2> HIDE DEF size
  <2> QED
    BY <1>1, <1>2, <1>4, <2>1, <2>2, <2>3, <2>4, <2>5
<1>7. size \in Nat /\ \A i \in 1..size : n - size + i \in 1..n
  BY <1>1, <1>3
<1> HIDE DEF w, v, x, y, size
<1>8. ASSUME NEW i \in 1..size
      PROVE  /\ w[i].high \in Int /\ w[i].low \in Int
             /\ v[i].low = Flip(w[i].high) /\ v[i].high = Flip(w[i].low)
             /\ x[i] \in 0..MaxRsi \cup {NoRsi}
             /\ y[i] = IF x[i] = NoRsi THEN NoRsi ELSE MaxRsi - x[i]
  <2> DEFINE j == n - size + i
  <2>1. j \in 1..n /\ w[i] = k[j] /\ v[i] = m[j] /\ x[i] = r[j] /\ y[i] = q[j]
    BY <1>6, <1>7
  <2> HIDE DEF j
  <2>2. IsCandle(w[i]) /\ v[i] = Flipped(w[i])
    BY <1>1, <2>1
  <2>3. w[i].high \in Int /\ w[i].low \in Int
    BY <2>2, DetectionAssumption DEF IsCandle, Prices
  <2>4. v[i].low = Flip(w[i].high) /\ v[i].high = Flip(w[i].low)
    BY <2>2 DEF Flipped
  <2> QED
    BY <1>2, <2>1, <2>3, <2>4
<1>9. /\ Len(highs) = size /\ Len(lows) = size /\ Len(highsM) = size /\ Len(lowsM) = size
      /\ \A i \in 1..size : /\ highs[i] = w[i].high /\ lows[i] = w[i].low
                            /\ highsM[i] = v[i].high /\ lowsM[i] = v[i].low
  BY <1>6, <1>7
<1> HIDE DEF highs, lows, highsM, lowsM
<1>10. Falls(lowsM, y) <=> Rises(highs, x)
  <2>1. \A i \in 1..size : /\ highs[i] \in Int /\ lowsM[i] = Flip(highs[i])
                           /\ x[i] \in 0..MaxRsi \cup {NoRsi}
                           /\ y[i] = IF x[i] = NoRsi THEN NoRsi ELSE MaxRsi - x[i]
    BY <1>8, <1>9
  <2> QED
    BY <1>7, <1>9, <2>1, DivergesFlips
<1>11. Rises(highsM, y) <=> Falls(lows, x)
  <2>1. \A i \in 1..size : /\ lows[i] \in Int /\ highsM[i] = Flip(lows[i])
                           /\ x[i] \in 0..MaxRsi \cup {NoRsi}
                           /\ y[i] = IF x[i] = NoRsi THEN NoRsi ELSE MaxRsi - x[i]
    BY <1>8, <1>9
  <2> QED
    BY <1>7, <1>9, <2>1, DivergesFlips
<1> QED
  BY <1>1, <1>5, <1>10, <1>11

(* resolve_confidence and the alignment of the pattern, either way up.      *)
LEMMA SignalMirrors ==
    ASSUME NEW c, ChartOK(c), ~(DivergesUp(c) /\ DivergesDown(c)),
           Confluences(Mirror(c)) = Confluences(c)
    PROVE  Signal(Mirror(c)) = Opposite(Signal(c))
<1> DEFINE m == Mirror(c)
           n == Len(c.candles)
           pattern == Pattern(c.candles)
           confidence == Confidence(c)
<1>1. /\ n \in Nat /\ n > 0 /\ Len(m.candles) = n
      /\ m.rsi[n] = IF c.rsi[n] = NoRsi THEN NoRsi ELSE MaxRsi - c.rsi[n]
      /\ c.rsi[n] \in 0..MaxRsi \cup {NoRsi}
  <2>1. /\ n \in Nat /\ n > 0 /\ Len(m.candles) = n
        /\ \A i \in 1..n : m.rsi[i] = IF c.rsi[i] = NoRsi THEN NoRsi ELSE MaxRsi - c.rsi[i]
        /\ c.rsi \in Seq(0..MaxRsi \cup {NoRsi}) /\ Len(c.rsi) = n
    BY MirrorTypes
  <2>2. n \in 1..n
    BY <2>1
  <2> HIDE DEF n, m
  <2>3. c.rsi[n] \in 0..MaxRsi \cup {NoRsi}
    BY <2>1, <2>2, ElementOfSeq
  <2>4. m.rsi[n] = IF c.rsi[n] = NoRsi THEN NoRsi ELSE MaxRsi - c.rsi[n]
    BY <2>1, <2>2, Zenon
  <2> QED
    BY <2>1, <2>3, <2>4
<1>2. m.rsi[n] = NoRsi <=> c.rsi[n] = NoRsi
  <2>1. MaxRsi \in Nat /\ NoRsi \notin 0..MaxRsi
    BY DetectionAssumption
  <2>2. c.rsi[n] \in 0..MaxRsi => MaxRsi - c.rsi[n] \in 0..MaxRsi
    BY <2>1
  <2> HIDE DEF m, n
  <2> QED
    BY <1>1, <2>1, <2>2
<1>3. Pattern(m.candles) = Opposite(pattern)
  BY PatternMirrors
<1>4. (DivergesUp(m) <=> DivergesDown(c)) /\ (DivergesDown(m) <=> DivergesUp(c))
  BY DivergenceMirrors
<1>5. /\ Divergence(m) = "none" <=> Divergence(c) = "none"
      /\ Divergence(c) # "none" => Direction(m) = Opposite(Direction(c))
                                   /\ Direction(c) \in {"buy", "sell"}
  <2>1. Divergence(c) = IF DivergesUp(c) THEN "bullish" ELSE IF DivergesDown(c) THEN "bearish" ELSE "none"
    BY DEF Divergence
  <2>2. Divergence(m) = IF DivergesDown(c) THEN "bullish" ELSE IF DivergesUp(c) THEN "bearish" ELSE "none"
    BY <1>4 DEF Divergence
  <2> HIDE DEF m
  <2> QED
    BY <2>1, <2>2 DEF Direction, Opposite
<1>6. Confidence(m) = confidence
  BY <1>5 DEF Confidence
<1>7. confidence # "none" => Divergence(c) # "none"
  BY DEF Confidence
<1>8. pattern \in {"none", "bullish_engulfing", "bearish_engulfing", "hammer", "shooting_star", "harami"}
  BY DEF Pattern
<1> DEFINE p == Pattern(m.candles)
           d == Direction(c)
           e == Direction(m)
<1>9. p = Opposite(pattern)
  BY <1>3
<1>10. Signal(c) = IF /\ n >= MinCandles /\ c.rsi[n] # NoRsi /\ confidence # "none"
                      /\ pattern # "none" => Aligned(pattern, d)
                   THEN d ELSE "none"
  BY DEF Signal
<1>11. Signal(m) = IF /\ n >= MinCandles /\ c.rsi[n] # NoRsi /\ confidence # "none"
                      /\ p # "none" => Aligned(p, e)
                   THEN e ELSE "none"
  BY <1>1, <1>2, <1>6 DEF Signal
<1>12. confidence # "none" => d \in {"buy", "sell"} /\ e = Opposite(d)
  BY <1>5, <1>7
<1> HIDE DEF p, d, e, pattern, confidence, m, n
<1>13. /\ p # "none" <=> pattern # "none"
       /\ d \in {"buy", "sell"} /\ e = Opposite(d) => (Aligned(p, e) <=> Aligned(pattern, d))
  BY <1>8, <1>9 DEF Opposite, Aligned, BullishPatterns, BearishPatterns
<1>14. Opposite("none") = "none"
  BY DEF Opposite
<1>15. Signal(m) = Opposite(Signal(c))
  <2> DEFINE yes == /\ n >= MinCandles /\ c.rsi[n] # NoRsi /\ confidence # "none"
                    /\ pattern # "none" => Aligned(pattern, d)
  <2>1. CASE yes
    BY <1>10, <1>11, <1>12, <1>13, <2>1, Zenon
  <2>2. CASE ~yes
    BY <1>10, <1>11, <1>12, <1>13, <1>14, <2>2, Zenon
  <2> QED
    BY <2>1, <2>2
<1> QED
  BY <1>15 DEF m

(* DIVAPScanner.scan holds buys and sells to the same rules: of a chart     *)
(* turned upside down detect_reversal_pattern finds the opposite pattern,   *)
(* and the scan the opposite signal, unless the chart diverges both ways    *)
(* or the Fibonacci criterion decides.                                      *)
THEOREM MirrorHolds == DetectionSpec => []MirrorImage
<1>1. DetectionInit => MirrorImage
  <2> SUFFICES ASSUME DetectionInit PROVE MirrorImage
    OBVIOUS
  <2>1. ChartOK(chart)
    BY DetectionAssumption DEF DetectionInit
  <2> QED
    BY <2>1, PatternMirrors, VolumeMirrors, SignalMirrors DEF MirrorImage
<1>2. MirrorImage /\ [UNCHANGED chart]_chart => MirrorImage'
  BY DEF MirrorImage
<1> QED
  BY <1>1, <1>2, PTL DEF DetectionSpec
-----------------------------------------------------------------------------
(***************************************************************************)
(* ContextScore.                                                           *)
(***************************************************************************)

(* A trend has one of four values, whatever the closes.                     *)
LEMMA FourTrends ==
    ASSUME NEW closes
    PROVE  TrendOf(closes) \in {"unknown", "bullish", "bearish", "sideways"}
BY DEF TrendOf, Trend

(* Sentiment and market add at most ten points to a buy, none to a sell.    *)
LEMMA SentimentIsBounded ==
    ASSUME NEW s
    PROVE  /\ FearGreedPoints(s) \in Int /\ GlobalPoints(s) \in Int
           /\ FearGreedPoints(s) <= 5 /\ GlobalPoints(s) <= 5
           /\ s.direction # "buy" => FearGreedPoints(s) <= 0 /\ GlobalPoints(s) <= 0
<1>1. CASE s.direction = "buy"
  <2>1. FearGreedPoints(s) \in {0, 5, 3, -15, -8}
    BY <1>1, Zenon DEF FearGreedPoints
  <2>2. GlobalPoints(s) \in {0, -10, 5}
    BY <1>1, Zenon DEF GlobalPoints
  <2> QED
    BY <1>1, <2>1, <2>2
<1>2. CASE s.direction # "buy"
  <2>1. FearGreedPoints(s) \in {0, -10, -5, -3}
    BY <1>2, Zenon DEF FearGreedPoints
  <2>2. GlobalPoints(s) \in {0, -10, -3}
    BY <1>2, Zenon DEF GlobalPoints
  <2> QED
    BY <2>1, <2>2
<1> QED
  BY <1>1, <1>2

(* A timeframe gives eight points with the trade, takes ten against it.     *)
LEMMA TrendPoints ==
    ASSUME NEW direction \in {"buy", "sell"}, NEW trend
    PROVE  /\ trend = With(direction) => HtfPoints(direction, trend) = 8
           /\ trend = Against(direction) => HtfPoints(direction, trend) = -10
           /\ trend \notin {With(direction), Against(direction)}
                => HtfPoints(direction, trend) = 0
           /\ With(direction) # Against(direction)
BY DEF HtfPoints, With, Against

(* A confirmed score leaves the higher timeframes no room to disagree.      *)
LEMMA ConfirmedScore ==
    ASSUME NEW s, s.direction \in {"buy", "sell"}, Verdict(s) = "confirm"
    PROVE  LET points == HtfPoints(s.direction, TrendOf(s.daily))
                           + HtfPoints(s.direction, TrendOf(s.weekly))
           IN  points >= 5 /\ (s.direction = "sell" => points >= 15)
<1> DEFINE daily == HtfPoints(s.direction, TrendOf(s.daily))
           weekly == HtfPoints(s.direction, TrendOf(s.weekly))
           news == IF s.badNews THEN -8 ELSE 0
           dollar == IF s.strongDollar /\ s.direction = "buy" THEN -5 ELSE 0
           rest == FearGreedPoints(s) + GlobalPoints(s)
           sum == 50 + FearGreedPoints(s) + GlobalPoints(s) + daily + weekly
                    + LowFramePoints(s) + news + dollar
<1>1. daily \in Int /\ weekly \in Int
  BY DEF HtfPoints
<1>2. LowFramePoints(s) \in Int /\ LowFramePoints(s) <= 0
  BY DEF LowFramePoints
<1>3. news \in Int /\ news <= 0 /\ dollar \in Int /\ dollar <= 0
  OBVIOUS
<1>4. Score(s) >= 65
  BY DEF Verdict
<1>5. sum >= 65
  <2>1. Score(s) = Clamp(sum)
    BY Zenon DEF Score
  <2>2. sum \in Int
    BY <1>1, <1>2, <1>3, SentimentIsBounded
  <2> HIDE DEF sum
  <2> QED
    BY <1>4, <2>1, <2>2 DEF Clamp
<1> QED
  <2> HIDE DEF daily, weekly, news, dollar
  <2>1. daily + weekly >= 5 /\ (s.direction = "sell" => daily + weekly >= 15)
    BY <1>1, <1>2, <1>3, <1>5, SentimentIsBounded
  <2> QED
    BY <2>1 DEF daily, weekly

(* A signal that assess_market_context confirms goes with a higher          *)
(* timeframe and against none, a sell with both: what a protected month     *)
(* admits is never a trade against the trend.                               *)
THEOREM ConfirmedGoesWithTrend == ContextSpec => []ConfirmGoesWithTrend
<1>1. ContextInit => ConfirmGoesWithTrend
  <2> SUFFICES ASSUME ContextInit, Verdict(situation) = "confirm"
               PROVE  LET trends == {TrendOf(situation.daily), TrendOf(situation.weekly)}
                          with == With(situation.direction)
                      IN  /\ with \in trends /\ Against(situation.direction) \notin trends
                          /\ situation.direction = "sell" => trends = {with}
    BY DEF ConfirmGoesWithTrend
  <2> DEFINE d == situation.direction
             daily == TrendOf(situation.daily)
             weekly == TrendOf(situation.weekly)
  <2>1. d \in {"buy", "sell"}
    BY DEF ContextInit, Situations
  <2>2. /\ HtfPoints(d, daily) + HtfPoints(d, weekly) >= 5
        /\ d = "sell" => HtfPoints(d, daily) + HtfPoints(d, weekly) >= 15
    BY <2>1, ConfirmedScore
  <2> HIDE DEF d, daily, weekly
  <2>3. \A trend : /\ trend = With(d) => HtfPoints(d, trend) = 8
                   /\ trend = Against(d) => HtfPoints(d, trend) = -10
                   /\ trend \notin {With(d), Against(d)} => HtfPoints(d, trend) = 0
    BY <2>1, TrendPoints
  <2>4. With(d) # Against(d)
    BY <2>1, TrendPoints
  <2>5. CASE daily = With(d)
    BY <2>2, <2>3, <2>4, <2>5 DEF d, daily, weekly
  <2>6. CASE daily = Against(d)
    <3>1. HtfPoints(d, weekly) \in {8, -10, 0} /\ HtfPoints(d, daily) = -10
      BY <2>3, <2>6
    <3> QED
      BY <2>2, <3>1
  <2>7. CASE daily \notin {With(d), Against(d)}
    BY <2>2, <2>3, <2>4, <2>7 DEF d, daily, weekly
  <2> QED
    BY <2>5, <2>6, <2>7
<1>2. ConfirmGoesWithTrend /\ [UNCHANGED situation]_situation => ConfirmGoesWithTrend'
  BY DEF ConfirmGoesWithTrend
<1> QED
  BY <1>1, <1>2, PTL DEF ContextSpec
=============================================================================
