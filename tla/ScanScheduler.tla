--------------------------- MODULE ScanScheduler ---------------------------
(***************************************************************************)
(* The periodic scan for DIVAP setups and the throttle of scan and monitor. *)
(*                                                                         *)
(* alerts/scheduler.py, core/scan_plan.py, core/scan_state.py,             *)
(* core/monitor_state.py, core/beat_state.py, execution/tasks.py, the beat *)
(* of core/celery_app.py, and the alerts of repositories/alert_repo.py.    *)
(* A tick is a beat.  Ages stop counting where nothing tells them apart.   *)
(* What a scan detects is left open; TradeEntry models the attempt to      *)
(* trade and PositionMonitor what a monitor run does.                      *)
(***************************************************************************)
EXTENDS Integers, Sequences, FiniteSets, FiniteSetsExt, SequencesExt

CONSTANTS
    Workers,       \* processes of the celery queue
    Callers,       \* requests of the panel for a manual scan
    Profiles, Fallback, \* profile ids; the one of load_profile("divap")
    Enabled,       \* profiles with scan.enabled
    Unscanned,     \* profiles of kind otc or tasso
    ActiveChoices, \* values of active_profile_ids: sequences of ids
    PairsOf,       \* the symbol and timeframe pairs of a profile, in order
    Directions,
    ScanEvery, MonitorEvery, \* interval_seconds and monitor_interval_seconds, in ticks
    RecentHours,   \* within_hours of has_recent_alert, in ticks
    RaisingChoices, \* which profiles' scans may raise at any time: sets of ids
    MaxScanFaults, \* bound: other tasks that end in an exception or with their worker
    Never          \* of a run that was not recorded yet

Scanners == Workers \cup Callers

Setups == UNION {{<<PairsOf[p][i], d>> : i \in DOMAIN PairsOf[p], d \in Directions} :
                    p \in Profiles}

ASSUME ScanAssumption ==
    /\ IsFiniteSet(Scanners) /\ Workers \cap Callers = {}
    /\ IsFiniteSet(Profiles) /\ IsFiniteSet(Directions)
    /\ Fallback \in Profiles \ Unscanned
    /\ Enabled \subseteq Profiles /\ Unscanned \subseteq Profiles
    /\ ActiveChoices \subseteq Seq(Profiles) \ {<<>>}
    /\ ScanEvery \in [Profiles -> Nat] /\ MonitorEvery \in [Profiles -> Nat]
    /\ RecentHours \in Nat \ {0} /\ Never \notin Nat
    /\ RaisingChoices \subseteq SUBSET Profiles
    /\ MaxScanFaults \in Nat

VARIABLES
    active,      \* active_profile_ids of the settings
    raising,     \* profiles with a rule or a source that raises, today and tomorrow
    tasks,       \* the celery queue: "scan" and "monitor", each at most once
    worker,      \* what each scan does, with the plans and pairs still ahead of it
    alerts,      \* ages of the alerts of each setup that has_recent_alert still sees
    lastScan,    \* divap:last_scan_at:<profile>, as an age
    lastAny,     \* divap:last_scan_at
    lastMonitor, \* divap:last_monitor_at:<profile>
    scanFaults

scanVars ==
    <<active, raising, tasks, worker, alerts, lastScan, lastAny, lastMonitor, scanFaults>>

(* The longest interval: from there on the age of a run counts no further.  *)
Longest == Max({ScanEvery[p] : p \in Profiles})

Resting == [at |-> "idle", plans |-> <<>>, pairs |-> <<>>, setup |-> <<>>]

ScanTypeOK ==
    /\ active \in ActiveChoices /\ raising \in RaisingChoices
    /\ tasks \in Seq({"scan", "monitor"})
    /\ worker \in [Scanners ->
          [at : {"idle", "plan", "pair", "check", "save", "monitor"},
           plans : Seq(Profiles), pairs : Seq({s[1] : s \in Setups}),
           setup : Setups \cup {<<>>}]]
    /\ alerts \in [Setups -> Seq(0..(RecentHours - 1))]
    /\ \A p \in Profiles : /\ lastScan[p] \in 0..ScanEvery[p] \cup {Never}
                           /\ lastMonitor[p] \in 0..MonitorEvery[p] \cup {Never}
    /\ lastAny \in 0..Longest \cup {Never}
    /\ scanFaults \in 0..MaxScanFaults

ScanInit ==
    /\ active \in ActiveChoices /\ raising \in RaisingChoices
    /\ tasks = <<>>
    /\ worker = [w \in Scanners |-> Resting]
    /\ alerts = [s \in Setups |-> <<>>]
    /\ lastScan = [p \in Profiles |-> Never] /\ lastAny = Never
    /\ lastMonitor = [p \in Profiles |-> Never]
    /\ scanFaults = 0

-----------------------------------------------------------------------------
Scannable(p) == p \in Enabled /\ p \notin Unscanned

(* get_active_scan_plan: the first profile, or the fallback.                *)
PrimaryPlan(ids) == IF Scannable(ids[1]) THEN ids[1] ELSE Fallback

(* get_active_scan_plans: the scannable profiles, each once, in the order   *)
(* of the settings; never none.                                             *)
ScannableOf(ids) ==
    LET plans[n \in 0..Len(ids)] ==
            IF n = 0 THEN <<>>
            ELSE IF Scannable(ids[n]) /\ ids[n] \notin ToSet(plans[n - 1])
                 THEN Append(plans[n - 1], ids[n])
                 ELSE plans[n - 1]
    IN  plans

ActivePlans(ids) ==
    LET plans == ScannableOf(ids)[Len(ids)]
    IN  IF plans = <<>> THEN <<PrimaryPlan(ids)>> ELSE plans

(* Mutant of ShouldRun: a profile that was never recorded waits.            *)
ShouldRunRecorded(interval, age) == age # Never /\ age >= interval

(* should_run_interval.                                                     *)
ShouldRun(interval, age) == age = Never \/ age >= interval

Older(age, limit) == IF age = Never \/ age = limit THEN age ELSE age + 1

(* An alert as old as the window is long is seen no more.  The oldest come   *)
(* first.                                                                    *)
Aged(ages) ==
    LET gone == {i \in DOMAIN ages : ages[i] + 1 >= RecentHours}
    IN  SubSeq([i \in DOMAIN ages |-> ages[i] + 1], Cardinality(gone) + 1, Len(ages))

(* The beat: one scan, one monitor run, while everything ages.  A second    *)
(* message of a kind that still waits adds nothing but another throttled    *)
(* run.                                                                     *)
Beat ==
    /\ tasks' = tasks \o SelectSeq(<<"scan", "monitor">>, LAMBDA t : t \notin ToSet(tasks))
    /\ alerts' = [s \in Setups |-> Aged(alerts[s])]
    /\ lastScan' = [p \in Profiles |-> Older(lastScan[p], ScanEvery[p])]
    /\ lastAny' = Older(lastAny, Longest)
    /\ lastMonitor' = [p \in Profiles |-> Older(lastMonitor[p], MonitorEvery[p])]
    /\ UNCHANGED <<active, raising, worker, scanFaults>>

(* The panel saves other active profiles.                                   *)
SaveActive ==
    /\ active' \in ActiveChoices \ {active}
    /\ UNCHANGED <<raising, tasks, worker, alerts, lastScan, lastAny, lastMonitor, scanFaults>>

-----------------------------------------------------------------------------
Set(w, value) == worker' = [worker EXCEPT ![w] = value]
At(w, place) == Set(w, [worker[w] EXCEPT !.at = place])

TakeTask(w) ==
    /\ worker[w].at = "idle" /\ tasks # <<>>
    /\ tasks' = Tail(tasks)
    /\ \/ /\ Head(tasks) = "scan"
          /\ Set(w, [Resting EXCEPT !.at = "plan", !.plans = ActivePlans(active)])
       \/ /\ Head(tasks) = "monitor"
          /\ LET p == PrimaryPlan(active)
             IN  IF ShouldRun(MonitorEvery[p], lastMonitor[p])
                 THEN Set(w, [Resting EXCEPT !.at = "monitor", !.plans = <<p>>])
                 ELSE UNCHANGED worker
    /\ UNCHANGED <<active, raising, alerts, lastScan, lastAny, lastMonitor, scanFaults>>

(* run_profile_scan: a person starts a scan of every profile, due or not.   *)
ManualScan(w) ==
    /\ worker[w].at = "idle"
    /\ Set(w, [Resting EXCEPT !.at = "plan", !.plans = ActivePlans(active)])
    /\ UNCHANGED <<active, raising, tasks, alerts, lastScan, lastAny, lastMonitor, scanFaults>>

(* The loop of scan_all_symbols: a profile whose interval has not elapsed   *)
(* is skipped.                                                              *)
LookAtPlan(w) ==
    /\ worker[w].at = "plan"
    /\ LET plans == worker[w].plans
       IN  IF plans = <<>>
           THEN Set(w, Resting)
           ELSE IF w \in Callers \/ ShouldRun(ScanEvery[plans[1]], lastScan[plans[1]])
                THEN Set(w, [worker[w] EXCEPT !.at = "pair", !.pairs = PairsOf[plans[1]]])
                ELSE Set(w, [worker[w] EXCEPT !.plans = Tail(plans)])
    /\ UNCHANGED <<active, raising, tasks, alerts, lastScan, lastAny, lastMonitor, scanFaults>>

NextPair(w) == [worker[w] EXCEPT !.at = "pair", !.pairs = Tail(@), !.setup = <<>>]

(* run_divap_scan up to the detection; an ExchangeError skips the pair.     *)
ScanPair(w) ==
    /\ worker[w].at = "pair" /\ worker[w].pairs # <<>>
    /\ \/ Set(w, NextPair(w))
       \/ \E d \in Directions :
            Set(w, [worker[w] EXCEPT !.at = "check", !.setup = <<worker[w].pairs[1], d>>])
    /\ UNCHANGED <<active, raising, tasks, alerts, lastScan, lastAny, lastMonitor, scanFaults>>

(* Mutant of Recent: an alert is no longer seen from the last tick on.      *)
RecentButLastTick(s) == \E i \in DOMAIN alerts[s] : alerts[s][i] < RecentHours - 1

(* find_recent_alert_id finds one.                                          *)
Recent(s) == alerts[s] # <<>>

(* With a recent alert its id is read by a second query, which may find the *)
(* alert too old by now.  Whatever follows for a setup (try_execute, the    *)
(* gate alone where trading is disabled, the Telegram message and the push) *)
(* leaves the state of the scan alone, or ends it as TaskFails does.        *)
CheckRecent(w) ==
    /\ worker[w].at = "check"
    /\ IF Recent(worker[w].setup) THEN Set(w, NextPair(w)) ELSE At(w, "save")
    /\ UNCHANGED <<active, raising, tasks, alerts, lastScan, lastAny, lastMonitor, scanFaults>>

(* save_signal, the analysis and save_analysis.                             *)
SaveSignal(w) ==
    /\ worker[w].at = "save"
    /\ alerts' = [alerts EXCEPT ![worker[w].setup] = Append(@, 0)]
    /\ Set(w, NextPair(w))
    /\ UNCHANGED <<active, raising, tasks, lastScan, lastAny, lastMonitor, scanFaults>>

(* record_scan, and the next plan.                                          *)
RecordScan(w) ==
    /\ worker[w].at = "pair" /\ worker[w].pairs = <<>>
    /\ lastScan' = [lastScan EXCEPT ![worker[w].plans[1]] = 0]
    /\ lastAny' = 0
    /\ Set(w, [worker[w] EXCEPT !.at = "plan", !.plans = Tail(@)])
    /\ UNCHANGED <<active, raising, tasks, alerts, lastMonitor, scanFaults>>

(* monitor_open_trades: the run and record_monitor.                         *)
Monitor(w) ==
    /\ worker[w].at = "monitor"
    /\ lastMonitor' = [lastMonitor EXCEPT ![worker[w].plans[1]] = 0]
    /\ Set(w, Resting)
    /\ UNCHANGED <<active, raising, tasks, alerts, lastScan, lastAny, scanFaults>>

(* An exception that nothing catches ends the task, the plans and pairs     *)
(* still ahead with it: of a repository, of the candles in try_execute, of  *)
(* the Telegram message.  So does the death of the worker.  The profile is  *)
(* not recorded: one that raises because of a rule of its own is due again  *)
(* at the next beat, and may raise again, as often as it is scanned.        *)
TaskFails(w) ==
    /\ worker[w].at # "idle"
    /\ \/ scanFaults < MaxScanFaults /\ scanFaults' = scanFaults + 1
       \/ /\ worker[w].at \in {"pair", "check", "save"} /\ worker[w].plans[1] \in raising
          /\ UNCHANGED scanFaults
    /\ Set(w, Resting)
    /\ UNCHANGED <<active, raising, tasks, alerts, lastScan, lastAny, lastMonitor>>

ScanMoves(w) ==
    \/ LookAtPlan(w) \/ ScanPair(w) \/ CheckRecent(w) \/ SaveSignal(w)
    \/ RecordScan(w) \/ Monitor(w)

ScanNext ==
    \/ Beat
    \/ SaveActive
    \/ \E w \in Workers : TakeTask(w)
    \/ \E w \in Callers : ManualScan(w)
    \/ \E w \in Scanners : ScanMoves(w) \/ TaskFails(w)

ScanSpec == ScanInit /\ [][ScanNext]_scanVars

(* The beat runs on, and every worker goes on with its task.                *)
ScanFairSpec ==
    /\ ScanSpec
    /\ WF_scanVars(Beat)
    /\ \A w \in Workers : WF_scanVars(TakeTask(w) \/ ScanMoves(w))

-----------------------------------------------------------------------------
(* Mutant of LatestScan: the oldest scan of an active profile.              *)
OldestScan ==
    LET ages == {lastScan[p] : p \in ToSet(ActivePlans(active))} \ {Never}
    IN  IF ages = {} THEN lastAny ELSE Max(ages)

(* get_scan_status: the countdown of the panel, from the latest scan of any *)
(* active profile and the shortest interval.                                *)
LatestScan ==
    LET ages == {lastScan[p] : p \in ToSet(ActivePlans(active))} \ {Never}
    IN  IF ages = {} THEN lastAny ELSE Min(ages)

CountdownOver ==
    /\ LatestScan # Never
    /\ LatestScan >= Min({ScanEvery[p] : p \in ToSet(ActivePlans(active))})

-----------------------------------------------------------------------------
Saving(s) == {w \in Scanners : worker[w].at = "save" /\ worker[w].setup = s}

(* Looking for an alert and saving it are two statements: of one setup no   *)
(* more alerts are alive, or about to be, than there are scans to race.     *)
AlertsPerWindow ==
    \A s \in Setups : Len(alerts[s]) + Cardinality(Saving(s)) <= Cardinality(Scanners)

(* When the panel's countdown is over a scan is due: the next beat does not *)
(* skip every active profile, whatever their intervals and however often    *)
(* the settings changed.                                                    *)
CountdownKept ==
    CountdownOver => \E p \in ToSet(ActivePlans(active)) : ShouldRun(ScanEvery[p], lastScan[p])

(* p is on the plan, and neither it nor a profile before it raises.         *)
Reached(p) ==
    LET plans == ActivePlans(active)
    IN  \E i \in DOMAIN plans : plans[i] = p /\ \A j \in 1..i : plans[j] \notin raising

(* A profile is scanned again and again as long as it stays active with no  *)
(* raising one before it: the first profiles' own intervals, exceptions that *)
(* pass, dead workers, skipped runs, manual scans and whatever raises behind *)
(* it only delay it.  Behind one that raises every time nothing is promised. *)
ProfilesScannedAgain ==
    \A p \in Profiles : []<>(lastScan[p] = 0 \/ ~Reached(p))
=============================================================================
