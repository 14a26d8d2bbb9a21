# DIVAP Trader in TLA+

TLA+ modules, TLC configurations and TLAPS proofs about this repository: a
Python system that scans crypto charts for DIVAP setups, trades them on Binance
spot, follows the "Tasso" and "Invezt" Telegram channels, and executes the
signals of an OTC room as binary options on IQ Option. The reference is the
code under `src/` (paths below are relative to `src/src/`); a comment above each
definition names the code it stands for, and `PROJECT.json` maps it to lines.

Contents: 1. the system; 2. the modules; 3. the runs; 4. the proofs;
5. what the checks found; 6. limits of the models; 7. plan.

## 1. The system

Processes: the FastAPI application, Celery workers for the default queue, a
Celery worker with four processes for the queue `otc`, Celery beat, and two
Telegram listeners. They share PostgreSQL (tables `trades`, `alerts`,
`otc_settings`, `otc_daily_session`, `bankroll_settings`, ...) and Redis (broker
of Celery, deduplication keys, throttling of the periodic tasks). Every
repository method is a transaction of its own; nothing locks a row across two of
them, and Celery acknowledges a task when it starts it.

| component | state it keeps | operations | what is hard | what makes it correct |
|---|---|---|---|---|
| OTC dispatch and executor (`otc/signal_dispatch.py`, `tasks.py`, `executor.py`) | the current leg of each sequence in a process's memory; rows of `trades` | dispatch, queue or run, check stop, check cap, wait, order, settle, record, go on or stop | four processes check limits that the others are about to break; orders whose answer is lost; two transactions per result; death of a worker | the martingale ladder is respected, no order is forgotten, the caps are overrun only by what was in flight, every queued signal ends |
| OTC risk rules (`martingale.py`, `guard.py`) | none | stake of a level, daily stop decision | signs, zero and absent limits, rounding | the stop stops at its limit |
| OTC schedule (`schedule.py`) | none but a leg's target while it sleeps | resolve, window, wait | each check reads the clock again; midnight | a leg is let through at its time of day or not at all |
| OTC daily session (`daily_session.py`, `stake.py`) | one row per day | lazy creation, midnight creation | creation races, settings and date read separately, failures | one session per day, told to everybody |
| OTC broker (`broker.py`, `mcp_client.py`, `iqoption_client.py`) | known position ids, the MCP session | open, poll, wait for a settlement | orders accepted without an id, results matched by asset and amount, two deadlines, a session the server forgets | a result belongs to its order and is taken when it is in sight; the wait ends |
| OTC stop alert (`stop_alert.py`) | Redis key per day and reason | claim, send | claimed before it is sent; the day changes | at most one alert per day and reason |
| OTC intake (`telegram_*.py`, `heartbeat.py`, `signal_parser.py`) | Redis key per message, the bot's offset | receive, deduplicate, parse, dispatch, save the offset | an update delivered again after a death or an unsaved offset, by either listener; death after the key is set; batches | a message is executed once, and only the fault's own update is lost |
| OTC simulation, reports (`simulation.py`, `periods.py`, `service.py`) | none | group the rows into ladders, replay them with other stakes | rows carry a level, no ladder; levels and outcomes it does not know | agrees with the ladder the executor played, and with its result, where it knows the outcome |
| Trade executor (`execution/trade_executor.py`, `gate.py`, `risk_*.py`) | rows of `trades`, exchange orders | gate, caps, order, protective orders, row | check-then-act over several seconds; failure between order and row | one open trade per setup, no order without a row |
| Position monitor (`execution/position_monitor.py`, `tasks.py`, `profiles/exit_policy.py`) | rows, exchange orders | time stop, partial exits, breakeven, close | overlapping runs on snapshots, stop orders that fill meanwhile | levels in order and one part each, the PnL of the whole, closed only when sold, and in the end closed; that it sells no more than it holds is refuted (`spot_parts`) |
| Tasso channel (`tasso/`) | rows, the chat's conversation | answer a teaser by pressing its buttons, open, update the stop, close | handler and conversation read the same messages; whatever the bot says next is taken for the answer; concurrent with the monitor on the same row | the details of a trade open it once; on the row, same as the monitor |
| Bankroll and profiles (`bankroll/`, `profiles/`) | `bankroll_settings` | goal, protected mode | month change, rules read before they are applied | a met goal lets nothing new in but what is of high confidence |
| Scan and alerts (`alerts/`, `core/`) | Redis throttles per profile, `alerts` | periodic and manual scan, monitor throttle, alerts, countdown | overlapping scans, several profiles with intervals of their own, a failing one before others | no more alerts of a setup than scans that race, an active profile is scanned again unless one before it raises every time, the countdown is true |
| Detection (`detection/`, `indicators/`) | none | divergence, volume, Fibonacci zone, pattern, confidence | every rule is written twice, for buys and for sells; divisions by a level | both sides are held to the same rules |
| Context (`context/`, `profiles/contrarian.py`) | none | score and verdict from sources that may fail, contrarian rule | eight terms with thresholds of their own | a confirmed signal goes with the trend |
| Invezt (`invezt/`), LLM analysis, API, dashboard | display data | read, show | none that outlives a request | |

Interactions: a Telegram listener or the API hands a signal to the OTC dispatch,
which evaluates the daily stop and either queues the execution or performs it; the
executor asks the guard for the stop, the repository for the open rows, the
schedule for the moment, the daily session for the base stake, the broker for the
order and its result, and writes the rows that the guard of every later sequence
will read. On the spot side the scan creates alerts and calls the trade executor;
the monitor and the Tasso handlers then work on the same rows and orders.

`PROJECT.json` lists these components one by one with their state of modelling, and
the hazards of the code at the lines where they bite.

## 2. The modules

**`OtcRisk`** holds the arithmetic of `martingale.py` and `guard.py` as operators:
`StakeForLevel`, `MaxAutoProtections`, `IsLoss`, `IsWin`, `DecideStop`. Amounts are
integers (cents), roundings are `Decimal.quantize`'s half-even.

**`OtcExecution`** is the core: from dispatch to the end of a sequence.

| variable | in the code |
|---|---|
| `day` | the local date used by `otc_period_totals` |
| `pc[s]` | where the handling of signal `s` stands: unseen, queued in Celery, or a line of `try_execute` |
| `level`, `stake`, `result` | locals of `try_execute` and `_execute_leg_timed` |
| `row` | the OTC rows of `trades`: none, open, or closed and then booked with a PnL and its day |
| `orders` | the binaries accepted by IQ Option |
| `alerted` | the Redis keys `otc:stop:alert:<day>:<reason>` |
| `ghosts`, `blind` | history: orders whose acceptance was never learned; days on which a stop check failed open |

`Dispatch` is `dispatch_otc_signal` (stop, window, then queue or run), `StartTask`
`execute_otc_signal`, `CheckStop` and `CheckCap` the two checks of `try_execute`,
`WaitLeg`, `OpenLeg` and `Settle` one leg, `CreateRow` and `CloseRow` the two
transactions of `_persist_trade` with the decision of the loop, `NotifyStop` the
evaluation after the loop. `Fail` is the death of the process, or an exception that
no handler catches, at any of these points. Each reading of shared state is a step
of its own; the evaluation of a stop, one reading of the totals followed by the
claim of the alert key, is one step. The three answers of `open_binary` (filled,
"not executed", exception) are independent of whether the order was accepted,
except that a fill is an acceptance. A settlement may be any result of that stake:
the broker's matching by asset and amount does not guarantee more.

**`OtcLadder`** is the abstract specification of a martingale sequence: first leg
free, protection only after a loss booked one level below, no level twice, booked
outcomes final. `OtcExecution` implements it with `placed <- orders` and `booked`
computed from the rows.

**`OtcSchedule`** follows one signal through the window checks of dispatch and
worker and through `wait_for_leg`. The clock `now` may move by any amount between two steps;
`target` is the one local variable that outlives a step. `LegMinute`, `OnDate`,
`WindowMissed` are `resolve_leg_datetime` and `leg_window_missed`; `Resolve`,
`CheckWindow` and `Awake` are the readings of the clock in `wait_for_leg`. A signal has a
start level: dispatch and task ask about leg 0's window whatever it is, the loop begins at it.
`released` records when `wait_for_leg` let a leg through; the order (`SendOrder`) is a later
step, since the session, perhaps a balance request, and the broker's calls come before it
(`executor.py:171-205`) and nothing bounds what they take.

**`OtcStake`** computes a day's session from a reference balance and the settings.
**`OtcDailySession`** is its creation: a caller (an executor's leg, or the beat's
midnight task) reads settings, date, session, balance, then inserts with
`ON CONFLICT DO NOTHING` and reads back; `Raise` is an exception at any step, with
the executor's fallback to the YAML. `SaveSettings`, `Trade` and `Midnight` are the
world. **`OtcFrozenSession`** is what it promises: a day's session is chosen once
and every answer is that one.

**`PositionMonitor`** is one spot trade after its entry.

| variable | in the code |
|---|---|
| `plan` | what of the trade does not change: direction, number of take-profit levels, the profile's breakeven level and time stop, whether a Tasso profile owns it |
| `row` | its row of `trades`; `booked`, `realized` count PnL in units of quantity |
| `orders` | the stop and target orders placed for it at Binance |
| `price` | the market, on the trade's scale: first stop -1, entry 0, k-th level k |
| `pc[h]`, `mine[h]` | a monitor run or the Tasso listener: the step it stands at, its copy of the row and what it is about to write |
| `sold`, `faults` | history: what left the position at the exchange; failed calls and deaths |

`Watch` is a run of `sync_open_positions` coming to this trade with the copy
`list_open_trades` gave it (and the time stop's verdict); `CheckTp`, `CheckStop` are
`_order_closed`, `LookAtPrice` the comparisons after it, `SellPart` and `Record`
`_execute_partial_take_profit`, `SellAll` and `Close` `_market_close` with
`close_trade`, `Cancel`, `Place` and `Restop` the three steps of
`_move_stop_to_breakeven` and of `TassoTradeUpdater._update_stop`; `ReceiveUpdate`,
`ReceiveStopHit` and `Clear` the listener. One step per SQL statement or exchange call.
The broker swallows errors of cancelling and placing, so these may silently have no
effect, or an effect nobody learns of; `Fail` is any other exception or death.
Market orders of a sell's exit are by value and miss their quantity by up to `Slip`.
The account may hold more of the coin than this trade (other trades of the same
symbol do), so an order that sells too much is executed.

**`ScaleOut`** is what the monitor promises of a position: levels in order, one equal
part each, the stop to the entry price after its level, closed once with the PnL of
the whole. `PositionMonitor` implements it with what a closed row says of levels and
stop hidden, because a slower handler may still write those.

**`TradeEntry`** is how spot trades are opened, by any number of callers at once: the
scans in Celery workers, the panel's button, the listener of the Tasso channel.

| variable | in the code |
|---|---|
| `positions` | what a market order bought or sold and nobody closed yet: its signal, whether it has a row (`recorded`), the protective orders resting for it and those its row names |
| `goal` | `bankroll_settings.goal_reached_at` is not null |
| `pc[w]`, `mine[w]` | where worker `w` stands in `try_execute`; its signal, the rules it read, its position, the order numbers it learned |
| `late`, `faults` | history: entries that were not premium since the goal was marked; lost answers and deaths |

`Begin` is the start of `try_execute` with `get_execution_profile_for` and the gate
(`GateOpen`, `Allowed`); `CheckGlobal`, `CheckProfile` and `CheckDuplicate` are its three
counts, each a statement of its own; `Order` the market order of `_execute_buy` or
`_execute_sell`; `PlaceStop` and `PlaceTarget` the protective orders, whose errors the
broker turns into `None`; `CreateTrade` the row, written last. `Fail` is an exception
that `try_execute` does not catch, or a death. `MarkGoal` is the panel's payload,
`NewMonth` the reset by the first reading of a month. `CloseTrade` stands for
`PositionMonitor`, which takes over a recorded trade.

**`OtcSettlement`** is what `OtcExecution` takes for granted: how a binary is opened and
its result learned, by any number of legs on an account with other binaries.

| variable | in the code |
|---|---|
| `step[l]` | where leg `l` stands in `open_binary` and `wait_settlement` |
| `ticket[l]` | `OtcSettlementContext`: whether the order id is known, the position id, the hard deadline |
| `learned[l]` | `_mcp_open_position_ids`: the position id an open position revealed |
| `result[l]`, `answer[l]` | what a poll found, what `wait_settlement` returned; a profit is represented by the binary it belongs to |
| `market`, `expires`, `history` | the exchange: accepted, listed, decided and reported binaries, each as late as it likes |
| `session[l]` | the `mcp-session-id` of the process, live or forgotten by the server |

`Prepare` is balance and asset, `PlaceTrade` the choice of the window (`PickWindow`) and
the order, which may be accepted though its answer is an error, `ResolvePosition`
`_resolve_mcp_position_id`, `Buy` the legacy client; `PollPositions`, `PollHistory` and
`PollLegacy` one poll, with `Matched` the row that is taken; `LookAtClock` and
`WakeForNext` the deadlines of the loop. `CallSucceeds` and `CallFails` are `_post` with
the session it keeps for ever; `ExchangeError` and exceptions of the HTTP library are
told apart, because the former are caught and the latter end the task.

**`OtcIntake`** follows the updates of the signal room from Telegram to
`dispatch_otc_signal`.

| variable | in the code |
|---|---|
| `posted`, `confirmed` | Telegram: the numbered updates, posts and edits, and those a poll's offset made it forget |
| `savedOffset`, `keyUntil` | Redis: `otc:telegram:offset`, the expiry of `otc:telegram:msg:<chat>:<message>` |
| `listener` | the process: bot or user mode, where it stands, its offset, the updates in hand |
| `dispatched` | history: the signals handed to the dispatch, as `ParseSignal` reads them |

`FetchUpdates`, `ClaimMessage` (with `ChatMatches`, `IsSignal` and the key),
`DispatchMessage` and `SaveOffset` are the loop, `ListenerDies` and `ListenerStarts` the
process with the mode of the moment, each exception a branch of the step it hits. A user
session hears new messages as long as it is connected and nothing of what it missed; a
bot is given everything the server still keeps. `Retention` is Telegram's, a day.

**`ScanScheduler`** is the beat, the workers that take scans and monitor runs from the
queue, and a person who starts a scan: `ActivePlans` and `ShouldRun` decide what is
scanned, `CheckRecent` and `SaveSignal` are the two statements between which another
scan can come, `RecordScan` writes the throttle, `TaskFails` is an exception that nothing
catches. Ages replace times of day. What follows for a signal that was saved (trade,
message, push) leaves this state alone or fails the task.

**`TassoListener`** is the handler of the bot's messages and the conversation it opens
for a teaser: `Classify` and its patterns (`TextOf` says which patterns a text contains),
`Receive` the handler, `PressDetails`, `ReadAnswer` and `ReadDetail` the conversation, each
of which may raise (`FlowFails`), `Pressed` the button `click_inline_button` presses, `TassoSignal` who is
handed the outcome. The bot answers buttons, posts updates and stops, and may be asked by
hand; the session may end at any moment.

**`OtcSimulation`**, **`DivapDetection`** and **`ContextScore`** are functions of an input
that is chosen initially: the closed legs of two ladders, with the stakes of the report;
a chart with its RSI; what was collected about the market. `OtcSimulation` recovers
ladders from rows (`GroupCycles`) and replays them; its inputs are rows that ladders can
leave: a signal may name the protection a ladder starts at and the last one it may reach, beyond
the report's second (`Listed` is what of it the report reads), and another sequence may end in
between. `Tidy` is a history of ladders that start at their entries and do not overlap.
`DivapDetection` is `DIVAPScanner.scan` with the pivots, the five patterns, the volume rule and the extension levels; `Mirror` turns a chart upside down.
`ContextScore` is the trend of the higher timeframes, the score and the verdict.

`MCOtcExecution`, `MCOtcSchedule`, `MCOtcDailySession`, `MCOtcSimulation`, `MCPositionMonitor`
and `MCTradeEntry` give the constants their values for TLC. `MCOtcDay` puts the schedule and the
session side by side and `MCDesk` does so with the seven modules of the paragraphs above: they
share no state, so a variable `part` chooses which of them moves while the others rest.
A module named `..._proofs` holds the theorems of the module it is named after; `Scanner_proofs` those of `ScanScheduler`,
`DivapDetection` and `ContextScore`, `TelegramIntake_proofs` those of `OtcIntake` and
`TassoListener`, `OtcResults_proofs` those of `OtcSettlement` and `OtcSimulation`.

## 3. The runs

| run | module | what it checks | bounds |
|---|---|---|---|
| `otc_ladder` | `OtcExecution` | types, `ProtectionOnlyAfterLoss`, `OrdersAccounted`, the refinement of `OtcLadder`, `QueuedConcludes` | two signals, one queued that starts at protection 1 of 2, one run by its caller with one protection; two processes; two days |
| `otc_limits` | `OtcExecution` | `OpenRowsBounded`, `DayLossBounded` | three equal signals on two processes, cap of one open row, one day, stop loss of one stake of the YAML |
| `otc_pause` | `OtcExecution` | finds the pause of a stop lifted on the same day | as `otc_ladder` |
| `otc_day`, schedule | `OtcSchedule` | `ReleasedAtItsTimeOfDay`, `MissedOnlyIfLate`, `WaitEnds` | a day of four minutes of two seconds of two ticks, two and a half days, eleven signals that start at any of three levels, arriving at any tick of the first day |
| `otc_day`, session | `OtcDailySession` | `EntryFromASession`, the refinement of `OtcFrozenSession` | one executor and the midnight task, two days, two balances, two settings |
| `otc_midnight` | `OtcSchedule` | finds a leg past its time that is not rejected | an entry in the last minute of the day |
| `otc_entry` | `OtcDailySession` | finds two entries on one day | as the session of `otc_day` |
| `otc_report` | `OtcSimulation` | finds a ladder whose replay with the stakes that were played has another result | as the simulation of `desk` |
| `spot_exits` | `PositionMonitor` | types, `BookedWhole`, `ClosedMeansSold`, the refinement of `ScaleOut`, `ExitsWhenDecided` | six kinds of trade (a level or three, buys and sells, with and without the channel), four units of quantity, one monitor, the listener with two announced stops, one fault |
| `spot_race` | `PositionMonitor` | `BookedWhole`, `NamedStopIsLive` | two monitor runs and the listener, three kinds of trade, no fault; monitors are symmetric and `sold`, which nothing reads, is hidden from the state by a VIEW |
| `spot_parts` | `PositionMonitor` | finds more sold than was held | three levels, one monitor, no fault |
| `trade_entry` | `TradeEntry` | types, `CapsOverrunOnlyInFlight`, `OneTradePerSetup`, `OnlyFaultsLoseTrack`, `ProtectedAfterGoal` | two workers, a scanned profile with a buy and a sell and a cap of one, a Tasso profile with a buy and a cap of two, global cap two, up to one OTC row, three positions, one fault; workers and names are symmetric, and a VIEW hides locals that are not read again |
| `desk`, settlement | `OtcSettlement` | `OwnResult`, `VisibleResultIsTaken`, `SettlementEnds` | one leg and another binary with the same or another asset and amount, both transports, a next protection or none, one row per answer, three lists of windows, three ticks, one failed call |
| `desk`, intake | `OtcIntake` | `HandledOnce`, `EverySignalHandled` | two updates of two messages, posts and edits of a signal, of a remark and in another group, both listeners, keys and retention of two ticks, two ticks, one death, one exception |
| `desk`, scan and panel | `ScanScheduler` | `AlertsPerWindow`, `CountdownKept`, `ProfilesScannedAgain` | three profiles (intervals of one and two ticks, one that no scan is for, one listed twice), one pair; scan: a worker, settings that change, no raising profile or one or the other, one failure more; panel: a worker and a person who scans, settings fixed, no failure |
| `desk`, tasso | `TassoListener` | `OpenedOnce` | a short trade and a long one, three keyboards (one button a row, and two in a row in either order), four messages of the bot, one end of the session, an exception at any step of any conversation |
| `desk`, simulation | `OtcSimulation` | `CyclesAreLadders`, `ReplayIsTrue` | all pairs of ladders from the entry or a protection on, to the third protection at most, the second after any number of legs of the first; base stakes of 1 and 233.09 dollars, two payoffs, a target of half a dollar |
| `desk`, chart | `DivapDetection` | `MirrorImage` | paths of seven candles over four levels at a high and at a low price, six endings, two readings of RSI and volume |
| `desk`, context | `ContextScore` | `ConfirmGoesWithTrend` | every combination of the sources around their thresholds, each of them missing as well |

The two lines of `otc_day` and the seven of `desk` are one run each: their parts are disjoint in
state and each is a full exploration of its module. The scan alone is two parts, since failures,
changing settings and two scanners at once are more states together than they are worth.

Why the bounds suffice to meet the hazards. *Ladder*: with two levels the
loop goes on, ends at the last level and refuses a start above it; two processes
interleave on the totals; two days let a row be created on one and booked on the
next. *Limits*: two sequences must be past their checks while a third begins after one
ended, hence three signals and two processes; the stakes make one loss hit the
stop while another is in flight. *Schedule*: the day is as short as the half-day rule
allows with minutes, seconds and fractions apart; two and a half days contain the
arrival's midnight, the one a wait may cross, and the day after a wrong resolution.
*Session*: the race needs two callers, a lost update of settings two rows, a balance
of zero the fallbacks. *Spot*: four units in three parts do not divide evenly, one
fault can fall between any two steps, two monitors and the listener make copies that
are stale by several writes, and as many updates as `MaxOrders` lets begin replace a stop while another
handler still names the old one. *Entry*: two workers are past one count at the same
time whatever the cap; caps that differ tell the counts apart; one fault can fall at any
step, and three positions are more than the global cap allows. *Settlement*: a binary of the same asset and amount on
the account is what the matching can confuse, a history of one row is what hides a
result, two deadlines and a clock of three ticks put the result before, between and
after them. *Intake*: two updates make a batch of which the first can fail, and an update
can be delivered twice with a death and an offset not saved in between; two ticks let a
key and an update expire. *Scan*: two scans race for one pair, ages reach every interval.
*Tasso*: four messages are a teaser, a prompt, its details, and one that disturbs; the
theorem covers longer talks and any keyboard. *Simulation*: one protection more than the report
lists is what it leaves out; recovery of a target of zero is the theorem's. *Charts*: seven candles hold three pivots at the least
distance, the low price makes levels negative and the high one brings prices within
tolerance. The theorems of section 4 hold for any number of
everything; the runs are there for the formulas that are not proved and to find
errors before a proof is tried. The inductive invariants of section 4 were checked by TLC
as well before they were proved. `CHECK_DEADLOCK` is never switched off: behaviours
that are over stutter in `Quiet`, which says when that is.

What the properties say:

* `ProtectionOnlyAfterLoss`: a protection is ordered only when the row of the leg
  before it is booked with a negative PnL, in spite of the two transactions, the
  refusals and the deaths in between.
* `OrdersAccounted`: an accepted binary is in the totals, or in an open row, or still
  in its handler's hands or died with it, or is one whose acceptance was lost.
* `OpenRowsBounded`: rows left open stay below the cap plus the number of processes;
  the sequences past the cap's check are counted with them, which is what makes it
  inductive.
* `DayLossBounded`: on a day on which every stop evaluation succeeded, the loss stays
  within the stop plus one full cycle per process.
* `QueuedConcludes`: a queued signal ends, by whatever way.
* `ReleasedAtItsTimeOfDay`: `wait_for_leg` lets a leg through at its time of day within
  the allowed lateness (of its day, or of a later one: `otc_midnight`); the order goes
  later by whatever the calls before it take. `MissedOnlyIfLate`: a leg is given up only when
  it is late itself, across any midnights; a signal is turned away only when its entry is
  late, although what it would play first may be a protection that is not. `WaitEnds`: the
  poll ends.
* `EntryFromASession`: the stake of a leg is that of a session of its day or of an
  earlier one, or the YAML's, whatever happened between the reads.
* `BookedWhole`: the PnL of a closed buy is that of its whole quantity, whoever closed
  it last and from whatever copy.
* `ClosedMeansSold`: closed rows of buys have been sold (one monitor, no fault, and a
  stop only the monitor moves: a cancelled order counts as executed, so in the moment
  between the updater's cancel and its new order any monitor run closes the row with
  nothing sold).
* `NamedStopIsLive`: an open row names a cancelled stop order only while the handler that
  cancelled it is at work.
* `CapsOverrunOnlyInFlight`: the open trades, of all profiles and of each, stay below the
  cap plus the number of workers, however old the counts are when a row is written.
* `OneTradePerSetup`: a pair of a profile has at most one open trade per worker: one, if
  callers never overlap. `has_open_trade` cannot promise more.
* `OnlyFaultsLoseTrack`: a position is in the hands of a worker or has a row that names
  all that rests for it; exceptions are as few as the faults. Refusals at any step, other
  workers and closings cause none.
* `ProtectedAfterGoal`: after the goal is marked, what is not of high confidence enters
  at most once per worker, on rules read before.
* `OwnResult`: the profit an order is booked with is its own, or that of one of the same
  asset and amount which the broker could not tell from it, since the order had got no
  id or no position.
* `VisibleResultIsTaken`: an order unlike any other takes its result from the first poll
  of the history that holds it, whatever was missing or failed before.
* `SettlementEnds`: the wait ends, whatever the exchange shows, with a session the server has
  forgotten too; that the legacy client's `check_win_v4` returns is assumed.
* `HandledOnce`: a message is dispatched once, through deaths, offsets that were not saved
  and a change of the listener; only an edit can bring it back. `EverySignalHandled`: a
  signal is lost only if the fault hit that very update, or Telegram gave it up.
* `AlertsPerWindow`: within the window there are at most as many alerts of a setup as scans
  that can race: one, if scans do not overlap. `CountdownKept`: when the panel's countdown
  is over the next beat does scan. `ProfilesScannedAgain`: an active profile is
  scanned for ever as long as neither it nor a profile before it raises every time: other
  exceptions, deaths, the intervals of the others, manual scans, and what raises behind it only
  delay it. Behind one that does raise every time nothing holds (section 5).
* `OpenedOnce`: handler and conversation never both open a trade from one message. That a
  teaser leads to a trade is not claimed (section 5).
* `CyclesAreLadders`: of ladders that follow one another from their entries the report finds
  each, with its legs up to the second protection; what was played above that is not read.
  `ReplayIsTrue`: the replay of a cycle with the same stakes has the same result to the cent,
  though the payoff it uses is read off a rounded win, unless the cycle ends in a draw or with a
  lost first protection (`Unclassified`; `otc_report` shows what happens to the latter); recovery
  recovers; and in any history, of ladders that overlap too, no cycle loses more than the
  greatest risk.
* `MirrorImage`: the opposite chart gives the opposite signal. `ConfirmGoesWithTrend`: no
  sum of the other terms confirms against a timeframe.
* `ExitsWhenDecided`: a price that stays at the stop or the last level closes the trade.

Fairness. `OtcExecution`: weak fairness of each signal's next step once it has
arrived, since a Celery worker that holds a task goes on with it and every wait in
it has a deadline, and an idle worker takes a queued task; nothing is assumed of
arrivals, failures, midnight. It is enough because a running sequence
always has a step enabled, and a free process, once free, can only be taken by
other sequences that end. `OtcSchedule`: the process runs on and the clock
advances. `PositionMonitor`: a run comes every minute and goes on, as does a message
being handled; nothing is assumed of the market, and a resting order need never
execute. An exchange that refuses a sale for ever (for instance because the stop order
has the coins locked) is outside: faults are bounded. `TradeEntry` states safety only: an
attempt may be given up at every step. `OtcDailySession` has no liveness property: its calls end by a deadline of
the HTTP client and nothing waits for them. Of the parts of `desk`, `OtcSettlement` assumes
that a waiting process goes on and time passes, `OtcIntake` that the container is started
again and its loop runs, `ScanScheduler` that the beat and the worker go on;
nothing is assumed of `TassoListener`, of which only safety is claimed, nor of Telegram, the bot
or the exchange. `Proceeds` and `IsDriven` of `MCDesk` join these
conditions into one each for the process and for what drives it, which is the same as long as
one part moves.

## 4. The proofs

All theorems are checked by TLAPS from the assumptions on the constants that the modules
state (`ExecutionAssumption`, `StakeAssumption`, `ScheduleAssumption`, `SessionAssumption`,
`PositionAssumption`, `EntryAssumption`, `SettlementAssumption`, `IntakeAssumption`,
`ScanAssumption`, `DetectionAssumption`, `TassoAssumption`, `SimulationAssumption`: finite sets,
naturals, caps that are positive, start and last levels within the table, stakes that are
naturals and, in the report, not zero, a day that is an even number of minutes, candles whose
low is lowest, a null that is no value), which TLC evaluates in every run. A hypothesis of a single theorem is a named definition beside it:
`LatenessIsShort` and `OneMonitor`.

`OtcExecution_proofs`:

* `TypeCorrect`: `TypeOK`.
* `LadderPositions`: the inductive invariant `LadderInv`. Neither "a protection
  follows a booked loss" nor the ladder is inductive: the loop decides on `result`,
  a local of the process, while the claim is about rows and orders. `LadderInv`
  says for each place in the code which levels have been ordered, which
  of them are booked as losses, and what the row of the current level holds, and that
  nothing is booked that was not ordered.
* `ProtectionsFollowLosses` and `ExecutorImplementsLadder` follow: every step of
  `Next` maps to `Place`, `Book` or a stutter of `OtcLadder`, the only interesting
  ones being `OpenLeg` (the level is new and the one below is a booked loss) and
  `CloseRow`.
* `NoOrderForgotten`: `OrdersAccounted` for any number of signals, with its own
  strengthening of where the unaccounted order of a signal can be.
* `SlotsNeverExceeded` and `OpenRowsStayBounded`: cardinality arguments. The set of
  running sequences grows by one only with a free slot; open rows plus sequences past
  the cap's check grow only at that check, where the rows are below the cap.
* `DayLossStaysBounded`: the booked loss of a day, however many sequences ran on it, is below
  the stop plus one worst cycle per process. The loss alone is not inductive: a sequence past
  the stop goes on losing, and one that began before midnight books on the day after. `LossInv`
  adds to what a day has booked what each sequence past its stop may still lose on it
  (`Owed`: the stakes of the levels left, or of the one row created on that day) and says that the
  sum stays below the stop plus one worst cycle per process. A leg moves its stake from owed to
  booked; only passing the stop adds, which needs a free process and totals above the stop. Sums over sets are folds; what the proof needs of them (they
  grow with their set, change by what one element changes) is proved from the definition by
  taking, of the sets for which it fails, one of the least size.

`OtcSchedule_proofs`, for any signals, any lengths of second, minute and day, and a clock
without bound:

* `ScheduleInv` says that the process's target is the leg's time of day on some date and not
  before the moment meant (`Due`) unless it is already too late, that a leg is resolved no earlier
  than the one before it was let through, and that a signal or a leg is given up only when its
  entry or it is late. From it `OnlyWhenTooLate`, whatever the latenesses, and `OnlyAtItsTime` if
  they are short (`LatenessIsShort`: an entry's below half a day, a protection's below a minute;
  the repository's are 0 and 30 seconds, `profiles/otc.yaml`). Nothing in the configuration's
  reader holds them to that, and with half a day of lateness TLC finds a leg let through a day off.

`OtcDailySession_proofs`:

* `CallsKeepTheirReads`: the inductive invariant `SessionInv`: by the step at which a
  call stands, its settings, date, reference and source are values that were there,
  its date is not after today, and the entries so far come from sessions.
* `SessionTypeCorrect`, `EntriesComeFromSessions` from it.
* `SessionIsFrozen`: the refinement. An insert is `Freeze` or nothing, an answer reads
  the row after it; a commit whose answer is lost is `Freeze` alone.

`PositionMonitor_proofs`, for any plans, quantity and market:

* `TypeCorrect` and `PnlIsOfTheWhole` from the inductive invariant `WholeInv`, for any number
  of monitors, listeners and faults.
  `BookedWhole` alone says nothing of the copies the PnL is computed from. `WholeInv`
  says that every row and copy adds up (`realized + remaining = Quantity`, something
  remaining), and what a handler about to record or close has in hand. One lemma per
  group of actions; `OneMoves` carries the other handlers over a step.
* `StopsStayLive`, for any number of monitors and listeners: `NamedStopIsLive` is preserved only
  if no other handler is about to write a dead order's name, so `StopInv` says whose
  the names in copies, hands and row are.
* `ClosedIsSold`, for one monitor at a time: `SoldInv` compares what left the position with what
  the row says is gone, step by step of the monitor: never less, and by the part in hand more
  between a sale and its record.
* `RowScalesOut`, for one monitor, any listeners and faults: the refinement of `ScaleOut`. A
  monitor's write is `TakeLevel`, `Breakeven` or `Close` because its copy is still the row where
  it matters (levels hit, remaining); a handler that overtook it has closed the row, and
  what is written afterwards changes only what `ScaleOut` does not see of a closed row, or is
  `Rebook`, a second closing whose PnL is of the whole again. With two monitors it is false:
  one writes its stop at the entry price after the other has recorded the next level, and TLC
  finds it with the constants of `spot_race`.

`TradeEntry_proofs`, for any number of workers, signals, profiles, caps and faults (all
five properties of the run):

* `EntryInvariant` and `TypeCorrect`: that no two workers hold one position is what makes
  `TypeOK` inductive, since each writes the position it finds under its name.
* `CapsStayBounded`, `DuplicatesStayBounded`: open rows alone are not inductive, for a
  worker past its count adds one whatever the count says by then. Rows and workers past
  the count together are (`SlotInv`): their sum grows only at the count, which bounds the
  rows, while the workers are never more than there are. One lemma (`SlotsStep`) serves
  the three counts.
* `ProtectionHolds`: late entries and the workers that may still make one are together at
  most the workers.
* `TrackIsKept`: orders are lost before the row is written, so the strengthening counts
  what neither a worker nor a row knows in full; each step keeps that number or is a
  fault.

`OtcResults_proofs`, of `OtcSettlement`, for any number of legs, binaries, windows, deadlines,
rows of history and faults:

* `SettlementInvariant`: `OwnResult` is about what was returned, and a poll's row is chosen
  by what was learned long before. `Sound` says of each leg that the position and the learned
  id are of its bet (its own if the order id is known), that nothing is known before the
  order, that an answer is the result, and that a leg sleeps only with a result.
  `MatchedIsAcceptable` is the lemma about the matching.
* `ResultsAreOwn` and `VisibleResultsAreTaken` follow.

and of `OtcSimulation`, for any base stakes, payoffs, targets and multipliers, and ladders of any
length:

* `CyclesAreFound`: a ladder that is taken leg by leg from whatever was found before ends up
  whole (`LadderTaken`); an entry files what was unfinished, so the ladder before it is a cycle
  of its own.
* `ReplayHolds`. The report rounds the observed payoff to four places, and the replay rounds
  its win to the cent. `PayoffIsRecovered` says that this gives the win back: below 100 dollars of
  stake because the first rounding changes the win by less than half a cent, above because no
  other payoff of four places is as near. `RecoveryWins`: a stake rounded up wins its
  target in spite of the win's rounding. `CycleBounds` compares the replay of any cycle that opens with
  an entry (`CyclesOf`, which by `LegsAreGrouped` all of them do) with its ladder.

Its functions that are recursive on an index (`FoundIn`, `PartialSums`) are unfolded by the
least index at which they would not be (`LeastNatural`), since induction over an operator is out
of the provers' reach.

`TelegramIntake_proofs`:

* `DispatchedOnce`, for any messages, texts, deaths and exceptions. The argument rests on
  `Retention <= KeyTtl`: an update in hand is younger than the retention (`Ready`), the key
  of a dispatched message outlives the retention of every unedited update of it
  (`Remembered`), so a claim finds the key; and between claim and dispatch nothing else of
  the message is dispatched (`ClaimedFirst`).
* `TradesOpenedOnce`, for any keyboards, trades and numbers of messages: the handler never hands
  anything to the executor and the conversation hands nothing to the closer
  (`CalleeOfPassive`, `CalleeOfDetails`); what a conversation has heard is never older than a
  trade that was opened (`HeardIsNew`).

`Scanner_proofs`:

* `AlertsAreFewEver`, for any profiles, intervals, scans and failures: live alerts of a setup and
  the scans about to save one are together at most the scans, for their sum grows only where
  a scan found no alert. `CountdownKeptEver`: the shortest interval is attained by an active
  profile, whose last scan is at least as old as the latest of all.
* `MirrorHolds`, for any chart: each reading of the chart turned upside down. The pivots are a
  recursive function of the position, so that two charts with the same turns have the same pivots
  by a least position where they would differ.
* `ConfirmedGoesWithTrend`, for any readings of the sources, by cases over the terms of the sum.

Model-checked only: liveness (`QueuedConcludes`, `WaitEnds`, `ExitsWhenDecided`,
`SettlementEnds`, `EverySignalHandled`, `ProfilesScannedAgain`), which the prover does not reach. Every other property of the runs that pass is a theorem, some under the
hypotheses named above.

## 5. What the checks found

* `otc_pause`: the stop alert promises "Operações pausadas até o próximo dia", but
  the stop is recomputed from the totals each time: a result booked later the same
  day lifts it.
* `otc_midnight`: `wait_for_leg` promises to reject a leg whose time is past; one of
  before midnight that is looked at after it is taken for the coming evening's, and a
  worker sleeps on it for a day.
* `otc_entry`: the panel promises one entry until 23:59; a call that read the date before
  midnight, or a failure of the session's reading, gives a leg another one.
* `spot_parts`: the design has three parts that make the whole; the stop order is
  resized at the breakeven level only, and after the second level it sells more than is
  held if it executes.
* `otc_report`: the report ends with "Mesmos desfechos do histórico; apenas o tamanho das apostas
  muda entre cenários" (`otc/simulation.py:409`); a ladder that was given one protection and lost
  both legs is classified incomplete, and every scenario but the real one books its entry only.

Seen while modelling, and stated by no run. Of the first five a text of the repository says
otherwise, quoted with each; of the others none does:

* Fibonacci zone: "Check if current price is near a Fibonacci extension level"
  (`indicators/fibonacci.py:51`; `detection/fibonacci_zone.py:8` likewise). The distance to a level
  is divided by the level, so a negative level (a range wider than the low over the ratio) is
  "near" every price; and the swing's window ends with the current candle, so that an extension,
  which lies outside the window, can be near only if the window is nearly flat.
  `DivapDetection` has the criterion as it is, and no property claims more of it.
* Contrarian rule: "Compra: medo (F&G baixo) ou tendência HTF bearish"
  (`profiles/contrarian.py:16-20`), and `tests/unit/test_contrarian.py` passes the reading as a
  number. In the running system it is an object, and `contrarian.py:30` raises `TypeError` whenever
  there is one. The exception ends the scan before the profile is recorded
  (`alerts/scheduler.py:219-224`), so that it is due at every beat and raises at each as long as
  the chart shows a setup that passes the gate's rules before this one, and the profiles behind it
  in the settings are not scanned meanwhile: `raising` of `ScanScheduler`.
* Start levels: `signal_dispatch.py:51` and `tasks.py:91` turn a signal away for the lateness of leg
  0, although the executor starts at the protection the signal names (`executor.py:88`), which
  may not be late. `wait_for_leg` rejects what has passed "sem tolerância" (`schedule.py:104`), yet
  the order it lets through goes after the calls of `executor.py:171-205`, unchecked.
* Tasso flow: "Clicar em ...; Aceitar/Recusar → Aceitar → detalhes completos"
  (`tasso/telegram_handler.py:77-82`). A Telethon conversation that has sent no message of its own
  raises when it is asked for a response (`:102`), which is caught (`:120`): no teaser opens a trade.
  The library is external and the repository pins a least version only, so `TassoListener` leaves
  open whether it raises.
* Tasso buttons: "Clica no primeiro botão que bater preferred_text ou keywords"
  (`tasso/telegram_buttons.py:29`). The column of the button found
  is used as an index into the whole keyboard (`:41-49`), so that with a button to a row another one
  than the one found is pressed (`Pressed`; the first keyboard of `MCKeyboards`).
* `context/scoring.py`: a sell gains from no sentiment, bad news alone never reject.
* `otc/mcp_client.py`: a session the server has forgotten is never renewed; every call of that
  process fails from then on (`CallFails`).
* `otc/broker.py`: an open position of the same asset and amount makes the poll wait although the
  own result may be reported.
* Intake: a message edited more than a day after it was claimed is dispatched again, and a
  remark edited into a signal within a day is not; a user session is told nothing of what it missed.
* Tasso: a chat has one conversation, so that a teaser during another is lost; any next message
  is taken for the answer, and applied by the handler too; the profile a
  conversation knows is overruled by the words of the details.
* Simulation: a draw at the last protection is replayed as a total loss, an earlier one as a lost
  entry; legs above the second protection, which a signal may ask for, are not read
  (`trade_repo.py:59-69`); ladders that overlap in time are mixed; a ladder that starts at a protection, as a signal may ask for, is dropped from
  the report or taken for the end of an unfinished one before it.
* Scan: any exception of one profile ends the scan of the ones after it until the next beat;
  a chart that diverges both ways is bullish.

## 6. Limits of the models

* Trading is enabled and `dry_run` off in `OtcExecution`; otherwise nothing it
  models changes.
* Not modelled: the Invezt channel (it stores and shows suggestions and places no order);
  the API and the dashboard (reads and forms; those that change state appear as actions of
  the modules of that state); the repositories' listings and statistics, each a single SQL
  statement without a state of its own; the FXCM and data clients, whose answers are inputs;
  LLM texts; regular expressions and formatting, abstracted to what a line says.
  `PROJECT.json` says so per component.
* What some properties excuse: `OrdersAccounted` the orders of a lost answer and of a death,
  `DayLossBounded` days on which a stop evaluation raised, `QueuedConcludes` the sequence whose
  worker died, which counts as ended; `ClosedMeansSold` the updater's cancel and overlapping runs,
  in whose window a row is closed with nothing sold. They say that nothing else leads there.
* `OtcSettlement` assumes that `check_win_v4` of the legacy client returns; it has no deadline.
* `OtcSettlement` and `OtcIntake` stand beside `OtcExecution`, not inside it: the latter allows
  any result of the right stake and any signal, which includes what these two can give it.
  The binaries of one `OtcSettlement` belong to processes of their own, as the sequences do;
  the legs of one sequence follow each other.
* `ScanScheduler` counts a second message of a kind that still waits in the queue as none,
  because it would add but a throttled run; the dashboard's cache is left out.
* `TassoListener` has no prices; a trade has one teaser. `DivapDetection` takes the RSI as an
  input; prices are integers of ticks, so that rounding of floats is not part of it.
* `OtcExecution` abstracts the schedule to "sent or given up", and the session to one of
  two base stakes; `OtcSchedule` and `OtcDailySession` model what is behind them.
* `PositionMonitor`: a market sale is executed whole or refused; a row is not re-read
  when a profile's YAML changes; for sells `booked` may be off by `Slip`, and a
  listener that closes after the monitor overwrites it, so `spot_exits` has Tasso buys only.
* `TradeEntry`: the dry run (rows of status `simulated`, which no count sees) and the size
  of orders are left out; the gate's rules that do not depend on state (timeframe,
  risk/reward, confidence of the profile) are in the choice of `Signals`; candles and the
  flag shown beside a row are read with the rules. A protective order that rests without
  being named is not among the initial orders of `PositionMonitor`, whose broker can
  lose such an answer itself later on.
* Money is exact integers; percentages are those of the code's tables.

## 7. Plan

Done: the OTC side from the message of the room over executor, ladder, limits, schedule and
session to the settlement and the report; the spot side from the chart and its context over
the scan, the entry and the Tasso channel to the end of a position.

Worth doing next, each with its properties, mutants and section here:

1. The panel's statistics (`trade_repo.py`, `otc/periods.py`) against the rows the executors
   leave: a day's figures add up to a month's.
2. The readiness checks and the analysis that enrich an alert, once a document promises more of
   them than a text.
3. Proofs across modules: the rows a sequence of `OtcExecution` leaves are those of one of the
   ladders `OtcSimulation` starts from; what `OtcSettlement` answers is what `Settle` allows.
