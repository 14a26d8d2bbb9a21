---------------------------- MODULE OtcSchedule ----------------------------
(***************************************************************************)
(* The clock side of one OTC signal (otc/schedule.py and its callers): the *)
(* entry window checked at dispatch and again when a worker takes the      *)
(* task, then wait_for_leg before each leg.  A leg has a time of day only, *)
(* and each check turns it into a date anew from its own reading of the    *)
(* clock.                                                                  *)
(*                                                                         *)
(* The sequence starts at the level the signal names, yet dispatch and     *)
(* task ask about leg 0's window, also when the first leg played is a      *)
(* protection.  wait_for_leg lets a leg through; between its last reading  *)
(* of the clock and the order lie the session, perhaps a balance request,  *)
(* and the broker's own calls.                                             *)
(*                                                                         *)
(* Time is counted in ticks, fractions of a second, from midnight of the   *)
(* first day; Second, Minute and Day are lengths in ticks.  Between two    *)
(* steps the clock may move by any amount: a full queue, a slow order, a   *)
(* settlement.                                                             *)
(***************************************************************************)
EXTENDS Integers, Sequences

CONSTANTS
    SignalSet,     \* signals: [entry, schedule, start, last], times in minutes
                   \* of the day, first and last level to play
    NoTime,        \* entry of a signal with no entry time
    Second, Minute, Day,
    EntryLateness, \* otc.entry_max_lateness_seconds
    ProtLateness,  \* otc.protection_max_lateness_seconds
    MaxLevel,      \* the highest level a signal names
    MaxNow         \* bound: ticks explored

ASSUME ScheduleAssumption ==
    /\ Second \in Nat \ {0} /\ Minute \in Nat \ {0} /\ Day \in Nat \ {0}
    /\ Minute % Second = 0 /\ Day % (2 * Minute) = 0 /\ Day > 2 * Minute
    /\ NoTime \notin Int
    /\ EntryLateness \in Nat /\ ProtLateness \in Nat
    /\ MaxLevel \in Nat /\ MaxNow \in Nat
    /\ \A g \in SignalSet : /\ g.entry \in 0..(Day \div Minute) - 1 \cup {NoTime}
                            /\ g.schedule \in Seq(0..(Day \div Minute) - 1)
                            /\ g.start \in 0..MaxLevel /\ g.last \in 0..MaxLevel

VARIABLES
    now,      \* the clock
    pc,       \* where the handling of the signal stands
    signal,   \* the signal
    arrival,  \* when it was dispatched
    level,    \* the leg being waited for or running
    target,   \* wait_for_leg's own target
    released  \* history: level -> when wait_for_leg let it through, or NoTime

vars == <<now, pc, signal, arrival, level, target, released>>

Levels == 0..MaxLevel
Waits == {"resolve", "check", "sleep"}
GivenUp == {"skipped", "dropped", "missed"}  \* at dispatch, by the task, by wait_for_leg
Stages == {"new", "queued", "opening", "run", "done"} \cup Waits \cup GivenUp

(***************************************************************************)
(* resolve_leg_datetime: the leg's minute of the day...                    *)
(***************************************************************************)
LegMinute(g, l) ==
    IF l = 0 THEN g.entry
    ELSE IF l <= Len(g.schedule) THEN g.schedule[l]
    ELSE IF g.entry # NoTime THEN (g.entry + l) % (Day \div Minute)
    ELSE NoTime

(* ... on the date of the reading t, or a day later if that is more than   *)
(* half a day ago.                                                         *)
DateOf(t) == (t \div Day) * Day

(* Mutant: a time of the next day is looked for on the date of t.           *)
OnSameDate(minute, t) == DateOf(t) + minute * Minute

OnDate(minute, t) ==
    LET candidate == DateOf(t) + minute * Minute
    IN  IF candidate < t - Day \div 2 THEN candidate + Day ELSE candidate

HasTarget(l) == LegMinute(signal, l) # NoTime
ResolveLeg(l, t) == OnDate(LegMinute(signal, l), t)

(* lateness_seconds: whole seconds, never negative.                         *)
Lateness(t, due) == IF t > due THEN (t - due) \div Second ELSE 0

MaxLateness(l) == IF l = 0 THEN EntryLateness ELSE ProtLateness

(* leg_window_missed.                                                       *)
WindowMissed(l, t) == HasTarget(l) /\ Lateness(t, ResolveLeg(l, t)) > MaxLateness(l)

(* has_scheduled_legs, and should_queue_otc_execution alike.                *)
Scheduled == signal.entry # NoTime \/ signal.schedule # <<>>

Goto(p) == pc' = p

(* The loop over the levels: from the signal's to its last one, if any.     *)
FirstLeg == Goto(IF signal.start <= signal.last THEN "resolve" ELSE "done")

(* dispatch_otc_signal: a signal without any time is run at once.           *)
Dispatch ==
    /\ pc = "new"
    /\ arrival' = now
    /\ IF WindowMissed(0, now) THEN Goto("skipped")
       ELSE IF Scheduled THEN Goto("queued")
       ELSE FirstLeg
    /\ UNCHANGED <<now, signal, level, target, released>>

(* execute_otc_signal. *)
StartTask ==
    /\ pc = "queued"
    /\ IF WindowMissed(0, now) THEN Goto("dropped") ELSE FirstLeg
    /\ UNCHANGED <<now, signal, arrival, level, target, released>>

(* wait_for_leg returns True: the leg may be opened.                        *)
Release ==
    /\ released' = [released EXCEPT ![level] = now]
    /\ Goto("opening")

(* wait_for_leg, first reading of the clock: its target.                    *)
Resolve ==
    /\ pc = "resolve"
    /\ IF Scheduled /\ HasTarget(level)
       THEN /\ target' = ResolveLeg(level, now)
            /\ Goto("check")
            /\ UNCHANGED released
       ELSE Release /\ UNCHANGED target
    /\ UNCHANGED <<now, signal, arrival, level>>

(* Second reading: the window, for which the target is resolved again.      *)
CheckWindow ==
    /\ pc = "check"
    /\ Goto(IF WindowMissed(level, now) THEN "missed" ELSE "sleep")
    /\ UNCHANGED <<now, signal, arrival, level, target, released>>

(* Mutant: the lateness is not checked again after the sleep.               *)
AwakeUnchecked ==
    /\ pc = "sleep"
    /\ now >= target
    /\ Release
    /\ UNCHANGED <<now, signal, arrival, level, target>>

(* Mutant: the poll compares the clock with the target for equality.        *)
AwakeOnTheDot ==
    /\ pc = "sleep"
    /\ now = target
    /\ IF Lateness(now, target) > MaxLateness(level)
       THEN Goto("missed") /\ UNCHANGED released
       ELSE Release
    /\ UNCHANGED <<now, signal, arrival, level, target>>

(* The sleep ends at the target, and the lateness is checked once more.     *)
Awake ==
    /\ pc = "sleep"
    /\ now >= target
    /\ IF Lateness(now, target) > MaxLateness(level)
       THEN Goto("missed") /\ UNCHANGED released
       ELSE Release
    /\ UNCHANGED <<now, signal, arrival, level, target>>

(* The session read and the broker's calls take the time they take; the     *)
(* order goes out, or the broker refuses it and the sequence ends.          *)
SendOrder ==
    /\ pc = "opening"
    /\ Goto("run") \/ Goto("done")
    /\ UNCHANGED <<now, signal, arrival, level, target, released>>

(* The binary is settled some time after: the sequence ends, or a loss      *)
(* calls for the next level.                                                *)
LegEnds ==
    /\ pc = "run"
    /\ \/ Goto("done") /\ UNCHANGED level
       \/ level < signal.last /\ level' = level + 1 /\ Goto("resolve")
    /\ UNCHANGED <<now, signal, arrival, target, released>>

Tick ==
    /\ now < MaxNow
    /\ now' = now + 1
    /\ UNCHANGED <<pc, signal, arrival, level, target, released>>

Ended == GivenUp \cup {"done"}
Quiet == (pc \in Ended \/ now = MaxNow) /\ UNCHANGED vars

Init ==
    /\ now \in 0..Day - 1
    /\ pc = "new"
    /\ signal \in SignalSet
    /\ arrival = now
    /\ level = signal.start
    /\ target = 0
    /\ released = [l \in Levels |-> NoTime]

Handle == Dispatch \/ StartTask \/ Resolve \/ CheckWindow \/ Awake \/ SendOrder \/ LegEnds
Next == Handle \/ Tick \/ Quiet

Spec == Init /\ [][Next]_vars

(* The process runs on, and so does the clock. *)
FairSpec == Spec /\ WF_vars(Handle) /\ WF_vars(Tick)
-----------------------------------------------------------------------------
TypeOK ==
    /\ now \in 0..MaxNow
    /\ pc \in Stages
    /\ signal \in SignalSet
    /\ arrival \in 0..MaxNow
    /\ level \in Levels
    /\ target \in 0..MaxNow + 2 * Day
    /\ released \in [Levels -> 0..MaxNow \cup {NoTime}]

(***************************************************************************)
(* The moment a leg is meant for: the first one played, the occurrence of  *)
(* its time nearest to the arrival; a later one, the first occurrence of   *)
(* its time from the moment of the leg before it on.                       *)
(***************************************************************************)
Nearest(minute, t) ==
    CHOOSE d \in {DateOf(t) + k * Day + minute * Minute : k \in {-1, 0, 1}} :
        d > t - Day \div 2 /\ d <= t + Day \div 2

FirstFrom(minute, t) ==
    CHOOSE d \in {DateOf(t) + k * Day + minute * Minute : k \in {0, 1}} :
        d >= t /\ d < t + Day

DueTimes(g, t) ==
    LET due[l \in Levels] ==
            IF l <= g.start THEN Nearest(LegMinute(g, l), t)
            ELSE FirstFrom(LegMinute(g, l), due[l - 1])
    IN  due

Due == DueTimes(signal, arrival)
EntryDue == Nearest(signal.entry, arrival)

Released(l) == released[l] # NoTime
InTime(t, l) == t >= 0 /\ t \div Second <= MaxLateness(l)

(***************************************************************************)
(* wait_for_leg lets a leg through at its moment, within the lateness      *)
(* allowed, or else a whole number of days after it: no reading of the     *)
(* clock, and no change of date between two readings, lets it through      *)
(* before its moment or at any other time of day.                          *)
(***************************************************************************)
ReleasedAtItsTimeOfDay ==
    signal.entry # NoTime =>
        \A l \in Levels : Released(l) =>
            released[l] >= Due[l] /\ InTime((released[l] - Due[l]) % Day, l)

(* The legs of a signal that has arrived follow its arrival, and one        *)
(* another, within half a day.                                              *)
CloseBy ==
    /\ pc # "new" /\ signal.entry # NoTime
    /\ EntryDue - arrival < Day \div 2
    /\ Due[signal.start] - arrival < Day \div 2
    /\ \A l \in Levels : l > signal.start => Due[l] - Due[l - 1] < Day \div 2

(***************************************************************************)
(* A signal is turned away, at dispatch or by the task, only when its      *)
(* entry is past by more than the lateness of an entry, whatever its first *)
(* leg; a leg is given up only when its own moment is past by more than    *)
(* its own lateness: for legs close by, whatever midnights lie between.    *)
(***************************************************************************)
MissedOnlyIfLate ==
    CloseBy => /\ pc \in {"skipped", "dropped"} => Lateness(now, EntryDue) > EntryLateness
               /\ pc = "missed" => Lateness(now, Due[level]) > MaxLateness(level)

(* A wait whose target the clock reaches comes to an end. *)
WaitEnds == pc = "sleep" /\ target < MaxNow ~> pc # "sleep"

(***************************************************************************)
(* wait_for_leg says of a time already past "Se já passou do alvo,         *)
(* rejeita": no leg of a signal that arrives within the minute before its  *)
(* entry is let through later than its lateness allows.                    *)
(***************************************************************************)
RejectedOncePast ==
    CloseBy /\ EntryDue - arrival \in 0..Minute =>
        \A l \in Levels : Released(l) => InTime(released[l] - Due[l], l)
=============================================================================
