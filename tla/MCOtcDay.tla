------------------------------ MODULE MCOtcDay ------------------------------
(***************************************************************************)
(* A day of the OTC desk before its orders: when a leg is let through, and *)
(* which entry it is for.  The two share no state, so "part", chosen       *)
(* initially, says which one moves; the other rests as it starts.          *)
(***************************************************************************)
EXTENDS MCOtcSchedule, MCOtcDailySession

VARIABLE part

ScheduleRests == Init /\ now = 0 /\ signal = Played(0, <<>>, 0, 2)
SessionRests  == SessionInit /\ balance = 0 /\ settings.bankroll = 0

DayInit ==
    /\ part \in {"schedule", "session"}
    /\ IF part = "schedule" THEN Init ELSE ScheduleRests
    /\ IF part = "session" THEN SessionInit ELSE SessionRests

dayVars == <<part, vars, sessionVars>>

OnlySchedule == part = "schedule" /\ UNCHANGED <<part, sessionVars>>
OnlySession  == part = "session" /\ UNCHANGED <<part, vars>>

DayNext == (OnlySchedule /\ Next) \/ (OnlySession /\ SessionNext)

(* The fairness of the schedule: the session promises nothing for later.    *)
DaySpec ==
    /\ DayInit /\ [][DayNext]_dayVars
    /\ WF_dayVars(OnlySchedule /\ Handle) /\ WF_dayVars(OnlySchedule /\ Tick)
=============================================================================
