--------------------------- MODULE MCOtcSchedule ---------------------------
(***************************************************************************)
(* A day of four minutes of two seconds of two ticks.  Entries at every    *)
(* minute with no schedule, entries with a schedule that follows them or   *)
(* leaves a gap, a signal with a schedule only, one with no time, signals  *)
(* that start at their first protection, and one past its last level.      *)
(***************************************************************************)
EXTENDS OtcSchedule

CONSTANTS none

Played(entry, schedule, start, last) ==
    [entry |-> entry, schedule |-> schedule, start |-> start, last |-> last]

MCSignals ==
    {Played(m, <<>>, 0, 2) : m \in 0..3}
      \cup {Played(3, <<0>>, 0, 2), Played(1, <<3>>, 0, 1)}
      \cup {Played(none, <<3>>, 0, 1), Played(none, <<>>, 0, 1)}
      \cup {Played(2, <<>>, 1, 2), Played(3, <<0>>, 1, 1), Played(0, <<>>, 2, 1)}

(* The entry of the last minute of the day.                                 *)
MidnightSignals == {Played(3, <<>>, 0, 2)}
=============================================================================
