-------------------------- MODULE OtcDailySession --------------------------
(***************************************************************************)
(* The daily session (otc/daily_session.py, its repository, the midnight   *)
(* task of otc/tasks.py): any process that needs the day's entry or stops  *)
(* reads the session of the day and creates it if there is none yet, and   *)
(* the beat does the same at midnight.  Each call is a chain of separate   *)
(* reads: settings, date, session, account balance, then the insert.       *)
(*                                                                         *)
(* Meanwhile the panel saves settings, trades move the account, and days   *)
(* pass.  Any call to the database may raise.                              *)
(***************************************************************************)
EXTENDS OtcStake

CONSTANTS
    Workers,       \* callers of _effective_base_stake, the executor's
    Beat,          \* callers of snapshot_otc_daily_session
    Dates,         \* bound: the days explored, 1..N
    Balances,      \* bound: balances of the account; 0 and less are not used
    Settings,      \* bound: rows of otc_settings
    DefaultStake,  \* otc.default_stake_usd
    None

(* Every row that can be built. *)
References == {b \in Balances : b > 0} \cup ({cfg.bankroll : cfg \in Settings} \ {0})
Sources == {"live", "beat", "fallback"}
Rows == {BuildSession(r, cfg, src) : r \in References, cfg \in Settings, src \in Sources}

ASSUME SessionAssumption ==
    /\ Dates \subseteq Nat \ {0} /\ 1 \in Dates
    /\ Workers \cap Beat = {}
    /\ Balances \subseteq Int
    /\ Settings \subseteq
          [profile : PROFILES, pct : Nat, min : Nat, max : Nat, bankroll : Nat]
    /\ DefaultStake \in Nat
    /\ None \notin Rows

VARIABLES
    date,      \* the local date
    balance,   \* the account at IQ Option
    settings,  \* otc_settings
    session,   \* otc_daily_session: date -> row or None
    stage,     \* where each call stands
    mine,      \* what each call has read: [cfg, date, reference, source]
    answers,   \* history: <<date, row>> returned to a caller
    entries    \* history: <<date, base stake>> of the legs that used one

sessionVars == <<date, balance, settings, session, stage, mine, answers, entries>>
world == <<date, balance, settings>>

Callers == Workers \cup Beat
Nothing == [cfg |-> None, date |-> 0, reference |-> 0, source |-> "none"]

(* The executor reads the settings before the date, the beat after it.      *)
First(c) == IF c \in Beat THEN "date" ELSE "settings"

MoveTo(c, p) == stage' = [stage EXCEPT ![c] = p]

ReadSettings(c) ==
    /\ stage[c] = "settings"
    /\ mine' = [mine EXCEPT ![c].cfg = settings]
    /\ MoveTo(c, IF c \in Beat THEN "look" ELSE "date")
    /\ UNCHANGED <<world, session, answers, entries>>

(* current_local_date. *)
ReadDate(c) ==
    /\ stage[c] = "date"
    /\ mine' = [mine EXCEPT ![c].date = date]
    /\ MoveTo(c, IF c \in Beat THEN "settings" ELSE "look")
    /\ UNCHANGED <<world, session, answers, entries>>

(* A call ends: a worker takes the base stake for a leg it places now.      *)
Finish(c, base) ==
    /\ MoveTo(c, First(c))
    /\ mine' = [mine EXCEPT ![c] = Nothing]
    /\ entries' = IF c \in Workers THEN entries \cup {<<date, base>>} ELSE entries

Return(c, row) ==
    /\ answers' = answers \cup {<<mine[c].date, row>>}
    /\ Finish(c, IF row.base > 0 THEN row.base ELSE DefaultStake)

(* ensure_daily_session: get_for_date. *)
Look(c) ==
    /\ stage[c] = "look"
    /\ IF session[mine[c].date] # None
       THEN Return(c, session[mine[c].date])
       ELSE MoveTo(c, "fetch") /\ UNCHANGED <<mine, answers, entries>>
    /\ UNCHANGED <<world, session>>

(***************************************************************************)
(* resolve_reference_balance: the account if it can be read and is         *)
(* positive, or the configured bankroll, or the last session's reference.  *)
(***************************************************************************)
Latest(d) ==
    session[d] # None /\ \A e \in Dates : session[e] # None => e <= d

Resolved(c, reference, source) ==
    /\ mine' = [mine EXCEPT ![c].reference = reference, ![c].source = source]
    /\ MoveTo(c, "upsert")
    /\ UNCHANGED <<answers, entries>>

(* Mutant: a balance of zero is taken for a reference.                      *)
FetchAnyBalance(c) ==
    /\ stage[c] = "fetch"
    /\ Resolved(c, balance, IF c \in Beat THEN "beat" ELSE "live")
    /\ UNCHANGED <<world, session>>

Fetch(c) ==
    /\ stage[c] = "fetch"
    /\ \/ balance > 0 /\ Resolved(c, balance, IF c \in Beat THEN "beat" ELSE "live")
       \/ /\ mine[c].cfg.bankroll > 0
          /\ Resolved(c, mine[c].cfg.bankroll, "fallback")
       \/ /\ mine[c].cfg.bankroll <= 0
          /\ \E d \in Dates : Latest(d) /\ Resolved(c, session[d].reference, "fallback")
    /\ UNCHANGED <<world, session>>

Built(c) == BuildSession(mine[c].reference, mine[c].cfg, mine[c].source)

(* INSERT ... ON CONFLICT (session_date) DO NOTHING. *)
Inserted(c) ==
    IF session[mine[c].date] = None
    THEN [session EXCEPT ![mine[c].date] = Built(c)] ELSE session

(* Mutant: ON CONFLICT DO UPDATE.                                           *)
UpsertOverwrites(c) ==
    /\ stage[c] = "upsert"
    /\ session' = [session EXCEPT ![mine[c].date] = Built(c)]
    /\ Return(c, Built(c))
    /\ UNCHANGED world

(* Mutant: the row of a lost race is not read back.                         *)
UpsertKeepsOwn(c) ==
    /\ stage[c] = "upsert"
    /\ session' = Inserted(c)
    /\ Return(c, Built(c))
    /\ UNCHANGED world

(* upsert: ON CONFLICT DO NOTHING, then the row that is there.              *)
Upsert(c) ==
    /\ stage[c] = "upsert"
    /\ session' = Inserted(c)
    /\ Return(c, session'[mine[c].date])
    /\ UNCHANGED world

(***************************************************************************)
(* An exception: of the database at any step (a commit may have been made  *)
(* all the same), or for want of any reference balance.  The executor      *)
(* falls back to the YAML's stake.                                         *)
(***************************************************************************)
Raise(c) ==
    /\ stage[c] # "date"
    /\ stage[c] = "fetch" => mine[c].cfg.bankroll <= 0
    /\ UNCHANGED session \/ (stage[c] = "upsert" /\ session' = Inserted(c))
    /\ Finish(c, DefaultStake)
    /\ UNCHANGED <<world, answers>>

(* The panel, the account, midnight. *)
SaveSettings ==
    /\ settings' \in Settings
    /\ UNCHANGED <<date, balance, session, stage, mine, answers, entries>>

Trade ==
    /\ balance' \in Balances
    /\ UNCHANGED <<date, settings, session, stage, mine, answers, entries>>

Midnight ==
    /\ date + 1 \in Dates
    /\ date' = date + 1
    /\ UNCHANGED <<balance, settings, session, stage, mine, answers, entries>>

SessionInit ==
    /\ date = 1
    /\ balance \in Balances
    /\ settings \in Settings
    /\ session = [d \in Dates |-> None]
    /\ stage = [c \in Callers |-> First(c)]
    /\ mine = [c \in Callers |-> Nothing]
    /\ answers = {}
    /\ entries = {}

Step(c) ==
    \/ ReadSettings(c) \/ ReadDate(c) \/ Look(c) \/ Fetch(c) \/ Upsert(c) \/ Raise(c)

SessionNext == (\E c \in Callers : Step(c)) \/ SaveSettings \/ Trade \/ Midnight

SessionSpec == SessionInit /\ [][SessionNext]_sessionVars
-----------------------------------------------------------------------------
(* Types of the variables. *)
SessionTypeOK ==
    /\ date \in Dates
    /\ balance \in Balances
    /\ settings \in Settings
    /\ session \in [Dates -> Rows \cup {None}]
    /\ stage \in [Callers -> {"settings", "date", "look", "fetch", "upsert"}]
    /\ \A c \in Callers : mine[c].cfg \in Settings \cup {None} /\ mine[c].date \in Dates \cup {0}
    /\ answers \subseteq Dates \X Rows
    /\ entries \subseteq Dates \X Nat

(***************************************************************************)
(* A day's session is chosen once and every caller is told the same, the   *)
(* losers of the race to create it included.                               *)
(***************************************************************************)
Frozen == INSTANCE OtcFrozenSession WITH
    Sessions <- Rows, NoSession <- None, frozen <- session

ImplementsFrozenSession == Frozen!Spec

(***************************************************************************)
(* Whatever the races between settings, midnight and creation, a leg's     *)
(* entry is the session's of its own day or of a day before it, or the     *)
(* YAML's.                                                                 *)
(***************************************************************************)
EntryFromASession ==
    \A e \in entries :
        \/ e[2] = DefaultStake
        \/ \E d \in Dates : d <= e[1] /\ session[d] # None /\ session[d].base = e[2]

(***************************************************************************)
(* The panel says "Valores fixados à meia-noite (horário de São Paulo) —   *)
(* entrada e stops não mudam até 23:59": the legs of a day have one entry. *)
(***************************************************************************)
EntryFixedForTheDay ==
    \A e, f \in entries : e[1] = f[1] => e[2] = f[2]
=============================================================================
