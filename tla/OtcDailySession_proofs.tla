---------------------- MODULE OtcDailySession_proofs -----------------------
(***************************************************************************)
(* Proofs about OtcDailySession, for any processes, dates, balances and    *)
(* settings: its types, that a day's session is frozen once it is chosen,  *)
(* and that every entry comes from a session or from the YAML.             *)
(***************************************************************************)
EXTENDS OtcDailySession, TLAPS

(* What a call has read by the step it stands at.                           *)
CallInv(c) ==
    /\ mine[c].date \in Dates \cup {0}
    /\ stage[c] \in {"look", "fetch", "upsert"} =>
          mine[c].cfg \in Settings /\ mine[c].date \in Dates
    /\ stage[c] = "settings" /\ c \in Beat => mine[c].date \in Dates
    /\ stage[c] = "date" /\ c \notin Beat => mine[c].cfg \in Settings
    /\ stage[c] = "upsert" => mine[c].reference \in References /\ mine[c].source \in Sources
    /\ mine[c].date <= date

SessionInv ==
    /\ date \in Dates
    /\ balance \in Balances
    /\ settings \in Settings
    /\ session \in [Dates -> Rows \cup {None}]
    /\ stage \in [Callers -> {"settings", "date", "look", "fetch", "upsert"}]
    /\ mine \in [Callers -> [cfg : Settings \cup {None}, date : Dates \cup {0},
                             reference : Int, source : Sources \cup {"none"}]]
    /\ \A c \in Callers : CallInv(c)
    /\ answers \subseteq Dates \X Rows
    /\ entries \subseteq Dates \X Nat
    /\ EntryFromASession

-----------------------------------------------------------------------------
(* Rounding gives an integer, so a row's base stake is one and its         *)
(* reference is the balance it was built from.                             *)
LEMMA RoundIsInt ==
    ASSUME NEW n \in Int
    PROVE  RoundHalfEven(n, 10000) \in Int
BY DEF RoundHalfEven

LEMMA ProfileIsNat ==
    ASSUME NEW p \in PROFILES
    PROVE  RiskProfile(p) \in [stake : Nat, loss : Nat, win : Nat, max : Nat]
BY DEF PROFILES, RiskProfile

LEMMA ReferencesAreInts == References \subseteq Int
<1>1. \A cfg \in Settings : cfg.bankroll \in Int
  <2>1. SUFFICES ASSUME NEW cfg \in Settings PROVE cfg.bankroll \in Int
    OBVIOUS
  <2>2. cfg \in [profile : PROFILES, pct : Nat, min : Nat, max : Nat, bankroll : Nat]
    BY SessionAssumption
  <2> QED  BY <2>2
<1>2. Balances \subseteq Int
  BY SessionAssumption
<1> QED  BY <1>1, <1>2 DEF References

LEMMA RowTypes ==
    ASSUME NEW row \in Rows
    PROVE  row.base \in Int /\ row.reference \in References
<1>1. PICK r \in References, cfg \in Settings, src \in Sources :
         row = BuildSession(r, cfg, src)
  BY DEF Rows
<1>2. r \in Int
  BY ReferencesAreInts
<1>3. cfg \in [profile : PROFILES, pct : Nat, min : Nat, max : Nat, bankroll : Nat]
  BY SessionAssumption
<1>4. RiskProfile(cfg.profile) \in [stake : Nat, loss : Nat, win : Nat, max : Nat]
  BY <1>3, ProfileIsNat
<1> DEFINE
  pct == IF cfg.pct > 0 THEN cfg.pct ELSE RiskProfile(cfg.profile).stake
  floor == IF cfg.min # 0 THEN cfg.min ELSE DefaultStakeMin
  ceiling == IF cfg.max # 0 THEN cfg.max ELSE PctOf(r, RiskProfile(cfg.profile).max)
<1>5. pct \in Int
  BY <1>3, <1>4
<1>6. floor \in Int
  BY <1>3 DEF DefaultStakeMin
<1>7. PctOf(r, RiskProfile(cfg.profile).max) \in Int
  <2>1. RiskProfile(cfg.profile).max \in Int
    BY <1>4
  <2>2. r * RiskProfile(cfg.profile).max \in Int
    BY <1>2, <2>1
  <2> QED  BY <2>2, RoundIsInt DEF PctOf
<1>8. ceiling \in Int
  BY <1>3, <1>7
<1>9. DailyBaseStake(r, pct, floor, ceiling) \in Int
  <2> HIDE DEF pct, floor, ceiling
  <2>1. r * pct \in Int /\ 10000 * floor \in Int /\ 10000 * ceiling \in Int
    BY <1>2, <1>5, <1>6, <1>8
  <2>2. Greatest(10000 * floor, Least(10000 * ceiling, r * pct)) \in Int
    BY <2>1 DEF Greatest, Least
  <2> QED  BY <2>2, RoundIsInt DEF DailyBaseStake
<1>10. row.base = DailyBaseStake(r, pct, floor, ceiling) /\ row.reference = r
  BY <1>1 DEF BuildSession
<1> QED  BY <1>9, <1>10

-----------------------------------------------------------------------------
(* A session once chosen stays.                                             *)
Kept == \A d \in Dates : session[d] # None => session'[d] = session[d]

(* What the insert leaves: a row for the call's day, the others untouched.  *)
LEMMA InsertedIsRow ==
    ASSUME SessionInv, NEW c \in Callers, stage[c] = "upsert", session' = Inserted(c)
    PROVE  /\ session' \in [Dates -> Rows \cup {None}]
           /\ session'[mine[c].date] \in Rows
           /\ Kept
           /\ \A d \in Dates : d # mine[c].date => session'[d] = session[d]
<1> DEFINE d == mine[c].date
<1>1. CallInv(c)
  BY DEF SessionInv
<1>2. d \in Dates /\ Built(c) \in Rows
  <2>1. /\ mine[c].reference \in References /\ mine[c].cfg \in Settings
        /\ mine[c].source \in Sources /\ d \in Dates
    BY <1>1 DEF CallInv
  <2> QED  BY <2>1 DEF Built, Rows
<1>3. session \in [Dates -> Rows \cup {None}]
  BY DEF SessionInv
<1>4. CASE session[d] = None
  <2>1. session' = [session EXCEPT ![d] = Built(c)]
    BY <1>4 DEF Inserted
  <2> QED  BY <1>2, <1>3, <1>4, <2>1 DEF Kept
<1>5. CASE session[d] # None
  <2>1. session' = session
    BY <1>5 DEF Inserted
  <2> QED  BY <1>2, <1>3, <1>5, <2>1 DEF Kept
<1> QED  BY <1>4, <1>5

(* An entry that came from a session still does when sessions are kept.     *)
LEMMA EntriesKept ==
    ASSUME SessionInv, Kept, entries' = entries
    PROVE  EntryFromASession'
BY DEF SessionInv, Kept, EntryFromASession

(* The end of a call: the caller starts over, with a base stake that is the *)
(* YAML's or that of a row of its day.                                      *)
LEMMA FinishKeepsInv ==
    ASSUME SessionInv, NEW c \in Callers, NEW base, Finish(c, base),
           UNCHANGED world, session' \in [Dates -> Rows \cup {None}], Kept,
           answers' \subseteq Dates \X Rows,
           \/ base = DefaultStake
           \/ /\ base \in Nat
              /\ mine[c].date \in Dates /\ session'[mine[c].date] # None
              /\ session'[mine[c].date].base = base
    PROVE  SessionInv'
<1>1. date' = date /\ balance' = balance /\ settings' = settings
  BY DEF world
<1>2. stage' = [stage EXCEPT ![c] = First(c)] /\ mine' = [mine EXCEPT ![c] = Nothing]
  BY DEF Finish, MoveTo
<1>3. /\ stage \in [Callers -> {"settings", "date", "look", "fetch", "upsert"}]
      /\ mine \in [Callers -> [cfg : Settings \cup {None}, date : Dates \cup {0},
                               reference : Int, source : Sources \cup {"none"}]]
      /\ \A x \in Callers : CallInv(x)
      /\ date \in Dates /\ date \in Nat
  BY SessionAssumption DEF SessionInv
<1>4. \A x \in Callers : CallInv(x)'
  <2>1. SUFFICES ASSUME NEW x \in Callers PROVE CallInv(x)'
    OBVIOUS
  <2>2. CASE x = c
    BY <1>1, <1>2, <1>3, <2>2 DEF CallInv, First, Nothing
  <2>3. CASE x # c
    <3>1. stage'[x] = stage[x] /\ mine'[x] = mine[x]
      BY <1>2, <1>3, <2>3
    <3> QED  BY <1>1, <1>3, <3>1 DEF CallInv
  <2> QED  BY <2>2, <2>3
<1>5. base \in Nat
  BY SessionAssumption
<1>6. entries' \subseteq Dates \X Nat
  BY <1>3, <1>5 DEF Finish, SessionInv
<1>7. EntryFromASession'
  <2>1. SUFFICES ASSUME NEW e \in entries'
                 PROVE  \/ e[2] = DefaultStake
                        \/ \E d \in Dates : d <= e[1] /\ session'[d] # None
                                            /\ session'[d].base = e[2]
    BY DEF EntryFromASession
  <2>2. CASE e \in entries
    BY <2>2 DEF SessionInv, EntryFromASession, Kept
  <2>3. CASE e = <<date, base>>
    BY <1>3, <2>3 DEF CallInv
  <2> QED  BY <2>1, <2>2, <2>3 DEF Finish
<1>8. stage' \in [Callers -> {"settings", "date", "look", "fetch", "upsert"}]
  BY <1>2, <1>3 DEF First
<1>9. mine' \in [Callers -> [cfg : Settings \cup {None}, date : Dates \cup {0},
                            reference : Int, source : Sources \cup {"none"}]]
  BY <1>2, <1>3 DEF Nothing
<1> QED  BY <1>1, <1>4, <1>6, <1>7, <1>8, <1>9 DEF SessionInv

(* A caller that moves on without ending: its own facts suffice.            *)
LEMMA MoveKeepsInv ==
    ASSUME SessionInv, NEW c \in Callers, NEW p \in {"settings", "date", "look", "fetch", "upsert"},
           NEW m \in [cfg : Settings \cup {None}, date : Dates \cup {0},
                      reference : Int, source : Sources \cup {"none"}],
           stage' = [stage EXCEPT ![c] = p], mine' = [mine EXCEPT ![c] = m],
           UNCHANGED <<world, session, answers, entries>>,
           CallInv(c)'
    PROVE  SessionInv'
<1>1. UNCHANGED <<date, balance, settings, session, answers, entries>>
  BY DEF world
<1>2. \A x \in Callers : CallInv(x)'
  <2>1. SUFFICES ASSUME NEW x \in Callers, x # c PROVE CallInv(x)'
    OBVIOUS
  <2>2. stage'[x] = stage[x] /\ mine'[x] = mine[x] /\ CallInv(x)
    BY <2>1 DEF SessionInv
  <2> QED  BY <1>1, <2>2 DEF CallInv
<1>3. EntryFromASession'
  BY <1>1, EntriesKept DEF Kept
<1>4. stage' \in [Callers -> {"settings", "date", "look", "fetch", "upsert"}]
  BY DEF SessionInv
<1>5. mine' \in [Callers -> [cfg : Settings \cup {None}, date : Dates \cup {0},
                            reference : Int, source : Sources \cup {"none"}]]
  BY DEF SessionInv
<1> QED  BY <1>1, <1>2, <1>3, <1>4, <1>5 DEF SessionInv

-----------------------------------------------------------------------------
(* A row that is there answers the call.                                    *)
LEMMA ReturnKeepsInv ==
    ASSUME SessionInv, NEW c \in Callers, NEW row \in Rows, Return(c, row),
           UNCHANGED world, session' \in [Dates -> Rows \cup {None}], Kept,
           mine[c].date \in Dates, session'[mine[c].date] = row
    PROVE  SessionInv'
<1> DEFINE base == IF row.base > 0 THEN row.base ELSE DefaultStake
<1>1. Finish(c, base)
  BY DEF Return
<1>2. row.base \in Int /\ row # None
  BY RowTypes, SessionAssumption
<1>3. answers' \subseteq Dates \X Rows
  BY DEF Return, SessionInv
<1>4. \/ base = DefaultStake
      \/ /\ base \in Nat
         /\ mine[c].date \in Dates /\ session'[mine[c].date] # None
         /\ session'[mine[c].date].base = base
  BY <1>2
<1> HIDE DEF base
<1> QED  BY <1>1, <1>3, <1>4, FinishKeepsInv

LEMMA InitInv == SessionInit => SessionInv
<1> SUFFICES ASSUME SessionInit PROVE SessionInv
  OBVIOUS
<1>1. \A c \in Callers : CallInv(c)
  BY SessionAssumption DEF SessionInit, CallInv, Nothing, First
<1>2. EntryFromASession
  BY DEF SessionInit, EntryFromASession
<1> QED  BY <1>1, <1>2, SessionAssumption DEF SessionInit, SessionInv, Nothing, First

LEMMA StepInv == SessionInv /\ [SessionNext]_sessionVars => SessionInv'
<1> SUFFICES ASSUME SessionInv, [SessionNext]_sessionVars PROVE SessionInv'
  OBVIOUS
<1> DEFINE
  Stages == {"settings", "date", "look", "fetch", "upsert"}
  Calls == [cfg : Settings \cup {None}, date : Dates \cup {0},
            reference : Int, source : Sources \cup {"none"}]
<1>t. /\ date \in Dates /\ date \in Nat /\ balance \in Balances /\ settings \in Settings
      /\ session \in [Dates -> Rows \cup {None}]
      /\ stage \in [Callers -> Stages] /\ mine \in [Callers -> Calls]
      /\ \A c \in Callers : CallInv(c)
  BY SessionAssumption DEF SessionInv
<1>1. ASSUME NEW c \in Callers, ReadSettings(c) PROVE SessionInv'
  <2> DEFINE m == [mine[c] EXCEPT !.cfg = settings]
             p == IF c \in Beat THEN "look" ELSE "date"
  <2>1. m \in Calls /\ p \in Stages
    BY <1>t
  <2>2. stage' = [stage EXCEPT ![c] = p] /\ mine' = [mine EXCEPT ![c] = m]
    BY <1>1, <1>t DEF ReadSettings, MoveTo
  <2>3. UNCHANGED <<world, session, answers, entries>>
    BY <1>1 DEF ReadSettings
  <2>4. CallInv(c)'
    BY <1>1, <1>t, <2>2, <2>3 DEF CallInv, ReadSettings, world
  <2> HIDE DEF m, p
  <2> QED  BY <2>1, <2>2, <2>3, <2>4, MoveKeepsInv
<1>2. ASSUME NEW c \in Callers, ReadDate(c) PROVE SessionInv'
  <2> DEFINE m == [mine[c] EXCEPT !.date = date]
             p == IF c \in Beat THEN "settings" ELSE "look"
  <2>1. m \in Calls /\ p \in Stages
    BY <1>t
  <2>2. stage' = [stage EXCEPT ![c] = p] /\ mine' = [mine EXCEPT ![c] = m]
    BY <1>2, <1>t DEF ReadDate, MoveTo
  <2>3. UNCHANGED <<world, session, answers, entries>>
    BY <1>2 DEF ReadDate
  <2>4. CallInv(c)'
    BY <1>2, <1>t, <2>2, <2>3 DEF CallInv, ReadDate, world
  <2> HIDE DEF m, p
  <2> QED  BY <2>1, <2>2, <2>3, <2>4, MoveKeepsInv
<1>3. ASSUME NEW c \in Callers, Look(c) PROVE SessionInv'
  <2> DEFINE d == mine[c].date
  <2>1. d \in Dates /\ UNCHANGED <<world, session>>
    BY <1>3, <1>t DEF CallInv, Look
  <2>2. CASE session[d] # None
    <3>1. session[d] \in Rows /\ session'[d] = session[d]
      BY <1>t, <2>1, <2>2
    <3>2. Return(c, session[d])
      BY <1>3, <2>2 DEF Look
    <3>3. Kept /\ session' \in [Dates -> Rows \cup {None}]
      BY <1>t, <2>1 DEF Kept
    <3>4. UNCHANGED world
      BY <2>1
    <3> QED  BY <2>1, <3>1, <3>2, <3>3, <3>4, ReturnKeepsInv
  <2>3. CASE session[d] = None
    <3>1. stage' = [stage EXCEPT ![c] = "fetch"] /\ UNCHANGED <<mine, answers, entries>>
      BY <1>3, <2>3 DEF Look, MoveTo
    <3>2. mine' = [mine EXCEPT ![c] = mine[c]] /\ mine[c] \in Calls
      BY <1>t, <3>1
    <3>3. UNCHANGED <<world, session, answers, entries>>
      BY <2>1, <3>1
    <3>4. CallInv(c)'
      BY <1>3, <1>t, <3>1, <3>3 DEF CallInv, Look, world
    <3>5. "fetch" \in Stages
      OBVIOUS
    <3> QED  BY <3>1, <3>2, <3>3, <3>4, <3>5, MoveKeepsInv
  <2> QED  BY <2>2, <2>3
<1>4. ASSUME NEW c \in Callers, Fetch(c) PROVE SessionInv'
  <2>1. PICK r \in References, src \in Sources : Resolved(c, r, src)
    <3>1. CASE balance > 0 /\ Resolved(c, balance, IF c \in Beat THEN "beat" ELSE "live")
      BY <1>t, <3>1 DEF References, Sources
    <3>2. CASE mine[c].cfg.bankroll > 0 /\ Resolved(c, mine[c].cfg.bankroll, "fallback")
      <4>1. mine[c].cfg \in Settings
        BY <1>4, <1>t DEF CallInv, Fetch
      <4> QED  BY <3>2, <4>1 DEF References, Sources
    <3>3. CASE \E d \in Dates : Latest(d) /\ Resolved(c, session[d].reference, "fallback")
      <4>1. PICK d \in Dates : Latest(d) /\ Resolved(c, session[d].reference, "fallback")
        BY <3>3
      <4>2. session[d] \in Rows
        BY <1>t, <4>1 DEF Latest
      <4>3. session[d].reference \in References
        BY <4>2, RowTypes
      <4> QED  BY <4>1, <4>3 DEF Sources
    <3> QED  BY <1>4, <3>1, <3>2, <3>3 DEF Fetch
  <2> DEFINE m == [mine[c] EXCEPT !.reference = r, !.source = src]
  <2>2. m \in Calls
    BY <1>t, ReferencesAreInts
  <2>3. stage' = [stage EXCEPT ![c] = "upsert"] /\ mine' = [mine EXCEPT ![c] = m]
    BY <1>t, <2>1 DEF Resolved, MoveTo
  <2>4. UNCHANGED <<world, session, answers, entries>>
    BY <1>4, <2>1 DEF Fetch, Resolved
  <2>5. CallInv(c)'
    BY <1>4, <1>t, <2>3, <2>4 DEF CallInv, Fetch, world
  <2>6. "upsert" \in Stages
    OBVIOUS
  <2> HIDE DEF m
  <2> QED  BY <2>2, <2>3, <2>4, <2>5, <2>6, MoveKeepsInv
<1>5. ASSUME NEW c \in Callers, Upsert(c) PROVE SessionInv'
  <2>1. /\ session' \in [Dates -> Rows \cup {None}]
        /\ session'[mine[c].date] \in Rows /\ Kept
    BY <1>5, InsertedIsRow DEF Upsert
  <2>2. mine[c].date \in Dates
    BY <1>5, <1>t DEF CallInv, Upsert
  <2>3. Return(c, session'[mine[c].date]) /\ UNCHANGED world
    BY <1>5 DEF Upsert
  <2> QED  BY <2>1, <2>2, <2>3, ReturnKeepsInv
<1>6. ASSUME NEW c \in Callers, Raise(c) PROVE SessionInv'
  <2>1. session' \in [Dates -> Rows \cup {None}] /\ Kept
    BY <1>6, <1>t, InsertedIsRow DEF Raise, Kept
  <2>2. answers' \subseteq Dates \X Rows
    BY <1>6 DEF Raise, SessionInv
  <2>3. Finish(c, DefaultStake) /\ UNCHANGED world
    BY <1>6 DEF Raise
  <2> QED  BY <2>1, <2>2, <2>3, FinishKeepsInv
<1>7. CASE SaveSettings \/ Trade
  <2>1. UNCHANGED <<date, session, stage, mine, answers, entries>>
    BY <1>7 DEF SaveSettings, Trade
  <2>2. balance' \in Balances /\ settings' \in Settings
    BY <1>7, <1>t DEF SaveSettings, Trade
  <2>3. \A c \in Callers : CallInv(c)'
    BY <1>t, <2>1 DEF CallInv
  <2>4. EntryFromASession'
    BY <2>1, EntriesKept DEF Kept
  <2> QED  BY <2>1, <2>2, <2>3, <2>4 DEF SessionInv
<1>8. CASE Midnight
  <2>1. /\ UNCHANGED <<balance, settings, session, stage, mine, answers, entries>>
        /\ date' \in Dates /\ date' = date + 1
    BY <1>8 DEF Midnight
  <2>2. \A c \in Callers : CallInv(c)'
    <3>1. SUFFICES ASSUME NEW c \in Callers PROVE CallInv(c)'
      OBVIOUS
    <3>2. CallInv(c) /\ mine[c].date \in Dates \cup {0}
      BY <1>t DEF CallInv
    <3>3. \A x \in Dates \cup {0} : x \in Nat
      BY SessionAssumption
    <3>4. mine[c].date \in Nat
      BY <3>2, <3>3
    <3> QED  BY <1>t, <2>1, <3>2, <3>4 DEF CallInv
  <2>3. EntryFromASession'
    BY <2>1, EntriesKept DEF Kept
  <2> QED  BY <2>1, <2>2, <2>3 DEF SessionInv
<1>9. CASE UNCHANGED sessionVars
  <2>1. UNCHANGED <<date, balance, settings, session, stage, mine, answers, entries>>
    BY <1>9 DEF sessionVars
  <2>2. \A c \in Callers : CallInv(c)'
    BY <1>t, <2>1 DEF CallInv
  <2>3. EntryFromASession'
    BY <2>1, EntriesKept DEF Kept
  <2> QED  BY <2>1, <2>2, <2>3 DEF SessionInv
<1> QED  BY <1>1, <1>2, <1>3, <1>4, <1>5, <1>6, <1>7, <1>8, <1>9 DEF SessionNext, Step

(* The inductive invariant: what each call has read by the step it stands   *)
(* at, so that what it inserts is a row of a day it may speak of.           *)
THEOREM CallsKeepTheirReads == SessionSpec => []SessionInv
BY InitInv, StepInv, PTL DEF SessionSpec

-----------------------------------------------------------------------------
(* The types of the state, rows and answers included.                       *)
THEOREM SessionTypeCorrect == SessionSpec => []SessionTypeOK
<1>1. SessionInv => SessionTypeOK
  BY DEF SessionInv, CallInv, SessionTypeOK
<1> QED  BY <1>1, CallsKeepTheirReads, PTL

(* A leg's entry is the YAML's stake or that of the session of its own day  *)
(* or an earlier one, whatever races with its reading.                      *)
THEOREM EntriesComeFromSessions == SessionSpec => []EntryFromASession
<1>1. SessionInv => EntryFromASession
  BY DEF SessionInv
<1> QED  BY <1>1, CallsKeepTheirReads, PTL

-----------------------------------------------------------------------------
(* Steps of the abstract session. *)
LEMMA AnswerRefines ==
    ASSUME SessionInv, NEW c \in Callers, NEW row, Return(c, row), row # None,
           mine[c].date \in Dates, session'[mine[c].date] = row
    PROVE  Frozen!Answer(mine[c].date)
BY DEF Return, Frozen!Answer

LEMMA InsertRefines ==
    ASSUME SessionInv, NEW c \in Callers, stage[c] = "upsert", session' = Inserted(c)
    PROVE  Frozen!Freeze(mine[c].date) \/ UNCHANGED session
<1> DEFINE d == mine[c].date
<1>1. CASE session[d] = None
  <2>1. session' = [session EXCEPT ![d] = Built(c)]
    BY <1>1 DEF Inserted
  <2>2. Built(c) \in Rows
    <3>1. CallInv(c)
      BY DEF SessionInv
    <3> QED  BY <3>1 DEF CallInv, Built, Rows
  <2> QED  BY <1>1, <2>1, <2>2 DEF Frozen!Freeze
<1>2. CASE session[d] # None
  BY <1>2 DEF Inserted
<1> QED  BY <1>1, <1>2

LEMMA StepRefines ==
    SessionInv /\ [SessionNext]_sessionVars => [Frozen!Next]_<<session, answers>>
<1> SUFFICES ASSUME SessionInv, [SessionNext]_sessionVars
             PROVE  [Frozen!Next]_<<session, answers>>
  OBVIOUS
<1>t. \A c \in Callers : CallInv(c)
  BY DEF SessionInv
<1>1. ASSUME NEW c \in Callers, Look(c)
      PROVE  Frozen!Next \/ UNCHANGED <<session, answers>>
  <2> DEFINE d == mine[c].date
  <2>1. d \in Dates /\ session' = session
    BY <1>1, <1>t DEF CallInv, Look
  <2>2. CASE session[d] # None
    <3>1. Return(c, session[d]) /\ session'[d] = session[d]
      BY <1>1, <2>1, <2>2 DEF Look
    <3>2. Frozen!Answer(d)
      BY <2>1, <2>2, <3>1, AnswerRefines
    <3> QED  BY <2>1, <3>2 DEF Frozen!Next
  <2>3. CASE session[d] = None
    BY <1>1, <2>3 DEF Look
  <2> QED  BY <2>2, <2>3
<1>2. ASSUME NEW c \in Callers, Upsert(c)
      PROVE  Frozen!Next
  <2> DEFINE d == mine[c].date
  <2>1. d \in Dates
    BY <1>2, <1>t DEF CallInv, Upsert
  <2>2. Frozen!Freeze(d) \/ UNCHANGED session
    BY <1>2, InsertRefines DEF Upsert
  <2>3. session'[d] \in Rows
    BY <1>2, InsertedIsRow DEF Upsert
  <2>4. session'[d] # None
    BY <2>3, SessionAssumption
  <2>5. Return(c, session'[d])
    BY <1>2 DEF Upsert
  <2>6. Frozen!Answer(d)
    BY <2>1, <2>4, <2>5, AnswerRefines
  <2> QED  BY <2>1, <2>2, <2>6 DEF Frozen!Next
<1>3. ASSUME NEW c \in Callers, Raise(c)
      PROVE  Frozen!Next \/ UNCHANGED <<session, answers>>
  <2>1. answers' = answers
    BY <1>3 DEF Raise
  <2>2. CASE UNCHANGED session
    BY <2>1, <2>2
  <2>3. CASE stage[c] = "upsert" /\ session' = Inserted(c)
    <3>1. mine[c].date \in Dates
      BY <1>t, <2>3 DEF CallInv
    <3>2. Frozen!Freeze(mine[c].date) \/ UNCHANGED session
      BY <2>3, InsertRefines
    <3> QED  BY <2>1, <3>1, <3>2 DEF Frozen!Next
  <2> QED  BY <1>3, <2>2, <2>3 DEF Raise
<1>4. ASSUME NEW c \in Callers, ReadSettings(c) \/ ReadDate(c) \/ Fetch(c)
      PROVE  UNCHANGED <<session, answers>>
  BY <1>4 DEF ReadSettings, ReadDate, Fetch, Resolved
<1>5. CASE SaveSettings \/ Trade \/ Midnight \/ UNCHANGED sessionVars
  BY <1>5 DEF SaveSettings, Trade, Midnight, sessionVars
<1> QED  BY <1>1, <1>2, <1>3, <1>4, <1>5 DEF SessionNext, Step

(* A day's session is chosen once and every caller is told that one: the    *)
(* calls of ensure_daily_session and of the midnight task, interleaved in   *)
(* any way, implement the abstract frozen session.                          *)
THEOREM SessionIsFrozen == SessionSpec => ImplementsFrozenSession
<1>1. SessionInit => Frozen!Init
  BY DEF SessionInit, Frozen!Init
<1>2. SessionInv /\ [SessionNext]_sessionVars => [Frozen!Next]_<<session, answers>>
  BY StepRefines
<1> QED  BY <1>1, <1>2, CallsKeepTheirReads, PTL DEF SessionSpec, ImplementsFrozenSession, Frozen!Spec
=============================================================================
