------------------------- MODULE OtcSchedule_proofs -------------------------
(***************************************************************************)
(* Theorems about OtcSchedule for any signals, any lengths of the second,  *)
(* the minute and the day, and a clock that runs on without bound: a leg   *)
(* is let through at its time of day, and given up only when it is too     *)
(* late.                                                                   *)
(***************************************************************************)
EXTENDS OtcSchedule, NaturalsInduction, WellFoundedInduction, TLAPS

(* What the two latenesses of the profile are held to (0 and 30 seconds in  *)
(* otc.yaml): less than half a day for the entry, than a minute for a       *)
(* protection.                                                              *)
LatenessIsShort ==
    /\ EntryLateness < (Day \div 2) \div Second
    /\ ProtLateness < Minute \div Second

-----------------------------------------------------------------------------
(***************************************************************************)
(* Arithmetic.                                                             *)
(***************************************************************************)
LEMMA Division ==
    ASSUME NEW n \in Int, NEW d \in Int, d > 0
    PROVE  /\ n \div d \in Int /\ n % d \in Int
           /\ n = (n \div d) * d + (n % d)
           /\ 0 <= n % d /\ n % d < d
<1>1. n = d * (n \div d) + (n % d)
  OBVIOUS
<1>2. n \div d \in Int /\ n % d \in Int /\ 0 <= n % d /\ n % d < d
  OBVIOUS
<1>3. d * (n \div d) = (n \div d) * d
  BY <1>2
<1> QED
  BY <1>1, <1>2, <1>3

LEMMA TimesGrows ==
    ASSUME NEW a \in Int, NEW b \in Int, NEW c \in Nat, a <= b
    PROVE  a * c \in Int /\ b * c \in Int /\ a * c <= b * c
<1>1. (b - a) * c >= 0 /\ (b - a) * c = b * c - a * c
  OBVIOUS
<1> QED
  BY <1>1

LEMMA OneRemainder ==
    ASSUME NEW n \in Int, NEW d \in Nat, d > 0, NEW q \in Int, NEW r \in Int,
           n = q * d + r, 0 <= r, r < d
    PROVE  n \div d = q /\ n % d = r
<1> DEFINE p == n \div d
           s == n % d
<1>1. p \in Int /\ s \in Int /\ n = p * d + s /\ 0 <= s /\ s < d
  BY Division
<1> HIDE DEF p, s
<1>2. ~(p < q)
  <2> SUFFICES ASSUME p <= q - 1 PROVE FALSE
    BY <1>1
  <2>1. p * d <= (q - 1) * d
    BY <1>1, TimesGrows
  <2>2. (q - 1) * d = q * d - d
    OBVIOUS
  <2>3. q * d \in Int /\ p * d \in Int
    BY <1>1
  <2> QED
    BY <1>1, <2>1, <2>2, <2>3
<1>3. ~(q < p)
  <2> SUFFICES ASSUME q <= p - 1 PROVE FALSE
    BY <1>1
  <2>1. q * d <= (p - 1) * d
    BY <1>1, TimesGrows
  <2>2. (p - 1) * d = p * d - d
    BY <1>1
  <2>3. q * d \in Int /\ p * d \in Int
    BY <1>1
  <2> QED
    BY <1>1, <2>1, <2>2, <2>3
<1>4. p = q
  BY <1>1, <1>2, <1>3
<1>5. q * d \in Int
  OBVIOUS
<1> QED
  BY <1>1, <1>4, <1>5 DEF p, s

LEMMA DivGrows ==
    ASSUME NEW a \in Int, NEW b \in Int, NEW d \in Nat, d > 0, a <= b
    PROVE  a \div d <= b \div d
<1> DEFINE p == a \div d
           q == b \div d
<1>1. /\ p \in Int /\ q \in Int /\ p * d <= a /\ a < p * d + d
      /\ q * d <= b /\ b < q * d + d /\ p * d \in Int /\ q * d \in Int
  BY Division
<1> HIDE DEF p, q
<1> SUFFICES ASSUME q + 1 <= p PROVE FALSE
  BY <1>1 DEF p, q
<1>2. (q + 1) * d <= p * d /\ (q + 1) * d = q * d + d
  BY <1>1, TimesGrows
<1> QED
  BY <1>1, <1>2

LEMMA Lengths ==
    /\ Second \in Nat /\ Second > 0 /\ Minute \in Nat /\ Minute > 0 /\ Day \in Nat /\ Day > 0
    /\ Day \div 2 \in Nat /\ Day = 2 * (Day \div 2) /\ Minute < Day \div 2
    /\ Day \div Minute \in Nat /\ (Day \div Minute) * Minute = Day
<1>1. /\ Second \in Nat /\ Second > 0 /\ Minute \in Nat /\ Minute > 0 /\ Day \in Nat /\ Day > 0
      /\ Day % (2 * Minute) = 0 /\ Day > 2 * Minute
  BY ScheduleAssumption
<1> DEFINE k == Day \div (2 * Minute)
<1>2. k \in Int /\ Day = k * (2 * Minute)
  BY <1>1, Division
<1> HIDE DEF k
<1>3. Day = (k * Minute) * 2 + 0 /\ k * Minute \in Int
  BY <1>1, <1>2
<1>4. Day \div 2 = k * Minute
  BY <1>1, <1>3, OneRemainder
<1>5. Day = (2 * k) * Minute + 0 /\ 2 * k \in Int
  BY <1>1, <1>2
<1>6. Day \div Minute = 2 * k
  BY <1>1, <1>5, OneRemainder
<1>7. k >= 0
  <2> SUFFICES ASSUME k <= -1 PROVE FALSE
    BY <1>2
  <2>1. k * Minute <= (-1) * Minute
    BY <1>1, <1>2, TimesGrows
  <2> QED
    BY <1>1, <1>3, <2>1
<1>8. 0 * Minute <= k * Minute
  BY <1>1, <1>2, <1>7, TimesGrows
<1> DEFINE half == k * Minute
<1>9. half \in Int /\ 0 <= half /\ Day = 2 * half /\ Minute < half
  <2>1. Day = half * 2 /\ half \in Int
    BY <1>3
  <2> HIDE DEF half
  <2>2. 0 <= half
    BY <1>1, <1>8 DEF half
  <2> QED
    BY <1>1, <2>1, <2>2
<1>10. Day \div 2 = half
  BY <1>4
<1>11. Day \div Minute \in Nat
  BY <1>2, <1>6, <1>7
<1>12. (Day \div Minute) * Minute = Day
  BY <1>1, <1>5, <1>6
<1> HIDE DEF half
<1> QED
  BY <1>1, <1>9, <1>10, <1>11, <1>12

-----------------------------------------------------------------------------
(***************************************************************************)
(* Dates of a time of day.                                                 *)
(***************************************************************************)
HalfDay == Day \div 2
Minutes == 0..(Day \div Minute) - 1

(* d is the given minute of some day.                                       *)
IsTimeOfDay(d, minute) == \E n \in Int : d = n * Day + minute * Minute

LEMMA MinuteOfDay ==
    ASSUME NEW minute \in Minutes
    PROVE  minute * Minute \in Int /\ 0 <= minute * Minute /\ minute * Minute < Day
<1>1. minute \in Int /\ 0 <= minute /\ minute <= (Day \div Minute) - 1
  BY Lengths DEF Minutes
<1>2. minute * Minute <= ((Day \div Minute) - 1) * Minute
  BY <1>1, Lengths, TimesGrows
<1>3. ((Day \div Minute) - 1) * Minute = Day - Minute
  BY Lengths
<1>4. 0 * Minute <= minute * Minute
  BY <1>1, Lengths, TimesGrows
<1> QED
  BY <1>1, <1>2, <1>3, <1>4, Lengths

(* The date of a reading, and the same minute on the days around it.        *)
LEMMA DayOfReading ==
    ASSUME NEW t \in Int, NEW minute \in Minutes
    PROVE  LET c == DateOf(t) + minute * Minute
           IN  /\ c \in Int /\ t - Day < c /\ c < t + Day
               /\ IsTimeOfDay(c, minute) /\ IsTimeOfDay(c + Day, minute)
               /\ IsTimeOfDay(c - Day, minute)
<1> DEFINE q == t \div Day
           r == t % Day
           x == minute * Minute
           c == DateOf(t) + x
<1>1. q \in Int /\ t = q * Day + r /\ 0 <= r /\ r < Day /\ r \in Int
  BY Lengths, Division
<1>2. x \in Int /\ 0 <= x /\ x < Day
  BY MinuteOfDay
<1>3. c = q * Day + x
  BY DEF DateOf
<1> HIDE DEF q, r, x, c
<1>4. (q + 1) * Day = q * Day + Day /\ (q - 1) * Day = q * Day - Day /\ q * Day \in Int
  BY <1>1, Lengths
<1>5. c \in Int /\ t - Day < c /\ c < t + Day
  BY <1>1, <1>2, <1>3, <1>4, Lengths
<1>6. \A n \in Int : n * Day + x = n * Day + minute * Minute
  BY DEF x
<1>7. /\ IsTimeOfDay(q * Day + x, minute) /\ IsTimeOfDay((q + 1) * Day + x, minute)
      /\ IsTimeOfDay((q - 1) * Day + x, minute)
  <2>1. \A n \in Int : IsTimeOfDay(n * Day + x, minute)
    BY <1>6 DEF IsTimeOfDay
  <2> QED
    BY <1>1, <2>1
<1>8. c + Day = (q + 1) * Day + x /\ c - Day = (q - 1) * Day + x
  BY <1>2, <1>3, <1>4, Lengths
<1> QED
  BY <1>3, <1>5, <1>7, <1>8 DEF c, x

(* The same minute of two days: they are days apart, and so far as the time *)
(* of day goes a reading is as late for the one as for the other.           *)
LEMMA DaysApart ==
    ASSUME NEW minute \in Minutes, NEW d \in Int, NEW e \in Int,
           IsTimeOfDay(d, minute), IsTimeOfDay(e, minute), d < e
    PROVE  d <= e - Day
<1>1. PICK n \in Int, m \in Int : d = n * Day + minute * Minute /\ e = m * Day + minute * Minute
  BY DEF IsTimeOfDay
<1> DEFINE x == minute * Minute
<1>2. x \in Int /\ n * Day \in Int /\ m * Day \in Int
  BY MinuteOfDay, Lengths
<1>3. d = n * Day + x /\ e = m * Day + x
  BY <1>1
<1> HIDE DEF x
<1>4. n * Day < m * Day
  BY <1>2, <1>3
<1>5. n < m
  <2> SUFFICES ASSUME m <= n PROVE FALSE
    OBVIOUS
  <2>1. m * Day <= n * Day
    BY Lengths, TimesGrows
  <2> QED
    BY <1>2, <1>4, <2>1
<1>6. n * Day <= (m - 1) * Day /\ (m - 1) * Day = m * Day - Day
  <2>1. n <= m - 1
    BY <1>5
  <2> QED
    BY <2>1, Lengths, TimesGrows
<1> QED
  BY <1>2, <1>3, <1>6, Lengths

LEMMA SameTimeOfDay ==
    ASSUME NEW minute \in Minutes, NEW d \in Int, NEW e \in Int, NEW t \in Int,
           IsTimeOfDay(d, minute), IsTimeOfDay(e, minute), d <= t
    PROVE  /\ (t - e) % Day \in Int /\ 0 <= (t - e) % Day
           /\ (t - e) % Day <= t - d
<1>1. PICK n \in Int, m \in Int : d = n * Day + minute * Minute /\ e = m * Day + minute * Minute
  BY DEF IsTimeOfDay
<1> DEFINE x == minute * Minute
           q == (t - d) \div Day
           r == (t - d) % Day
<1>2. x \in Int /\ n * Day \in Int /\ m * Day \in Int
  BY MinuteOfDay, Lengths
<1>3. d = n * Day + x /\ e = m * Day + x
  BY <1>1
<1>4. q \in Int /\ r \in Int /\ t - d = q * Day + r /\ 0 <= r /\ r < Day
  BY Lengths, Division
<1>5. q >= 0
  <2>1. 0 \div Day <= (t - d) \div Day
    BY Lengths, DivGrows
  <2>2. 0 \div Day = 0
    BY Lengths
  <2> QED
    BY <2>1, <2>2
<1> HIDE DEF x, q, r
<1>6. t - e = (q + n - m) * Day + r
  <2>1. (q + n - m) * Day = q * Day + n * Day - m * Day
    BY <1>4, Lengths
  <2>2. q * Day \in Int
    BY <1>4, Lengths
  <2> QED
    BY <1>2, <1>3, <1>4, <2>1, <2>2
<1>7. (t - e) % Day = r
  <2> DEFINE late == t - e
             days == q + n - m
  <2>1. late \in Int /\ days \in Int /\ late = days * Day + r
    BY <1>4, <1>6
  <2> HIDE DEF late, days
  <2>2. late % Day = r
    BY <1>4, <2>1, Lengths, OneRemainder
  <2> QED
    BY <2>2 DEF late
<1>8. r <= t - d
  <2>1. 0 * Day <= q * Day
    BY <1>4, <1>5, Lengths, TimesGrows
  <2> QED
    BY <1>4, <2>1, Lengths
<1> QED
  BY <1>4, <1>7, <1>8

(* resolve_leg_datetime: never more than half a day before the reading.     *)
LEMMA ResolvedDate ==
    ASSUME NEW t \in Int, NEW minute \in Minutes
    PROVE  /\ OnDate(minute, t) \in Int
           /\ IsTimeOfDay(OnDate(minute, t), minute)
           /\ t - HalfDay <= OnDate(minute, t) /\ OnDate(minute, t) < t + Day
<1> DEFINE c == DateOf(t) + minute * Minute
<1>1. /\ c \in Int /\ t - Day < c /\ c < t + Day
      /\ IsTimeOfDay(c, minute) /\ IsTimeOfDay(c + Day, minute)
  BY DayOfReading
<1>2. OnDate(minute, t) = IF c < t - HalfDay THEN c + Day ELSE c
  BY DEF OnDate, HalfDay
<1>3. HalfDay \in Nat /\ Day = 2 * HalfDay
  BY Lengths DEF HalfDay
<1> HIDE DEF c
<1> QED
  BY <1>1, <1>2, <1>3, Lengths

LEMMA NearestDate ==
    ASSUME NEW t \in Int, NEW minute \in Minutes
    PROVE  /\ Nearest(minute, t) \in Int /\ IsTimeOfDay(Nearest(minute, t), minute)
           /\ t - HalfDay < Nearest(minute, t) /\ Nearest(minute, t) <= t + HalfDay
<1> DEFINE c == DateOf(t) + minute * Minute
           Dates == {DateOf(t) + k * Day + minute * Minute : k \in {-1, 0, 1}}
           Fits(d) == d > t - HalfDay /\ d <= t + HalfDay
<1>1. /\ c \in Int /\ t - Day < c /\ c < t + Day
      /\ IsTimeOfDay(c, minute) /\ IsTimeOfDay(c + Day, minute)
      /\ IsTimeOfDay(c - Day, minute)
  BY DayOfReading
<1>2. HalfDay \in Nat /\ Day = 2 * HalfDay
  BY Lengths DEF HalfDay
<1>3. Dates = {c - Day, c, c + Day}
  <2>1. DateOf(t) \in Int /\ minute * Minute \in Int
    BY Lengths, MinuteOfDay, Division DEF DateOf
  <2>2. /\ DateOf(t) + (-1) * Day + minute * Minute = c - Day
        /\ DateOf(t) + 0 * Day + minute * Minute = c
        /\ DateOf(t) + 1 * Day + minute * Minute = c + Day
    BY <2>1, Lengths
  <2> HIDE DEF c
  <2> QED
    BY <2>2
<1> HIDE DEF Dates, c
<1>4. \E d \in Dates : Fits(d)
  <2>1. CASE c > t + HalfDay
    BY <1>1, <1>2, <1>3, <2>1
  <2>2. CASE c <= t - HalfDay
    BY <1>1, <1>2, <1>3, <2>2
  <2>3. CASE c <= t + HalfDay /\ c > t - HalfDay
    BY <1>1, <1>2, <1>3, <2>3
  <2> QED
    BY <1>1, <1>2, <2>1, <2>2, <2>3
<1>5. Nearest(minute, t) = CHOOSE d \in Dates : Fits(d)
  BY DEF Nearest, HalfDay, Dates
<1>6. Nearest(minute, t) \in Dates /\ Fits(Nearest(minute, t))
  BY <1>4, <1>5
<1> QED
  BY <1>1, <1>3, <1>6, Lengths

LEMMA FirstDateFrom ==
    ASSUME NEW t \in Int, NEW minute \in Minutes
    PROVE  /\ FirstFrom(minute, t) \in Int /\ IsTimeOfDay(FirstFrom(minute, t), minute)
           /\ t <= FirstFrom(minute, t) /\ FirstFrom(minute, t) < t + Day
<1> DEFINE c == DateOf(t) + minute * Minute
           Dates == {DateOf(t) + k * Day + minute * Minute : k \in {0, 1}}
           Fits(d) == d >= t /\ d < t + Day
<1>1. /\ c \in Int /\ t - Day < c /\ c < t + Day
      /\ IsTimeOfDay(c, minute) /\ IsTimeOfDay(c + Day, minute)
  BY DayOfReading
<1>2. Dates = {c, c + Day}
  <2>1. DateOf(t) \in Int /\ minute * Minute \in Int
    BY Lengths, MinuteOfDay, Division DEF DateOf
  <2>2. /\ DateOf(t) + 0 * Day + minute * Minute = c
        /\ DateOf(t) + 1 * Day + minute * Minute = c + Day
    BY <2>1, Lengths
  <2> HIDE DEF c
  <2> QED
    BY <2>2
<1> HIDE DEF Dates, c
<1>3. \E d \in Dates : Fits(d)
  <2>1. CASE c >= t
    BY <1>1, <1>2, <2>1, Lengths
  <2>2. CASE c < t
    BY <1>1, <1>2, <2>2, Lengths
  <2> QED
    BY <1>1, <2>1, <2>2
<1>4. FirstFrom(minute, t) = CHOOSE d \in Dates : Fits(d)
  BY DEF FirstFrom, Dates
<1>5. FirstFrom(minute, t) \in Dates /\ Fits(FirstFrom(minute, t))
  BY <1>3, <1>4
<1> QED
  BY <1>1, <1>2, <1>5, Lengths

(* Two times of day, of whichever minutes: a minute apart at least.         *)
LEMMA MinutesApart ==
    ASSUME NEW x \in Minutes, NEW y \in Minutes, NEW d \in Int, NEW e \in Int,
           IsTimeOfDay(d, x), IsTimeOfDay(e, y), d < e
    PROVE  d <= e - Minute
<1> DEFINE m == Day \div Minute
<1>1. m \in Int /\ m * Minute = Day /\ Minute \in Nat /\ Minute > 0 /\ x \in Int /\ y \in Int
  BY Lengths DEF Minutes
<1> HIDE DEF m
<1>2. ASSUME NEW z \in Int, NEW n \in Int
      PROVE  n * m + z \in Int /\ n * Day + z * Minute = (n * m + z) * Minute
  <2>1. n * (m * Minute) = (n * m) * Minute /\ n * m \in Int
    BY <1>1
  <2>2. (n * m + z) * Minute = (n * m) * Minute + z * Minute
    BY <1>1, <2>1
  <2> QED
    BY <1>1, <2>1, <2>2
<1>3. PICK n \in Int : d = n * Day + x * Minute
  BY DEF IsTimeOfDay
<1>4. PICK k \in Int : e = k * Day + y * Minute
  BY DEF IsTimeOfDay
<1>5. PICK p \in Int : d = p * Minute
  BY <1>1, <1>2, <1>3, Zenon
<1>6. PICK q \in Int : e = q * Minute
  BY <1>1, <1>2, <1>4, Zenon
<1>7. ~(q <= p)
  <2> SUFFICES ASSUME q <= p PROVE FALSE
    OBVIOUS
  <2>1. q * Minute <= p * Minute
    BY <1>1, TimesGrows
  <2> QED
    BY <1>5, <1>6, <2>1
<1>8. p * Minute <= (q - 1) * Minute /\ (q - 1) * Minute = q * Minute - Minute
  <2>1. p <= q - 1
    BY <1>7
  <2> QED
    BY <1>1, <2>1, TimesGrows
<1> QED
  BY <1>5, <1>6, <1>8

-----------------------------------------------------------------------------
(***************************************************************************)
(* The moments a signal is meant for.                                      *)
(***************************************************************************)
LEMMA LeastNatural ==
    ASSUME NEW S \in SUBSET Nat, S # {}
    PROVE  \E n \in S : \A m \in S : n <= m
<1>1. PICK n \in S : \A m \in S : <<m, n>> \notin OpToRel(<, Nat)
  BY WFMin, NatLessThanWellFounded, Zenon
<1>2. \A m \in S : ~(m < n)
  BY <1>1, Zenon DEF OpToRel
<1> QED
  BY <1>2

LEMMA MaxLevelIsNat == MaxLevel \in Nat
BY ScheduleAssumption

LEMMA TimeOfLeg ==
    ASSUME NEW g \in SignalSet, g.entry # NoTime, NEW l \in Levels
    PROVE  LegMinute(g, l) \in Minutes /\ LegMinute(g, l) # NoTime
<1>1. g.entry \in Minutes /\ g.schedule \in Seq(Minutes)
  BY ScheduleAssumption DEF Minutes
<1>2. l \in Nat
  BY ScheduleAssumption DEF Levels
<1>3. Minutes \subseteq Int
  BY Lengths DEF Minutes
<1>4. CASE l = 0
  BY <1>1, <1>3, <1>4, ScheduleAssumption DEF LegMinute
<1>5. CASE l # 0 /\ l <= Len(g.schedule)
  <2>1. g.schedule[l] \in Minutes
    BY <1>1, <1>2, <1>5
  <2> QED
    BY <1>3, <1>5, <2>1, ScheduleAssumption DEF LegMinute
<1>6. CASE l # 0 /\ ~(l <= Len(g.schedule))
  <2> DEFINE n == Day \div Minute
  <2>1. n \in Int /\ n > 0
    <3>1. n \in Nat /\ n * Minute = Day
      BY Lengths
    <3> HIDE DEF n
    <3> QED
      BY <3>1, Lengths
  <2>2. LegMinute(g, l) = (g.entry + l) % n
    BY <1>6 DEF LegMinute
  <2>3. g.entry + l \in Int
    <3>1. g.entry \in Int
      BY <1>1, <1>3, Zenon
    <3> QED
      BY <1>2, <3>1
  <2> HIDE DEF n
  <2>4. (g.entry + l) % n \in Int /\ 0 <= (g.entry + l) % n /\ (g.entry + l) % n < n
    BY <2>1, <2>3, Division
  <2> QED
    BY <1>3, <2>1, <2>2, <2>4, ScheduleAssumption DEF Minutes, n
<1> QED
  BY <1>4, <1>5, <1>6

(* The recursion defines what it says: up to the least level at which it    *)
(* would not, it does.                                                      *)
LEMMA DueByLevel ==
    ASSUME NEW g \in SignalSet, NEW t
    PROVE  \A l \in Levels :
             DueTimes(g, t)[l] = IF l <= g.start THEN Nearest(LegMinute(g, l), t)
                                 ELSE FirstFrom(LegMinute(g, l), DueTimes(g, t)[l - 1])
<1> DEFINE Value(due, l) == IF l <= g.start THEN Nearest(LegMinute(g, l), t)
                            ELSE FirstFrom(LegMinute(g, l), due[l - 1])
           UpTo(n, due) == due = [l \in 0..n |-> Value(due, l)]
           Undefined == {n \in Nat : \A due : ~UpTo(n, due)}
<1>0. g.start \in Nat
  BY MaxLevelIsNat, ScheduleAssumption
<1>1. Undefined = {}
  <2> SUFFICES ASSUME Undefined # {} PROVE FALSE
    OBVIOUS
  <2>1. Undefined \in SUBSET Nat
    OBVIOUS
  <2> HIDE DEF Undefined
  <2>2. PICK n \in Undefined : \A m \in Undefined : n <= m
    BY <2>1, LeastNatural
  <2>3. n \in Nat
    BY <2>1
  <2>4. CASE n = 0
    <3> DEFINE first == [l \in 0..0 |-> Nearest(LegMinute(g, l), t)]
    <3>1. UpTo(0, first)
      <4>1. \A l \in 0..0 : l <= g.start
        BY <1>0
      <4>2. [l \in 0..0 |-> Value(first, l)] = first
        BY <4>1
      <4> QED
        BY <4>2
    <3>2. \A due : ~UpTo(0, due)
      BY <2>2, <2>4 DEF Undefined
    <3> HIDE DEF UpTo
    <3> QED
      BY <3>1, <3>2
  <2>5. CASE n > 0
    <3>1. n - 1 \in Nat /\ n - 1 \notin Undefined
      BY <2>2, <2>3, <2>5
    <3>2. PICK before : UpTo(n - 1, before)
      BY <3>1 DEF Undefined
    <3> DEFINE due == [l \in 0..n |-> Value(before, l)]
    <3>3. \A l \in 0..(n - 1) : before[l] = Value(before, l)
      <4> HIDE DEF Value
      <4> QED
        BY <3>2
    <3>4. \A l \in 0..(n - 1) : due[l] = before[l]
      <4>1. \A l \in 0..(n - 1) : l \in 0..n
        BY <2>3
      <4> HIDE DEF Value
      <4> QED
        BY <3>3, <4>1
    <3>5. \A l \in 0..n : Value(due, l) = Value(before, l)
      <4> SUFFICES ASSUME NEW l \in 0..n, ~(l <= g.start) PROVE due[l - 1] = before[l - 1]
        BY DEF Value
      <4>1. l - 1 \in 0..(n - 1)
        BY <1>0, <2>3
      <4> HIDE DEF due
      <4> QED
        BY <3>4, <4>1
    <3>6. UpTo(n, due)
      <4>1. [l \in 0..n |-> Value(due, l)] = [l \in 0..n |-> Value(before, l)]
        <5> HIDE DEF Value, due
        <5> QED
          BY <3>5
      <4> QED
        BY <4>1
    <3>7. ~UpTo(n, due)
      BY <2>2 DEF Undefined
    <3> QED
      BY <3>6, <3>7
  <2> QED
    BY <2>3, <2>4, <2>5
<1>2. MaxLevel \in Nat
  BY ScheduleAssumption
<1>3. \E due : UpTo(MaxLevel, due)
  BY <1>1, <1>2
<1>4. DueTimes(g, t) = CHOOSE due : UpTo(MaxLevel, due)
  BY DEF DueTimes, Levels
<1>5. UpTo(MaxLevel, DueTimes(g, t))
  <2> HIDE DEF UpTo
  <2> QED
    BY <1>3, <1>4
<1>6. \A l \in Levels : DueTimes(g, t)[l] = Value(DueTimes(g, t), l)
  <2> HIDE DEF Value
  <2> QED
    BY <1>5 DEF Levels
<1> QED
  BY <1>2, <1>6 DEF Levels

(* Every leg of a signal with an entry has its moment, none before that of  *)
(* the leg before it.                                                       *)
LEMMA DueDates ==
    ASSUME NEW g \in SignalSet, g.entry # NoTime, NEW t \in Int
    PROVE  LET due == DueTimes(g, t)
           IN  /\ \A l \in Levels : due[l] \in Int /\ IsTimeOfDay(due[l], LegMinute(g, l))
               /\ due[g.start] <= t + HalfDay
               /\ \A l \in Levels : l > g.start =>
                    due[l - 1] \in Int /\ due[l - 1] <= due[l] /\ due[l] < due[l - 1] + Day
<1> DEFINE due == DueTimes(g, t)
<1>1. \A l \in Levels : due[l] = IF l <= g.start THEN Nearest(LegMinute(g, l), t)
                                ELSE FirstFrom(LegMinute(g, l), due[l - 1])
  BY DueByLevel
<1> HIDE DEF due
<1>2. g.start \in Levels /\ g.start \in Nat /\ \A l \in Levels : l \in Nat
  BY ScheduleAssumption DEF Levels
<1>3. \A l \in Levels : l <= g.start =>
        /\ due[l] \in Int /\ IsTimeOfDay(due[l], LegMinute(g, l))
        /\ due[l] <= t + HalfDay
  BY <1>1, TimeOfLeg, NearestDate
<1>4. \A l \in Levels : due[l] \in Int
  <2> DEFINE Odd == {l \in Levels : due[l] \notin Int}
  <2> SUFFICES ASSUME Odd # {} PROVE FALSE
    OBVIOUS
  <2>1. Odd \in SUBSET Nat
    BY <1>2
  <2> HIDE DEF Odd
  <2>2. PICK l \in Odd : \A m \in Odd : l <= m
    BY <2>1, LeastNatural
  <2>3. l \in Levels /\ due[l] \notin Int /\ ~(l <= g.start)
    BY <1>3 DEF Odd
  <2>4. l - 1 \in Levels /\ l - 1 \notin Odd
    <3>1. l \in Nat /\ l - 1 \in Levels /\ l - 1 \in Nat /\ ~(l <= l - 1)
      BY <1>2, <2>3, MaxLevelIsNat DEF Levels
    <3> QED
      BY <2>2, <3>1
  <2>5. due[l - 1] \in Int
    BY <2>4 DEF Odd
  <2> QED
    BY <1>1, <2>3, <2>5, TimeOfLeg, FirstDateFrom
<1>5. ASSUME NEW l \in Levels, l > g.start
      PROVE  /\ IsTimeOfDay(due[l], LegMinute(g, l)) /\ due[l - 1] \in Int
             /\ due[l - 1] <= due[l] /\ due[l] < due[l - 1] + Day
  <2>1. l - 1 \in Levels /\ ~(l <= g.start)
    BY <1>2, <1>5, MaxLevelIsNat DEF Levels
  <2> QED
    BY <1>1, <1>4, <2>1, TimeOfLeg, FirstDateFrom
<1>6. \A l \in Levels : IsTimeOfDay(due[l], LegMinute(g, l))
  BY <1>2, <1>3, <1>5
<1> QED
  BY <1>2, <1>3, <1>4, <1>5, <1>6 DEF due

-----------------------------------------------------------------------------
(***************************************************************************)
(* What one reading of the clock aims at.                                  *)
(***************************************************************************)
LEMMA LatenessGrows ==
    ASSUME NEW t \in Int, NEW u \in Int, NEW d \in Int, NEW e \in Int, t <= u, e <= d
    PROVE  Lateness(t, d) \in Int /\ Lateness(u, e) \in Int /\ Lateness(t, d) <= Lateness(u, e)
<1>1. \A n \in Int : n \div Second \in Int
  BY Lengths, Division
<1>2. \A n \in Nat : 0 <= n \div Second
  BY Lengths
<1>3. CASE t > d
  <2>1. (t - d) \div Second <= (u - e) \div Second
    BY Lengths, DivGrows
  <2> QED
    BY <1>1, <1>3, <2>1 DEF Lateness
<1>4. CASE ~(t > d)
  BY <1>1, <1>2, <1>4 DEF Lateness
<1> QED
  BY <1>3, <1>4

(* The legs of g, arrived at a, follow the arrival and one another closely. *)
Close(g, a) ==
    /\ DueTimes(g, a)[g.start] - a < HalfDay
    /\ \A l \in Levels : l > g.start => DueTimes(g, a)[l] - DueTimes(g, a)[l - 1] < HalfDay

(* A reading taken no earlier than the arrival, or than the moment of the   *)
(* leg before, aims at the moment meant or later, or finds itself too late. *)
LEMMA Aim ==
    ASSUME NEW g \in SignalSet, g.entry # NoTime, NEW a \in Int, NEW l \in Levels, NEW t \in Int,
           l >= g.start,
           l = g.start => t >= a,
           l > g.start => t >= DueTimes(g, a)[l - 1]
    PROVE  LET aim == OnDate(LegMinute(g, l), t)
               due == DueTimes(g, a)[l]
           IN  /\ aim \in Int /\ due \in Int
               /\ IsTimeOfDay(aim, LegMinute(g, l)) /\ IsTimeOfDay(due, LegMinute(g, l))
               /\ LatenessIsShort => aim >= due \/ Lateness(t, aim) > MaxLateness(l)
               /\ Close(g, a) => aim >= due
<1> DEFINE aim == OnDate(LegMinute(g, l), t)
           dues == DueTimes(g, a)
           due == dues[l]
           before == dues[l - 1]
<1>1. LegMinute(g, l) \in Minutes
  BY TimeOfLeg
<1>2. aim \in Int /\ IsTimeOfDay(aim, LegMinute(g, l)) /\ t - HalfDay <= aim
  BY <1>1, ResolvedDate
<1>3. /\ due \in Int /\ IsTimeOfDay(due, LegMinute(g, l))
      /\ l = g.start => due <= a + HalfDay
      /\ l > g.start => /\ before \in Int /\ due < before + Day
                        /\ \E minute \in Minutes : IsTimeOfDay(before, minute)
  <2>1. l > g.start => l - 1 \in Levels
    BY ScheduleAssumption DEF Levels
  <2>2. l > g.start => LegMinute(g, l - 1) \in Minutes
    BY <2>1, TimeOfLeg
  <2> HIDE DEF aim
  <2> QED
    BY <2>1, <2>2, DueDates
<1>4. Close(g, a) => /\ l = g.start => due - a < HalfDay
                     /\ l > g.start => due - before < HalfDay
  BY DEF Close
<1>5. HalfDay \in Nat /\ Day = 2 * HalfDay /\ Minute < HalfDay
  BY Lengths DEF HalfDay
<1>6. aim < due => aim <= due - Day
  <2> HIDE DEF aim, dues
  <2> QED
    BY <1>1, <1>2, <1>3, DaysApart
<1>7. l > g.start => t >= before
  OBVIOUS
<1>8. l = g.start \/ l > g.start
  BY ScheduleAssumption DEF Levels
<1> HIDE DEF aim, dues, due, before
<1>9. ASSUME LatenessIsShort, aim < due
      PROVE  Lateness(t, aim) > MaxLateness(l)
  <2>1. Minute <= t - aim
    <3>1. CASE l = g.start
      BY <1>2, <1>3, <1>5, <1>6, <1>9, <3>1, Lengths
    <3>2. CASE l > g.start
      <4>1. aim < before
        BY <1>2, <1>3, <1>6, <1>9, <3>2, Lengths
      <4>2. aim <= before - Minute
        BY <1>1, <1>2, <1>3, <3>2, <4>1, MinutesApart
      <4> QED
        BY <1>2, <1>3, <1>7, <3>2, <4>2, Lengths
    <3> QED
      BY <1>8, <3>1, <3>2
  <2>2. l = 0 => HalfDay <= t - aim
    <3> SUFFICES ASSUME l = 0 PROVE HalfDay <= t - aim
      OBVIOUS
    <3>1. l = g.start
      BY ScheduleAssumption
    <3> QED
      BY <1>2, <1>3, <1>5, <1>6, <1>9, <3>1, Lengths
  <2>3. t > aim
    BY <1>2, <2>1, Lengths
  <2> DEFINE late == (t - aim) \div Second
  <2>4. late \in Int /\ Minute \div Second <= late /\ Minute \div Second \in Int
        /\ HalfDay \div Second \in Int
    BY <1>2, <1>5, <2>1, Lengths, DivGrows, Division
  <2>5. l = 0 => HalfDay \div Second <= late
    BY <1>2, <1>5, <2>2, Lengths, DivGrows
  <2>6. /\ EntryLateness < HalfDay \div Second /\ EntryLateness \in Nat
        /\ ProtLateness < Minute \div Second /\ ProtLateness \in Nat
    BY <1>9, ScheduleAssumption DEF LatenessIsShort, HalfDay
  <2>7. Lateness(t, aim) = late
    BY <2>3 DEF Lateness
  <2> HIDE DEF late
  <2> QED
    BY <2>4, <2>5, <2>6, <2>7 DEF MaxLateness
<1>10. ASSUME Close(g, a) PROVE aim >= due
  <2> SUFFICES ASSUME aim < due PROVE FALSE
    BY <1>2, <1>3
  <2>1. CASE l = g.start
    BY <1>2, <1>3, <1>4, <1>5, <1>6, <1>10, <2>1, Lengths
  <2>2. CASE l > g.start
    BY <1>2, <1>3, <1>4, <1>5, <1>6, <1>7, <1>10, <2>2, Lengths
  <2> QED
    BY <1>8, <2>1, <2>2
<1> QED
  BY <1>2, <1>3, <1>9, <1>10 DEF aim, dues, due

(* The same of dispatch and task, that ask about the entry.                 *)
LEMMA EntryAim ==
    ASSUME NEW g \in SignalSet, g.entry # NoTime, NEW a \in Int, NEW t \in Int, t >= a,
           Nearest(g.entry, a) - a < HalfDay
    PROVE  LET aim == OnDate(LegMinute(g, 0), t)
               due == Nearest(g.entry, a)
           IN  aim \in Int /\ due \in Int /\ aim >= due
<1> DEFINE aim == OnDate(LegMinute(g, 0), t)
           due == Nearest(g.entry, a)
<1>1. LegMinute(g, 0) = g.entry /\ g.entry \in Minutes
  <2>1. 0 \in Levels
    BY MaxLevelIsNat DEF Levels
  <2>2. LegMinute(g, 0) = g.entry
    BY DEF LegMinute
  <2> QED
    BY <2>1, <2>2, TimeOfLeg
<1>2. aim \in Int /\ IsTimeOfDay(aim, g.entry) /\ t - HalfDay <= aim
  BY <1>1, ResolvedDate
<1>3. due \in Int /\ IsTimeOfDay(due, g.entry)
  BY <1>1, NearestDate
<1>4. due - a < HalfDay
  OBVIOUS
<1>5. HalfDay \in Nat /\ Day = 2 * HalfDay
  BY Lengths DEF HalfDay
<1> HIDE DEF aim, due
<1>6. aim < due => aim <= due - Day
  BY <1>1, <1>2, <1>3, DaysApart
<1>7. aim >= due
  BY <1>2, <1>3, <1>4, <1>5, <1>6
<1> QED
  BY <1>2, <1>3, <1>7 DEF aim, due

-----------------------------------------------------------------------------
(***************************************************************************)
(* The invariant.                                                          *)
(***************************************************************************)
Types ==
    /\ now \in Nat /\ arrival \in Nat /\ arrival <= now
    /\ pc \in Stages /\ signal \in SignalSet
    /\ level \in Levels /\ level >= signal.start /\ target \in Int
    /\ released \in [Levels -> Nat \cup {NoTime}]

(* One leg after the other, from the signal's start on.                     *)
Order ==
    /\ pc = "new" => level = signal.start /\ \A l \in Levels : ~Released(l)
    /\ pc = "queued" => level = signal.start
    /\ pc \in Waits /\ level > signal.start => Released(level - 1)
    /\ \A l \in Levels : Released(l) => released[l] <= now
    /\ pc \in {"opening", "run"} => Released(level)

(* No reading can aim before the moment meant and be in time for it: the    *)
(* latenesses are short, or the legs of the signal close to one another.    *)
Aimed == signal.entry # NoTime /\ (LatenessIsShort \/ CloseBy)

ReleasedAt(l) == released[l] >= Due[l] /\ InTime((released[l] - Due[l]) % Day, l)

Targeted ==
    /\ IsTimeOfDay(target, LegMinute(signal, level))
    /\ target >= Due[level] \/ Lateness(now, target) > MaxLateness(level)
    /\ CloseBy => target >= Due[level]

Aims ==
    Aimed => /\ \A l \in Levels : Released(l) => ReleasedAt(l)
             /\ pc \in {"check", "sleep"} => Targeted

ScheduleInv == Types /\ Order /\ Aims /\ MissedOnlyIfLate

(* Once the signal has arrived, what it is meant for stays what it is.      *)
LEMMA MeaningStays ==
    ASSUME UNCHANGED <<signal, arrival>>, pc = "new" <=> pc' = "new"
    PROVE  Due' = Due /\ EntryDue' = EntryDue /\ CloseBy' = CloseBy /\ Aimed' = Aimed
<1>1. Due' = Due /\ EntryDue' = EntryDue
  BY DEF Due, EntryDue
<1>2. CloseBy' = CloseBy
  BY <1>1 DEF CloseBy
<1> QED
  BY <1>1, <1>2 DEF Aimed, LatenessIsShort

LEMMA CloseByIsClose ==
    CloseBy => /\ Close(signal, arrival) /\ signal.entry # NoTime
               /\ Nearest(signal.entry, arrival) - arrival < HalfDay
BY DEF CloseBy, Close, Due, EntryDue, HalfDay

(* The aim of the leg at hand, read now.                                    *)
LEMMA AimNow ==
    ASSUME Types, Order, Aims, Aimed, pc \in Waits
    PROVE  LET aim == ResolveLeg(level, now)
           IN  /\ HasTarget(level) /\ aim \in Int /\ Due[level] \in Int
               /\ IsTimeOfDay(aim, LegMinute(signal, level))
               /\ aim >= Due[level] \/ Lateness(now, aim) > MaxLateness(level)
               /\ CloseBy => aim >= Due[level]
<1>1. signal \in SignalSet /\ signal.entry # NoTime /\ level \in Levels /\ now \in Int
      /\ arrival \in Int /\ level >= signal.start
  BY DEF Types, Aimed
<1>2. level = signal.start => now >= arrival
  BY DEF Types
<1>3. level > signal.start => now >= Due[level - 1]
  <2> SUFFICES ASSUME level > signal.start PROVE now >= Due[level - 1]
    OBVIOUS
  <2>2. level - 1 \in Levels
    BY <1>1, ScheduleAssumption DEF Levels
  <2>1. Released(level - 1) /\ released[level - 1] <= now
    BY <2>2 DEF Order
  <2>3. released[level - 1] >= Due[level - 1]
    BY <2>1, <2>2 DEF Aims, ReleasedAt
  <2>4. Due[level - 1] \in Int
    BY <1>1, <2>2, DueDates DEF Due
  <2>5. released[level - 1] \in Nat
    BY <2>1, <2>2 DEF Types, Released
  <2> QED
    BY <1>1, <2>1, <2>3, <2>4, <2>5
<1>4. HasTarget(level)
  BY <1>1, TimeOfLeg DEF HasTarget
<1>5. LET aim == ResolveLeg(level, now)
      IN  /\ aim \in Int /\ Due[level] \in Int
          /\ IsTimeOfDay(aim, LegMinute(signal, level))
          /\ LatenessIsShort => aim >= Due[level] \/ Lateness(now, aim) > MaxLateness(level)
          /\ Close(signal, arrival) => aim >= Due[level]
  <2>1. level > signal.start => now >= DueTimes(signal, arrival)[level - 1]
    BY <1>3 DEF Due
  <2> QED
    BY <1>1, <1>2, <2>1, Aim DEF Due, ResolveLeg
<1> QED
  BY <1>4, <1>5, CloseByIsClose DEF Aimed

(* Late for an aim no earlier than the moment meant, late for that moment.  *)
LEMMA LateForBoth ==
    ASSUME NEW t \in Int, NEW aim \in Int, NEW due \in Int, NEW l \in Levels,
           aim >= due, Lateness(t, aim) > MaxLateness(l)
    PROVE  Lateness(t, due) > MaxLateness(l)
<1>1. MaxLateness(l) \in Int
  BY ScheduleAssumption DEF MaxLateness
<1>2. Lateness(t, aim) <= Lateness(t, due) /\ Lateness(t, aim) \in Int /\ Lateness(t, due) \in Int
  <2>1. t <= t /\ due <= aim
    OBVIOUS
  <2> QED
    BY <2>1, LatenessGrows
<1> QED
  BY <1>1, <1>2

(* Turned away by the window of the entry, read at t: late for the entry.   *)
LEMMA TurnedAway ==
    ASSUME NEW g \in SignalSet, g.entry # NoTime, NEW a \in Int, NEW t \in Int, t >= a,
           Nearest(g.entry, a) - a < HalfDay,
           Lateness(t, OnDate(LegMinute(g, 0), t)) > MaxLateness(0)
    PROVE  Lateness(t, Nearest(g.entry, a)) > EntryLateness
<1>1. 0 \in Levels /\ MaxLateness(0) = EntryLateness
  BY MaxLevelIsNat DEF Levels, MaxLateness
<1> DEFINE aim == OnDate(LegMinute(g, 0), t)
           due == Nearest(g.entry, a)
<1>2. aim \in Int /\ due \in Int /\ aim >= due
  BY EntryAim
<1>3. Lateness(t, aim) > MaxLateness(0)
  OBVIOUS
<1> HIDE DEF aim, due
<1>4. Lateness(t, due) > MaxLateness(0)
  BY <1>1, <1>2, <1>3, LateForBoth
<1> QED
  BY <1>1, <1>4 DEF due

LEMMA InitInv == Init => ScheduleInv
<1> SUFFICES ASSUME Init PROVE ScheduleInv
  OBVIOUS
<1>1. level \in Levels /\ level >= signal.start
  BY ScheduleAssumption DEF Init, Levels
<1>2. Types
  BY <1>1, Lengths DEF Init, Types, Stages
<1>3. Order /\ Aims /\ MissedOnlyIfLate
  BY DEF Init, Order, Aims, MissedOnlyIfLate, Released, Waits, CloseBy
<1> QED
  BY <1>2, <1>3 DEF ScheduleInv

-----------------------------------------------------------------------------
(***************************************************************************)
(* The steps.                                                              *)
(***************************************************************************)
LEMMA DispatchKeeps == ASSUME ScheduleInv, Dispatch PROVE ScheduleInv'
<1> USE DEF ScheduleInv
<1>1. /\ pc = "new" /\ level = signal.start /\ level' = level /\ signal' = signal
      /\ \A l \in Levels : ~Released(l)'
      /\ arrival' = now /\ now' = now /\ target' = target /\ released' = released
  BY DEF Dispatch, Order, Released
<1>2. pc' \in {"skipped", "queued", "resolve", "done"}
  BY DEF Dispatch, FirstLeg, Goto
<1>3. Types'
  BY <1>1, <1>2 DEF Types, Stages, Waits, GivenUp
<1>4. Order'
  <2>1. ~(level > signal.start) /\ signal' = signal
    BY <1>1, ScheduleAssumption DEF Types, Levels
  <2> QED
    BY <1>1, <1>2, <2>1 DEF Order, Waits
<1>5. Aims'
  BY <1>1, <1>2 DEF Aims
<1>6. ASSUME CloseBy', pc' = "skipped"
      PROVE  Lateness(now, EntryDue)' > EntryLateness
  <2>1. signal \in SignalSet /\ now \in Int /\ signal.entry # NoTime /\ now >= now
    BY <1>1, <1>6 DEF Types, CloseBy
  <2>2. EntryDue' = Nearest(signal.entry, now) /\ Nearest(signal.entry, now) - now < HalfDay
    BY <1>1, <1>6 DEF EntryDue, CloseBy, HalfDay
  <2>3. WindowMissed(0, now)
    BY <1>6 DEF Dispatch, FirstLeg, Goto
  <2>4. Lateness(now, OnDate(LegMinute(signal, 0), now)) > MaxLateness(0)
    BY <2>3 DEF WindowMissed, ResolveLeg
  <2>5. Lateness(now, Nearest(signal.entry, now)) > EntryLateness
    BY <2>1, <2>2, <2>4, TurnedAway
  <2> QED
    BY <1>1, <2>2, <2>5 DEF Lateness
<1> QED
  BY <1>2, <1>3, <1>4, <1>5, <1>6 DEF MissedOnlyIfLate

LEMMA StartKeeps == ASSUME ScheduleInv, StartTask PROVE ScheduleInv'
<1> USE DEF ScheduleInv
<1>1. pc = "queued" /\ level = signal.start /\ pc' \in {"dropped", "resolve", "done"}
      /\ UNCHANGED <<now, signal, arrival, level, target, released>>
  BY DEF StartTask, FirstLeg, Order, Goto
<1>2. Due' = Due /\ EntryDue' = EntryDue /\ CloseBy' = CloseBy /\ Aimed' = Aimed
  BY <1>1, MeaningStays
<1>3. Types'
  BY <1>1 DEF Types, Stages, Waits, GivenUp
<1>4. Order'
  <2>1. ~(level > signal.start) /\ signal' = signal
    BY <1>1, ScheduleAssumption DEF Types, Levels
  <2> QED
    BY <1>1, <2>1 DEF Order, Released, Waits
<1>5. Aims'
  BY <1>1, <1>2 DEF Aims, ReleasedAt, Released
<1>6. ASSUME CloseBy, pc' = "dropped"
      PROVE  Lateness(now, EntryDue) > EntryLateness
  <2>1. WindowMissed(0, now)
    BY <1>6 DEF StartTask, FirstLeg, Goto
  <2>2. Lateness(now, OnDate(LegMinute(signal, 0), now)) > MaxLateness(0)
    BY <2>1 DEF WindowMissed, ResolveLeg
  <2>3. /\ signal \in SignalSet /\ now \in Int /\ arrival \in Int /\ now >= arrival
        /\ signal.entry # NoTime /\ Nearest(signal.entry, arrival) - arrival < HalfDay
    BY <1>6, CloseByIsClose DEF Types
  <2> QED
    BY <2>2, <2>3, TurnedAway DEF EntryDue
<1>7. MissedOnlyIfLate'
  BY <1>1, <1>2, <1>6 DEF MissedOnlyIfLate, Lateness, MaxLateness
<1> QED
  BY <1>3, <1>4, <1>5, <1>7

LEMMA ResolveKeeps == ASSUME ScheduleInv, Resolve PROVE ScheduleInv'
<1> USE DEF ScheduleInv
<1>1. pc = "resolve" /\ pc' \in {"check", "opening"} /\ UNCHANGED <<now, signal, arrival, level>>
  BY DEF Resolve, Release, Goto
<1>2. Due' = Due /\ EntryDue' = EntryDue /\ CloseBy' = CloseBy /\ Aimed' = Aimed
  BY <1>1, MeaningStays
<1>3. MissedOnlyIfLate'
  BY <1>1 DEF MissedOnlyIfLate
<1>4. CASE Scheduled /\ HasTarget(level)
  <2>1. target' = ResolveLeg(level, now) /\ pc' = "check" /\ UNCHANGED released
    BY <1>4 DEF Resolve, Goto
  <2>2. target' \in Int
    <3>1. signal \in SignalSet /\ level \in Nat /\ now \in Int
      BY MaxLevelIsNat DEF Types, Levels
    <3>2. LegMinute(signal, level) \in Minutes
      <4>1. /\ signal.entry \in Minutes \cup {NoTime}
            /\ signal.schedule \in Seq(Minutes)
        BY <3>1, ScheduleAssumption DEF Minutes
      <4>2. LegMinute(signal, level) # NoTime
        BY <1>4 DEF HasTarget
      <4>3. CASE signal.entry # NoTime
        BY <4>3, TimeOfLeg DEF Types
      <4>4. CASE signal.entry = NoTime
        <5>1. level # 0 /\ level <= Len(signal.schedule)
          BY <4>2, <4>4 DEF LegMinute
        <5>2. signal.schedule[level] \in Minutes
          BY <3>1, <4>1, <5>1
        <5> QED
          BY <5>1, <5>2 DEF LegMinute
      <4> QED
        BY <4>3, <4>4
    <3> QED
      BY <2>1, <3>1, <3>2, ResolvedDate DEF ResolveLeg
  <2>3. Types'
    BY <1>1, <2>1, <2>2 DEF Types, Stages, Waits, GivenUp
  <2>4. Order'
    BY <1>1, <2>1 DEF Order, Released, Waits
  <2>5. Aims'
    <3> SUFFICES ASSUME Aimed
                 PROVE  /\ \A l \in Levels : Released(l)' => ReleasedAt(l)'
                        /\ Targeted'
      BY <1>2 DEF Aims
    <3>1. \A l \in Levels : Released(l)' => ReleasedAt(l)'
      BY <1>2, <2>1 DEF Aims, Released, ReleasedAt
    <3>2. LET aim == ResolveLeg(level, now)
          IN  /\ IsTimeOfDay(aim, LegMinute(signal, level))
              /\ aim >= Due[level] \/ Lateness(now, aim) > MaxLateness(level)
              /\ CloseBy => aim >= Due[level]
      BY <1>1, AimNow DEF Waits
    <3>3. Targeted'
      BY <1>1, <1>2, <2>1, <3>2 DEF Targeted
    <3> QED
      BY <3>1, <3>3
  <2> QED
    BY <1>3, <2>3, <2>4, <2>5
<1>5. CASE ~(Scheduled /\ HasTarget(level))
  <2>1. pc' = "opening" /\ released' = [released EXCEPT ![level] = now] /\ UNCHANGED target
    BY <1>5 DEF Resolve, Release, Goto
  <2>2. ~Aimed
    <3> SUFFICES ASSUME signal.entry # NoTime PROVE FALSE
      BY DEF Aimed
    <3> QED
      BY <1>5, TimeOfLeg DEF Scheduled, HasTarget, Types
  <2>3. Types'
    BY <1>1, <2>1 DEF Types, Stages, Waits, GivenUp
  <2>4. Released(level)'
    BY <1>1, <2>1, ScheduleAssumption DEF Types, Released
  <2>5. Order'
    <3>1. \A l \in Levels : released'[l] = IF l = level THEN now ELSE released[l]
      BY <2>1 DEF Types
    <3>2. ASSUME NEW l \in Levels, Released(l)' PROVE released'[l] <= now
      BY <3>1, <3>2 DEF Order, Released, Types
    <3> QED
      BY <1>1, <2>1, <2>4, <3>2 DEF Order, Waits
  <2>6. Aims'
    BY <1>2, <2>2 DEF Aims
  <2> QED
    BY <1>3, <2>3, <2>5, <2>6
<1> QED
  BY <1>4, <1>5

LEMMA CheckKeeps == ASSUME ScheduleInv, CheckWindow PROVE ScheduleInv'
<1> USE DEF ScheduleInv
<1>1. pc = "check" /\ pc' \in {"missed", "sleep"}
      /\ UNCHANGED <<now, signal, arrival, level, target, released>>
  BY DEF CheckWindow, Goto
<1>2. Due' = Due /\ EntryDue' = EntryDue /\ CloseBy' = CloseBy /\ Aimed' = Aimed
  BY <1>1, MeaningStays
<1>3. Types'
  BY <1>1 DEF Types, Stages, Waits, GivenUp
<1>4. Order'
  BY <1>1 DEF Order, Released, Waits
<1>5. Targeted => Targeted'
  BY <1>1, <1>2 DEF Targeted, Lateness, MaxLateness, LegMinute
<1>6. Aims'
  BY <1>1, <1>2, <1>5 DEF Aims, ReleasedAt, Released
<1>7. ASSUME CloseBy, pc' = "missed"
      PROVE  Lateness(now, Due[level]) > MaxLateness(level)
  <2>1. Aimed
    BY <1>7 DEF Aimed, CloseBy
  <2> DEFINE aim == ResolveLeg(level, now)
  <2>2. aim \in Int /\ Due[level] \in Int /\ aim >= Due[level]
    BY <1>1, <1>7, <2>1, AimNow DEF Waits
  <2>3. Lateness(now, aim) > MaxLateness(level)
    BY <1>1, <1>7 DEF CheckWindow, Goto, WindowMissed
  <2> HIDE DEF aim
  <2> QED
    BY <2>2, <2>3, LateForBoth DEF Types
<1>8. MissedOnlyIfLate'
  BY <1>1, <1>2, <1>7 DEF MissedOnlyIfLate, Lateness, MaxLateness
<1> QED
  BY <1>3, <1>4, <1>6, <1>8

LEMMA AwakeKeeps == ASSUME ScheduleInv, Awake PROVE ScheduleInv'
<1> USE DEF ScheduleInv
<1>1. pc = "sleep" /\ pc' \in {"missed", "opening"} /\ now >= target
      /\ UNCHANGED <<now, signal, arrival, level, target>>
  BY DEF Awake, Release, Goto
<1>2. Due' = Due /\ EntryDue' = EntryDue /\ CloseBy' = CloseBy /\ Aimed' = Aimed
  BY <1>1, MeaningStays
<1>3. signal \in SignalSet /\ level \in Levels /\ now \in Nat /\ target \in Int
  BY DEF Types
<1>4. Aimed => Targeted /\ Due[level] \in Int
  BY <1>1, AimNow DEF Aims, Waits
<1>5. CASE Lateness(now, target) > MaxLateness(level)
  <2>1. pc' = "missed" /\ UNCHANGED released
    BY <1>5 DEF Awake, Goto
  <2>2. Types' /\ Order' /\ Aims'
    BY <1>1, <1>2, <2>1 DEF Types, Stages, Waits, GivenUp, Order, Aims, ReleasedAt, Released
  <2>3. ASSUME CloseBy PROVE Lateness(now, Due[level]) > MaxLateness(level)
    <3>1. Aimed
      BY <2>3 DEF Aimed, CloseBy
    <3>2. target >= Due[level] /\ Due[level] \in Int
      BY <1>4, <2>3, <3>1 DEF Targeted
    <3> QED
      BY <1>3, <1>5, <3>2, LateForBoth
  <2> QED
    BY <1>1, <1>2, <2>1, <2>2, <2>3 DEF MissedOnlyIfLate, Lateness, MaxLateness
<1>6. CASE ~(Lateness(now, target) > MaxLateness(level))
  <2>1. pc' = "opening" /\ released' = [released EXCEPT ![level] = now]
    BY <1>6 DEF Awake, Release, Goto
  <2>2. Types'
    BY <1>1, <2>1 DEF Types, Stages, Waits, GivenUp
  <2>3. released'[level] = now /\ \A l \in Levels \ {level} : released'[l] = released[l]
    BY <2>1 DEF Types
  <2>4. Order'
    BY <1>1, <1>3, <2>1, <2>3, ScheduleAssumption DEF Order, Released, Waits
  <2>5. ASSUME Aimed PROVE ReleasedAt(level)'
    <3> DEFINE minute == LegMinute(signal, level)
               late == (now - Due[level]) % Day
    <3>1. Targeted /\ Due[level] \in Int /\ target >= Due[level]
      BY <1>4, <1>6, <2>5 DEF Targeted
    <3>2. minute \in Minutes /\ IsTimeOfDay(Due[level], minute)
      BY <1>3, <2>5, TimeOfLeg, DueDates DEF Aimed, Due, Types
    <3>3. late \in Int /\ 0 <= late /\ late <= now - target
      BY <1>1, <1>3, <3>1, <3>2, SameTimeOfDay DEF Targeted
    <3>4. late \div Second <= (now - target) \div Second
      BY <1>3, <3>3, Lengths, DivGrows
    <3>5. (now - target) \div Second <= MaxLateness(level)
      <4>1. CASE now > target
        BY <1>6, <4>1, <1>3, Lengths, Division, ScheduleAssumption DEF Lateness, MaxLateness
      <4>2. CASE now = target
        <5>1. (now - target) \div Second = 0
          BY <1>3, <4>2, Lengths
        <5> QED
          BY <5>1, ScheduleAssumption DEF MaxLateness
      <4> QED
        BY <1>1, <1>3, <4>1, <4>2
    <3>6. late \div Second \in Int /\ (now - target) \div Second \in Int /\ MaxLateness(level) \in Int
      BY <1>3, <3>3, Lengths, Division, ScheduleAssumption DEF MaxLateness
    <3>7. InTime(late, level)
      <4>1. late >= 0 /\ late \div Second <= MaxLateness(level)
        BY <3>3, <3>4, <3>5, <3>6
      <4> QED
        BY <4>1 DEF InTime
    <3>8. now >= Due[level]
      BY <1>1, <1>3, <3>1
    <3> QED
      BY <1>1, <1>2, <2>3, <3>7, <3>8 DEF ReleasedAt, InTime
  <2>6. Aims'
    <3> SUFFICES ASSUME Aimed, NEW l \in Levels, Released(l)' PROVE ReleasedAt(l)'
      BY <1>2, <2>1 DEF Aims
    <3>1. CASE l = level
      BY <1>1, <2>5, <3>1 DEF ReleasedAt, InTime
    <3>2. CASE l # level
      <4>1. released'[l] = released[l]
        BY <2>3, <3>2
      <4> QED
        BY <1>2, <4>1 DEF Aims, ReleasedAt, Released
    <3> QED
      BY <3>1, <3>2
  <2> QED
    BY <2>1, <2>2, <2>4, <2>6 DEF MissedOnlyIfLate
<1> QED
  BY <1>5, <1>6

LEMMA SendKeeps == ASSUME ScheduleInv, SendOrder PROVE ScheduleInv'
<1> USE DEF ScheduleInv
<1>1. pc = "opening" /\ pc' \in {"run", "done"}
      /\ UNCHANGED <<now, signal, arrival, level, target, released>>
  BY DEF SendOrder, Goto
<1>2. Due' = Due /\ EntryDue' = EntryDue /\ CloseBy' = CloseBy /\ Aimed' = Aimed
  BY <1>1, MeaningStays
<1>3. Types'
  BY <1>1 DEF Types, Stages, Waits, GivenUp
<1>4. Order'
  BY <1>1 DEF Order, Released, Waits
<1>5. Aims' /\ MissedOnlyIfLate'
  BY <1>1, <1>2 DEF Aims, ReleasedAt, Released, MissedOnlyIfLate
<1> QED
  BY <1>3, <1>4, <1>5

LEMMA EndKeeps == ASSUME ScheduleInv, LegEnds PROVE ScheduleInv'
<1> USE DEF ScheduleInv
<1>1. pc = "run" /\ pc' \in {"done", "resolve"} /\ UNCHANGED <<now, signal, arrival, target, released>>
  BY DEF LegEnds, Goto
<1>2. Due' = Due /\ EntryDue' = EntryDue /\ CloseBy' = CloseBy /\ Aimed' = Aimed
  BY <1>1, MeaningStays
<1>3. \/ pc' = "done" /\ level' = level
      \/ pc' = "resolve" /\ level < signal.last /\ level' = level + 1
  BY DEF LegEnds, Goto
<1>4. /\ level' \in Levels /\ level' >= signal.start
      /\ pc' = "resolve" => level' - 1 = level
  BY <1>3, ScheduleAssumption DEF Types, Levels
<1>5. Types'
  BY <1>1, <1>4 DEF Types, Stages, Waits, GivenUp
<1>6. Order'
  <2>1. Released(level)
    BY <1>1 DEF Order
  <2> QED
    BY <1>1, <1>4, <2>1 DEF Order, Released, Waits
<1>7. Aims' /\ MissedOnlyIfLate'
  BY <1>1, <1>2 DEF Aims, ReleasedAt, Released, MissedOnlyIfLate
<1> QED
  BY <1>5, <1>6, <1>7

LEMMA TickKeeps == ASSUME ScheduleInv, Tick PROVE ScheduleInv'
<1> USE DEF ScheduleInv
<1>1. now' = now + 1 /\ UNCHANGED <<pc, signal, arrival, level, target, released>>
  BY DEF Tick
<1>2. Due' = Due /\ EntryDue' = EntryDue /\ CloseBy' = CloseBy /\ Aimed' = Aimed
  BY <1>1, MeaningStays
<1>3. signal \in SignalSet /\ level \in Levels /\ now \in Nat /\ target \in Int /\ arrival \in Int
  BY DEF Types
<1>4. Types'
  BY <1>1 DEF Types
<1>5. Order'
  <2>1. ASSUME NEW l \in Levels, Released(l) PROVE released[l] <= now + 1
    BY <1>3, <2>1 DEF Order, Types, Released
  <2> QED
    BY <1>1, <2>1 DEF Order, Released, Waits
<1>6. ASSUME NEW d \in Int, Lateness(now, d) > MaxLateness(level)
      PROVE  Lateness(now + 1, d) > MaxLateness(level)
  <2>1. now <= now + 1 /\ d <= d /\ now + 1 \in Int /\ MaxLateness(level) \in Int
    BY <1>3, ScheduleAssumption DEF MaxLateness
  <2>2. /\ Lateness(now, d) \in Int /\ Lateness(now + 1, d) \in Int
        /\ Lateness(now, d) <= Lateness(now + 1, d)
    <3> DEFINE later == now + 1
    <3>1. now <= later /\ d <= d /\ later \in Int /\ now \in Int
      BY <1>3
    <3> HIDE DEF later
    <3>2. /\ Lateness(now, d) \in Int /\ Lateness(later, d) \in Int
          /\ Lateness(now, d) <= Lateness(later, d)
      BY <3>1, LatenessGrows
    <3> QED
      BY <3>2 DEF later
  <2> QED
    BY <1>6, <2>1, <2>2
<1>7. Targeted => Targeted'
  BY <1>1, <1>2, <1>3, <1>6 DEF Targeted
<1>8. Aims'
  BY <1>1, <1>2, <1>7 DEF Aims, ReleasedAt, Released
<1>9. MissedOnlyIfLate'
  <2>1. CloseBy => Due[level] \in Int
    BY <1>3, DueDates DEF CloseBy, Due
  <2>2. ASSUME CloseBy, Lateness(now, EntryDue) > EntryLateness
        PROVE  Lateness(now + 1, EntryDue) > EntryLateness
    <3>1. 0 \in Levels /\ signal.entry # NoTime /\ LegMinute(signal, 0) = signal.entry
      BY <2>2, MaxLevelIsNat DEF Levels, CloseBy, LegMinute
    <3>2. EntryDue \in Int
      BY <1>3, <3>1, TimeOfLeg, NearestDate DEF EntryDue
    <3>3. /\ Lateness(now, EntryDue) \in Int /\ Lateness(now + 1, EntryDue) \in Int
          /\ Lateness(now, EntryDue) <= Lateness(now + 1, EntryDue)
      BY <1>3, <3>2, LatenessGrows
    <3> QED
      BY <2>2, <3>3, ScheduleAssumption
  <2>3. ASSUME CloseBy, Lateness(now, Due[level]) > MaxLateness(level)
        PROVE  Lateness(now + 1, Due[level]) > MaxLateness(level)
    BY <1>6, <2>1, <2>3
  <2>4. /\ CloseBy' => CloseBy /\ now' = now + 1 /\ pc' = pc
        /\ Lateness(now, EntryDue)' = Lateness(now + 1, EntryDue)
        /\ Lateness(now, Due[level])' = Lateness(now + 1, Due[level])
        /\ MaxLateness(level)' = MaxLateness(level)
    BY <1>1, <1>2 DEF Lateness, MaxLateness
  <2> QED
    BY <2>2, <2>3, <2>4 DEF MissedOnlyIfLate
<1> QED
  BY <1>4, <1>5, <1>8, <1>9

LEMMA NextKeeps == ScheduleInv /\ [Next]_vars => ScheduleInv'
<1> SUFFICES ASSUME ScheduleInv, [Next]_vars PROVE ScheduleInv'
  OBVIOUS
<1>1. CASE UNCHANGED vars
  <2>1. Due' = Due /\ EntryDue' = EntryDue /\ CloseBy' = CloseBy /\ Aimed' = Aimed
    BY <1>1, MeaningStays DEF vars
  <2> QED
    BY <1>1, <2>1 DEF vars, ScheduleInv, Types, Order, Aims, Targeted, ReleasedAt, Released, MissedOnlyIfLate
<1>2. CASE Next
  BY <1>1, <1>2, DispatchKeeps, StartKeeps, ResolveKeeps, CheckKeeps, AwakeKeeps, SendKeeps, EndKeeps,
     TickKeeps DEF Next, Handle, Quiet
<1> QED
  BY <1>1, <1>2

LEMMA ScheduleIsInvariant == Spec => []ScheduleInv
BY InitInv, NextKeeps, PTL DEF Spec

(* With the short latenesses of the profile, whatever the delays and        *)
(* midnights between the readings of the clock, and whatever level the      *)
(* signal starts at, wait_for_leg lets a leg through only at its own time   *)
(* of day, within the lateness, never before it is meant.                   *)
THEOREM OnlyAtItsTime ==
    ASSUME LatenessIsShort PROVE Spec => []ReleasedAtItsTimeOfDay
<1>1. ScheduleInv => ReleasedAtItsTimeOfDay
  BY DEF ScheduleInv, Aims, Aimed, ReleasedAt, ReleasedAtItsTimeOfDay
<1> QED
  BY <1>1, ScheduleIsInvariant, PTL

(* A signal is turned away only once its entry is past by more than the     *)
(* entry's lateness, and a leg given up only once its own moment is past by *)
(* more than its own, whatever those latenesses are.                        *)
THEOREM OnlyWhenTooLate == Spec => []MissedOnlyIfLate
<1>1. ScheduleInv => MissedOnlyIfLate
  BY DEF ScheduleInv
<1> QED
  BY <1>1, ScheduleIsInvariant, PTL
=============================================================================
