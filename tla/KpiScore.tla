------------------------------ MODULE KpiScore ------------------------------
(***************************************************************************)
(* The scorecard's arithmetic: src/core/time/kpis.ts and the second half   *)
(* of src/modules/kpis/schema/validation.ts.  All of it is pure.           *)
(*                                                                         *)
(* Days are numbered, and so are months, from month 0 of year 0.  A        *)
(* threshold is in percent.  An achievement is in whole percent, rounded   *)
(* down.                                                                   *)
(***************************************************************************)
EXTENDS Integers, FiniteSets

CONSTANTS
  Null,           \* null
  Amounts,        \* the values readings have
  TargetAmounts,  \* the values targets have
  Days,           \* the days that pass, consecutive ones
  MonthOf,        \* the calendar: the month of each day
  ReadingDays,    \* the days that readings are dated
  TargetYears,    \* the years and the periods that targets are given to
  TargetPeriods,
  MaxReadings,    \* bounds: readings and targets of the measure at one time
  MaxTargets

ASSUME AmountAssumption == Amounts \subseteq Int /\ TargetAmounts \subseteq Int
ASSUME CalendarAssumption ==
  /\ Days \subseteq Nat /\ ReadingDays \subseteq Days /\ MonthOf \in [Days -> Nat]
  /\ \A day \in Days : day + 1 \in Days => MonthOf[day + 1] \in {MonthOf[day], MonthOf[day] + 1}
  /\ TargetYears \subseteq Nat /\ TargetPeriods \subseteq 1 .. 12
  /\ MaxReadings \in Nat /\ MaxTargets \in Nat

VARIABLES
  facts,   \* the measure, its live readings and its live targets
  today    \* the workspace's day

scoreVars == <<facts, today>>

Reading == [day: ReadingDays, value: Amounts]

Target == [year: TargetYears, period: TargetPeriods, value: TargetAmounts]

ASSUME NullAssumption == Null \notin Int /\ Null \notin Reading /\ Null \notin Target

Frequency == {"monthly", "quarterly", "annual"}
Direction == {"higher", "lower"}

\* settings 'kpis.status_thresholds', at its default.
Band == [higher |-> [on |-> 99, near |-> 85], lower |-> [on |-> 101, near |-> 118]]

-----------------------------------------------------------------------------
(* Periods                                                                 *)

PeriodsPerYear(f) == CASE f = "monthly" -> 12 [] f = "quarterly" -> 4 [] f = "annual" -> 1

MonthsPerPeriod(f) == 12 \div PeriodsPerYear(f)

PeriodOf(month, f) ==
  [year |-> month \div 12, period |-> ((month % 12) \div MonthsPerPeriod(f)) + 1]

PeriodIndex(p, f) == p.year * PeriodsPerYear(f) + p.period - 1

ShiftPeriod(p, by, f) ==
  LET index == PeriodIndex(p, f) + by
  IN [year |-> index \div PeriodsPerYear(f), period |-> (index % PeriodsPerYear(f)) + 1]

\* periodRange, in months: the first and the last one.
PeriodRange(p, f) ==
  LET first == 12 * p.year + (p.period - 1) * MonthsPerPeriod(f)
  IN [from |-> first, to |-> first + MonthsPerPeriod(f) - 1]

\* Mutant of PeriodsBehind: years are not carried.
PeriodsBehindInYear(day, now, f) ==
  PeriodOf(MonthOf[now], f).period - PeriodOf(MonthOf[day], f).period

PeriodsBehind(day, now, f) ==
  PeriodIndex(PeriodOf(MonthOf[now], f), f) - PeriodIndex(PeriodOf(MonthOf[day], f), f)

-----------------------------------------------------------------------------
(* Status, achievement, effective target                                   *)

Sign(n) == IF n > 0 THEN 1 ELSE IF n < 0 THEN -1 ELSE 0

Meets(current, target, d) == IF d = "higher" THEN current >= target ELSE current <= target

\* ratio >= percent, for a ratio of two numbers of one sign.
RatioAtLeast(current, target, percent) ==
  IF target > 0 THEN 100 * current >= percent * target ELSE 100 * current <= percent * target

RatioAtMost(current, target, percent) ==
  IF target > 0 THEN 100 * current <= percent * target ELSE 100 * current >= percent * target

\* Mutant of Banded: the bands of a lower-is-better measure are read upwards as well.
BandedUpwards(current, target, d) ==
  IF RatioAtLeast(current, target, Band[d].on) THEN "on_target"
  ELSE IF RatioAtLeast(current, target, Band[d].near) THEN "near_target" ELSE "off_target"

Banded(current, target, d) ==
  LET within(percent) == IF d = "higher" THEN RatioAtLeast(current, target, percent)
                                         ELSE RatioAtMost(current, target, percent)
  IN IF within(Band[d].on) THEN "on_target"
     ELSE IF within(Band[d].near) THEN "near_target" ELSE "off_target"

ComputeKpiStatus(current, day, target, d, f, now) ==
  IF current = Null \/ day = Null THEN "no_data"
  ELSE IF PeriodsBehind(day, now, f) > 1 THEN "stale"
  ELSE IF target = Null THEN "no_target"
  ELSE IF target = 0 \/ Sign(current) # Sign(target)
       THEN IF Meets(current, target, d) THEN "on_target" ELSE "off_target"
  ELSE Banded(current, target, d)

\* Mutant of AchievementOf: the ratio is not inverted.
AchievementUpwards(current, target, d) ==
  IF current = Null \/ target = Null \/ target <= 0 \/ current <= 0 THEN Null
  ELSE IF current > 9 * target THEN 999 ELSE (100 * current) \div target

AchievementOf(current, target, d) ==
  IF current = Null \/ target = Null THEN Null
  ELSE IF target <= 0 \/ current <= 0 THEN Null
  ELSE LET percent == IF d = "higher" THEN (100 * current) \div target
                                      ELSE (100 * target) \div current
       IN IF percent > 999 THEN 999 ELSE percent

\* The order of the targets a row carries: by year, then by period.
ListedBefore(t, u) == t.year < u.year \/ (t.year = u.year /\ t.period <= u.period)

\* Mutant of ResolveEffectiveTarget: the period that runs now is passed over.
ResolveFutureTarget(targets, p, f) ==
  LET open == {t \in targets : PeriodIndex(t, f) > PeriodIndex(p, f)}
  IN IF open = {} THEN Null
     ELSE CHOOSE t \in open : \A u \in open : PeriodIndex(t, f) <= PeriodIndex(u, f)

\* The earliest target not before p; of two with one index the sort keeps the first listed.
ResolveEffectiveTarget(targets, p, f) ==
  LET open == {t \in targets : PeriodIndex(t, f) >= PeriodIndex(p, f)}
  IN IF open = {} THEN Null
     ELSE CHOOSE t \in open : \A u \in open :
            \/ PeriodIndex(t, f) < PeriodIndex(u, f)
            \/ PeriodIndex(t, f) = PeriodIndex(u, f) /\ ListedBefore(t, u)

\* The target of exactly one period.
TargetIn(targets, p) ==
  IF \E t \in targets : t.year = p.year /\ t.period = p.period
  THEN CHOOSE t \in targets : t.year = p.year /\ t.period = p.period
  ELSE Null

\* Of a reading or a target that may be absent.
ValueOf(row) == IF row = Null THEN Null ELSE row.value
DayOf(reading) == IF reading = Null THEN Null ELSE reading.day

\* Of two readings the later one; a day has one live reading.
Latest(readings) == CHOOSE r \in readings : \A s \in readings : s.day <= r.day

\* The latest reading up to today: one dated ahead is left out until its day is reached.
Current ==
  LET reached == {r \in facts.readings : r.day <= today}
  IN IF reached = {} THEN Null ELSE Latest(reached)

ThisPeriod == PeriodOf(MonthOf[today], facts.frequency)

\* What a row, the gauge and Home show.  An offset reads a neighbouring period, exactly and
\* without freshness.
DeriveMeta(offset) ==
  LET p == ShiftPeriod(ThisPeriod, offset, facts.frequency)
      target == IF offset # 0 THEN TargetIn(facts.targets, p)
                ELSE ResolveEffectiveTarget(facts.targets, p, facts.frequency)
  IN [target |-> target,
      status |-> ComputeKpiStatus(ValueOf(Current), IF offset # 0 THEN today ELSE DayOf(Current),
                                  ValueOf(target), facts.direction, facts.frequency, today),
      achievement |-> AchievementOf(ValueOf(Current), ValueOf(target), facts.direction)]

\* Mutant of DetailBase: the comparison is centred on the period that runs now.
DetailBaseIsNow == ThisPeriod

\* getKpiDetail centres its comparison on the period the row is measured against.
DetailBase ==
  LET target == DeriveMeta(0).target
  IN IF target = Null THEN ThisPeriod
     ELSE [year |-> target.year, period |-> target.period]

\* derivePeriods: the entry of the detail that stands `offset` periods from its middle.
PeriodEntry(offset) ==
  LET p == ShiftPeriod(DetailBase, offset, facts.frequency)
      target == ValueOf(TargetIn(facts.targets, p))
  IN [period |-> p, target |-> target,
      achievement |-> AchievementOf(ValueOf(Current), target, facts.direction),
      status |-> IF offset = 0 THEN DeriveMeta(0).status
                 ELSE ComputeKpiStatus(ValueOf(Current), today, target, facts.direction,
                                       facts.frequency, today)]

SeverityRank ==
  [off_target |-> 0, stale |-> 1, no_data |-> 2, near_target |-> 3, no_target |-> 4,
   on_target |-> 5]

-----------------------------------------------------------------------------
(* One measure over the days: its facts change, time passes                *)

Facts == [frequency: Frequency, direction: Direction, readings: SUBSET Reading,
          targets: SUBSET Target]

ScoreTypeOK == facts \in Facts /\ today \in Days

\* createKpi, with the schema's defaults.
ScoreInit ==
  /\ facts = [frequency |-> "quarterly", direction |-> "higher", readings |-> {}, targets |-> {}]
  /\ today \in {day \in Days : day - 1 \notin Days}

PassDay == today + 1 \in Days /\ today' = today + 1 /\ UNCHANGED facts

\* Of a past day, of today or of a day ahead.  A day that has a reading refuses a second one, and
\* its value is overwritten (addReading, overwriteReading, patchReading).
PutReading(r) ==
  LET others == {s \in facts.readings : s.day # r.day} IN
  /\ Cardinality(others) < MaxReadings
  /\ facts' = [facts EXCEPT !.readings = others \cup {r}]
  /\ UNCHANGED today

DropReading(r) ==
  facts' = [facts EXCEPT !.readings = @ \ {r}] /\ UNCHANGED today

\* One target per year and period; the request takes any period from 1 to 12.
PutTarget(t) ==
  LET others == {u \in facts.targets : u.year # t.year \/ u.period # t.period} IN
  /\ Cardinality(others) < MaxTargets
  /\ facts' = [facts EXCEPT !.targets = others \cup {t}]
  /\ UNCHANGED today

DropTarget(t) ==
  facts' = [facts EXCEPT !.targets = @ \ {t}] /\ UNCHANGED today

\* patchKpi: the readings and the targets stay as they are.
PatchMeasure(f, d) ==
  facts' = [facts EXCEPT !.frequency = f, !.direction = d] /\ UNCHANGED today

ScoreNext ==
  \/ PassDay
  \/ \E r \in Reading : PutReading(r)
  \/ \E r \in facts.readings : DropReading(r)
  \/ \E t \in Target : PutTarget(t)
  \/ \E t \in facts.targets : DropTarget(t)
  \/ \E f \in Frequency, d \in Direction : PatchMeasure(f, d)

ScoreSpec == ScoreInit /\ [][ScoreNext]_scoreVars

-----------------------------------------------------------------------------
(* Properties                                                              *)

\* Every target names a period of the frequency.  A change of frequency keeps the targets, and a
\* request may name any period up to 12, so a row may hold others: nothing below is true of those.
Sane == \A t \in facts.targets : t.period <= PeriodsPerYear(facts.frequency)

Row == DeriveMeta(0)

\* The effective target is the one of the period that today lies in, else of the next period
\* that has one (KPIS-B02): stated in calendar months, by the first and last month of a period.
EffectiveTargetIsNext ==
  Sane => LET chosen == Row.target
              range(t) == PeriodRange(t, facts.frequency)
              ahead == {t \in facts.targets : range(t).to >= MonthOf[today]}
          IN IF ahead = {} THEN chosen = Null
             ELSE /\ chosen \in ahead
                  /\ \A t \in ahead : range(chosen).from <= range(t).from

\* The record's comparison opens on the answer of the row it was opened from (KPIS-B08); and
\* where that is the running period, its neighbours are what the whole list shows when it is
\* shifted by a period (KPIS-B26).
RecordAgreesWithList ==
  Sane => LET centred == DetailBase = ThisPeriod IN
    \A offset \in {-1, 0, 1} : offset = 0 \/ centred =>
      LET entry == PeriodEntry(offset)
          listed == DeriveMeta(offset)
      IN /\ entry.target = ValueOf(listed.target)
         /\ entry.achievement = listed.achievement
         /\ entry.status = listed.status

\* Whatever is read today, a value that is better in the measure's own direction never ranks as
\* more severe, against a target that is not negative (KPIS-B01, B07); and a measure at 100 percent
\* or more on its gauge is on target (KPIS-B03).
BetterNeverReadsWorse ==
  LET target == ValueOf(Row.target)
      status == [value \in Amounts |-> ComputeKpiStatus(value, today, target, facts.direction,
                                                       facts.frequency, today)]
  IN target # Null => target < 0 \/ \A value \in Amounts :
       /\ \A other \in Amounts : Meets(value, other, facts.direction) =>
            SeverityRank[status[value]] >= SeverityRank[status[other]]
       /\ LET gauge == AchievementOf(value, target, facts.direction)
          IN gauge # Null => (gauge >= 100 => status[value] = "on_target")

\* Time alone changes a status in three ways (KPIS-B01, B02, B09).  A day that no reading is dated
\* makes the status stale, for good, or another period's target is now the effective one.  A day
\* that a reading was dated ahead makes that reading count, and the measure is fresh.
TimeOnlyAges ==
  [][today' # today =>
     LET row == Row  next == Row' IN
       IF \E r \in facts.readings : r.day = today'
       THEN next.status \notin {"stale", "no_data"}
       ELSE /\ row.status = "stale" => next.status = "stale"
            /\ next.status \in {row.status, "stale"} \/ next.target # row.target]_scoreVars
=============================================================================
