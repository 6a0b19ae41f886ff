-------------------------------- MODULE Cron --------------------------------
(***************************************************************************)
(* crond and crontab: crond sleeps until the next minute, reads the spool  *)
(* and starts what is due; crontab replaces the table, in two steps, at    *)
(* any time.  The clock goes on meanwhile, and may be set.                 *)
(***************************************************************************)
EXTENDS Integers, FiniteSets

CONSTANTS
  Calendar,    \* the minutes, numbered: [minute, hour, dom, month, dow] of each
  Tables,      \* crontabs: sets of entries, whose fields are sets of parts
  TicksPerMinute,
  MaxTick

ASSUME CronAssumption ==
  /\ TicksPerMinute \in Nat \ {0} /\ MaxTick \in Nat
  /\ 0 .. MaxTick \div TicksPerMinute \subseteq DOMAIN Calendar
  /\ \A t \in Tables : IsFiniteSet(t)

(* The minutes of a calendar, and schedules as they are written: parts are *)
(* numbers, steps are positive and days of the week are 0 to 7.  crond     *)
(* parses the numbers and matches nothing for a step of zero; a day after  *)
(* 7 is no day, which it does not check.                                   *)
Written(spec) ==
  \A part \in spec :
    /\ part.step \in Nat \ {0} /\ part.all \in BOOLEAN
    /\ part.all \/ (part.lo \in Nat /\ part.hi \in Int)
ASSUME CalendarAssumption ==
  /\ \A m \in DOMAIN Calendar :
       /\ Calendar[m].minute \in 0 .. 59 /\ Calendar[m].hour \in 0 .. 23
       /\ Calendar[m].dom \in 1 .. 31 /\ Calendar[m].month \in 1 .. 12
       /\ Calendar[m].dow \in 0 .. 6
  /\ \A t \in Tables : \A e \in t :
       /\ Written(e.minute) /\ Written(e.hour) /\ Written(e.dom) /\ Written(e.month)
       /\ Written(e.dow) /\ \A part \in e.dow : part.all \/ part.lo .. part.hi \subseteq 0 .. 7

VARIABLES
  clock,     \* the time of day, in ticks
  elapsed,   \* the monotonic time
  table,     \* the crontab in the spool
  newtable,  \* what crontab has truncated the file for, {} when it is at rest
  cron,      \* "new", "sleep" or "run"
  wake,      \* when the sleep is over
  entries,   \* what was loaded
  fired,     \* <<entry, minute, elapsed>> of each command that was started
  smooth,    \* minutes in which crond had its turn and its table
  reset      \* the clock has been set

crvars == <<clock, elapsed, table, newtable, cron, wake, entries, fired, smooth, reset>>

Minute == clock \div TicksPerMinute
Minutes == 0 .. MaxTick \div TicksPerMinute

-----------------------------------------------------------------------------
(* The schedule: a part of a field is all values, one, or a range, with a  *)
(* step.                                                                   *)

All(step)      == [all |-> TRUE, lo |-> 0, hi |-> 0, step |-> step]
Span(a, b, step) == [all |-> FALSE, lo |-> a, hi |-> b, step |-> step]
Every          == {All(1)}

MatchPart(part, v, min, max) ==
  LET lo == IF part.all THEN min ELSE part.lo
      hi == IF part.all THEN max ELSE part.hi
  IN  part.step > 0 /\ v \in lo .. hi /\ (v - lo) % part.step = 0
MatchField(spec, v, min, max) == \E part \in spec : MatchPart(part, v, min, max)
MatchDow(spec, v) == MatchField(spec, v, 0, 7) \/ (v = 0 /\ MatchField(spec, 7, 0, 7))

MatchesBothDays(e, t) ==   \* mutant: both days must match even if both are restricted
  /\ MatchField(e.minute, t.minute, 0, 59) /\ MatchField(e.hour, t.hour, 0, 23)
  /\ MatchField(e.month, t.month, 1, 12)
  /\ MatchField(e.dom, t.dom, 1, 31) /\ MatchDow(e.dow, t.dow)

Matches(e, t) ==
  LET domOK == MatchField(e.dom, t.dom, 1, 31)
      dowOK == MatchDow(e.dow, t.dow)
  IN  /\ MatchField(e.minute, t.minute, 0, 59) /\ MatchField(e.hour, t.hour, 0, 23)
      /\ MatchField(e.month, t.month, 1, 12)
      /\ IF e.dom # Every /\ e.dow # Every THEN domOK \/ dowOK ELSE domOK /\ dowOK

-----------------------------------------------------------------------------
(* crond. *)

CronInit ==
  /\ clock = 0 /\ elapsed = 0 /\ table = {} /\ newtable = {} /\ cron = "new"
  /\ wake = 0 /\ entries = {} /\ fired = {}
  /\ smooth = Minutes \ {0} /\ reset = FALSE

UntilNext(c) == (c \div TicksPerMinute + 1) * TicksPerMinute - c

Sleep ==
  /\ cron = "new" /\ cron' = "sleep" /\ wake' = elapsed + UntilNext(clock)
  /\ UNCHANGED <<clock, elapsed, table, newtable, entries, fired, smooth, reset>>

LoadEntries ==
  /\ cron = "sleep" /\ elapsed >= wake /\ cron' = "run" /\ entries' = table
  /\ UNCHANGED <<clock, elapsed, table, newtable, wake, fired, smooth, reset>>

RunDue ==
  /\ cron = "run" /\ cron' = "new"
  /\ fired' = fired \cup
       {<<e, Minute, elapsed>> : e \in {x \in entries : Matches(x, Calendar[Minute])}}
  /\ UNCHANGED <<clock, elapsed, table, newtable, wake, entries, smooth, reset>>

-----------------------------------------------------------------------------
(* The world around it. *)

(* A minute that ends before crond had its turn is not smooth, and neither *)
(* is the next, whose commands may come from what was loaded before.       *)
Tick ==
  /\ clock < MaxTick /\ elapsed < MaxTick
  /\ clock' = clock + 1 /\ elapsed' = elapsed + 1
  /\ smooth' = IF UntilNext(clock) = 1 /\ (cron # "sleep" \/ elapsed >= wake)
               THEN smooth \ {Minute, Minute + 1} ELSE smooth
  /\ UNCHANGED <<table, newtable, cron, wake, entries, fired, reset>>

SetClock ==
  /\ ~reset /\ reset' = TRUE /\ smooth' = {}
  /\ clock' \in (0 .. MaxTick) \ {clock}
  /\ UNCHANGED <<elapsed, table, newtable, cron, wake, entries, fired>>

(* installCrontab: the file is truncated, and then written.                *)
TruncateTable ==
  /\ newtable = {} /\ newtable' \in Tables \ {table, {}} /\ table' = {}
  /\ smooth' = smooth \ {Minute}
  /\ UNCHANGED <<clock, elapsed, cron, wake, entries, fired, reset>>
WriteTable ==
  /\ newtable # {} /\ newtable' = {} /\ table' = newtable
  /\ smooth' = smooth \ {Minute}
  /\ UNCHANGED <<clock, elapsed, cron, wake, entries, fired, reset>>

CronNext ==
  \/ Sleep \/ LoadEntries \/ RunDue
  \/ Tick \/ SetClock \/ TruncateTable \/ WriteTable
CronSpec == CronInit /\ [][CronNext]_crvars

-----------------------------------------------------------------------------
(* Properties. *)

(* What a schedule means: the values each field lists, Sunday being 0 and  *)
(* 7, and either day if both are restricted.                               *)
Values(spec, min, max) ==
  UNION {IF p.all THEN {v \in min .. max : \E k \in 0 .. max : v = min + k * p.step}
                  ELSE {v \in p.lo .. p.hi : \E k \in 0 .. max : v = p.lo + k * p.step} : p \in spec}
Scheduled(e, t) ==
  LET day    == t.dom \in Values(e.dom, 1, 31)
      onWeek == t.dow \in {v % 7 : v \in Values(e.dow, 0, 7)}
  IN  /\ t.minute \in Values(e.minute, 0, 59) /\ t.hour \in Values(e.hour, 0, 23)
      /\ t.month \in Values(e.month, 1, 12)
      /\ day \/ e.dom = Every \/ (onWeek /\ e.dow # Every)
      /\ onWeek \/ e.dow = Every \/ (day /\ e.dom # Every)

Starts(e, m) == {s \in fired : s[1] = e /\ s[2] = m}

(* Once crond sleeps again it has started, once each, the commands of its  *)
(* table that are scheduled for this minute and no other, if the table was *)
(* left alone in that minute and crond had its turn.                       *)
RunsWhatIsDue ==
  cron = "sleep" /\ elapsed < wake /\ Minute \in smooth =>
    /\ \A e \in table : Scheduled(e, Calendar[Minute]) => Cardinality(Starts(e, Minute)) = 1
    /\ \A s \in fired : s[2] = Minute => s[1] \in table /\ Scheduled(s[1], Calendar[Minute])

(* However late crond gets its turn and whatever happens to the table, no  *)
(* command is started twice for a minute, unless the clock is set.         *)
NeverTwice == ~reset => \A s \in fired : Starts(s[1], s[2]) = {s}

(* Commands start in the minutes they are scheduled for, once in each.     *)
CrondIsPunctual == RunsWhatIsDue /\ NeverTwice
=============================================================================
