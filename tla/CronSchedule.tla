---------------------------- MODULE CronSchedule ----------------------------
(***************************************************************************)
(* cron_next_run (collectors/cron.py): when a crontab line triggers next.  *)
(* The collector asks anew in every pass while time goes on, the crontab   *)
(* is edited, the host sleeps and the local clock changes to summer time   *)
(* and back.                                                               *)
(*                                                                         *)
(* Time is counted in minutes of standard time from 1 March 2024, 00:00.   *)
(* The days and months are the real ones; the hours of a day and the       *)
(* minutes of an hour are constants.  A field of a schedule is a sequence  *)
(* of parts; the digits and names a part is written with are abstracted.   *)
(***************************************************************************)
EXTENDS Integers, Sequences, FiniteSetsExt

CONSTANTS Schedules,            \* what the operator may write into the crontab
          LastHour, LastMinute, \* 23 and 59
          SearchDays,           \* 366 * 2
          Summer,               \* the minutes at which summer time is in force
          Awake                 \* bound: the minutes the host does not sleep through

\* What _parse_field makes of one part of a field.
Part == [kind : {"any", "one", "range", "word"}, from : Nat, to : Nat, step : Nat]

ASSUME CronAssumption ==
    /\ LastHour \in Nat /\ LastMinute \in Nat /\ SearchDays \in Nat \ {0}
    /\ Summer \subseteq Nat /\ Awake \subseteq Nat
    /\ Schedules \subseteq Seq(Seq(Part) \ {<<>>})

VARIABLES cronNow,   \* time.time()
          schedule,  \* the schedule of the line
          nextRun,   \* what the last pass shipped
          asked,     \* when that pass asked
          askedFor   \* and the schedule it found

cronVars == <<cronNow, schedule, nextRun, asked, askedFor>>

NoRun == -1
Hour  == LastMinute + 1
Day   == Hour * (LastHour + 1)

\* Between two changes of the clock there are more than two hours.
ASSUME SummerAssumption ==
    \A u \in Summer :
        /\ \A v \in u .. u + 2 * Hour : v \in Summer => u .. v \subseteq Summer
        /\ u - 2 * Hour .. u \subseteq Summer \/ u .. u + 2 * Hour \subseteq Summer

-----------------------------------------------------------------------------
\* The local calendar and clock (datetime)

\* What precedes each month of a year that begins in March.
Before == <<0, 31, 61, 92, 122, 153, 184, 214, 245, 275, 306, 337>>

InMonth(inYear, i) == Before[i] <= inYear /\ (i < 12 => inYear < Before[i + 1])

DateInYear(inYear) ==
    LET i == CHOOSE j \in 1 .. 12 : InMonth(inYear, j)
    IN  [month |-> ((i + 1) % 12) + 1, day |-> inYear - Before[i] + 1]

Calendar ==   \* four years: 29 February 2028 is the last day
    [d \in 0 .. 1460 |-> DateInYear(IF d = 1460 THEN 365 ELSE d % 365)]

Date(d)    == Calendar[d % 1461]
WeekDay(d) == (d + 5) % 7        \* Sunday is 0

Clock(d, h, m) == d * Day + (h * Hour + m)

Local(u) == IF u \in Summer THEN u + Hour ELSE u

\* timestamp() of a naive local time: the earlier one of an hour that comes
\* twice, and by standard time in an hour that does not come at all.
Epoch(l) == IF l - Hour \in Summer THEN l - Hour ELSE l

-----------------------------------------------------------------------------
\* Fields

Whole        == [kind |-> "any", from |-> 0, to |-> 0, step |-> 1]
One(n)       == [Whole EXCEPT !.kind = "one", !.from = n]
FromTo(m, n) == [Whole EXCEPT !.kind = "range", !.from = m, !.to = n]
Word         == [Whole EXCEPT !.kind = "word"]  \* what int() and the names refuse
Every(p, n)  == [p EXCEPT !.step = n]         \* 0 is what is no positive number

Values(p, lo, hi) ==
    LET from == IF p.kind = "any" THEN lo ELSE p.from
        to   == CASE p.kind = "any" -> hi [] p.kind = "range" -> p.to
                  [] OTHER -> IF p.step > 1 THEN hi ELSE p.from
    IN  {v \in from .. to : (v - from) % p.step = 0}

Parts(field) == {field[i] : i \in 1 .. Len(field)}

\* _parse_field; the empty set is None.
ParseField(field, lo, hi) ==
    IF \E p \in Parts(field) : p.step = 0 \/ p.kind = "word" THEN {}
    ELSE LET values == UNION {Values(p, lo, hi) : p \in Parts(field)}
         IN  IF values \subseteq lo .. hi THEN values ELSE {}

Star(field) == field[1].kind = "any"   \* startswith("*")

KeywordSpecs ==
    LET zero == <<One(0)>>  one == <<One(1)>>  any == <<Whole>>
    IN  [hourly |-> <<zero, any, any, any, any>>, daily  |-> <<zero, zero, any, any, any>>,
         weekly |-> <<zero, zero, any, any, zero>>, monthly |-> <<zero, zero, one, any, any>>,
         yearly |-> <<zero, zero, one, one, any>>]

-----------------------------------------------------------------------------
\* The search

Parsed(s) ==
    [minutes |-> ParseField(s[1], 0, LastMinute), hours |-> ParseField(s[2], 0, LastHour),
     doms |-> ParseField(s[3], 1, 31), months |-> ParseField(s[4], 1, 12),
     dows |-> {w % 7 : w \in ParseField(s[5], 0, 7)},  \* both 0 and 7 mean Sunday
     domStar |-> Star(s[3]), dowStar |-> Star(s[5])]

\* Mutant: both day fields have to match.
DayMatchesBoth(f, d) ==
    Date(d).month \in f.months /\ Date(d).day \in f.doms /\ WeekDay(d) \in f.dows

DayMatches(f, d) ==
    LET domOk == Date(d).day \in f.doms
        dowOk == WeekDay(d) \in f.dows
    IN  /\ Date(d).month \in f.months
        /\ \/ f.domStar /\ f.dowStar
           \/ f.domStar /\ dowOk
           \/ f.dowStar /\ domOk
           \/ ~f.domStar /\ ~f.dowStar /\ (domOk \/ dowOk)

\* The candidates of day d that are not before the local time start.
Due(f, start, d) ==
    {l \in {Clock(d, h, m) : h \in f.hours, m \in f.minutes} : l >= start}

\* The first candidate on SearchDays days.
Search(f, start) ==
    LET first == start \div Day
        days  == {d \in first .. first + SearchDays - 1 :
                    DayMatches(f, d) /\ Due(f, start, d) # {}}
    IN  IF days = {} THEN NoRun ELSE Epoch(Min(Due(f, start, Min(days))))

\* "@reboot and anything unparseable" have no next run.
Valid(s) ==
    /\ Len(s) = 5
    /\ LET f == Parsed(s)
       IN  {} \notin {f.minutes, f.hours, f.doms, f.months, f.dows}

\* Mutant: the running minute is looked at, too.
NextRunFromNow(s, now) == IF Valid(s) THEN Search(Parsed(s), Local(now)) ELSE NoRun

\* Mutant: the search begins tomorrow.
NextRunTomorrow(s, now) ==
    IF Valid(s) THEN Search(Parsed(s), (Local(now + 1) \div Day + 1) * Day) ELSE NoRun

\* cron_next_run: from the minute after now.
NextRun(s, now) == IF Valid(s) THEN Search(Parsed(s), Local(now + 1)) ELSE NoRun

-----------------------------------------------------------------------------
CronInit ==
    /\ cronNow = 0 /\ asked = 0
    /\ schedule = <<>> /\ askedFor = <<>> /\ nextRun = NoRun

CollectSchedule ==
    /\ nextRun' = NextRun(schedule, cronNow) /\ asked' = cronNow /\ askedFor' = schedule
    /\ UNCHANGED <<cronNow, schedule>>

\* Bound: the line is written once; a line that is written later is one that
\* stands where time begins.
EditCrontab ==
    /\ schedule = <<>> /\ schedule' \in Schedules
    /\ UNCHANGED <<cronNow, nextRun, asked, askedFor>>

\* Time goes on, or the host sleeps.
TimePasses ==
    /\ cronNow' \in {t \in Awake : t > cronNow}
    /\ UNCHANGED <<schedule, nextRun, asked, askedFor>>

CronNext == CollectSchedule \/ EditCrontab \/ TimePasses

CronSpec == CronInit /\ [][CronNext]_cronVars

-----------------------------------------------------------------------------
\* Properties

\* When crond itself triggers a line, part by part: both day fields have to
\* match if one of them begins with a star, one of the two is enough otherwise.
Selects(field, v, lo) ==
    \E p \in Parts(field) :
        LET from == IF p.kind = "any" THEN lo ELSE p.from
        IN  /\ v >= from /\ (v - from) % p.step = 0
            /\ p.kind = "range" => v <= p.to
            /\ (p.kind = "one" /\ p.step = 1) => v = p.from

Triggers(s, u) ==
    LET l   == Local(u)
        d   == l \div Day
        dom == Selects(s[3], Date(d).day, 1)
        dow == \/ Selects(s[5], WeekDay(d), 0)
               \/ WeekDay(d) = 0 /\ Selects(s[5], 7, 0)
    IN  /\ Selects(s[1], l % Hour, 0) /\ Selects(s[2], (l % Day) \div Hour, 0)
        /\ Selects(s[4], Date(d).month, 1)
        /\ IF Star(s[3]) \/ Star(s[5]) THEN dom /\ dow ELSE dom \/ dow

\* The clock is changed within an hour of u.
NearChange(u) == (u - Hour \in Summer) # (u + Hour \in Summer)

\* The state after a pass over a schedule that can be parsed.
JustAsked == asked = cronNow /\ Valid(askedFor)

\* "Next trigger time (epoch, local timezone) of a 5-field cron schedule"
\* (cron.py 262-263), for the fields of one pass, if neither the pass nor that
\* time is in an hour in which the clock is changed.
IsNextTrigger ==
    ~NearChange(asked + 1) /\ (nextRun # NoRun => ~NearChange(nextRun)) =>
        IF nextRun = NoRun
        THEN \A u \in asked + 1 .. asked + (SearchDays - 1) * Day - Hour - 1 :
                ~Triggers(askedFor, u)
        ELSE /\ \A u \in asked + 1 .. nextRun - 1 : ~Triggers(askedFor, u)
             /\ Triggers(askedFor, nextRun)

\* The code's promise for every schedule (cron.py 262-263).
NextRunIsNext == JustAsked => IsNextTrigger

\* A star with a step in a day field, which the code takes for a plain star.
SteppedStar(s) == \E i \in {3, 5} : \E p \in Parts(s[i]) : p.kind = "any" /\ p.step > 1

\* What is shipped as the next run is the first minute after the pass at which
\* crond triggers the line, over leap days, month lengths, steps, lists, names
\* of Sunday and both day fields; and a line without a next run triggers on
\* none of the days the code searches (cron.py 282-302).
PlainNextRunIsNext == JustAsked /\ ~SteppedStar(askedFor) => IsNextTrigger

\* The local hour that comes twice, for the second time.
Repeated(u) == u - Hour \in Summer /\ u \notin Summer

\* The next run is never in the past of the pass that shipped it, also when
\* the clock changes - but in the hour that comes twice (cron.py 282, 300).
NextIsAhead == nextRun # NoRun /\ ~Repeated(asked + 1) => nextRun > asked

\* From pass to pass the next run of an unedited line stays what it is until
\* it is due: it cannot be skipped by asking at the wrong moment, unless that is
\* in an hour in which the clock is changed (cron.py 282-300).
StaysUntilDue ==
    [][ ( /\ asked' # asked /\ askedFor' = askedFor /\ nextRun # NoRun
          /\ asked' < nextRun /\ ~NearChange(asked' + 1))
        => nextRun' = nextRun ]_cronVars
=============================================================================
