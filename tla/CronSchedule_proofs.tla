------------------------ MODULE CronSchedule_proofs ------------------------
(***************************************************************************)
(* cron_next_run is what crond does, for every schedule, every calendar    *)
(* day, every length of the hour and the day, and every summer time.       *)
(***************************************************************************)
EXTENDS CronSchedule, WellFoundedInduction, TLAPS

-----------------------------------------------------------------------------
\* Numbers

\* A set of integers that is bounded below has a least member.
LEMMA LeastOf ==
    ASSUME NEW T, T \subseteq Int, T # {}, NEW low \in Int, \A x \in T : low <= x
    PROVE  Min(T) \in T /\ \A y \in T : Min(T) <= y
<1> DEFINE U == {x - low : x \in T}
<1>1. U \subseteq Nat /\ U # {}
  <2>1. \A x \in T : x - low \in Nat
    OBVIOUS
  <2> QED BY <2>1
<1>2. PICK n \in U : \A m \in U : ~(<<m, n>> \in OpToRel(<, Nat))
  <2> HIDE DEF U
  <2> QED BY <1>1, NatLessThanWellFounded, WFMin
<1>3. \A m \in U : n <= m
  <2> HIDE DEF U
  <2> SUFFICES ASSUME NEW m \in U, m < n PROVE FALSE
    BY <1>1
  <2>1. <<m, n>> \in {ss \in Nat \X Nat : ss[1] < ss[2]}
    BY <1>1
  <2> QED BY <1>2, <2>1 DEF OpToRel
<1>4. PICK x \in T : n = x - low
  OBVIOUS
<1>5. \A y \in T : x <= y
  <2> SUFFICES ASSUME NEW y \in T PROVE x <= y
    OBVIOUS
  <2>1. n <= y - low
    BY <1>3
  <2> QED BY <1>4, <2>1
<1> QED BY <1>5 DEF Min

\* Division with remainder.
LEMMA Divided ==
    ASSUME NEW n \in Nat, NEW k \in Nat \ {0}
    PROVE  n \div k \in Nat /\ n % k \in 0 .. k - 1 /\ n = (n \div k) * k + (n % k)
<1>1. n \div k \in Int /\ n % k \in Int /\ 0 <= n % k /\ n % k < k
  OBVIOUS
<1>2. n = (n \div k) * k + (n % k)
  OBVIOUS
<1>3. n \div k >= 0
  OBVIOUS
<1> QED BY <1>1, <1>2, <1>3

LEMMA DividedOnce ==
    ASSUME NEW k \in Nat \ {0}, NEW q \in Nat, NEW p \in Nat,
           NEW r \in 0 .. k - 1, NEW s \in 0 .. k - 1, q * k + r = p * k + s
    PROVE  q = p /\ r = s
<1>1. ASSUME NEW a \in Nat, NEW b \in Nat, a < b PROVE a * k + k <= b * k
  <2>1. PICK c \in Nat : b = a + 1 + c
    <3>1. b - a - 1 \in Nat /\ b = a + 1 + (b - a - 1)
      BY <1>1
    <3> QED BY <3>1
  <2>2. b * k = a * k + k + c * k
    BY <2>1
  <2>3. c * k \in Nat /\ a * k \in Nat /\ b * k \in Nat
    OBVIOUS
  <2> QED BY <2>2, <2>3
<1>2. ~(q < p)
  <2> SUFFICES ASSUME q < p PROVE FALSE
    OBVIOUS
  <2>1. q * k + k <= p * k /\ q * k \in Nat /\ p * k \in Nat
    BY <1>1
  <2> QED BY <2>1
<1>3. ~(p < q)
  <2> SUFFICES ASSUME p < q PROVE FALSE
    OBVIOUS
  <2>1. p * k + k <= q * k /\ q * k \in Nat /\ p * k \in Nat
    BY <1>1
  <2> QED BY <2>1
<1>4. q = p
  BY <1>2, <1>3
<1>5. q * k \in Nat
  OBVIOUS
<1> QED BY <1>4, <1>5

LEMMA Remainder ==
    ASSUME NEW k \in Nat \ {0}, NEW q \in Nat, NEW r \in 0 .. k - 1
    PROVE  (q * k + r) \div k = q /\ (q * k + r) % k = r
<1> DEFINE n == q * k + r
<1>1. n \in Nat
  <2>1. q * k \in Nat
    OBVIOUS
  <2> QED BY <2>1
<1>2. n \div k \in Nat /\ n % k \in 0 .. k - 1 /\ n = (n \div k) * k + (n % k)
  BY <1>1, Divided
<1> QED BY <1>2, DividedOnce

-----------------------------------------------------------------------------
\* The calendar

LEMMA Units ==
    /\ LastHour \in Nat /\ LastMinute \in Nat
    /\ Hour \in Nat \ {0} /\ Day \in Nat \ {0} /\ Hour <= Day
<1>1. LastHour \in Nat /\ LastMinute \in Nat
  BY CronAssumption DEF CronAssumption
<1>2. Hour \in Nat \ {0}
  BY <1>1 DEF Hour
<1>3. Day = Hour * LastHour + Hour /\ Hour * LastHour \in Nat
  BY <1>1, <1>2 DEF Day
<1> QED BY <1>1, <1>2, <1>3

\* A local time is its day, hour and minute, and no others.

LEMMA InDay ==
    ASSUME NEW h \in 0 .. LastHour, NEW m \in 0 .. LastMinute
    PROVE  h * Hour + m \in 0 .. Day - 1
<1>1. h \in Nat /\ m \in Nat /\ m < Hour
  BY Units DEF Hour
<1>2. PICK n \in Nat : LastHour = h + n
  <2>1. LastHour - h \in Nat /\ LastHour = h + (LastHour - h)
    BY Units
  <2> QED BY <2>1
<1>3. Day = h * Hour + Hour + n * Hour
  BY <1>1, <1>2, Units DEF Day
<1>4. h * Hour \in Nat /\ n * Hour \in Nat
  BY <1>1, <1>2, Units
<1> QED BY <1>1, <1>3, <1>4, Units

LEMMA ClockTells ==
    ASSUME NEW d \in Nat, NEW h \in 0 .. LastHour, NEW m \in 0 .. LastMinute
    PROVE  LET l == Clock(d, h, m)
           IN  l \in Nat /\ l \div Day = d /\ (l % Day) \div Hour = h /\ l % Hour = m
<1> DEFINE t == h * Hour + m
           l == Clock(d, h, m)
<1>1. t \in 0 .. Day - 1
  BY InDay
<1>2. l \div Day = d /\ l % Day = t
  <2> HIDE DEF t
  <2>1. (d * Day + t) \div Day = d /\ (d * Day + t) % Day = t
    BY <1>1, Units, Remainder
  <2> QED BY <2>1 DEF Clock, t
<1>3. h \in Nat /\ m \in Nat /\ m \in 0 .. Hour - 1
  BY Units DEF Hour
<1>4. t \div Hour = h
  BY <1>3, Units, Remainder
<1>5. l = (d * (LastHour + 1) + h) * Hour + m
  BY <1>3, Units DEF Clock, Day
<1>6. d * (LastHour + 1) + h \in Nat
  <2>1. d * (LastHour + 1) \in Nat
    BY Units
  <2> QED BY <1>3, <2>1
<1>7. l % Hour = m
  <2> DEFINE q == d * (LastHour + 1) + h
  <2> HIDE DEF q
  <2>1. (q * Hour + m) % Hour = m
    BY <1>3, <1>6, Units, Remainder DEF q
  <2> QED BY <1>5, <2>1 DEF q
<1>8. l \in Nat
  <2>1. d * Day \in Nat
    BY Units
  <2> QED BY <1>1, <2>1 DEF Clock
<1> QED BY <1>2, <1>4, <1>7, <1>8

LEMMA ToldByClock ==
    ASSUME NEW l \in Nat
    PROVE  \E d \in Nat, h \in 0 .. LastHour, m \in 0 .. LastMinute : l = Clock(d, h, m)
<1> DEFINE d == l \div Day
           t == l % Day
           h == t \div Hour
           m == t % Hour
<1>1. d \in Nat /\ t \in 0 .. Day - 1 /\ l = d * Day + t
  BY Units, Divided
<1>2. t \in Nat
  BY <1>1, Units
<1>3. h \in Nat /\ m \in 0 .. Hour - 1 /\ t = h * Hour + m
  <2> HIDE DEF t
  <2> QED BY <1>2, Units, Divided
<1>4. h <= LastHour
  <2> SUFFICES ASSUME h > LastHour PROVE FALSE
    BY <1>3, Units
  <2> HIDE DEF h, m, t
  <2>1. PICK n \in Nat : h = LastHour + 1 + n
    <3>1. h - LastHour - 1 \in Nat /\ h = LastHour + 1 + (h - LastHour - 1)
      BY <1>3, Units
    <3> QED BY <3>1
  <2>2. h * Hour = Day + n * Hour
    BY <2>1, Units DEF Day
  <2>3. n * Hour \in Nat /\ Day \in Nat
    BY <2>1, Units
  <2> QED BY <1>1, <1>3, <2>2, <2>3
<1>5. m \in 0 .. LastMinute
  <2> HIDE DEF m
  <2> QED BY <1>3, Units DEF Hour
<1>6. h \in 0 .. LastHour
  <2> HIDE DEF h
  <2> QED BY <1>3, <1>4, Units
<1>7. l = Clock(d, h, m)
  BY <1>1, <1>3, Zenon DEF Clock
<1> HIDE DEF d, h, m, t
<1> QED BY <1>1, <1>5, <1>6, <1>7

-----------------------------------------------------------------------------
\* Fields

\* What a part of a field that was parsed stands for.
LEMMA PartValues ==
    ASSUME NEW p \in Part, p.step # 0, p.kind # "word",
           NEW lo \in Nat, NEW hi \in Nat, NEW v \in lo .. hi
    PROVE  v \in Values(p, lo, hi) <=> Selects(<<p>>, v, lo)
<1>1. Parts(<<p>>) = {p}
  BY DEF Parts
<1>2. /\ p.kind \in {"any", "one", "range", "word"}
      /\ p.from \in Nat /\ p.to \in Nat /\ p.step \in Nat \ {0}
  BY DEF Part
<1>3. p.step = 1 \/ p.step > 1
  BY <1>2
<1>4. CASE p.kind = "any"
  BY <1>1, <1>2, <1>4 DEF Values, Selects
<1>5. CASE p.kind = "range"
  BY <1>1, <1>2, <1>5 DEF Values, Selects
<1>6. CASE p.kind = "one" /\ p.step = 1
  BY <1>1, <1>2, <1>6 DEF Values, Selects
<1>7. CASE p.kind = "one" /\ p.step > 1
  BY <1>1, <1>2, <1>7 DEF Values, Selects
<1> QED BY <1>2, <1>3, <1>4, <1>5, <1>6, <1>7

LEMMA SelectsByPart ==
    ASSUME NEW field, NEW v, NEW lo
    PROVE  Selects(field, v, lo) <=> \E p \in Parts(field) : Selects(<<p>>, v, lo)
<1>1. \A p : Parts(<<p>>) = {p}
  BY DEF Parts
<1>2. \A p : Selects(<<p>>, v, lo) <=>
        LET from == IF p.kind = "any" THEN lo ELSE p.from
        IN  /\ v >= from /\ (v - from) % p.step = 0
            /\ p.kind = "range" => v <= p.to
            /\ (p.kind = "one" /\ p.step = 1) => v = p.from
  <2> TAKE p
  <2> DEFINE T == Parts(<<p>>)
  <2>1. T = {p}
    BY <1>1
  <2> HIDE DEF T
  <2>2. Selects(<<p>>, v, lo) <=> \E q \in T :
        LET from == IF q.kind = "any" THEN lo ELSE q.from
        IN  /\ v >= from /\ (v - from) % q.step = 0
            /\ q.kind = "range" => v <= q.to
            /\ (q.kind = "one" /\ q.step = 1) => v = q.from
    BY Zenon DEF Selects, T
  <2> QED BY <2>1, <2>2, Zenon
<1> QED BY <1>2, Zenon DEF Selects

Fields == Seq(Part) \ {<<>>}

LEMMA PartsOf ==
    ASSUME NEW field \in Fields
    PROVE  Parts(field) \subseteq Part /\ field[1] \in Parts(field)
BY DEF Fields, Parts

\* _parse_field yields the values of the field's range that the field selects.
LEMMA FieldValues ==
    ASSUME NEW field \in Fields, NEW lo \in Nat, NEW hi \in Nat
    PROVE  /\ ParseField(field, lo, hi) \subseteq lo .. hi
           /\ ParseField(field, lo, hi) # {} =>
                \A v \in lo .. hi : v \in ParseField(field, lo, hi) <=> Selects(field, v, lo)
<1>1. ParseField(field, lo, hi) \subseteq lo .. hi
  BY DEF ParseField
<1>2. ASSUME ParseField(field, lo, hi) # {}, NEW v \in lo .. hi
      PROVE  v \in ParseField(field, lo, hi) <=> Selects(field, v, lo)
  <2>1. \A p \in Parts(field) : p \in Part /\ p.step # 0 /\ p.kind # "word"
    BY <1>2, PartsOf, Zenon DEF ParseField
  <2>2. ParseField(field, lo, hi) = UNION {Values(p, lo, hi) : p \in Parts(field)}
    BY <1>2, Zenon DEF ParseField
  <2>3. \A p \in Parts(field) : v \in Values(p, lo, hi) <=> Selects(<<p>>, v, lo)
    BY <1>2, <2>1, PartValues
  <2>4. v \in ParseField(field, lo, hi) <=> \E p \in Parts(field) : v \in Values(p, lo, hi)
    BY <2>2
  <2> QED BY <2>3, <2>4, SelectsByPart
<1> QED BY <1>1, <1>2

\* A field that begins with a plain star selects every value.
LEMMA StarSelects ==
    ASSUME NEW field \in Fields, Star(field), NEW lo \in Nat, NEW v \in Nat, v >= lo,
           \A p \in Parts(field) : p.kind = "any" => p.step = 1
    PROVE  Selects(field, v, lo)
<1>1. field[1] \in Parts(field) /\ field[1].kind = "any" /\ field[1].step = 1
  BY PartsOf DEF Star
<1>2. v >= lo /\ (v - lo) % 1 = 0
  OBVIOUS
<1> QED BY <1>1, <1>2 DEF Selects

-----------------------------------------------------------------------------
\* The days

LEMMA Months ==
    ASSUME NEW y \in 0 .. 365
    PROVE  /\ \E j \in 1 .. 12 : InMonth(y, j)
           /\ \A j \in 1 .. 12 : InMonth(y, j) => y - Before[j] + 1 \in 1 .. 31
<1>1. /\ Before[1] = 0 /\ Before[2] = 31 /\ Before[3] = 61 /\ Before[4] = 92
      /\ Before[5] = 122 /\ Before[6] = 153 /\ Before[7] = 184 /\ Before[8] = 214
      /\ Before[9] = 245 /\ Before[10] = 275 /\ Before[11] = 306 /\ Before[12] = 337
  BY DEF Before
<1>2. \A j \in 1 .. 12 : j = 1 \/ j = 2 \/ j = 3 \/ j = 4 \/ j = 5 \/ j = 6 \/ j = 7
                      \/ j = 8 \/ j = 9 \/ j = 10 \/ j = 11 \/ j = 12
  OBVIOUS
<1>3. \E j \in 1 .. 12 : Before[j] <= y /\ (j < 12 => y < Before[j + 1])
  <2>1. CASE y < 31
    BY <1>1, <2>1
  <2>2. CASE 31 <= y /\ y < 61
    BY <1>1, <2>2
  <2>3. CASE 61 <= y /\ y < 92
    BY <1>1, <2>3
  <2>4. CASE 92 <= y /\ y < 122
    BY <1>1, <2>4
  <2>5. CASE 122 <= y /\ y < 153
    BY <1>1, <2>5
  <2>6. CASE 153 <= y /\ y < 184
    BY <1>1, <2>6
  <2>7. CASE 184 <= y /\ y < 214
    BY <1>1, <2>7
  <2>8. CASE 214 <= y /\ y < 245
    BY <1>1, <2>8
  <2>9. CASE 245 <= y /\ y < 275
    BY <1>1, <2>9
  <2>10. CASE 275 <= y /\ y < 306
    BY <1>1, <2>10
  <2>11. CASE 306 <= y /\ y < 337
    BY <1>1, <2>11
  <2>12. CASE 337 <= y
    BY <1>1, <2>12
  <2> QED BY <2>1, <2>2, <2>3, <2>4, <2>5, <2>6, <2>7, <2>8, <2>9, <2>10, <2>11, <2>12
<1>4. ASSUME NEW j \in 1 .. 12, Before[j] <= y, j < 12 => y < Before[j + 1]
      PROVE  y - Before[j] + 1 \in 1 .. 31
  BY <1>1, <1>2, <1>4
<1> QED BY <1>3, <1>4 DEF InMonth

\* The day of the year, which begins in March, in the cycle of four years.
InYear(c) == IF c = 1460 THEN 365 ELSE c % 365

\* Every day has a month, a day of the month and a day of the week.
LEMMA DateOf ==
    ASSUME NEW d \in Nat
    PROVE  Date(d).month \in 1 .. 12 /\ Date(d).day \in 1 .. 31 /\ WeekDay(d) \in 0 .. 6
<1> DEFINE c == d % 1461
           y == InYear(c)
           i == CHOOSE j \in 1 .. 12 : InMonth(y, j)
           days == 0 .. 1460
<1>1. c \in days
  OBVIOUS
<1>2. y \in 0 .. 365
  BY <1>1 DEF InYear
<1> HIDE DEF c
<1>3. Date(d) = DateInYear(y)
  <2>1. Date(d) = Calendar[c]
    BY Zenon DEF Date, c
  <2>2. Calendar = [e \in days |-> DateInYear(InYear(e))]
    BY DEF Calendar, InYear
  <2> HIDE DEF days
  <2>3. Calendar[c] = DateInYear(InYear(c))
    BY <1>1, <2>2, Zenon
  <2> QED BY <2>1, <2>3, Zenon
<1> HIDE DEF y
<1>4. i \in 1 .. 12 /\ y - Before[i] + 1 \in 1 .. 31
  <2>1. i \in 1 .. 12 /\ InMonth(y, i)
    BY <1>2, Months
  <2> HIDE DEF i
  <2> QED BY <1>2, <2>1, Months
<1>5. Date(d).month = ((i + 1) % 12) + 1 /\ Date(d).day = y - Before[i] + 1
  BY <1>3 DEF DateInYear
<1> HIDE DEF i
<1>6. ((i + 1) % 12) + 1 \in 1 .. 12
  BY <1>4
<1>7. WeekDay(d) \in 0 .. 6
  BY DEF WeekDay
<1> QED BY <1>4, <1>5, <1>6, <1>7

-----------------------------------------------------------------------------
\* What the search looks for

Candidate(f, l) ==
    /\ DayMatches(f, l \div Day)
    /\ (l % Day) \div Hour \in f.hours /\ l % Hour \in f.minutes

LEMMA Told ==
    ASSUME NEW l \in Nat
    PROVE  /\ l \div Day \in Nat
           /\ (l % Day) \div Hour \in 0 .. LastHour /\ l % Hour \in 0 .. LastMinute
           /\ l = Clock(l \div Day, (l % Day) \div Hour, l % Hour)
<1>1. PICK d \in Nat, h \in 0 .. LastHour, m \in 0 .. LastMinute : l = Clock(d, h, m)
  BY ToldByClock
<1>2. l \div Day = d /\ (l % Day) \div Hour = h /\ l % Hour = m
  BY <1>1, ClockTells
<1> QED BY <1>1, <1>2

LEMMA LocalIsNat ==
    ASSUME NEW u \in Nat
    PROVE  Local(u) \in Nat
BY Units DEF Local

\* A member of a sequence.
LEMMA MemberOf ==
    ASSUME NEW S, NEW q \in Seq(S), NEW i \in 1 .. Len(q)
    PROVE  q[i] \in S
OBVIOUS

Lines5 == {s \in Seq(Fields) : Len(s) = 5}

LEMMA ParsedOf ==
    ASSUME NEW s \in Lines5, Valid(s)
    PROVE  /\ \A i \in 1 .. 5 : s[i] \in Fields
           /\ ParseField(s[1], 0, LastMinute) # {} /\ ParseField(s[2], 0, LastHour) # {}
           /\ ParseField(s[3], 1, 31) # {} /\ ParseField(s[4], 1, 12) # {}
           /\ ParseField(s[5], 0, 7) # {}
           /\ Parsed(s).hours \subseteq 0 .. LastHour
           /\ Parsed(s).minutes \subseteq 0 .. LastMinute
<1>1. \A i \in 1 .. 5 : s[i] \in Fields
  <2>1. s \in Seq(Fields) /\ Len(s) = 5
    BY Zenon DEF Lines5
  <2>2. \A i \in 1 .. Len(s) : s[i] \in Fields
    BY <2>1, MemberOf, Zenon
  <2> QED BY <2>1, <2>2, Zenon
<1>2. /\ ParseField(s[1], 0, LastMinute) # {} /\ ParseField(s[2], 0, LastHour) # {}
      /\ ParseField(s[3], 1, 31) # {} /\ ParseField(s[4], 1, 12) # {}
      /\ ParseField(s[5], 0, 7) # {}
  BY DEF Valid, Parsed
<1>3. /\ Parsed(s).hours = ParseField(s[2], 0, LastHour)
      /\ Parsed(s).minutes = ParseField(s[1], 0, LastMinute)
  BY DEF Parsed
<1>4. /\ s[1] \in Fields /\ s[2] \in Fields
      /\ 0 \in Nat /\ LastHour \in Nat /\ LastMinute \in Nat
  BY <1>1, Units
<1>5. /\ ParseField(s[2], 0, LastHour) \subseteq 0 .. LastHour
      /\ ParseField(s[1], 0, LastMinute) \subseteq 0 .. LastMinute
  BY <1>2, <1>4, FieldValues, Zenon
<1> QED BY <1>1, <1>2, <1>3, <1>5, Zenon

LEMMA ParsedSelects ==
    ASSUME NEW s \in Lines5, Valid(s)
    PROVE  /\ \A v \in 0 .. LastMinute : v \in ParseField(s[1], 0, LastMinute) <=> Selects(s[1], v, 0)
           /\ \A v \in 0 .. LastHour : v \in ParseField(s[2], 0, LastHour) <=> Selects(s[2], v, 0)
           /\ \A v \in 1 .. 31 : v \in ParseField(s[3], 1, 31) <=> Selects(s[3], v, 1)
           /\ \A v \in 1 .. 12 : v \in ParseField(s[4], 1, 12) <=> Selects(s[4], v, 1)
           /\ \A v \in 0 .. 7 : v \in ParseField(s[5], 0, 7) <=> Selects(s[5], v, 0)
<1>1. /\ s[1] \in Fields /\ s[2] \in Fields /\ s[3] \in Fields /\ s[4] \in Fields /\ s[5] \in Fields
      /\ ParseField(s[1], 0, LastMinute) # {} /\ ParseField(s[2], 0, LastHour) # {}
      /\ ParseField(s[3], 1, 31) # {} /\ ParseField(s[4], 1, 12) # {}
      /\ ParseField(s[5], 0, 7) # {}
  BY ParsedOf
<1>2. \A field \in Fields, lo, hi \in Nat : ParseField(field, lo, hi) # {} =>
        \A v \in lo .. hi : v \in ParseField(field, lo, hi) <=> Selects(field, v, lo)
  BY FieldValues
<1>3. 0 \in Nat /\ 1 \in Nat /\ 7 \in Nat /\ 12 \in Nat /\ 31 \in Nat
      /\ LastHour \in Nat /\ LastMinute \in Nat
  BY Units
<1> QED BY <1>1, <1>2, <1>3, Zenon

\* Both 0 and 7 are Sunday.
LEMMA DowsOf ==
    ASSUME NEW s \in Lines5, Valid(s), NEW w \in 0 .. 6
    PROVE  w \in Parsed(s).dows <=>
                Selects(s[5], w, 0) \/ (w = 0 /\ Selects(s[5], 7, 0))
<1> DEFINE V == ParseField(s[5], 0, 7)
<1>1. Parsed(s).dows = {v % 7 : v \in V}
  BY DEF Parsed
<1>2. V \subseteq 0 .. 7 /\ \A v \in 0 .. 7 : v \in V <=> Selects(s[5], v, 0)
  <2>1. V \subseteq 0 .. 7
    <3>1. s[5] \in Fields
      BY ParsedOf
    <3> QED BY <3>1, FieldValues
  <2> QED BY <2>1, ParsedSelects
<1>3. \A v \in 0 .. 7 : v % 7 = IF v = 7 THEN 0 ELSE v
  OBVIOUS
<1> HIDE DEF V
<1>4. w \in Parsed(s).dows <=> w \in V \/ (w = 0 /\ 7 \in V)
  <2>1. ASSUME w \in Parsed(s).dows PROVE w \in V \/ (w = 0 /\ 7 \in V)
    BY <1>1, <1>2, <1>3, <2>1
  <2>2. ASSUME w \in V PROVE w \in Parsed(s).dows
    <3>1. w % 7 = w
      BY <1>3
    <3> QED BY <1>1, <2>2, <3>1
  <2>3. ASSUME w = 0, 7 \in V PROVE w \in Parsed(s).dows
    <3>1. 7 % 7 = w
      BY <2>3
    <3> QED BY <1>1, <2>3, <3>1
  <2> QED BY <2>1, <2>2, <2>3
<1> QED BY <1>2, <1>4

\* Without a stepped star, crond triggers the line in the minutes the search
\* takes for candidates.
LEMMA TriggersAtCandidates ==
    ASSUME NEW s \in Lines5, Valid(s), ~SteppedStar(s), NEW u \in Nat
    PROVE  Triggers(s, u) <=> Candidate(Parsed(s), Local(u))
<1> DEFINE l == Local(u)
           d == l \div Day
           f == Parsed(s)
           dom == Selects(s[3], Date(d).day, 1)
           dow == \/ Selects(s[5], WeekDay(d), 0)
                  \/ WeekDay(d) = 0 /\ Selects(s[5], 7, 0)
<1>1. l \in Nat
  BY LocalIsNat
<1>2. d \in Nat /\ (l % Day) \div Hour \in 0 .. LastHour /\ l % Hour \in 0 .. LastMinute
  BY <1>1, Told
<1>3. Date(d).month \in 1 .. 12 /\ Date(d).day \in 1 .. 31 /\ WeekDay(d) \in 0 .. 6
  BY <1>2, DateOf
<1>4. /\ f.hours = ParseField(s[2], 0, LastHour) /\ f.minutes = ParseField(s[1], 0, LastMinute)
      /\ f.months = ParseField(s[4], 1, 12) /\ f.doms = ParseField(s[3], 1, 31)
      /\ f.domStar = Star(s[3]) /\ f.dowStar = Star(s[5])
  BY DEF Parsed
<1>13. Triggers(s, u) <=>
         /\ Selects(s[1], l % Hour, 0) /\ Selects(s[2], (l % Day) \div Hour, 0)
         /\ Selects(s[4], Date(d).month, 1)
         /\ IF Star(s[3]) \/ Star(s[5]) THEN dom /\ dow ELSE dom \/ dow
  BY DEF Triggers
<1>14. DayMatches(f, d) <=>
         /\ Date(d).month \in f.months
         /\ \/ Star(s[3]) /\ Star(s[5])
            \/ Star(s[3]) /\ WeekDay(d) \in f.dows
            \/ Star(s[5]) /\ Date(d).day \in f.doms
            \/ ~Star(s[3]) /\ ~Star(s[5]) /\ (Date(d).day \in f.doms \/ WeekDay(d) \in f.dows)
  BY <1>4, Zenon DEF DayMatches
<1>15. Candidate(f, l) <=>
         /\ DayMatches(f, d)
         /\ (l % Day) \div Hour \in f.hours /\ l % Hour \in f.minutes
  BY DEF Candidate
<1> HIDE DEF l, d, f
<1>5. l % Hour \in f.minutes <=> Selects(s[1], l % Hour, 0)
  BY <1>2, <1>4, ParsedSelects, Zenon
<1>6. (l % Day) \div Hour \in f.hours <=> Selects(s[2], (l % Day) \div Hour, 0)
  BY <1>2, <1>4, ParsedSelects, Zenon
<1>7. Date(d).month \in f.months <=> Selects(s[4], Date(d).month, 1)
  BY <1>3, <1>4, ParsedSelects, Zenon
<1>8. Date(d).day \in f.doms <=> dom
  BY <1>3, <1>4, ParsedSelects, Zenon
<1>9. WeekDay(d) \in f.dows <=> dow
  BY <1>3, DowsOf DEF f
<1>10. ASSUME NEW i \in {3, 5}
       PROVE  /\ s[i] \in Fields
              /\ \A p \in Parts(s[i]) : p.kind = "any" => p.step = 1
  <2>1. s[i] \in Fields /\ ParseField(s[i], IF i = 3 THEN 1 ELSE 0, IF i = 3 THEN 31 ELSE 7) # {}
    BY ParsedOf
  <2>2. \A p \in Parts(s[i]) : p.step # 0
    BY <2>1, Zenon DEF ParseField
  <2>3. \A p \in Parts(s[i]) : p.step \in Nat
    BY <2>1, PartsOf DEF Part
  <2>4. \A p \in Parts(s[i]) : p.kind = "any" => ~(p.step > 1)
    BY DEF SteppedStar
  <2> QED BY <2>1, <2>2, <2>3, <2>4
<1>11. Star(s[3]) => dom
  BY <1>3, <1>10, StarSelects
<1>12. Star(s[5]) => dow
  BY <1>3, <1>10, StarSelects
<1> HIDE DEF dom, dow
<1>16. Triggers(s, u) <=> Candidate(f, l)
  BY <1>5, <1>6, <1>7, <1>8, <1>9, <1>11, <1>12, <1>13, <1>14, <1>15, Zenon
<1> QED BY <1>16 DEF f, l

LEMMA DayOrder ==
    ASSUME NEW l \in Nat, NEW n \in Nat
    PROVE  /\ l < n * Day <=> l \div Day < n
           /\ \A k \in Nat : k <= l => k \div Day <= l \div Day
<1> DEFINE q(x) == x \div Day
           r(x) == x % Day
<1>1. ASSUME NEW x \in Nat
      PROVE  q(x) \in Nat /\ r(x) \in 0 .. Day - 1 /\ x = q(x) * Day + r(x)
  BY Units, Divided
<1>2. ASSUME NEW a \in Nat, NEW b \in Nat, a < b PROVE a * Day + Day <= b * Day
  <2>1. PICK c \in Nat : b = a + 1 + c
    <3>1. b - a - 1 \in Nat /\ b = a + 1 + (b - a - 1)
      BY <1>2
    <3> QED BY <3>1
  <2>2. b * Day = a * Day + Day + c * Day
    BY <2>1, Units
  <2>3. c * Day \in Nat /\ a * Day \in Nat /\ b * Day \in Nat
    BY Units
  <2> QED BY <2>2, <2>3, Units
<1>3. ASSUME NEW a \in Nat, NEW b \in Nat, a <= b
      PROVE  a * Day <= b * Day /\ a * Day \in Nat /\ b * Day \in Nat
  <2>1. CASE a = b
    BY <2>1, Units
  <2>2. CASE a < b
    <3>1. a * Day \in Nat /\ b * Day \in Nat
      BY Units
    <3> QED BY <1>2, <2>2, <3>1, Units
  <2> QED BY <1>3, <2>1, <2>2
<1> HIDE DEF q, r
<1>4. q(l) < n => l < n * Day
  <2>1. SUFFICES ASSUME q(l) < n PROVE l < n * Day
    OBVIOUS
  <2>2. q(l) * Day + Day <= n * Day /\ l = q(l) * Day + r(l)
    BY <1>1, <1>2, <2>1
  <2>3. q(l) * Day \in Nat /\ n * Day \in Nat /\ r(l) \in 0 .. Day - 1
    BY <1>1, <1>3, <2>1
  <2> QED BY <2>2, <2>3, Units
<1>5. ~(q(l) < n) => ~(l < n * Day)
  <2>1. SUFFICES ASSUME ~(q(l) < n) PROVE ~(l < n * Day)
    OBVIOUS
  <2>2. n * Day <= q(l) * Day /\ l = q(l) * Day + r(l)
    BY <1>1, <1>3, <2>1
  <2>3. q(l) * Day \in Nat /\ n * Day \in Nat /\ r(l) \in 0 .. Day - 1
    BY <1>1, <1>3, <2>1
  <2> QED BY <2>2, <2>3, Units
<1>6. ASSUME NEW k \in Nat, k <= l PROVE q(k) <= q(l)
  <2>1. SUFFICES ASSUME q(l) < q(k) PROVE FALSE
    BY <1>1
  <2>2. q(l) * Day + Day <= q(k) * Day /\ l = q(l) * Day + r(l) /\ k = q(k) * Day + r(k)
    BY <1>1, <1>2, <2>1
  <2>3. /\ q(l) * Day \in Nat /\ q(k) * Day \in Nat
        /\ r(l) \in 0 .. Day - 1 /\ r(k) \in 0 .. Day - 1
    BY <1>1, <1>3, <2>1
  <2> QED BY <1>6, <2>2, <2>3, Units
<1> QED BY <1>4, <1>5, <1>6 DEF q

LEMMA DueIsCandidate ==
    ASSUME NEW f, f.hours \subseteq 0 .. LastHour, f.minutes \subseteq 0 .. LastMinute,
           NEW start \in Nat, NEW d \in Nat
    PROVE  /\ \A l \in Due(f, start, d) :
                /\ l \in Nat /\ l >= start /\ l \div Day = d
                /\ DayMatches(f, d) => Candidate(f, l)
           /\ \A l \in Nat : l >= start /\ l \div Day = d /\ Candidate(f, l)
                => l \in Due(f, start, d)
<1>1. ASSUME NEW l \in Due(f, start, d)
      PROVE  /\ l \in Nat /\ l >= start /\ l \div Day = d
             /\ DayMatches(f, d) => Candidate(f, l)
  <2>1. PICK h \in f.hours, m \in f.minutes : l = Clock(d, h, m) /\ l >= start
    BY <1>1 DEF Due
  <2>2. h \in 0 .. LastHour /\ m \in 0 .. LastMinute
    BY <2>1
  <2>3. l \in Nat /\ l \div Day = d /\ (l % Day) \div Hour = h /\ l % Hour = m
    BY <2>1, <2>2, ClockTells
  <2> QED BY <2>1, <2>3 DEF Candidate
<1>2. ASSUME NEW l \in Nat, l >= start, l \div Day = d, Candidate(f, l)
      PROVE  l \in Due(f, start, d)
  <2> DEFINE h == (l % Day) \div Hour
             m == l % Hour
  <2>1. h \in f.hours /\ m \in f.minutes
    BY <1>2 DEF Candidate
  <2>2. l = Clock(d, h, m)
    BY <1>2, Told
  <2> HIDE DEF h, m
  <2> QED BY <1>2, <2>1, <2>2 DEF Due
<1> QED BY <1>1, <1>2

\* The local time at which the days of a search end.
Limit(start) == (start \div Day + SearchDays) * Day

\* The first candidate is l.
First(f, start, l) ==
    /\ l \in Nat /\ start <= l /\ l < Limit(start) /\ Candidate(f, l)
    /\ \A k \in Nat : start <= k /\ k < l => ~Candidate(f, k)

LEMMA SearchFinds ==
    ASSUME NEW f, f.hours \subseteq 0 .. LastHour, f.minutes \subseteq 0 .. LastMinute,
           NEW start \in Nat
    PROVE  \/ /\ Search(f, start) = NoRun
              /\ \A l \in Nat : start <= l /\ l < Limit(start) => ~Candidate(f, l)
           \/ \E l \in Nat : First(f, start, l) /\ Search(f, start) = Epoch(l)
<1> DEFINE first == start \div Day
           days == {d \in first .. first + SearchDays - 1 :
                        DayMatches(f, d) /\ Due(f, start, d) # {}}
<1>1. Search(f, start) = IF days = {} THEN NoRun ELSE Epoch(Min(Due(f, start, Min(days))))
  BY Zenon DEF Search
<1>2. /\ first \in Nat /\ SearchDays \in Nat \ {0} /\ first + SearchDays \in Nat
      /\ days \subseteq Nat
  <2>1. first \in Nat /\ SearchDays \in Nat \ {0}
    BY Units, Divided, CronAssumption DEF CronAssumption
  <2> HIDE DEF first
  <2> QED BY <2>1
<1>3. ASSUME NEW l \in Nat, start <= l, l < Limit(start), Candidate(f, l)
      PROVE  l \div Day \in days /\ l \in Due(f, start, l \div Day)
  <2>1. l \div Day \in Nat /\ l \div Day < first + SearchDays /\ first <= l \div Day
    BY <1>2, <1>3, DayOrder, Told DEF Limit
  <2>2. l \in Due(f, start, l \div Day)
    BY <1>3, <2>1, DueIsCandidate
  <2>3. DayMatches(f, l \div Day)
    BY <1>3 DEF Candidate
  <2> QED BY <1>2, <2>1, <2>2, <2>3
<1>4. ASSUME days = {}
      PROVE  /\ Search(f, start) = NoRun
             /\ \A l \in Nat : start <= l /\ l < Limit(start) => ~Candidate(f, l)
  <2> HIDE DEF days
  <2> QED BY <1>1, <1>3, <1>4
<1>5. ASSUME days # {}
      PROVE  \E l \in Nat : First(f, start, l) /\ Search(f, start) = Epoch(l)
  <2> DEFINE d == Min(days)
             l == Min(Due(f, start, d))
  <2>1. d \in days /\ \A e \in days : d <= e
    <3> HIDE DEF days
    <3>1. days \subseteq Int /\ 0 \in Int /\ \A e \in days : 0 <= e
      BY <1>2
    <3>2. Min(days) \in days /\ \A e \in days : Min(days) <= e
      BY <1>5, <3>1, LeastOf
    <3> QED BY <3>2
  <2>2. d \in first .. first + SearchDays - 1 /\ DayMatches(f, d) /\ Due(f, start, d) # {}
    <3> HIDE DEF d
    <3> QED BY <2>1
  <2> HIDE DEF days, d
  <2>3. d \in Nat /\ d < first + SearchDays
    BY <1>2, <2>2
  <2>4. \A e \in Due(f, start, d) : e \in Nat /\ e >= start /\ e \div Day = d /\ Candidate(f, e)
    BY <2>2, <2>3, DueIsCandidate
  <2>5. l \in Due(f, start, d) /\ \A e \in Due(f, start, d) : l <= e
    <3>1. Due(f, start, d) \subseteq Int /\ \A e \in Due(f, start, d) : 0 <= e
      BY <2>4
    <3> QED BY <2>2, <3>1, LeastOf
  <2> HIDE DEF l
  <2>6. l \in Nat /\ start <= l /\ l \div Day = d /\ Candidate(f, l)
    BY <2>4, <2>5
  <2>7. l < Limit(start)
    BY <1>2, <2>3, <2>6, DayOrder DEF Limit
  <2>8. ASSUME NEW k \in Nat, start <= k, k < l, Candidate(f, k) PROVE FALSE
    <3>1. Limit(start) \in Nat
      BY <1>2, Units DEF Limit
    <3>2. k < Limit(start)
      BY <2>6, <2>7, <2>8, <3>1
    <3>3. k \div Day \in days /\ k \in Due(f, start, k \div Day)
      BY <1>3, <2>8, <3>2
    <3>4. k \div Day <= d
      BY <2>6, <2>8, DayOrder
    <3>5. k \div Day = d
      <4> DEFINE q == k \div Day
      <4>1. d <= q /\ q \in Nat
        BY <1>2, <2>1, <3>3
      <4> HIDE DEF q
      <4> QED BY <2>3, <3>4, <4>1 DEF q
    <3>6. l <= k
      BY <2>5, <3>3, <3>5
    <3> QED BY <2>6, <2>8, <3>6
  <2>9. First(f, start, l)
    BY <2>6, <2>7, <2>8 DEF First
  <2>10. Search(f, start) = Epoch(l)
    BY <1>1, <1>5, Zenon DEF d, l
  <2> QED BY <2>6, <2>9, <2>10
<1> QED BY <1>4, <1>5

\* There is at most one first candidate, and none if no minute is one.
LEMMA FirstIsOne ==
    ASSUME NEW f, NEW start \in Nat, NEW l, NEW k, First(f, start, l), First(f, start, k)
    PROVE  l = k
<1>1. l \in Nat /\ k \in Nat /\ ~(l < k) /\ ~(k < l)
  BY DEF First
<1> QED BY <1>1

\* What is first after an earlier start is first after a later one.
LEMMA FirstStays ==
    ASSUME NEW f, NEW a \in Nat, NEW b \in Nat, NEW l, First(f, a, l), a <= b, b <= l
    PROVE  First(f, b, l)
<1>1. Limit(a) <= Limit(b) /\ Limit(a) \in Nat /\ Limit(b) \in Nat
  <2> DEFINE q == a \div Day
             p == b \div Day
  <2>1. q \in Nat /\ p \in Nat /\ q <= p
    BY Told, DayOrder
  <2>2. SearchDays \in Nat
    BY CronAssumption DEF CronAssumption
  <2> HIDE DEF q, p
  <2>3. PICK c \in Nat : p = q + c
    <3>1. p - q \in Nat /\ p = q + (p - q)
      BY <2>1
    <3> QED BY <3>1
  <2>4. (p + SearchDays) * Day = (q + SearchDays) * Day + c * Day
    BY <2>1, <2>2, <2>3, Units
  <2>5. (q + SearchDays) * Day \in Nat /\ c * Day \in Nat
    BY <2>1, <2>2, Units
  <2>6. Limit(a) = (q + SearchDays) * Day /\ Limit(b) = (p + SearchDays) * Day
    BY DEF Limit, q, p
  <2> QED BY <2>4, <2>5, <2>6
<1> QED BY <1>1 DEF First

-----------------------------------------------------------------------------
\* The clock

\* Away from its changes, the clock is the same an hour before and after.
LEMMA SameClock ==
    ASSUME NEW u \in Int, ~NearChange(u), NEW v \in u - Hour .. u + Hour
    PROVE  v \in Summer <=> u \in Summer
<1>1. Hour \in Nat \ {0} /\ v \in Int /\ Summer \subseteq Int
  BY Units, CronAssumption DEF CronAssumption
<1>2. CASE u - Hour \in Summer /\ u + Hour \in Summer
  <2>1. u - Hour .. u + Hour \subseteq Summer
    <3>1. u + Hour \in u - Hour .. u - Hour + 2 * Hour
      BY <1>1
    <3> QED BY <1>2, <3>1, SummerAssumption DEF SummerAssumption
  <2>2. u \in u - Hour .. u + Hour
    BY <1>1
  <2> QED BY <2>1, <2>2
<1>3. CASE u - Hour \notin Summer /\ u + Hour \notin Summer
  <2>1. ASSUME NEW w \in u - Hour .. u + Hour, w \in Summer PROVE FALSE
    <3>1. w - 2 * Hour .. w \subseteq Summer \/ w .. w + 2 * Hour \subseteq Summer
      BY <2>1, SummerAssumption DEF SummerAssumption
    <3>2. u - Hour \in w - 2 * Hour .. w /\ u + Hour \in w .. w + 2 * Hour
      BY <1>1, <2>1
    <3> QED BY <1>3, <3>1, <3>2
  <2>2. u \in u - Hour .. u + Hour
    BY <1>1
  <2> QED BY <2>1, <2>2
<1> QED BY <1>2, <1>3 DEF NearChange

LEMMA LocalAfter ==
    ASSUME NEW u \in Nat, ~NearChange(u), NEW v \in Nat
    PROVE  /\ u <= v => Local(u) <= Local(v)
           /\ v < u => Local(v) < Local(u)
<1>1. Hour \in Nat \ {0}
  BY Units
<1>2. v \in u - Hour .. u + Hour => (v \in Summer <=> u \in Summer)
  BY SameClock
<1>3. u <= v => Local(u) <= Local(v)
  BY <1>1, <1>2 DEF Local
<1>4. v < u => Local(v) < Local(u)
  BY <1>1, <1>2 DEF Local
<1> QED BY <1>3, <1>4

\* timestamp() is the time at which the clock shows l.
LEMMA EpochOf ==
    ASSUME NEW l \in Nat
    PROVE  /\ Epoch(l) \in Nat /\ Epoch(l) # NoRun
           /\ ~NearChange(Epoch(l)) => Local(Epoch(l)) = l
<1>1. Hour \in Nat \ {0} /\ Summer \subseteq Nat
  BY Units, CronAssumption DEF CronAssumption
<1>2. Epoch(l) \in Nat /\ Epoch(l) # NoRun
  BY <1>1 DEF Epoch, NoRun
<1>3. ASSUME l - Hour \in Summer PROVE Local(Epoch(l)) = l
  BY <1>1, <1>3 DEF Epoch, Local
<1>4. ASSUME l - Hour \notin Summer, ~NearChange(l) PROVE Local(Epoch(l)) = l
  <2>1. l - Hour \in l - Hour .. l + Hour
    BY <1>1
  <2>2. l \notin Summer
    BY <1>4, <2>1, SameClock
  <2> QED BY <1>4, <2>2 DEF Epoch, Local
<1>5. l - Hour \notin Summer => Epoch(l) = l
  BY DEF Epoch
<1> QED BY <1>2, <1>3, <1>4, <1>5

\* A local time that is not before the one at u is the epoch of no earlier
\* minute, unless u's hour comes for the second time.
LEMMA EpochAhead ==
    ASSUME NEW u \in Nat, ~Repeated(u), NEW l \in Nat, Local(u) <= l
    PROVE  u <= Epoch(l)
<1>1. Hour \in Nat \ {0} /\ Summer \subseteq Nat
  BY Units, CronAssumption DEF CronAssumption
<1>2. CASE l - Hour \notin Summer
  BY <1>1, <1>2 DEF Epoch, Local
<1>3. CASE l - Hour \in Summer /\ u \in Summer
  BY <1>1, <1>3 DEF Epoch, Local
<1>4. CASE l - Hour \in Summer /\ u \notin Summer
  <2> DEFINE v == l - Hour
  <2>1. u - Hour \notin Summer /\ u <= l /\ Epoch(l) = v /\ v \in Nat
    BY <1>1, <1>4 DEF Repeated, Local, Epoch
  <2>2. v - 2 * Hour .. v \subseteq Summer \/ v .. v + 2 * Hour \subseteq Summer
    BY <1>4, SummerAssumption DEF SummerAssumption
  <2>3. SUFFICES ASSUME v < u PROVE FALSE
    BY <2>1
  <2>4. u - Hour \in v - 2 * Hour .. v /\ u \in v .. v + 2 * Hour
    BY <1>1, <2>1, <2>3
  <2> QED BY <1>4, <2>1, <2>2, <2>4
<1> QED BY <1>2, <1>3, <1>4

\* What is due after u is not yet past on the local clock.
LEMMA NotYetPast ==
    ASSUME NEW u \in Nat, ~NearChange(u), NEW l \in Nat, u <= Epoch(l)
    PROVE  Local(u) <= l
<1>1. Hour \in Nat \ {0} /\ Summer \subseteq Nat
  BY Units, CronAssumption DEF CronAssumption
<1>2. CASE l - Hour \in Summer
  BY <1>1, <1>2 DEF Epoch, Local
<1>3. CASE l - Hour \notin Summer
  <2>1. u <= l
    BY <1>3 DEF Epoch
  <2>2. CASE u \notin Summer
    BY <2>1, <2>2 DEF Local
  <2>3. CASE u \in Summer
    <3>1. ~(l - Hour \in u - Hour .. u + Hour)
      BY <1>3, <2>3, SameClock
    <3> QED BY <1>1, <2>1, <2>3, <3>1 DEF Local
  <2> QED BY <2>2, <2>3
<1> QED BY <1>2, <1>3

-----------------------------------------------------------------------------
\* What a pass ships

LEMMA LineOf ==
    ASSUME NEW s \in Schedules \cup {<<>>}, Valid(s)
    PROVE  s \in Lines5
<1>1. Len(s) = 5
  BY DEF Valid
<1>2. s \in Schedules
  BY <1>1
<1>3. s \in Seq(Fields)
  BY <1>2, CronAssumption DEF CronAssumption, Fields
<1> QED BY <1>1, <1>3 DEF Lines5

LEMMA NextRunFinds ==
    ASSUME NEW s \in Schedules \cup {<<>>}, Valid(s), NEW now \in Nat
    PROVE  \/ /\ NextRun(s, now) = NoRun
              /\ \A l \in Nat : Local(now + 1) <= l /\ l < Limit(Local(now + 1))
                    => ~Candidate(Parsed(s), l)
           \/ \E l \in Nat : /\ First(Parsed(s), Local(now + 1), l)
                             /\ NextRun(s, now) = Epoch(l)
<1>1. now + 1 \in Nat
  OBVIOUS
<1>2. Local(now + 1) \in Nat
  BY <1>1, LocalIsNat
<1>3. Parsed(s).hours \subseteq 0 .. LastHour /\ Parsed(s).minutes \subseteq 0 .. LastMinute
  BY LineOf, ParsedOf
<1>4. NextRun(s, now) = Search(Parsed(s), Local(now + 1))
  BY DEF NextRun
<1> DEFINE f == Parsed(s)
           start == Local(now + 1)
<1> HIDE DEF f, start
<1>5. \/ /\ Search(f, start) = NoRun
         /\ \A l \in Nat : start <= l /\ l < Limit(start) => ~Candidate(f, l)
      \/ \E l \in Nat : First(f, start, l) /\ Search(f, start) = Epoch(l)
  BY <1>2, <1>3, SearchFinds DEF f, start
<1> QED BY <1>4, <1>5 DEF f, start

CronInv ==
    /\ cronNow \in Nat /\ asked \in Nat /\ asked <= cronNow
    /\ schedule \in Schedules \cup {<<>>} /\ askedFor \in Schedules \cup {<<>>}
    /\ nextRun = NextRun(askedFor, asked)

\* What was shipped is the next run of the schedule and of the time of the last pass.
THEOREM ShippedNextRun == CronSpec => []CronInv
<1>1. CronInit => CronInv
  <2>1. ~Valid(<<>>)
    BY DEF Valid
  <2> QED BY <2>1 DEF CronInit, CronInv, NextRun
<1>2. CronInv /\ [CronNext]_cronVars => CronInv'
  <2> SUFFICES ASSUME CronInv, [CronNext]_cronVars PROVE CronInv'
    OBVIOUS
  <2>1. CASE CollectSchedule
    BY <2>1 DEF CollectSchedule, CronInv
  <2>2. CASE EditCrontab
    <3>1. NextRun(askedFor, asked)' = NextRun(askedFor, asked)
      BY <2>2 DEF EditCrontab
    <3> QED BY <2>2, <3>1 DEF EditCrontab, CronInv
  <2>3. CASE TimePasses
    <3>1. cronNow' \in Nat /\ cronNow' > cronNow
      BY <2>3, CronAssumption DEF TimePasses, CronAssumption
    <3> QED BY <2>3, <3>1 DEF TimePasses, CronInv
  <2>4. CASE UNCHANGED cronVars
    BY <2>4 DEF cronVars, CronInv
  <2> QED BY <2>1, <2>2, <2>3, <2>4 DEF CronNext
<1> QED BY <1>1, <1>2, PTL DEF CronSpec

\* What is shipped as the next run of a line is the first minute at which crond
\* triggers it (cron.py 282-302), for every schedule without a stepped star and
\* away from the changes of the clock.
THEOREM NextRunIsWhatCrondDoes == CronSpec => []PlainNextRunIsNext
<1>1. CronInv => PlainNextRunIsNext
  <2> SUFFICES ASSUME CronInv, JustAsked, ~SteppedStar(askedFor),
                      ~NearChange(asked + 1), nextRun # NoRun => ~NearChange(nextRun)
               PROVE  IF nextRun = NoRun
                      THEN \A u \in asked + 1 .. asked + (SearchDays - 1) * Day - Hour - 1 :
                                ~Triggers(askedFor, u)
                      ELSE /\ \A u \in asked + 1 .. nextRun - 1 : ~Triggers(askedFor, u)
                           /\ Triggers(askedFor, nextRun)
    BY DEF PlainNextRunIsNext, IsNextTrigger
  <2> DEFINE f == Parsed(askedFor)
             start == Local(asked + 1)
  <2>1. /\ asked \in Nat /\ asked + 1 \in Nat /\ nextRun = NextRun(askedFor, asked)
        /\ askedFor \in Schedules \cup {<<>>} /\ Valid(askedFor)
    BY DEF CronInv, JustAsked
  <2>2. askedFor \in Lines5 /\ start \in Nat
    BY <2>1, LineOf, LocalIsNat
  <2>3. \A u \in Nat : Triggers(askedFor, u) <=> Candidate(f, Local(u))
    BY <2>1, <2>2, TriggersAtCandidates
  <2>4. \A u \in Nat : u >= asked + 1 => start <= Local(u)
    BY <2>1, LocalAfter
  <2>5. \/ /\ nextRun = NoRun
           /\ \A l \in Nat : start <= l /\ l < Limit(start) => ~Candidate(f, l)
        \/ \E l \in Nat : First(f, start, l) /\ nextRun = Epoch(l)
    BY <2>1, NextRunFinds
  <2> HIDE DEF f, start
  <2>6. ASSUME nextRun = NoRun, \A l \in Nat : start <= l /\ l < Limit(start) => ~Candidate(f, l),
               NEW u \in asked + 1 .. asked + (SearchDays - 1) * Day - Hour - 1
        PROVE  ~Triggers(askedFor, u)
    <3>1. u \in Nat /\ asked + 1 <= u
      BY <2>1
    <3>2. Local(u) \in Nat /\ start <= Local(u)
      BY <2>4, <3>1, LocalIsNat
    <3>3. Local(u) < Limit(start)
      <4> DEFINE q == start \div Day
                 r == start % Day
                 w == (SearchDays - 1) * Day
      <4>1. q \in Nat /\ r \in 0 .. Day - 1 /\ start = q * Day + r
        BY <2>2, Units, Divided
      <4>2. SearchDays - 1 \in Nat
        BY CronAssumption DEF CronAssumption
      <4> HIDE DEF q, r
      <4>3. Limit(start) = q * Day + Day + w
        <5>1. PICK c \in Nat : SearchDays = c + 1 /\ c = SearchDays - 1
          BY <4>2, CronAssumption DEF CronAssumption
        <5>2. (q + (c + 1)) * Day = q * Day + Day + c * Day
          BY <4>1, <5>1, Units
        <5> QED BY <5>1, <5>2 DEF Limit, q
      <4>4. q * Day \in Nat /\ w \in Nat
        BY <4>1, <4>2, Units
      <4>5. u <= asked + w - Hour - 1
        BY <2>6
      <4> HIDE DEF w
      <4>6. Local(u) <= asked + w - 1
        BY <2>1, <3>1, <4>4, <4>5, Units DEF Local
      <4>7. asked + 1 <= start
        BY <2>1, Units DEF Local, start
      <4> QED BY <2>1, <2>2, <3>2, <4>1, <4>3, <4>4, <4>6, <4>7, Units
    <3> QED BY <2>3, <2>6, <3>1, <3>2, <3>3
  <2>7. ASSUME NEW l \in Nat, First(f, start, l), nextRun = Epoch(l)
        PROVE  /\ nextRun # NoRun /\ nextRun \in Nat
               /\ Triggers(askedFor, nextRun)
               /\ \A u \in asked + 1 .. nextRun - 1 : ~Triggers(askedFor, u)
    <3>1. nextRun \in Nat /\ nextRun # NoRun
      BY <2>7, EpochOf
    <3>2. Local(nextRun) = l
      BY <2>7, <3>1, EpochOf
    <3>3. Triggers(askedFor, nextRun)
      BY <2>3, <2>7, <3>1, <3>2 DEF First
    <3>4. ASSUME NEW u \in asked + 1 .. nextRun - 1 PROVE ~Triggers(askedFor, u)
      <4>1. u \in Nat /\ u >= asked + 1 /\ u < nextRun
        BY <2>1, <3>1
      <4>2. start <= Local(u) /\ Local(u) < l /\ Local(u) \in Nat
        BY <2>4, <3>1, <3>2, <4>1, LocalAfter, LocalIsNat
      <4> QED BY <2>3, <2>7, <4>1, <4>2 DEF First
    <3> QED BY <3>1, <3>3, <3>4
  <2> QED BY <2>5, <2>6, <2>7
<1> QED BY <1>1, ShippedNextRun, PTL

\* The next run lies ahead of the pass that shipped it, also when the clock is
\* changed in between (cron.py 282, 300).
THEOREM NextRunLiesAhead == CronSpec => []NextIsAhead
<1>1. CronInv => NextIsAhead
  <2> SUFFICES ASSUME CronInv, nextRun # NoRun, ~Repeated(asked + 1) PROVE nextRun > asked
    BY DEF NextIsAhead
  <2>1. /\ asked \in Nat /\ asked + 1 \in Nat /\ nextRun = NextRun(askedFor, asked)
        /\ askedFor \in Schedules \cup {<<>>} /\ Valid(askedFor)
    BY DEF CronInv, NextRun
  <2>2. PICK l \in Nat : First(Parsed(askedFor), Local(asked + 1), l) /\ nextRun = Epoch(l)
    BY <2>1, NextRunFinds
  <2>3. asked + 1 <= Epoch(l) /\ Epoch(l) \in Nat
    BY <2>1, <2>2, EpochAhead, EpochOf DEF First
  <2> QED BY <2>1, <2>2, <2>3
<1> QED BY <1>1, ShippedNextRun, PTL

\* No pass moves the next run of an unedited line before it is due, if it asks
\* away from the changes of the clock (cron.py 282-300).
THEOREM NextRunStays == CronSpec => StaysUntilDue
<1>1. ASSUME CronInv, CronInv', [CronNext]_cronVars, asked' # asked, askedFor' = askedFor,
             nextRun # NoRun, asked' < nextRun, ~NearChange(asked' + 1)
      PROVE  nextRun' = nextRun
  <2> DEFINE f == Parsed(askedFor)
             a == Local(asked + 1)
  <2>1. asked' = cronNow
    BY <1>1 DEF CronNext, CollectSchedule, EditCrontab, TimePasses, cronVars
  <2>2. /\ asked \in Nat /\ asked + 1 \in Nat /\ askedFor \in Schedules \cup {<<>>}
        /\ nextRun = NextRun(askedFor, asked) /\ Valid(askedFor)
    BY <1>1 DEF CronInv, NextRun
  <2>3. PICK now \in Nat : asked' = now /\ asked < now /\ nextRun' = NextRun(askedFor, now)
    BY <1>1, <2>1 DEF CronInv
  <2> DEFINE b == Local(now + 1)
  <2>4. PICK l \in Nat : First(f, a, l) /\ nextRun = Epoch(l)
    BY <1>1, <2>2, NextRunFinds
  <2>5. \/ /\ nextRun' = NoRun
           /\ \A k \in Nat : b <= k /\ k < Limit(b) => ~Candidate(f, k)
        \/ \E k \in Nat : First(f, b, k) /\ nextRun' = Epoch(k)
    BY <2>2, <2>3, NextRunFinds
  <2>6. now + 1 \in Nat /\ asked + 1 < now + 1 /\ ~NearChange(now + 1)
    BY <1>1, <2>2, <2>3
  <2>7. a \in Nat /\ b \in Nat /\ a <= b
    BY <2>2, <2>6, LocalAfter, LocalIsNat
  <2>8. b <= l
    <3>1. now + 1 <= Epoch(l)
      BY <1>1, <2>3, <2>4, EpochOf
    <3> QED BY <2>6, <3>1, NotYetPast
  <2> HIDE DEF f, a, b
  <2>9. First(f, b, l)
    BY <2>4, <2>7, <2>8, FirstStays
  <2>10. l \in Nat /\ b <= l /\ l < Limit(b) /\ Candidate(f, l)
    BY <2>9 DEF First
  <2>11. PICK k \in Nat : First(f, b, k) /\ nextRun' = Epoch(k)
    BY <2>5, <2>10
  <2>12. k = l
    BY <2>7, <2>9, <2>11, FirstIsOne
  <2> QED BY <2>4, <2>11, <2>12
<1>2. CronInv /\ CronInv' /\ [CronNext]_cronVars =>
        [ ( /\ asked' # asked /\ askedFor' = askedFor /\ nextRun # NoRun
            /\ asked' < nextRun /\ ~NearChange(asked' + 1))
          => nextRun' = nextRun ]_cronVars
  BY <1>1
<1> QED BY <1>2, ShippedNextRun, PTL DEF CronSpec, StaysUntilDue
=============================================================================
