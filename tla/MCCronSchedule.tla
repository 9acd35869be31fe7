--------------------------- MODULE MCCronSchedule ---------------------------
(***************************************************************************)
(* A small instance of CronSchedule: days of three hours of two minutes.   *)
(***************************************************************************)
EXTENDS CronSchedule

AnyValue    == <<Whole>>
On(n)       == <<One(n)>>

Lines ==
    {KeywordSpecs[k] : k \in DOMAIN KeywordSpecs} \cup
    {<<On(1), <<FromTo(1, 2)>>, On(13), AnyValue, On(5)>>,                 \* Friday or the 13th
     <<On(1), <<Every(One(1), 2)>>, On(31), AnyValue, AnyValue>>,          \* long months
     <<On(0), On(2), On(29), On(2), AnyValue>>,                            \* leap years
     <<<<Every(Whole, 2)>>, <<One(0), One(2)>>, AnyValue, AnyValue, <<FromTo(5, 7)>>>>,
     <<On(0), On(1), <<Every(FromTo(2, 30), 9)>>, AnyValue, AnyValue>>,
     <<On(0), On(1), <<Every(Whole, 2)>>, AnyValue, On(1)>>,                 \* "*/2" and Monday
     <<On(0), On(3), AnyValue, AnyValue, AnyValue>>,                       \* out of range
     <<On(0), AnyValue, AnyValue, AnyValue, <<FromTo(5, 0)>>>>,            \* "fri-sun"
     <<On(0), <<Word>>, AnyValue, AnyValue, AnyValue>>,
     <<On(0), <<Every(Whole, 0)>>, AnyValue, AnyValue, AnyValue>>,
     <<On(0)>>}                                                            \* "@reboot"

\* 31 March to 27 October 2024.
SummerTime == Clock(30, 1, 0) .. Clock(240, 1, 0) - 1

\* The first day, the two changes of the clock, 27 February 2026 (the last day
\* on which 29 February 2028 is too far), New Year's Eve and the leap day.
Minutes ==
    1 .. 6 \cup Clock(29, 2, 1) .. Clock(31, 0, 0) \cup Clock(239, 2, 1) .. Clock(241, 0, 0)
    \cup Clock(728, 2, 0) .. Clock(729, 0, 1) \cup Clock(305, 2, 0) .. Clock(306, 0, 1)
    \cup Clock(1459, 2, 0) .. Clock(1460, 2, 1)
=============================================================================
