------------------------------- MODULE Rates -------------------------------
(***************************************************************************)
(* RateTracker (rates.py) under the collectors that own one: net, diskio   *)
(* and rapl.  A counter is what one collector hands over under one key: a  *)
(* sum over interfaces, bytes of a disk, an energy counter.  The kernel    *)
(* and psutil are external: a counter grows by what really moves, falls    *)
(* when it wraps, is reset or loses an interface of its sum, and may be    *)
(* unreadable for a while.                                                 *)
(*                                                                         *)
(* A rate is kept as the difference it is computed from; the division by   *)
(* the time between two samples is left out, so "shipped" is rate * dt.    *)
(***************************************************************************)
EXTENDS Integers

CONSTANTS Keys,       \* the keys of a tracker
          MaxMoved    \* bound: how far a counter gets

ASSUME RatesAssumption == MaxMoved \in Nat

VARIABLES counter,    \* what each counter stands at
          readable,   \* the keys that can be read
          primed,     \* whether _at is set
          later,      \* time.monotonic() > _at
          sample,     \* _values
          shipped,    \* what rates() returned last
          moved,      \* what really moved since the last sample
          steady,     \* the keys of the last sample whose counter never fell since
          truly, undisturbed  \* moved and steady when rates() was last called

kernel    == <<counter, readable>>
tracker   == <<primed, later, sample, shipped>>
account   == <<moved, steady, truly, undisturbed>>
ratesVars == <<kernel, tracker, account>>

Nothing == [k \in {} |-> 0]

RatesInit ==
    /\ counter = [k \in Keys |-> 0] /\ readable = Keys
    /\ primed = FALSE /\ later = FALSE /\ sample = Nothing /\ shipped = Nothing
    /\ moved = [k \in Keys |-> 0] /\ steady = {}
    /\ truly = [k \in Keys |-> 0] /\ undisturbed = {}

\* What a collector reads: a key that cannot be read is left out.
Reading == [k \in readable |-> counter[k]]

\* prime: the new sample replaces the old one, keys and all.
Resample ==
    /\ primed' = TRUE /\ later' = FALSE /\ sample' = Reading
    /\ moved' = [k \in Keys |-> 0] /\ steady' = readable

\* The constructor of net and diskio primes; rapl leaves it to its first pass.
Prime ==
    /\ ~primed /\ Resample
    /\ UNCHANGED <<kernel, shipped, truly, undisturbed>>

\* Mutant: a key that was not in the last sample counts from 0.
PreviousOrZero(k) == IF k \in DOMAIN sample THEN sample[k] ELSE 0

\* A key that was not in the last sample counts from now on.
Previous(k) == IF k \in DOMAIN sample THEN sample[k] ELSE counter[k]

AtLeastZero(n) == IF n > 0 THEN n ELSE 0

\* rates: two samples at one time are no rate, nor is the very first one.
SampleRates ==
    /\ shipped' = IF ~primed \/ ~later THEN Nothing
                  ELSE [k \in readable |-> AtLeastZero(counter[k] - Previous(k))]
    /\ truly' = moved /\ undisturbed' = steady
    /\ Resample /\ UNCHANGED kernel

Grow(k) ==
    /\ \E n \in 1 .. MaxMoved :
          /\ counter[k] + n <= MaxMoved /\ moved[k] + n <= MaxMoved
          /\ counter' = [counter EXCEPT ![k] = @ + n]
          /\ moved' = [moved EXCEPT ![k] = @ + n]
    /\ UNCHANGED <<readable, tracker, steady, truly, undisturbed>>

\* A wrap, a reset, or a summand that is gone.
Fall(k) ==
    /\ \E n \in 0 .. MaxMoved : n < counter[k] /\ counter' = [counter EXCEPT ![k] = n]
    /\ steady' = steady \ {k}
    /\ UNCHANGED <<readable, tracker, moved, truly, undisturbed>>

Blink(k) ==
    /\ readable' = IF k \in readable THEN readable \ {k} ELSE readable \cup {k}
    /\ UNCHANGED <<counter, tracker, account>>

TimeGoes ==
    /\ primed /\ ~later /\ later' = TRUE
    /\ UNCHANGED <<kernel, primed, sample, shipped, account>>

RatesNext ==
    \/ Prime \/ SampleRates \/ TimeGoes
    \/ \E k \in Keys : Grow(k) \/ Fall(k) \/ Blink(k)

RatesSpec == RatesInit /\ [][RatesNext]_ratesVars

-----------------------------------------------------------------------------
\* Properties

\* "Counter wrap/reset produces one zero sample instead of a negative spike"
\* (rates.py 3-5): whatever a counter did, what is shipped is between nothing
\* and what really moved since the sample before - also for a key that was
\* unreadable in between (rates.py 29-41, rapl.py 73-78).
NoSpike == \A k \in DOMAIN shipped : 0 <= shipped[k] /\ shipped[k] <= truly[k]

\* A counter that did not fall since it was sampled is told exactly, in the
\* very pass after one that was disturbed too (rates.py 35-41).
SteadyIsExact ==
    \A k \in DOMAIN shipped : k \in undisturbed => shipped[k] = truly[k]

\* What a RateTracker tells its collector can be trusted: a counter that falls,
\* blinks or comes back ships no spike, and it is exact again in the next pass
\* (rates.py 3-5, 29-41).
RatesAreTrue == NoSpike /\ SteadyIsExact
=============================================================================
