---------------------------- MODULE MCScheduler ----------------------------
(***************************************************************************)
(* Small instances of Scheduler: a healthy collector beside others.        *)
(***************************************************************************)
EXTENDS Scheduler, TLC

CONSTANTS good, flaky, odd

\* Every collector on every tick, or each at an interval of its own.
Often == [c \in Collectors |-> 1]
Mixed == [c \in Collectors |-> IF c = good THEN 2 ELSE IF c = flaky THEN 3 ELSE 1]

Does(others) == [c \in Collectors |-> IF c \in DOMAIN others THEN others[c] ELSE {"full"}]

\* Everything the code tells apart; failures only; the example of the README.
Anything  == Does(flaky :> {"sensors", "empty", "full", "raises", "malformed"} @@ odd :> {"raises"})
Raising   == Does(flaky :> {"raises"})
Malformed == Does(flaky :> {"full", "malformed"})

\* Calls that take no time, up to a tick, or longer than the watchdog allows.
Instant == [c \in Collectors |-> {0}]
Brisk   == [c \in Collectors |-> {0, 1}]
Slow    == [c \in Collectors |-> IF c = flaky THEN {0, Watchdog} ELSE {0, 1}]
=============================================================================
