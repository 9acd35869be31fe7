---------------------------- MODULE BoundedFifo ----------------------------
(***************************************************************************)
(* What the offline buffer promises its user (buffer/queue.py, lines 3-6): *)
(* payloads are parked in order of arrival, at most Cap of them are held,  *)
(* and whatever leaves the buffer - dropped by a cap or delivered - is     *)
(* older than everything that stays.  For what a cap drops this holds only *)
(* as long as the clock was never set back.  A payload is its arrival      *)
(* number.                                                                 *)
(***************************************************************************)
EXTENDS Naturals, FiniteSets

CONSTANT Cap        \* the most payloads held at any time

VARIABLES held,     \* arrival numbers of the payloads in the buffer
          arrived,  \* how many payloads were ever parked
          steady    \* the clock was never set back

vars == <<held, arrived, steady>>

\* kept is what is left of all when its oldest members are taken away.
IsNewest(kept, all) ==
    \A gone \in all \ kept, stays \in kept : gone < stays

Init == held = {} /\ arrived = 0 /\ steady = TRUE

\* A payload is parked; the caps may push out the oldest ones, itself included.
Park ==
    /\ arrived' = arrived + 1
    /\ \E kept \in SUBSET (held \cup {arrived + 1}) :
          /\ steady => IsNewest(kept, held \cup {arrived + 1})
          /\ Cardinality(kept) <= Cap
          /\ held' = kept
    /\ UNCHANGED steady

\* Delivered payloads are settled, oldest first, whatever the clock does.
Settle ==
    /\ \E kept \in SUBSET held :
          /\ IsNewest(kept, held)
          /\ held' = kept
    /\ UNCHANGED <<arrived, steady>>

SetBack ==
    /\ steady' = FALSE
    /\ UNCHANGED <<held, arrived>>

Next == Park \/ Settle \/ SetBack

Spec == Init /\ [][Next]_vars
=============================================================================
