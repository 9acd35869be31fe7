----------------------------- MODULE MCDelivery -----------------------------
(***************************************************************************)
(* Small instances of Delivery: one budget of accidents per question.      *)
(***************************************************************************)
EXTENDS Delivery

With(payloads, some) ==
    [e \in Events |-> IF e \in DOMAIN some THEN some[e]
                      ELSE IF e = "payload" THEN payloads ELSE 0]

\* What can befall the payloads on their way, with an honest backend.
PayloadBudget ==
    With(4, [outage |-> 2, lostReply |-> 1, busy |-> 1, crash |-> 1, noQueue |-> 1,
             revoke |-> 1])

\* What can befall the token, with deaths in every step of its replacement.
TokenBudget ==
    With(2, [lostReply |-> 1, busy |-> 1, crash |-> 2, noRemove |-> 1, revoke |-> 2,
             reject |-> 1])

\* Accidents that come to an end with a backlog to drain after them, beside an
\* oo-agent --enroll.
DrainBudget ==
    With(3, [outage |-> 2, lostReply |-> 1, busy |-> 1, crash |-> 1, enroll |-> 1])

\* A daemon that stays up while its token is revoked again and again.
ReenrollBudget ==
    With(1, [lostReply |-> 1, busy |-> 1, badReply |-> 1, noRemove |-> 1,
             revoke |-> 2, reject |-> 1, immediate |-> 1])

Safe  == {PayloadBudget, TokenBudget}
Fair  == {DrainBudget, ReenrollBudget}

\* Two accidents, for the runs that show one disagreement.
RevokeCrash == {With(1, [revoke |-> 1, crash |-> 1])}
RevokeBad   == {With(2, [revoke |-> 1, badReply |-> 3])}
=============================================================================
