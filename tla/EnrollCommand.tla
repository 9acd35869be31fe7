--------------------------- MODULE EnrollCommand ---------------------------
(***************************************************************************)
(* oo-agent --enroll (cli.py _do_enroll, transport/enroll.py): ask the     *)
(* backend for a token, wait until the operator confirms the agent, store  *)
(* the token that is handed out once.  The backend and its operator are    *)
(* external; a token is the number under which it was issued.              *)
(***************************************************************************)
EXTENDS Integers

CONSTANTS PollTime,     \* poll_seconds
          TimeLimit,    \* timeout_minutes
          RequestTime,  \* the longest a request takes, lost ones too
          MaxTokens     \* bound: tokens issued

ASSUME EnrollAssumption ==
    /\ PollTime \in Nat \ {0} /\ TimeLimit \in Nat /\ RequestTime \in Nat
    /\ MaxTokens \in Nat

VARIABLES command,    \* "none", "waiting", "storing"; "enrolled" is exit code 0, "failed" another
          waited,     \* time since the deadline was set
          tokenGot,   \* the token the command has in hand, or 0
          tokenStored,\* the token in the file, or 0
          claim,      \* what the backend knows of this agent
          issued,     \* how many tokens the backend has issued
          before      \* the token in the file when the command began

enrollVars == <<command, waited, tokenGot, tokenStored, claim, issued, before>>
backend    == <<claim, issued>>

EnrollInit ==
    /\ command = "none" /\ waited = 0 /\ tokenGot = 0
    /\ claim = "none" /\ issued = 0 /\ tokenStored = 0 /\ before = 0

-----------------------------------------------------------------------------
\* The backend and its operator

Declare == claim = "none" /\ claim' = "declared"    \* the IP, or a code, in the UI
Decide  == claim = "pending" /\ claim' \in {"approved", "rejected", "expired"}

Operator ==
    /\ Declare \/ Decide
    /\ UNCHANGED <<command, waited, tokenGot, tokenStored, issued, before>>

HandOut == claim' = "none" /\ issued < MaxTokens /\ issued' = issued + 1

-----------------------------------------------------------------------------
\* The command

\* Whatever it is that fails: the command ends with another code than 0.
GiveUp == command' = "failed" /\ UNCHANGED <<waited, tokenGot, tokenStored, before>>

\* The POST: an id, a token at once, neither, an error, or a lost reply.
Ask ==
    /\ command \notin {"waiting", "storing"} /\ before' = tokenStored
    /\ waited' = 0 /\ UNCHANGED tokenStored
    /\ \/ claim = "declared" /\ claim' = "pending" /\ UNCHANGED issued
          /\ command' = "waiting" /\ tokenGot' = 0
       \/ claim = "declared" /\ HandOut /\ command' = "storing" /\ tokenGot' = issued'
       \/ command' = "failed" /\ tokenGot' = 0 /\ UNCHANGED backend
       \/ command' = "failed" /\ tokenGot' = 0 /\ claim = "declared"
          /\ claim' = "pending" /\ UNCHANGED issued

\* The check at the top of the loop; the sleep and the request come after it.
TimedOut == waited > TimeLimit

PollTimedOut ==
    /\ command = "waiting" /\ TimedOut /\ GiveUp /\ UNCHANGED backend

\* The GET, after the sleep.
Poll ==
    /\ command = "waiting" /\ ~TimedOut
    /\ \E r \in 0 .. RequestTime : waited' = waited + PollTime + r
    /\ UNCHANGED <<tokenStored, before>>
    /\ \/ claim = "pending" /\ UNCHANGED <<command, tokenGot, backend>>
       \/ claim = "approved" /\ HandOut /\ command' = "storing" /\ tokenGot' = issued'
       \/ claim = "approved" /\ HandOut /\ command' = "failed" /\ UNCHANGED tokenGot
       \/ claim \in {"rejected", "expired"} /\ claim' = "none" /\ command' = "failed"
          /\ UNCHANGED <<tokenGot, issued>>
       \/ command' = "failed" /\ UNCHANGED <<tokenGot, backend>>   \* 4xx, 5xx, no reply

\* write_token opens and truncates the file, then writes.
Store ==
    /\ command = "storing" /\ tokenStored' = tokenGot /\ command' = "enrolled"
    /\ UNCHANGED <<waited, tokenGot, backend, before>>

\* Mutant: an error of the file is passed over.
StoreFailsQuietly ==
    /\ command = "storing" /\ command' = "enrolled" /\ tokenStored' \in {tokenStored, 0}
    /\ UNCHANGED <<waited, tokenGot, backend, before>>

\* The file cannot be opened (the old token stays) or written (it is empty).
StoreFails ==
    /\ command = "storing" /\ command' = "failed" /\ tokenStored' \in {tokenStored, 0}
    /\ UNCHANGED <<waited, tokenGot, backend, before>>

\* ^C while it waits.
Interrupt == command = "waiting" /\ GiveUp /\ UNCHANGED backend

EnrollNext ==
    \/ Operator \/ Ask \/ PollTimedOut \/ Poll \/ Store \/ StoreFails \/ Interrupt

EnrollSpec == EnrollInit /\ [][EnrollNext]_enrollVars

-----------------------------------------------------------------------------
\* Properties

\* The command exits with 0 only if the file holds the newest token the backend
\* has handed out - not one of an earlier claim, and not none (enroll.py 93-96,
\* cli.py 179-190).
EnrolledMeansNewest == command = "enrolled" => tokenStored = issued

\* A command that fails before it has a token leaves the one in the file alone,
\* so that a re-enrollment that is rejected, expires, times out or is
\* interrupted does not cut off a working agent (enroll.py 64-91).
FailureKeepsToken ==
    command = "waiting" \/ (command = "failed" /\ tokenGot = 0) => tokenStored = before

\* "Blocks until the operator confirms the agent in the UI, the request is
\* rejected, or timeout_minutes passes" (enroll.py 51-52): it waits no longer
\* than one more sleep and one more request.
WaitIsBounded == waited <= TimeLimit + PollTime + RequestTime

\* The command's word holds whatever fails on the way: exit code 0 means that
\* the file has the newest token, a failure before a token costs nothing, and
\* it ends in time (enroll.py 49-96, cli.py 179-190).
EnrollKeepsItsWord == EnrolledMeansNewest /\ FailureKeepsToken /\ WaitIsBounded
=============================================================================
