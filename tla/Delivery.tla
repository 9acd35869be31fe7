------------------------------ MODULE Delivery ------------------------------
(***************************************************************************)
(* One agent daemon and its backend: push_sink and _build_sink (cli.py),   *)
(* TransportClient.push and drain (transport/client.py), the re-claim flow *)
(* (transport/reclaim.py), the token file, the on-disk queue (DiskQueue,   *)
(* here with push and ack as single committed steps), restarts by the      *)
(* service manager and its watchdog, and the CLI's --enroll beside the     *)
(* running daemon.  The backend and the network are external.              *)
(*                                                                         *)
(* A payload is its number in the order of collection, which also is its   *)
(* time stamp; a token is its number in the order of issue, 0 standing for *)
(* the empty string and for a missing file.  Payloads beyond MaxPayloads   *)
(* are all the number MaxPayloads + 1: they keep the daemon going and are  *)
(* not followed.                                                           *)
(***************************************************************************)
EXTENDS QueueRows

CONSTANTS AuthLimit,      \* _AUTH_FAIL_LIMIT
          Attempts,       \* _ATTEMPTS
          Batch,          \* the batch of drain
          MaxRows,        \* queue_max_rows
          MaxAge,         \* queue_max_age_hours, in payloads
          InlineToken,    \* [transport] token, 0 when the option is not set
          Watchdog,       \* exchanges that fit in WatchdogSec, 0 when all do
          Budgets,        \* bounds: how often each of Events happens
          MaxPayloads,    \* bound: the largest number of payloads followed
          MaxTokens       \* bound: the number of tokens issued

Accidents ==
    {"outage",     \* the network goes down
     "lostReply",  \* the backend acts on a request, the reply is lost or late
     "busy",       \* the backend answers 5xx, or the request is lost
     "badReply",   \* the backend answers 4xx, but not 401, 403 or 410
     "crash",      \* the daemon dies, or is stopped and started
     "noQueue",    \* the queue file cannot be opened
     "noRemove",   \* the token file cannot be removed
     "revoke",     \* the backend invalidates the agent's tokens
     "reject",     \* the operator rejects a matched claim
     "immediate",  \* the backend answers the enroll POST with a token
     "enroll"}     \* somebody runs oo-agent --enroll beside the daemon

\* "payload" is a collected payload that is followed.
Events == Accidents \cup {"payload"}

ASSUME DeliveryAssumption ==
    /\ AuthLimit \in Nat \ {0} /\ Attempts \in Nat \ {0} /\ Batch \in Nat \ {0}
    /\ MaxRows \in Nat /\ MaxAge \in Nat /\ Watchdog \in Nat
    /\ MaxPayloads \in Nat /\ MaxTokens \in Nat \ {0} /\ InlineToken \in 0 .. MaxTokens
    /\ Budgets \subseteq [Events -> Nat]
    /\ \A budget \in Budgets : budget["payload"] <= MaxPayloads

VARIABLES
    \* the daemon, forgotten when it dies
    pc,          \* where it is; see Places
    cur,         \* the payload push_sink was called with
    attempt,     \* the attempt of TransportClient.push
    batch,       \* rows drain has peeked and not yet pushed
    delivered,   \* rows drain has pushed and not yet acked
    authStatus,  \* client.auth_status is not None
    authFails,   \* state["auth_fails"]
    token,       \* client.token
    flow,        \* state["reclaim"]: "off", or the next request, "post" or "poll"
    throttled,   \* now < flow._next_try
    fresh,       \* the token write_token is about to store
    buffered,    \* queue is not None
    spent,       \* exchanges since the last watchdog ping
    \* on disk
    rows, lastId,  \* the queue and its AUTOINCREMENT counter
    tokenFile,
    \* the backend and the CLI
    up,          \* the backend can be reached
    valid,       \* tokens the backend accepts
    issued,      \* the number of tokens issued
    claim,       \* "none", "open", "matched" (by a POST) or "approved"
    cli,         \* the token oo-agent --enroll holds and has not written yet
    \* what happened to the payloads
    produced,    \* the number of payloads collected
    accepted,    \* the backend has it
    refused,     \* answered with a 4xx and dropped
    shed,        \* dropped on purpose: unenrolled, no queue, or a cap of the queue
    lost,        \* in the hands of push_sink when the daemon died
    again,       \* accepted more than once
    doubtful,    \* accepted, but the daemon was kept from knowing or noting it
    rejections,  \* auth rejections of the current token in a row
    left         \* what is left of the budget

sending == <<cur, attempt, batch, delivered>>
drained == <<attempt, batch, delivered>>
auth    == <<authStatus, authFails>>
reclaim == <<flow, throttled, fresh>>
daemon  == <<pc, sending, auth, token, reclaim, buffered, spent>>
disk    == <<rows, lastId, tokenFile>>
backend == <<up, valid, issued, claim, cli>>
account == <<accepted, refused, shed, lost, again, doubtful>>
history == <<produced, account, rejections>>
outside == <<disk, backend, history>>
vars    == <<daemon, outside, left>>

Places ==
    {"stopped", "log_only",       \* no process; the sink that only logs
     "idle",                      \* between two calls of the sink
     "send", "judge", "park",     \* the live payload: push, its result, queue.push
     "peek", "drain", "ack",      \* drain
     "wipe", "request", "store"}  \* the token: removal, flow.step, write_token

Payloads == 1 .. MaxPayloads + 1

Tokens == 0 .. MaxTokens

TypeOK ==
    /\ pc \in Places
    /\ cur \in 0 .. MaxPayloads + 1 /\ attempt \in 1 .. Attempts
    /\ rows \subseteq Row /\ batch \subseteq Row /\ delivered \subseteq Row
    /\ authStatus \in BOOLEAN /\ authFails \in 0 .. AuthLimit
    /\ token \in Tokens /\ tokenFile \in Tokens /\ fresh \in Tokens /\ cli \in Tokens
    /\ flow \in {"off", "post", "poll"}
    /\ throttled \in BOOLEAN /\ buffered \in BOOLEAN /\ up \in BOOLEAN
    /\ spent \in 0 .. Watchdog /\ lastId \in Nat
    /\ valid \subseteq Tokens \ {0} /\ issued \in Tokens
    /\ claim \in {"none", "open", "matched", "approved"}
    /\ produced \in 0 .. MaxPayloads
    /\ \A set \in {accepted, refused, shed, lost, again, doubtful} : set \subseteq 1 .. MaxPayloads
    /\ rejections \in 0 .. AuthLimit
    /\ left \in [Events -> Nat]

Followed(S) == S \cap (1 .. MaxPayloads)

Happens(event) ==
    /\ left[event] > 0
    /\ left' = [left EXCEPT ![event] = @ - 1]

Forget ==
    /\ cur' = 0 /\ attempt' = 1 /\ batch' = {} /\ delivered' = {}
    /\ authStatus' = FALSE /\ authFails' = 0 /\ token' = 0
    /\ flow' = "off" /\ throttled' = FALSE /\ fresh' = 0
    /\ buffered' = FALSE /\ spent' = 0

\* The daemon is installed and enrolled, and not started yet.
Init ==
    /\ pc = "stopped"
    /\ cur = 0 /\ attempt = 1 /\ batch = {} /\ delivered = {}
    /\ authStatus = FALSE /\ authFails = 0 /\ token = 0
    /\ flow = "off" /\ throttled = FALSE /\ fresh = 0
    /\ buffered = FALSE /\ spent = 0
    /\ rows = {} /\ lastId = 0 /\ tokenFile = 1
    /\ up = TRUE /\ valid = {1} /\ issued = 1 /\ claim = "none" /\ cli = 0
    /\ produced = 0 /\ accepted = {} /\ refused = {} /\ shed = {} /\ lost = {}
    /\ again = {} /\ doubtful = {} /\ rejections = 0
    /\ left \in Budgets

-----------------------------------------------------------------------------
\* Start and stop

\* _build_sink: the token option overrides the file; without a token the
\* sink only logs, and nothing looks at the file again.
StartToken == IF InlineToken /= 0 THEN InlineToken ELSE tokenFile

Start ==
    /\ pc = "stopped"
    /\ token' = StartToken
    /\ \/ StartToken = 0 /\ pc' = "log_only" /\ UNCHANGED <<buffered, left>>
       \/ StartToken /= 0 /\ pc' = "idle" /\ buffered' = TRUE /\ UNCHANGED left
       \/ StartToken /= 0 /\ pc' = "idle" /\ buffered' = FALSE /\ Happens("noQueue")
    /\ rejections' = 0
    /\ UNCHANGED <<sending, auth, reclaim, spent, disk, backend, produced, account>>

\* The process ends: what it held in memory is gone.
Die ==
    /\ pc' = "stopped" /\ Forget
    /\ lost' = IF pc \in {"send", "park"}
               THEN lost \cup (Followed({cur}) \ accepted) ELSE lost
    /\ doubtful' = doubtful \cup {r.ts : r \in {d \in delivered : d.ts \in accepted}}
    /\ tokenFile' \in IF pc = "store" THEN {tokenFile, 0, fresh} ELSE {tokenFile}
    /\ rejections' = 0
    /\ UNCHANGED <<rows, lastId, backend, produced, accepted, refused, shed, again>>

\* A crash, a stop and start by the operator, or write_token raising: it
\* truncates the file before it writes, so a death in "store" may leave it
\* as it was, empty or written.
Crash == pc \notin {"stopped", "log_only"} /\ Happens("crash") /\ Die

\* The log-only daemon is restarted by hand.
Restart ==
    /\ pc = "log_only" /\ Die /\ UNCHANGED left

Late == Watchdog > 0 /\ spent >= Watchdog

WatchdogKill ==
    /\ pc \in {"send", "drain", "request"} /\ Late
    /\ Die /\ UNCHANGED left

-----------------------------------------------------------------------------
\* TransportClient.push

\* The payload on its way: the live one, or the first of drain's batch.
Front == CHOOSE r \in batch : Older(batch, r) = {}

InHand == IF pc = "send" THEN cur ELSE Front.ts

Exchange ==
    /\ pc \in {"send", "drain"} /\ ~Late
    /\ spent' = IF Watchdog = 0 THEN 0 ELSE spent + 1

\* push returns True: push_sink looks at auth_status; drain goes on, and acks
\* when the batch is done.
Returns ==
    /\ attempt' = 1
    /\ IF pc = "send"
       THEN pc' = "judge" /\ UNCHANGED <<batch, delivered>>
       ELSE /\ batch' = batch \ {Front} /\ delivered' = delivered \cup {Front}
            /\ pc' = IF batch' = {} THEN "ack" ELSE "drain"

\* Mutant: drain goes on with the next row after a failure.
FailsAndGoesOn ==
    IF attempt < Attempts
    THEN attempt' = attempt + 1 /\ UNCHANGED <<pc, shed, batch, delivered>>
    ELSE /\ attempt' = 1
         /\ batch' = IF pc = "drain" THEN batch \ {Front} ELSE batch
         /\ pc' = IF pc = "drain" THEN IF batch' = {} THEN "ack" ELSE "drain"
                  ELSE IF buffered THEN "park" ELSE "idle"
         /\ shed' = IF pc' = "idle" THEN shed \cup (Followed({cur}) \ accepted) ELSE shed
         /\ UNCHANGED delivered

\* One attempt failed.  After the last push returns False: the live payload
\* is parked if there is a queue, drain acks what went through before.
Fails ==
    /\ IF attempt < Attempts
       THEN attempt' = attempt + 1 /\ UNCHANGED <<pc, shed>>
       ELSE /\ attempt' = 1
            /\ pc' = IF pc = "drain" THEN "ack" ELSE IF buffered THEN "park" ELSE "idle"
            /\ shed' = IF pc' = "idle" THEN shed \cup (Followed({cur}) \ accepted) ELSE shed
    /\ UNCHANGED <<batch, delivered>>

Taken ==
    /\ accepted' = accepted \cup Followed({InHand})
    /\ again' = again \cup (Followed({InHand}) \cap accepted)

unsent == <<cur, authFails, token, flow, throttled, fresh, buffered>>

\* Mutant: auth_status survives an accepted push.
AcceptKeepsStatus ==
    /\ Exchange /\ up /\ token \in valid
    /\ Taken /\ rejections' = 0
    /\ Returns
    /\ UNCHANGED <<unsent, authStatus, disk, backend, produced, refused, shed, lost,
                   doubtful, left>>

\* 2xx
Accept ==
    /\ Exchange /\ up /\ token \in valid
    /\ Taken /\ authStatus' = FALSE /\ rejections' = 0
    /\ Returns
    /\ UNCHANGED <<unsent, disk, backend, produced, refused, shed, lost, doubtful, left>>

\* The backend has stored the payload, the reply comes too late or never.
AcceptUnheard ==
    /\ Exchange /\ up /\ token \in valid /\ Happens("lostReply")
    /\ Taken /\ doubtful' = doubtful \cup Followed({InHand})
    /\ Fails
    /\ UNCHANGED <<unsent, authStatus, rejections, disk, backend, produced, refused, lost>>

\* 401, 403 or 410: the payload is dropped, the rejection remembered.
RejectToken ==
    /\ Exchange /\ up /\ token \notin valid
    /\ refused' = refused \cup Followed({InHand})
    /\ authStatus' = TRUE
    /\ rejections' = IF rejections < AuthLimit THEN rejections + 1 ELSE AuthLimit
    /\ Returns
    /\ UNCHANGED <<unsent, disk, backend, produced, accepted, shed, lost, again, doubtful,
                   left>>

\* Another 4xx: the payload is dropped, auth_status stays what it was.
RejectPayload ==
    /\ Exchange /\ up /\ Happens("badReply")
    /\ refused' = refused \cup Followed({InHand}) /\ rejections' = 0
    /\ Returns
    /\ UNCHANGED <<unsent, authStatus, disk, backend, produced, accepted, shed, lost, again,
                   doubtful>>

\* 5xx, a lost request, or a network that is down.
NotDelivered ==
    /\ Exchange
    /\ \/ ~up /\ UNCHANGED left
       \/ up /\ Happens("busy")
    /\ Fails
    /\ UNCHANGED <<unsent, authStatus, rejections, disk, backend, produced, accepted,
                   refused, lost, again, doubtful>>

-----------------------------------------------------------------------------
\* push_sink and drain

\* The scheduler pings the watchdog and hands the next payload to push_sink.
\* While unenrolled the payload is dropped, and flow.step makes a request
\* unless it is too early for one.
Collect ==
    /\ pc = "idle"
    /\ \/ Happens("payload") /\ produced' = produced + 1
       \/ up /\ left["payload"] = 0 /\ UNCHANGED <<produced, left>>
    /\ spent' = 0
    /\ LET number == IF left["payload"] > 0 THEN produced' ELSE MaxPayloads + 1 IN
       IF flow = "off"
       THEN cur' = number /\ pc' = "send" /\ UNCHANGED shed
       ELSE /\ shed' = shed \cup Followed({number}) /\ cur' = 0
            /\ pc' = IF throttled THEN "idle" ELSE "request"
    /\ UNCHANGED <<drained, auth, token, reclaim, buffered, disk, backend, accepted, refused,
                   lost, again, doubtful, rejections>>

\* Mutant: the limit is one rejection late, or one early, or a single
\* buffered payload is not worth a drain.
JudgeWith(limit, backlog) ==
    /\ pc = "judge"
    /\ IF authStatus
       THEN /\ authFails' = authFails + 1
            /\ pc' = IF authFails' >= limit THEN "wipe" ELSE "idle"
       ELSE /\ authFails' = 0
            /\ pc' = IF buffered /\ Cardinality(rows) >= backlog THEN "peek" ELSE "idle"
    /\ cur' = 0
    /\ UNCHANGED <<drained, authStatus, token, reclaim, buffered, spent, outside, left>>

JudgeLate  == JudgeWith(AuthLimit + 1, 1)
JudgeEarly == JudgeWith(AuthLimit - 1, 1)
JudgeLazy  == JudgeWith(AuthLimit, 2)

\* push_sink after a push that returned True.
Judge ==
    /\ pc = "judge"
    /\ IF authStatus
       THEN /\ authFails' = authFails + 1
            /\ pc' = IF authFails' >= AuthLimit THEN "wipe" ELSE "idle"
       ELSE /\ authFails' = 0
            /\ pc' = IF buffered /\ rows /= {} THEN "peek" ELSE "idle"
    /\ cur' = 0
    /\ UNCHANGED <<drained, authStatus, token, reclaim, buffered, spent, outside, left>>

\* queue.push: insert, trim by age and by count, commit.
Park ==
    /\ pc = "park" /\ pc' = "idle" /\ cur' = 0
    /\ lastId' = lastId + 1
    /\ LET all == rows \cup {[id |-> lastId + 1, ts |-> cur]} IN
       /\ rows' = Capped(Unaged(all, produced - MaxAge), MaxRows)
       /\ shed' = shed \cup Followed({r.ts : r \in all \ rows'})
    /\ UNCHANGED <<drained, auth, token, reclaim, buffered, spent, tokenFile, backend,
                   produced, accepted, refused, lost, again, doubtful, rejections, left>>

Peek ==
    /\ pc = "peek"
    /\ batch' = Oldest(rows, Batch) /\ delivered' = {}
    /\ pc' = IF batch' = {} THEN "idle" ELSE "drain"
    /\ UNCHANGED <<cur, attempt, auth, token, reclaim, buffered, spent, outside, left>>

\* Mutants: the whole batch is acked, or only a batch that was not cut short.
AckWith(done) ==
    /\ pc = "ack"
    /\ rows' = rows \ done
    /\ pc' = IF batch = {} THEN "peek" ELSE "idle"
    /\ batch' = {} /\ delivered' = {}
    /\ UNCHANGED <<cur, attempt, auth, token, reclaim, buffered, spent, lastId, tokenFile,
                   backend, history, left>>

AckWhole  == AckWith(batch \cup delivered)
AckUncut  == AckWith(IF batch = {} THEN delivered ELSE {})

\* queue.ack: drain returns after a batch that was cut short.
Ack ==
    /\ pc = "ack"
    /\ rows' = rows \ delivered
    /\ pc' = IF batch = {} THEN "peek" ELSE "idle"
    /\ batch' = {} /\ delivered' = {}
    /\ UNCHANGED <<cur, attempt, auth, token, reclaim, buffered, spent, lastId, tokenFile,
                   backend, history, left>>

-----------------------------------------------------------------------------
\* The token: removal, re-claim flow, CLI

\* The token file is removed, whatever it holds; failing to is ignored.
Wipe ==
    /\ pc = "wipe" /\ pc' = "idle"
    /\ \/ tokenFile' = 0 /\ UNCHANGED left
       \/ UNCHANGED tokenFile /\ Happens("noRemove")
    /\ token' = 0 /\ flow' = "post" /\ throttled' = FALSE
    /\ UNCHANGED <<sending, auth, fresh, buffered, spent, rows, lastId, backend, history>>

\* flow.step makes at most one request, and the next one a minute later.
Request ==
    /\ pc = "request" /\ ~Late
    /\ spent' = IF Watchdog = 0 THEN 0 ELSE spent + 1
    /\ throttled' = TRUE
    /\ UNCHANGED <<sending, auth, token, buffered, disk, up, cli, history>>

\* The backend creates a token; every open claim has one reserved.
Issue == issued' = issued + 1 /\ valid' = valid \cup {issued + 1}

Room == issued + (IF claim = "none" THEN 0 ELSE 1) < MaxTokens

\* No reply, an error reply (to the GET: forget the enroll_id and start over),
\* or the 404 to a POST while there is no claim.
RequestFails ==
    /\ Request
    /\ \/ ~up /\ UNCHANGED <<flow, left>>
       \/ up /\ flow' \in {flow, "post"} /\ Happens("busy")
       \/ up /\ flow = "post" /\ claim = "none" /\ UNCHANGED <<flow, left>>
    /\ pc' = "idle" /\ UNCHANGED <<fresh, valid, issued, claim>>

\* POST: the claim is matched and its enroll_id returned.
PostMatches ==
    /\ Request /\ up /\ flow = "post" /\ claim /= "none"
    /\ claim' = IF claim = "open" THEN "matched" ELSE claim
    /\ \/ flow' = "poll" /\ UNCHANGED left
       \/ flow' = flow /\ Happens("lostReply")
    /\ pc' = "idle" /\ UNCHANGED <<fresh, valid, issued>>

\* POST answered with the token at once: step reads enroll_id only.
PostHandsToken ==
    /\ Request /\ up /\ flow = "post" /\ claim /= "none" /\ Happens("immediate")
    /\ Issue /\ claim' = "none"
    /\ pc' = "idle" /\ UNCHANGED <<flow, fresh>>

\* Mutant: the enroll_id survives a rejection.
PollKeepsId ==
    /\ Request /\ up /\ flow = "poll" /\ claim /= "approved"
    /\ flow' = "poll"
    /\ pc' = "idle" /\ UNCHANGED <<fresh, valid, issued, claim, left>>

\* GET: still pending, or 404, rejected or expired - then start over.
PollPending ==
    /\ Request /\ up /\ flow = "poll" /\ claim /= "approved"
    /\ flow' = IF claim = "matched" THEN "poll" ELSE "post"
    /\ pc' = "idle" /\ UNCHANGED <<fresh, valid, issued, claim, left>>

\* GET: approved.  The backend hands the token out exactly once.
PollHandsToken ==
    /\ Request /\ up /\ flow = "poll" /\ claim = "approved"
    /\ Issue /\ claim' = "none"
    /\ \/ pc' = "store" /\ fresh' = issued' /\ UNCHANGED left
       \/ pc' = "idle" /\ UNCHANGED fresh /\ Happens("lostReply")
    /\ UNCHANGED flow

\* Mutant: the new token is used and not written.
StoreInMemory ==
    /\ pc = "store" /\ pc' = "idle"
    /\ token' = fresh /\ fresh' = 0
    /\ flow' = "off" /\ throttled' = FALSE /\ authFails' = 0 /\ rejections' = 0
    /\ UNCHANGED <<sending, authStatus, buffered, spent, disk, backend, produced, account,
                   left>>

\* write_token, and push_sink taking the new token over.
Store ==
    /\ pc = "store" /\ pc' = "idle"
    /\ tokenFile' = fresh /\ token' = fresh /\ fresh' = 0
    /\ flow' = "off" /\ throttled' = FALSE /\ authFails' = 0 /\ rejections' = 0
    /\ UNCHANGED <<sending, authStatus, buffered, spent, rows, lastId, backend, produced,
                   account, left>>

\* oo-agent --enroll: the token is received, then written.
CliReceives ==
    /\ cli = 0 /\ up /\ Room /\ Happens("enroll") /\ Issue /\ cli' = issued'
    /\ UNCHANGED <<daemon, disk, up, claim, history>>

CliWrites ==
    /\ cli /= 0 /\ tokenFile' = cli /\ cli' = 0
    /\ UNCHANGED <<daemon, rows, lastId, up, valid, issued, claim, history, left>>

-----------------------------------------------------------------------------
\* The backend, its operator, and time

world == <<daemon, disk, history>>

NetworkDown == /\ up /\ up' = FALSE /\ Happens("outage")
               /\ UNCHANGED <<world, valid, issued, claim, cli>>

NetworkUp   == /\ ~up /\ up' = TRUE
               /\ UNCHANGED <<world, valid, issued, claim, cli, left>>

Revoke  == /\ valid /= {} /\ valid' = {} /\ Happens("revoke")
           /\ UNCHANGED <<world, up, issued, claim, cli>>

\* The operator re-adds a server whose agent has lost its token.
ReAdd   == /\ claim = "none" /\ flow /= "off" /\ pc /= "store" /\ Room
           /\ claim' = "open"
           /\ UNCHANGED <<world, up, valid, issued, cli, left>>

Approve == /\ claim = "matched" /\ claim' = "approved"
           /\ UNCHANGED <<world, up, valid, issued, cli, left>>

Reject  == /\ claim = "matched" /\ claim' = "none" /\ Happens("reject")
           /\ UNCHANGED <<world, up, valid, issued, cli>>

MinutePasses ==
    /\ throttled /\ throttled' = FALSE
    /\ UNCHANGED <<pc, sending, auth, token, flow, fresh, buffered, spent, outside, left>>

-----------------------------------------------------------------------------
Push    == Accept \/ AcceptUnheard \/ RejectToken \/ RejectPayload \/ NotDelivered
Reclaim == RequestFails \/ PostMatches \/ PostHandsToken \/ PollPending \/ PollHandsToken

\* What the daemon does by itself once it runs.
Daemon == Push \/ Judge \/ Park \/ Peek \/ Ack \/ Wipe \/ Reclaim \/ Store

Next ==
    \/ Start \/ Crash \/ Restart \/ WatchdogKill
    \/ Collect \/ Daemon
    \/ CliReceives \/ CliWrites
    \/ NetworkDown \/ NetworkUp \/ Revoke \/ ReAdd \/ Approve \/ Reject \/ MinutePasses

Spec == Init /\ [][Next]_vars

\* systemd restarts the daemon (Restart=always) and enforces the watchdog;
\* the loop of the scheduler keeps collecting and the daemon's calls return
\* (every request has a timeout); outages end; the throttle runs out.
Fairness ==
    /\ WF_vars(Start) /\ WF_vars(WatchdogKill) /\ WF_vars(Collect) /\ WF_vars(Daemon)
    /\ WF_vars(NetworkUp) /\ WF_vars(MinutePasses)

\* The operator re-adds the server in the UI and confirms the agent.
OperatorFairness == WF_vars(ReAdd) /\ WF_vars(Approve)

FairSpec == Spec /\ Fairness /\ OperatorFairness

-----------------------------------------------------------------------------
\* Properties

\* No payload vanishes: whatever was collected has been accepted, refused
\* with a 4xx, dropped by a cap or for want of a token or a queue, waits in
\* the queue, is in the hands of push_sink, or was there when the daemon died
\* - so a death costs the live payload and never one of the backlog, also in
\* the middle of a drain (cli.py 268-308, client.py 110-184).
Accounted ==
    \A p \in 1 .. produced :
        \/ p \in accepted \cup refused \cup shed \cup lost
        \/ p \in {r.ts : r \in rows}
        \/ p = cur /\ pc \in {"send", "park"}

\* A payload reaches the backend twice only if the first reply was lost or
\* the daemon died before it could ack: retries, drains that stop half way
\* and a payload that is parked after its attempts never cause it
\* (client.py 126-184).
RedeliversOnlyInDoubt == again \subseteq doubtful

\* The backlog goes out oldest first, over batches, failed drains and
\* restarts: when drain gets a payload accepted, whatever older one still is
\* in the queue was accepted or refused before ("stops at the first transient
\* failure so ordering is preserved", client.py 168-170).
OldestFirst ==
    [][\A p \in accepted' \ accepted : pc = "drain" =>
          \A r \in rows : r.ts < p => r.ts \in accepted \cup refused]_vars

\* "Consecutive auth rejections (401/403/410) before the daemon wipes its
\* token" (cli.py 19-20): a token is given up after AuthLimit auth rejections
\* of that token in a row.
WipeNeedsRejections == pc = "wipe" => rejections >= AuthLimit

\* A token the backend accepts is never taken off the disk: the file is only
\* emptied or overwritten when the token in it is dead (cli.py 290-299).
ValidTokenKept ==
    [][(tokenFile \in valid) => (tokenFile' \in valid')]_tokenFile

\* What the daemon pushes with is what it will find when it is restarted,
\* across wipes, failing removals and re-enrollments (cli.py 271-299,
\* client.py 83, reclaim.py 123-126).
RestartKeepsToken ==
    pc \notin {"stopped", "log_only"} /\ flow = "off" => StartToken = token

\* "drained oldest-first once the backend is reachable again" (README 13-14):
\* a backlog is empty at some later time, unless the agent lost its token or
\* has no queue to drain.
Drains ==
    rows /= {} ~> \/ rows = {} \/ flow /= "off" \/ pc = "log_only"
                  \/ pc /= "stopped" /\ ~buffered

\* "until a fresh claim created in the UI is matched and confirmed"
\* (reclaim.py 3-8): a running daemon whose token is dead ends up with one
\* that the backend accepts, if the operator does his part.
Reenrolls ==
    pc \notin {"stopped", "log_only"} /\ token \notin valid ~> token \in valid
=============================================================================
