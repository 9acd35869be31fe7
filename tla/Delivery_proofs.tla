-------------------------- MODULE Delivery_proofs --------------------------
(***************************************************************************)
(* What becomes of the payloads and of the token, for any limits, batches, *)
(* caps and numbers of attempts, whatever befalls the daemon, the network  *)
(* and the backend.                                                        *)
(***************************************************************************)
EXTENDS Delivery, QueueRows_proofs

-----------------------------------------------------------------------------
\* The payloads

Counting ==
    /\ produced \in Nat /\ left \in [Events -> Nat]
    /\ produced + left["payload"] <= MaxPayloads
    /\ accepted \subseteq 1 .. produced

\* A payload that is not followed exists when the others have been collected.
Beyond(n) == n = MaxPayloads + 1 /\ left["payload"] = 0

\* The queue: its keys, and the stamps in the order of the keys.
Stored ==
    /\ rows \subseteq Row /\ IsFiniteSet(rows) /\ Keyed(rows)
    /\ lastId \in Nat /\ \A r \in rows : r.id <= lastId
    /\ \A r \in rows : r.ts >= 1 /\ (r.ts <= produced \/ Beyond(r.ts))
    /\ \A r, s \in rows : r.id < s.id => r.ts < s.ts \/ Beyond(s.ts)

\* The live payload is newer than the backlog; a reply that was lost is in doubt.
Live ==
    pc \in {"send", "park"} =>
        \/ Beyond(cur)
        \/ /\ cur = produced /\ produced >= 1
           /\ \A r \in rows : r.ts < cur
           /\ cur \in accepted => cur \in doubtful

\* The batch of drain is the oldest part of what is left of the queue.
Draining ==
    /\ batch \subseteq rows /\ delivered \subseteq rows /\ batch \cap delivered = {}
    /\ pc \notin {"drain", "ack"} => batch = {} /\ delivered = {}
    /\ pc = "drain" => batch # {}
    /\ \A r \in rows : r \in delivered \/ r \in batch \/ \A b \in batch : b.id < r.id
    /\ \A d \in delivered : d.ts <= MaxPayloads => d.ts \in accepted \cup refused

\* What a row that the backend already has is doing in the queue.
Doubts ==
    \A r \in rows : r.ts \in accepted => r.ts \in doubtful \/ r \in delivered

PayloadInv ==
    Counting /\ Stored /\ Live /\ Draining /\ Doubts /\ Accounted /\ RedeliversOnlyInDoubt

-----------------------------------------------------------------------------
LEMMA BudgetIsNat == MaxPayloads \in Nat
  BY DeliveryAssumption DEF DeliveryAssumption

\* Every payload that was collected so far is followed.
LEMMA CollectedIsFollowed ==
    ASSUME Counting
    PROVE  left["payload"] \in Nat /\ produced <= MaxPayloads
<1>1. "payload" \in Events
  BY DEF Events
<1> QED BY <1>1, BudgetIsNat DEF Counting

\* The first row of a batch is one of its rows, and older than the others.
LEMMA FrontIsOldest ==
    ASSUME Stored, Draining, batch # {}
    PROVE  Front \in batch /\ \A b \in batch : Front.id <= b.id
<1>1. batch \subseteq Row
  BY DEF Stored, Draining
<1>2. IdsOf(batch) \subseteq Nat /\ IdsOf(batch) # {}
  BY <1>1 DEF IdsOf, Row
<1>3. PICK i \in IdsOf(batch) : \A j \in IdsOf(batch) : i <= j
  BY <1>2, LeastNat
<1>4. PICK m \in batch : m.id = i
  BY DEF IdsOf
<1>5. Older(batch, m) = {}
  BY <1>1, <1>3, <1>4 DEF Older, IdsOf, Row
<1>6. Front \in batch /\ Older(batch, Front) = {}
  BY <1>4, <1>5 DEF Front
<1>7. \A b \in batch : Front.id <= b.id
  BY <1>1, <1>6 DEF Older, Row
<1> QED BY <1>6, <1>7

\* Two rows of one followed payload are one row.
LEMMA OneRowPerPayload ==
    ASSUME Counting, Stored, NEW r \in rows, NEW s \in rows, r.ts = s.ts, r.ts <= MaxPayloads
    PROVE  r = s
<1>1. r \in Row /\ s \in Row
  BY DEF Stored
<1>2. ~Beyond(r.ts)
  BY <1>1, BudgetIsNat DEF Beyond, Row
<1>3. ~(r.id < s.id) /\ ~(s.id < r.id)
  BY <1>1, <1>2 DEF Stored, Row
<1> QED BY <1>1, <1>3 DEF Stored, Keyed, Row

\* An accident other than a payload leaves the payloads of the budget alone.
LEMMA AccidentsOnly ==
    ASSUME Counting, NEW e \in Accidents, Happens(e)
    PROVE  left' \in [Events -> Nat] /\ left'["payload"] = left["payload"]
<1>1. e \in Events /\ e # "payload" /\ "payload" \in Events
  BY DEF Events, Accidents
<1> QED BY <1>1 DEF Happens, Counting

\* What a step leaves alone that has nothing to do with payloads.
Untouched ==
    /\ UNCHANGED <<cur, batch, delivered, rows, lastId, produced, account>>
    /\ left' \in [Events -> Nat] /\ left'["payload"] = left["payload"]

LEMMA UntouchedKeeps ==
    ASSUME PayloadInv, Untouched,
           pc' = pc \/ {pc, pc'} \cap {"send", "park", "drain", "ack"} = {}
    PROVE  PayloadInv'
<1>1. Counting' /\ Stored' /\ Doubts' /\ RedeliversOnlyInDoubt'
  BY DEF PayloadInv, Untouched, account, Counting, Stored, Beyond, Doubts, RedeliversOnlyInDoubt
<1>2. Live' /\ Draining' /\ Accounted'
  BY DEF PayloadInv, Untouched, account, Live, Beyond, Draining, Accounted
<1> QED BY <1>1, <1>2 DEF PayloadInv

-----------------------------------------------------------------------------
LEMMA PayloadInit == Init => PayloadInv
<1> SUFFICES ASSUME Init PROVE PayloadInv
  OBVIOUS
<1>1. left \in [Events -> Nat] /\ left["payload"] <= MaxPayloads
  BY DeliveryAssumption DEF Init, DeliveryAssumption
<1>2. "payload" \in Events
  BY DEF Events
<1>3. Counting
  BY <1>1, <1>2, BudgetIsNat DEF Init, Counting
<1>4. Stored
  BY FS_EmptySet DEF Init, Stored, Keyed
<1> QED BY <1>3, <1>4
        DEF Init, PayloadInv, Live, Draining, Doubts, Accounted, RedeliversOnlyInDoubt

-----------------------------------------------------------------------------
\* The exchange of one payload

\* What every exchange leaves alone, and what it may add.
Exchanged ==
    /\ pc \in {"send", "drain"}
    /\ UNCHANGED <<cur, rows, lastId, produced, lost>>
    /\ left' \in [Events -> Nat] /\ left'["payload"] = left["payload"]
    /\ accepted \subseteq accepted' /\ accepted' \subseteq accepted \cup Followed({InHand})
    /\ refused \subseteq refused' /\ doubtful \subseteq doubtful' /\ shed \subseteq shed'
    /\ again' \subseteq again \cup (Followed({InHand}) \cap accepted)

\* The payload on its way was collected, and its second acceptance is in doubt.
LEMMA InHandIsKnown ==
    ASSUME PayloadInv, pc \in {"send", "drain"}
    PROVE  /\ Followed({InHand}) \subseteq 1 .. produced
           /\ Followed({InHand}) \cap accepted \subseteq doubtful
           /\ pc = "drain" => Front \in batch /\ Front \in rows /\ Front \notin delivered
<1>1. CASE pc = "send"
  BY <1>1, BudgetIsNat DEF PayloadInv, Live, Beyond, Counting, InHand, Followed
<1>2. CASE pc = "drain"
  <2>1. Front \in batch
    BY <1>2, FrontIsOldest DEF PayloadInv, Draining
  <2>2. Front \in rows /\ Front \notin delivered /\ Front \in Row
    BY <2>1 DEF PayloadInv, Draining, Stored
  <2>3. Front.ts >= 1 /\ Front.ts \in Nat /\ (Front.ts <= produced \/ Beyond(Front.ts))
    BY <2>2 DEF PayloadInv, Stored, Row
  <2>4. Followed({InHand}) \subseteq 1 .. produced
    BY <1>2, <2>3, BudgetIsNat DEF PayloadInv, Counting, InHand, Followed, Beyond
  <2>5. Front.ts \in accepted => Front.ts \in doubtful
    BY <2>2 DEF PayloadInv, Doubts
  <2> QED BY <1>2, <2>1, <2>2, <2>4, <2>5 DEF InHand, Followed
<1> QED BY <1>1, <1>2

LEMMA ExchangedCounts ==
    ASSUME PayloadInv, Exchanged
    PROVE  Counting' /\ Stored' /\ RedeliversOnlyInDoubt'
<1>1. Counting'
  BY InHandIsKnown DEF PayloadInv, Exchanged, Counting
<1>2. Stored'
  BY DEF PayloadInv, Exchanged, Stored, Beyond
<1>3. RedeliversOnlyInDoubt'
  BY InHandIsKnown DEF PayloadInv, Exchanged, RedeliversOnlyInDoubt
<1> QED BY <1>1, <1>2, <1>3

\* push returned True: the payload was accepted or refused, and drain moves it
\* from the rows to send to the rows to ack (client.py 176-184).
LEMMA ReturnsKeeps ==
    ASSUME PayloadInv, Exchanged, Returns,
           Followed({InHand}) \subseteq accepted' \cup refused'
    PROVE  PayloadInv'
<1>1. CASE pc = "send"
  <2>1. pc' = "judge" /\ UNCHANGED <<batch, delivered>> /\ batch = {} /\ delivered = {}
    BY <1>1 DEF Returns, PayloadInv, Draining
  <2>2. Live' /\ Draining'
    BY <2>1 DEF Live, Draining, Exchanged, PayloadInv
  <2>3. Doubts'
    <3> SUFFICES ASSUME NEW r \in rows, r.ts \in accepted'
                 PROVE  r.ts \in doubtful'
      BY DEF Doubts, Exchanged
    <3>1. CASE r.ts \in accepted
      BY <2>1, <3>1 DEF PayloadInv, Doubts, Exchanged
    <3>2. CASE r.ts \notin accepted
      <4>1. r.ts = cur /\ r.ts \in 1 .. MaxPayloads
        BY <1>1, <3>2 DEF Exchanged, InHand, Followed
      <4> QED BY <1>1, <4>1, BudgetIsNat DEF PayloadInv, Live, Beyond, Counting
    <3> QED BY <3>1, <3>2
  <2>4. Accounted'
    <3> SUFFICES ASSUME NEW q \in 1 .. produced
                 PROVE  \/ q \in accepted' \cup refused' \cup shed' \cup lost'
                        \/ q \in {r.ts : r \in rows}
      BY DEF Accounted, Exchanged
    <3>1. q \in 1 .. MaxPayloads
      BY BudgetIsNat, CollectedIsFollowed DEF PayloadInv, Counting
    <3>2. q = cur => q \in accepted' \cup refused'
      BY <1>1, <3>1 DEF InHand, Followed
    <3> QED BY <3>2 DEF PayloadInv, Accounted, Exchanged
  <2> QED BY <2>2, <2>3, <2>4, ExchangedCounts DEF PayloadInv
<1>2. CASE pc = "drain"
  <2>1. Front \in batch /\ Front \in rows /\ Front \notin delivered /\ Front \in Row
    BY <1>2, InHandIsKnown DEF PayloadInv, Stored
  <2>2. /\ batch' = batch \ {Front} /\ delivered' = delivered \cup {Front}
        /\ pc' = IF batch' = {} THEN "ack" ELSE "drain"
    BY <1>2 DEF Returns
  <2>3. Front.ts <= MaxPayloads => Front.ts \in accepted' \cup refused'
    BY <1>2, <2>1 DEF InHand, Followed, PayloadInv, Stored, Row
  <2>4. Draining'
    <3>1. /\ batch' \subseteq rows' /\ delivered' \subseteq rows' /\ batch' \cap delivered' = {}
          /\ pc' \in {"drain", "ack"} /\ (pc' = "drain" => batch' # {})
      BY <2>1, <2>2 DEF PayloadInv, Draining, Exchanged
    <3>2. \A r \in rows' : r \in delivered' \/ r \in batch' \/ \A b \in batch' : b.id < r.id
      BY <2>2 DEF PayloadInv, Draining, Exchanged
    <3>3. \A d \in delivered' : d.ts <= MaxPayloads => d.ts \in accepted' \cup refused'
      BY <2>2, <2>3 DEF PayloadInv, Draining, Exchanged
    <3> QED BY <3>1, <3>2, <3>3 DEF Draining
  <2>5. Doubts'
    <3> SUFFICES ASSUME NEW r \in rows, r.ts \in accepted'
                 PROVE  r.ts \in doubtful' \/ r \in delivered'
      BY DEF Doubts, Exchanged
    <3>1. CASE r.ts \in accepted
      BY <2>2, <3>1 DEF PayloadInv, Doubts, Exchanged
    <3>2. CASE r.ts \notin accepted
      <4>1. r.ts = Front.ts /\ r.ts \in 1 .. MaxPayloads
        BY <1>2, <3>2 DEF Exchanged, InHand, Followed
      <4>2. r = Front
        BY <2>1, <4>1, OneRowPerPayload DEF PayloadInv
      <4> QED BY <2>2, <4>2
    <3> QED BY <3>1, <3>2
  <2>6. Live' /\ Accounted'
    BY <1>2, <2>2 DEF Live, PayloadInv, Accounted, Exchanged
  <2> QED BY <2>4, <2>5, <2>6, ExchangedCounts DEF PayloadInv
<1> QED BY <1>1, <1>2 DEF Exchanged

\* push failed: it is tried again, or the payload stays in the hands of
\* push_sink or in the queue (client.py 126-146, 176-184).
LEMMA FailsKeeps ==
    ASSUME PayloadInv, Exchanged, Fails, accepted' \ accepted \subseteq doubtful'
    PROVE  PayloadInv'
<1>1. UNCHANGED <<batch, delivered>>
  BY DEF Fails
<1>2. Doubts'
  BY <1>1 DEF PayloadInv, Doubts, Exchanged
<1>3. CASE pc = "send"
  <2>1. pc' \in {"send", "park", "idle"} /\ batch = {} /\ delivered = {}
    BY <1>3 DEF Fails, PayloadInv, Draining
  <2>2. Draining'
    BY <1>1, <2>1 DEF Draining, Exchanged, PayloadInv
  <2>3. Live'
    BY <1>3, <2>1, BudgetIsNat DEF PayloadInv, Live, Beyond, Exchanged, Counting
  <2>4. Accounted'
    <3> SUFFICES ASSUME NEW q \in 1 .. produced
                 PROVE  \/ q \in accepted' \cup refused' \cup shed' \cup lost'
                        \/ q \in {r.ts : r \in rows}
                        \/ q = cur /\ pc' \in {"send", "park"}
      BY DEF Accounted, Exchanged
    <3>1. q \in 1 .. MaxPayloads
      BY BudgetIsNat, CollectedIsFollowed DEF PayloadInv, Counting
    <3>2. q = cur /\ pc' = "idle" => q \in accepted' \cup shed'
      BY <1>3, <3>1 DEF Fails, Followed, Exchanged
    <3> QED BY <2>1, <3>2 DEF PayloadInv, Accounted, Exchanged
  <2> QED BY <1>2, <2>2, <2>3, <2>4, ExchangedCounts DEF PayloadInv
<1>4. CASE pc = "drain"
  <2>1. pc' \in {"drain", "ack"}
    BY <1>4 DEF Fails
  <2>2. Draining'
    BY <1>1, <1>4, <2>1 DEF PayloadInv, Draining, Exchanged
  <2>3. Live' /\ Accounted'
    BY <1>4, <2>1 DEF Live, PayloadInv, Accounted, Exchanged
  <2> QED BY <1>2, <2>2, <2>3, ExchangedCounts DEF PayloadInv
<1> QED BY <1>3, <1>4 DEF Exchanged

LEMMA PushKeeps == PayloadInv /\ Push => PayloadInv'
<1> SUFFICES ASSUME PayloadInv, Push PROVE PayloadInv'
  OBVIOUS
<1> USE DEF unsent, disk, backend
<1>1. Counting /\ left \in [Events -> Nat]
  BY DEF PayloadInv, Counting
<1>2. CASE Accept
  <2>1. Exchanged /\ Returns /\ Followed({InHand}) \subseteq accepted'
    BY <1>1, <1>2 DEF Accept, Exchange, Exchanged, Taken
  <2> QED BY <2>1, ReturnsKeeps
<1>3. CASE AcceptUnheard
  <2>1. left' \in [Events -> Nat] /\ left'["payload"] = left["payload"]
    BY <1>1, <1>3, AccidentsOnly DEF AcceptUnheard, Accidents
  <2>2. shed \subseteq shed'
    BY <1>3 DEF AcceptUnheard, Fails
  <2>3. Exchanged /\ Fails /\ accepted' \ accepted \subseteq doubtful'
    BY <1>3, <2>1, <2>2 DEF AcceptUnheard, Exchange, Exchanged, Taken
  <2> QED BY <2>3, FailsKeeps
<1>4. CASE RejectToken
  <2>1. Exchanged /\ Returns /\ Followed({InHand}) \subseteq refused'
    BY <1>1, <1>4 DEF RejectToken, Exchange, Exchanged
  <2> QED BY <2>1, ReturnsKeeps
<1>5. CASE RejectPayload
  <2>1. left' \in [Events -> Nat] /\ left'["payload"] = left["payload"]
    BY <1>1, <1>5, AccidentsOnly DEF RejectPayload, Accidents
  <2>2. Exchanged /\ Returns /\ Followed({InHand}) \subseteq refused'
    BY <1>5, <2>1 DEF RejectPayload, Exchange, Exchanged
  <2> QED BY <2>2, ReturnsKeeps
<1>6. CASE NotDelivered
  <2>1. left' \in [Events -> Nat] /\ left'["payload"] = left["payload"]
    BY <1>1, <1>6, AccidentsOnly DEF NotDelivered, Accidents
  <2>2. shed \subseteq shed'
    BY <1>6 DEF NotDelivered, Fails
  <2>3. Exchanged /\ Fails /\ accepted' = accepted
    BY <1>6, <2>1, <2>2 DEF NotDelivered, Exchange, Exchanged
  <2> QED BY <2>3, FailsKeeps
<1> QED BY <1>2, <1>3, <1>4, <1>5, <1>6 DEF Push

-----------------------------------------------------------------------------
\* The other steps of the daemon

\* A new payload is the newest one, and unknown to the backend.
LEMMA CollectKeeps == PayloadInv /\ Collect => PayloadInv'
<1> SUFFICES ASSUME PayloadInv, Collect PROVE PayloadInv'
  OBVIOUS
<1> USE DEF drained, auth, reclaim, disk, backend
<1>1. /\ pc = "idle" /\ pc' \in {"send", "idle", "request"} /\ batch = {} /\ delivered = {}
      /\ UNCHANGED <<batch, delivered, rows, lastId, accepted, refused, lost, again, doubtful>>
      /\ shed \subseteq shed'
  BY DEF Collect, PayloadInv, Draining
<1>2. produced \in Nat /\ left["payload"] \in Nat /\ produced <= MaxPayloads
  BY CollectedIsFollowed DEF PayloadInv, Counting
<1>3. Draining' /\ Doubts' /\ RedeliversOnlyInDoubt'
  BY <1>1 DEF PayloadInv, Draining, Doubts, RedeliversOnlyInDoubt
<1>4. CASE Happens("payload")
  <2>1. /\ left["payload"] > 0 /\ produced' = produced + 1
        /\ left' \in [Events -> Nat] /\ left'["payload"] = left["payload"] - 1
    BY <1>2, <1>4 DEF Happens, Collect, PayloadInv, Counting, Events
  <2>2. \/ pc' = "send" /\ cur' = produced'
        \/ pc' # "send" /\ shed' = shed \cup Followed({produced'})
    BY <2>1 DEF Collect
  <2>3. Counting'
    BY <1>1, <1>2, <2>1 DEF PayloadInv, Counting
  <2>4. ASSUME NEW r \in rows
        PROVE  r \in Row /\ r.ts <= produced /\ ~Beyond(r.ts)
    BY <2>1 DEF PayloadInv, Stored, Beyond, Row
  <2>5. Stored'
    BY <1>1, <1>2, <2>1, <2>4 DEF PayloadInv, Stored, Beyond, Row
  <2>6. Live'
    BY <1>1, <1>2, <2>1, <2>2, <2>4 DEF PayloadInv, Live, Counting, Row
  <2>7. Accounted'
    <3> SUFFICES ASSUME NEW q \in 1 .. produced'
                 PROVE  \/ q \in accepted \cup refused \cup shed' \cup lost
                        \/ q \in {r.ts : r \in rows}
                        \/ q = cur' /\ pc' \in {"send", "park"}
      BY <1>1 DEF Accounted
    <3>1. CASE q \in 1 .. produced
      BY <1>1, <3>1 DEF PayloadInv, Accounted
    <3>2. CASE q = produced'
      <4>1. q \in 1 .. MaxPayloads
        BY <1>2, <2>1, <3>2, BudgetIsNat, CollectedIsFollowed DEF PayloadInv, Counting
      <4> QED BY <2>2, <3>2, <4>1 DEF Followed
    <3> QED BY <1>2, <2>1, <3>1, <3>2
  <2> QED BY <1>3, <2>3, <2>5, <2>6, <2>7 DEF PayloadInv
<1>5. CASE left["payload"] = 0 /\ UNCHANGED <<produced, left>>
  <2>1. pc' = "send" => cur' = MaxPayloads + 1
    BY <1>5 DEF Collect
  <2>2. Counting' /\ Stored'
    BY <1>1, <1>5 DEF PayloadInv, Counting, Stored, Beyond
  <2>3. Live'
    BY <1>1, <1>5, <2>1 DEF Live, Beyond
  <2>4. Accounted'
    BY <1>1, <1>5 DEF PayloadInv, Accounted
  <2> QED BY <1>3, <2>2, <2>3, <2>4 DEF PayloadInv
<1> QED BY <1>4, <1>5 DEF Collect

\* The parked payload is the newest row; the caps drop what they account for.
LEMMA ParkKeeps == PayloadInv /\ Park => PayloadInv'
<1> SUFFICES ASSUME PayloadInv, Park PROVE PayloadInv'
  OBVIOUS
<1> DEFINE new == [id |-> lastId + 1, ts |-> cur]
           all == rows \cup {new}
<1> USE DEF drained, auth, reclaim, backend
<1>1. /\ pc = "park" /\ pc' = "idle" /\ lastId' = lastId + 1
      /\ batch = {} /\ delivered = {}
      /\ UNCHANGED <<batch, delivered, produced, accepted, refused, lost, again, doubtful, left>>
      /\ shed' = shed \cup Followed({r.ts : r \in all \ rows'})
  BY DEF Park, PayloadInv, Draining
<1>2. rows' \subseteq all
  BY DEF Park, Capped, Unaged
<1>3. produced \in Nat /\ left["payload"] \in Nat /\ produced <= MaxPayloads /\ lastId \in Nat
  BY CollectedIsFollowed DEF PayloadInv, Counting, Stored
<1>4. /\ cur \in Nat /\ cur >= 1 /\ (cur <= produced \/ Beyond(cur))
      /\ \A r \in rows : r.ts < cur \/ Beyond(cur)
      /\ ~Beyond(cur) /\ cur \in accepted => cur \in doubtful
  BY <1>1, <1>3, BudgetIsNat DEF PayloadInv, Live, Beyond
<1>5. all \subseteq Row /\ IsFiniteSet(all) /\ \A r \in rows : r.id < new.id
  <2>1. rows \subseteq Row /\ IsFiniteSet(rows) /\ \A r \in rows : r.id <= lastId
    BY DEF PayloadInv, Stored
  <2>2. new \in Row
    BY <1>3, <1>4 DEF Row
  <2>3. IsFiniteSet(all)
    <3> HIDE DEF new
    <3> QED BY <2>1, FS_AddElement
  <2>4. \A r \in rows : r.id < new.id
    BY <1>3, <2>1 DEF Row
  <2> QED BY <2>1, <2>2, <2>3, <2>4
<1>6. Stored'
  <2>1. rows' \subseteq Row /\ IsFiniteSet(rows')
    BY <1>2, <1>5, FS_Subset
  <2>2. Keyed(rows') /\ lastId' \in Nat /\ \A r \in rows' : r.id <= lastId'
    BY <1>1, <1>2, <1>3, <1>5 DEF PayloadInv, Stored, Keyed, Row
  <2>3. \A r \in rows' : r.ts >= 1 /\ (r.ts <= produced' \/ Beyond(r.ts)')
    BY <1>1, <1>2, <1>4 DEF PayloadInv, Stored, Beyond
  <2>4. ASSUME NEW r \in rows', NEW t \in rows', r.id < t.id
        PROVE  r.ts < t.ts \/ Beyond(t.ts)'
    <3>1. CASE t = new
      <4>1. r \in rows
        BY <1>2, <2>4, <3>1, <1>3
      <4> QED BY <1>1, <1>4, <3>1, <4>1 DEF Beyond
    <3>2. CASE t # new
      <4>1. t \in rows /\ r \in rows
        BY <1>2, <1>5, <2>4, <3>2 DEF Row
      <4> QED BY <1>1, <2>4, <4>1 DEF PayloadInv, Stored, Beyond
    <3> QED BY <3>1, <3>2
  <2> QED BY <2>1, <2>2, <2>3, <2>4 DEF Stored
<1>7. Doubts'
  <2> SUFFICES ASSUME NEW r \in rows', r.ts \in accepted
               PROVE  r.ts \in doubtful
    BY <1>1 DEF Doubts
  <2>1. CASE r = new
    <3>1. ~Beyond(cur)
      BY <1>3, <2>1, BudgetIsNat DEF PayloadInv, Counting, Beyond
    <3> QED BY <1>4, <2>1, <3>1
  <2>2. CASE r # new
    BY <1>1, <1>2, <2>2 DEF PayloadInv, Doubts
  <2> QED BY <2>1, <2>2
<1>8. Accounted'
  <2> SUFFICES ASSUME NEW q \in 1 .. produced
               PROVE  \/ q \in accepted \cup refused \cup shed' \cup lost
                      \/ q \in {r.ts : r \in rows'}
    BY <1>1 DEF Accounted
  <2>1. q \in 1 .. MaxPayloads
    BY <1>3, BudgetIsNat
  <2>2. ASSUME NEW r \in all, q = r.ts
        PROVE  q \in shed' \/ q \in {t.ts : t \in rows'}
    BY <1>1, <2>1, <2>2 DEF Followed
  <2>3. q \in accepted \cup refused \cup shed \cup lost \/ \E r \in all : q = r.ts
    <3>1. CASE q = cur
      <4>1. new \in all /\ new.ts = cur
        OBVIOUS
      <4> HIDE DEF new, all
      <4> QED BY <3>1, <4>1
    <3>2. CASE q \in {r.ts : r \in rows}
      BY <3>2
    <3> QED BY <3>1, <3>2 DEF PayloadInv, Accounted
  <2> QED BY <1>1, <2>2, <2>3
<1>9. Counting' /\ Live' /\ Draining' /\ RedeliversOnlyInDoubt'
  BY <1>1 DEF PayloadInv, Counting, Live, Draining, RedeliversOnlyInDoubt
<1> QED BY <1>6, <1>7, <1>8, <1>9 DEF PayloadInv

\* drain peeks the oldest rows.
LEMMA PeekKeeps == PayloadInv /\ Peek => PayloadInv'
<1> SUFFICES ASSUME PayloadInv, Peek PROVE PayloadInv'
  OBVIOUS
<1> USE DEF auth, reclaim, outside, disk, backend, history, account
<1>1. /\ pc = "peek" /\ pc' = (IF batch' = {} THEN "idle" ELSE "drain")
      /\ batch' = Oldest(rows, Batch) /\ delivered' = {} /\ delivered = {}
      /\ UNCHANGED <<cur, rows, lastId, produced, account, left>>
  BY DEF Peek, PayloadInv, Draining
<1>2. KeepsNewest(rows \ batch', rows) /\ batch' \subseteq rows
  BY <1>1, OldestIsPrefix, DeliveryAssumption
  DEF PayloadInv, Stored, Oldest, DeliveryAssumption
<1>3. Draining'
  BY <1>1, <1>2 DEF Draining, KeepsNewest
<1>4. Counting' /\ Stored' /\ RedeliversOnlyInDoubt'
  BY <1>1 DEF PayloadInv, Counting, Stored, Beyond, RedeliversOnlyInDoubt
<1>5. Live' /\ Doubts' /\ Accounted'
  BY <1>1 DEF PayloadInv, Live, Doubts, Accounted
<1> QED BY <1>3, <1>4, <1>5 DEF PayloadInv

\* An ack deletes what the backend has answered, and nothing else.
LEMMA AckKeeps == PayloadInv /\ Ack => PayloadInv'
<1> SUFFICES ASSUME PayloadInv, Ack PROVE PayloadInv'
  OBVIOUS
<1> USE DEF auth, reclaim, backend, history, account
<1>1. /\ pc = "ack" /\ pc' \in {"peek", "idle"} /\ rows' = rows \ delivered
      /\ batch' = {} /\ delivered' = {}
      /\ UNCHANGED <<cur, lastId, produced, account, left>>
  BY DEF Ack
<1>2. Stored'
  BY <1>1, FS_Subset DEF PayloadInv, Stored, Keyed, Beyond
<1>3. Accounted'
  <2> SUFFICES ASSUME NEW q \in 1 .. produced
               PROVE  \/ q \in accepted \cup refused \cup shed \cup lost
                      \/ q \in {r.ts : r \in rows'}
    BY <1>1 DEF Accounted
  <2>1. q <= MaxPayloads
    BY CollectedIsFollowed, BudgetIsNat DEF PayloadInv, Counting
  <2>2. \/ q \in accepted \cup refused \cup shed \cup lost
        \/ \E r \in rows : q = r.ts
    BY <1>1 DEF PayloadInv, Accounted
  <2>3. ASSUME NEW r \in delivered, q = r.ts
        PROVE  q \in accepted \cup refused
    BY <2>1, <2>3 DEF PayloadInv, Draining
  <2> QED BY <1>1, <2>2, <2>3
<1>4. Counting' /\ Live' /\ RedeliversOnlyInDoubt'
  BY <1>1 DEF PayloadInv, Counting, Live, RedeliversOnlyInDoubt
<1>5. Draining' /\ Doubts'
  BY <1>1 DEF PayloadInv, Draining, Doubts
<1> QED BY <1>2, <1>3, <1>4, <1>5 DEF PayloadInv

\* A death costs the live payload, and puts in doubt what was not acked yet.
LEMMA DieKeeps ==
    ASSUME PayloadInv, Die, left' \in [Events -> Nat], left'["payload"] = left["payload"]
    PROVE  PayloadInv'
<1> USE DEF backend
<1>1. /\ pc' = "stopped" /\ cur' = 0 /\ batch' = {} /\ delivered' = {}
      /\ UNCHANGED <<rows, lastId, produced, accepted, refused, shed, again>>
      /\ doubtful' = doubtful \cup {r.ts : r \in {d \in delivered : d.ts \in accepted}}
      /\ lost \subseteq lost'
  BY DEF Die, Forget
<1>2. Stored' /\ Counting' /\ RedeliversOnlyInDoubt'
  BY <1>1 DEF PayloadInv, Stored, Beyond, Counting, RedeliversOnlyInDoubt
<1>3. Doubts'
  BY <1>1 DEF PayloadInv, Doubts
<1>4. Accounted'
  <2> SUFFICES ASSUME NEW q \in 1 .. produced
               PROVE  \/ q \in accepted \cup refused \cup shed \cup lost'
                      \/ q \in {r.ts : r \in rows}
    BY <1>1 DEF Accounted
  <2>1. q \in 1 .. MaxPayloads
    BY CollectedIsFollowed, BudgetIsNat DEF PayloadInv, Counting
  <2>2. q = cur /\ pc \in {"send", "park"} => q \in accepted \cup lost'
    BY <2>1 DEF Die, Followed
  <2> QED BY <1>1, <2>2 DEF PayloadInv, Accounted
<1>5. Live' /\ Draining'
  BY <1>1 DEF Live, Draining
<1> QED BY <1>2, <1>3, <1>4, <1>5 DEF PayloadInv

\* After the judgement of push_sink nothing is in its hands (cli.py 283-308).
LEMMA JudgeKeeps == PayloadInv /\ Judge => PayloadInv'
<1> SUFFICES ASSUME PayloadInv, Judge PROVE PayloadInv'
  OBVIOUS
<1> USE DEF drained, reclaim, outside, disk, backend, history, account
<1>1. /\ pc = "judge" /\ pc' \in {"wipe", "idle", "peek"}
      /\ UNCHANGED <<batch, delivered, rows, lastId, produced, account, left>>
  BY DEF Judge
<1>2. Stored' /\ Counting' /\ RedeliversOnlyInDoubt'
  BY <1>1 DEF PayloadInv, Stored, Beyond, Counting, RedeliversOnlyInDoubt
<1>3. Live' /\ Draining' /\ Doubts' /\ Accounted'
  BY <1>1 DEF PayloadInv, Live, Draining, Doubts, Accounted
<1> QED BY <1>2, <1>3 DEF PayloadInv

\* The token and the outside world have nothing to do with the payloads.
LEMMA RestKeeps ==
    ASSUME PayloadInv,
           \/ Start \/ Wipe \/ Reclaim \/ Store \/ CliReceives \/ CliWrites
           \/ NetworkDown \/ NetworkUp \/ Revoke \/ ReAdd \/ Approve \/ Reject
           \/ MinutePasses \/ UNCHANGED vars
    PROVE  PayloadInv'
<1>1. Counting
  BY DEF PayloadInv
<1>2. left' = left \/ \E e \in Accidents : Happens(e)
  BY DEF Start, Wipe, Reclaim, RequestFails, PostMatches, PostHandsToken, PollPending,
         PollHandsToken, Store, CliReceives, CliWrites, NetworkDown, NetworkUp, Revoke, ReAdd,
         Approve, Reject, MinutePasses, vars, Accidents
<1>3. left' \in [Events -> Nat] /\ left'["payload"] = left["payload"]
  BY <1>1, <1>2, AccidentsOnly DEF Counting
<1>4. UNCHANGED <<cur, batch, delivered, rows, lastId, produced, account>>
  BY DEF Start, Wipe, Reclaim, Request, RequestFails, PostMatches, PostHandsToken, PollPending,
         PollHandsToken, Store, CliReceives, CliWrites, NetworkDown, NetworkUp, Revoke, ReAdd,
         Approve, Reject, MinutePasses, vars, world, outside, daemon, disk, history, sending
<1>5. pc' = pc \/ {pc, pc'} \cap {"send", "park", "drain", "ack"} = {}
  BY DEF Start, Wipe, Reclaim, Request, RequestFails, PostMatches, PostHandsToken, PollPending,
         PollHandsToken, Store, CliReceives, CliWrites, NetworkDown, NetworkUp, Revoke, ReAdd,
         Approve, Reject, MinutePasses, vars, world, daemon
<1> QED BY <1>3, <1>4, <1>5, UntouchedKeeps DEF Untouched

LEMMA PayloadStep == PayloadInv /\ [Next]_vars => PayloadInv'
<1> SUFFICES ASSUME PayloadInv, [Next]_vars PROVE PayloadInv'
  OBVIOUS
<1>1. CASE Crash
  BY <1>1, DieKeeps, AccidentsOnly DEF Crash, Accidents, PayloadInv
<1>2. CASE Restart \/ WatchdogKill
  BY <1>2, DieKeeps DEF Restart, WatchdogKill, PayloadInv, Counting
<1>3. CASE Collect \/ Push \/ Judge \/ Park \/ Peek \/ Ack
  BY <1>3, CollectKeeps, PushKeeps, JudgeKeeps, ParkKeeps, PeekKeeps, AckKeeps
<1> QED BY <1>1, <1>2, <1>3, RestKeeps DEF Next, Daemon

\* The account of the payloads is an invariant.
THEOREM PayloadInvariant == Spec => []PayloadInv
  BY PayloadInit, PayloadStep, PTL DEF Spec

\* No payload vanishes (cli.py 268-308, client.py 110-184): for every number of
\* attempts, every batch and caps of any size, whatever the backend answers and
\* wherever the daemon dies.
THEOREM EveryPayloadAccounted == Spec => []Accounted
<1>1. PayloadInv => Accounted
  BY DEF PayloadInv
<1> QED BY <1>1, PayloadInvariant, PTL

\* What reaches the backend twice was in doubt (client.py 126-184).
THEOREM RedeliveredOnlyInDoubt == Spec => []RedeliversOnlyInDoubt
<1>1. PayloadInv => RedeliversOnlyInDoubt
  BY DEF PayloadInv
<1> QED BY <1>1, PayloadInvariant, PTL

\* A payload is accepted by push only.
LEMMA OnlyPushAccepts == Next => Push \/ accepted' = accepted
<1>1. ASSUME Collect \/ Judge \/ Park \/ Peek \/ Ack \/ Die
      PROVE  accepted' = accepted
  BY <1>1 DEF Collect, Judge, Park, Peek, Ack, Die, outside, history, account
<1>2. ASSUME Start \/ Wipe \/ Reclaim \/ Store \/ CliReceives \/ CliWrites
      PROVE  accepted' = accepted
  BY <1>2 DEF Start, Wipe, Reclaim, Request, RequestFails, PostMatches, PostHandsToken,
         PollPending, PollHandsToken, Store, CliReceives, CliWrites, history, account
<1>3. ASSUME \/ NetworkDown \/ NetworkUp \/ Revoke \/ ReAdd \/ Approve \/ Reject
             \/ MinutePasses
      PROVE  accepted' = accepted
  BY <1>3 DEF NetworkDown, NetworkUp, Revoke, ReAdd, Approve, Reject, MinutePasses,
         world, outside, history, account
<1> QED BY <1>1, <1>2, <1>3 DEF Next, Daemon, Crash, Restart, WatchdogKill

\* What drain gets accepted is the oldest of what it has not passed yet.
LEMMA DrainsInOrder ==
    PayloadInv /\ [Next]_vars =>
        [\A p \in accepted' \ accepted : pc = "drain" =>
            \A r \in rows : r.ts < p => r.ts \in accepted \cup refused]_vars
<1> SUFFICES ASSUME PayloadInv, Next, NEW p \in accepted' \ accepted, pc = "drain",
                    NEW r \in rows, r.ts < p
             PROVE  r.ts \in accepted \cup refused
  OBVIOUS
<1>1. p \in Followed({InHand})
  BY OnlyPushAccepts
  DEF Push, Accept, AcceptUnheard, RejectToken, RejectPayload, NotDelivered, Taken
<1>2. p = Front.ts /\ p \in 1 .. MaxPayloads
  BY <1>1 DEF Followed, InHand
<1>3. Front \in batch /\ Front \in rows /\ \A b \in batch : Front.id <= b.id
  BY FrontIsOldest DEF PayloadInv, Draining
<1>4. Front \in Row /\ r \in Row /\ ~Beyond(Front.ts) /\ ~Beyond(r.ts)
  BY <1>2, <1>3, BudgetIsNat DEF PayloadInv, Stored, Beyond, Row
<1>5. ~(Front.id < r.id) /\ Front.id # r.id
  BY <1>2, <1>3, <1>4 DEF PayloadInv, Stored, Keyed, Row
<1>6. r \notin batch /\ ~(\A b \in batch : b.id < r.id)
  BY <1>3, <1>4, <1>5 DEF Row
<1>7. r \in delivered
  BY <1>6 DEF PayloadInv, Draining
<1> QED BY <1>2, <1>4, <1>7, BudgetIsNat DEF PayloadInv, Draining, Row

\* The backlog goes out oldest first (client.py 168-184), over batches of any
\* size, failed drains and restarts.
THEOREM OldestFirstEver == Spec => OldestFirst
  BY PayloadInvariant, DrainsInOrder, PTL DEF Spec, OldestFirst

-----------------------------------------------------------------------------
\* The queue under the daemon

\* The queue as BoundedFifo sees it.  Delivery's stamps are the order of
\* collection: here the clock is never set back (DiskQueue is where it is).
Fifo == INSTANCE BoundedFifo
            WITH Cap <- MaxRows, held <- IdsOf(rows), arrived <- lastId, steady <- TRUE

\* A newest part of the rows has a newest part of the keys.
LEMMA NewestIds ==
    ASSUME NEW kept, NEW all, kept \subseteq all, KeepsNewest(kept, all)
    PROVE  IdsOf(kept) \subseteq IdsOf(all) /\ Fifo!IsNewest(IdsOf(kept), IdsOf(all))
BY DEF KeepsNewest, IdsOf, Fifo!IsNewest

\* A parked payload is the newest, and what the caps drop is the oldest.
LEMMA ParkParks == PayloadInv /\ Park => Fifo!Park
<1> SUFFICES ASSUME PayloadInv, Park PROVE Fifo!Park
  OBVIOUS
<1> DEFINE new  == [id |-> lastId + 1, ts |-> cur]
           all  == rows \cup {new}
           some == Unaged(all, produced - MaxAge)
<1>1. pc = "park" /\ lastId' = lastId + 1 /\ rows' = Capped(some, MaxRows)
  BY DEF Park
<1>2. /\ rows \subseteq Row /\ IsFiniteSet(rows) /\ Keyed(rows) /\ lastId \in Nat
      /\ \A r \in rows : r.id <= lastId
      /\ \A r, t \in rows : r.id < t.id => r.ts <= t.ts
  BY CollectedIsFollowed, BudgetIsNat DEF PayloadInv, Counting, Stored, Beyond, Row
<1>3. cur \in Nat /\ \A r \in rows : r.ts <= cur
  BY <1>1, CollectedIsFollowed, BudgetIsNat
  DEF PayloadInv, Counting, Stored, Live, Beyond, Row
<1>4. produced - MaxAge \in Int /\ MaxRows \in Nat
  BY DeliveryAssumption DEF DeliveryAssumption, PayloadInv, Counting
<1>5. new \in Row /\ new.id = lastId + 1 /\ new.ts = cur
  BY <1>2, <1>3 DEF Row
<1>6. IsFiniteSet(all) /\ all \subseteq Row
  <2> HIDE DEF new
  <2> QED BY <1>2, <1>5, FS_AddElement
<1>7. Keyed(all) /\ \A r, t \in all : r.id < t.id => r.ts <= t.ts
  <2> HIDE DEF new
  <2> QED BY <1>2, <1>3, <1>5 DEF Keyed, Row
<1>8. IdsOf(all) = IdsOf(rows) \cup {lastId + 1}
  <2> HIDE DEF new
  <2> QED BY <1>5 DEF IdsOf
<1> HIDE DEF all
<1>9. some \subseteq all /\ IsFiniteSet(some) /\ KeepsNewest(some, all)
  BY <1>4, <1>6, <1>7, UnagedKeepsNewest, FS_Subset DEF Unaged
<1> HIDE DEF some
<1>10. /\ rows' \subseteq some /\ IsFiniteSet(rows') /\ Cardinality(rows') <= MaxRows
       /\ KeepsNewest(rows', some)
  BY <1>1, <1>4, <1>6, <1>9, CappedIsBounded, CappedKeepsNewest
<1>11. KeepsNewest(rows', all) /\ rows' \subseteq all
  BY <1>6, <1>9, <1>10, KeepsNewestTransitive
<1>12. /\ IdsOf(rows') \subseteq IdsOf(rows) \cup {lastId + 1}
       /\ Fifo!IsNewest(IdsOf(rows'), IdsOf(rows) \cup {lastId + 1})
  BY <1>8, <1>11, NewestIds
<1>13. Cardinality(IdsOf(rows')) <= MaxRows
  <2>1. IsFiniteSet(IdsOf(rows')) /\ Cardinality(IdsOf(rows')) <= Cardinality(rows')
    BY <1>10, FewIds
  <2>2. Cardinality(rows') \in Nat /\ Cardinality(IdsOf(rows')) \in Nat
    BY <1>10, <2>1, FS_CardinalityType
  <2> QED BY <1>4, <1>10, <2>1, <2>2
<1>14. Fifo!Cardinality(IdsOf(rows')) = Cardinality(IdsOf(rows'))
  BY DEF Fifo!Cardinality, Cardinality
<1>15. IdsOf(rows)' = IdsOf(rows')
  BY DEF IdsOf
<1> QED BY <1>1, <1>12, <1>13, <1>14, <1>15, Zenon DEF Fifo!Park

\* drain has pushed the oldest rows: what it has not pushed yet is newer.
PushedFirst == KeepsNewest(rows \ delivered, rows)

\* A push in a drain passes the oldest row that is left.
LEMMA ReturnsInOrder ==
    ASSUME PayloadInv, PushedFirst, pc \in {"send", "drain"}, Returns, rows' = rows
    PROVE  PushedFirst'
<1>1. CASE pc = "send"
  BY <1>1 DEF Returns, PushedFirst, KeepsNewest
<1>2. CASE pc = "drain"
  <2>1. delivered' = delivered \cup {Front}
    BY <1>2 DEF Returns
  <2>2. Front \in rows /\ \A b \in batch : Front.id <= b.id
    BY <1>2, FrontIsOldest DEF PayloadInv, Draining
  <2>3. ASSUME NEW r \in rows \ delivered, r # Front
        PROVE  Front.id < r.id
    <3>1. Front.id # r.id /\ r.id \in Nat /\ Front.id \in Nat
      BY <2>2, <2>3 DEF PayloadInv, Stored, Keyed, Row
    <3>2. r \in batch \/ Front.id < r.id
      BY <1>2, <2>3, FrontIsOldest DEF PayloadInv, Draining
    <3> QED BY <2>2, <3>1, <3>2
  <2> QED BY <2>1, <2>3 DEF PushedFirst, KeepsNewest
<1> QED BY <1>1, <1>2

\* Nothing but a push, a peek, an ack and a death touches what drain has pushed,
\* and nothing but a park and an ack touches the queue.
LEMMA OthersKeepRows ==
    ASSUME [Next]_vars, ~Park, ~Ack
    PROVE  /\ UNCHANGED <<rows, lastId>>
           /\ Push \/ delivered' = delivered \/ delivered' = {}
<1>1. ASSUME Collect \/ Push \/ Judge \/ Peek \/ Die
      PROVE  /\ UNCHANGED <<rows, lastId>>
             /\ Push \/ delivered' = delivered \/ delivered' = {}
  BY <1>1 DEF Collect, Push, Accept, AcceptUnheard, RejectToken, RejectPayload, NotDelivered,
         Judge, Peek, Die, Forget, drained, outside, disk
<1>2. ASSUME Start \/ Wipe \/ Reclaim \/ Store \/ CliReceives \/ CliWrites
      PROVE  UNCHANGED <<rows, lastId, delivered>>
  BY <1>2 DEF Start, Wipe, Reclaim, Request, RequestFails, PostMatches, PostHandsToken,
         PollPending, PollHandsToken, Store, CliReceives, CliWrites, disk, daemon, sending
<1>3. ASSUME \/ NetworkDown \/ NetworkUp \/ Revoke \/ ReAdd \/ Approve \/ Reject
             \/ MinutePasses \/ UNCHANGED vars
      PROVE  UNCHANGED <<rows, lastId, delivered>>
  BY <1>3 DEF NetworkDown, NetworkUp, Revoke, ReAdd, Approve, Reject, MinutePasses,
         vars, world, outside, disk, daemon, sending
<1> QED BY <1>1, <1>2, <1>3 DEF Next, Daemon, Crash, Restart, WatchdogKill

LEMMA PushedFirstStep == PayloadInv /\ PushedFirst /\ [Next]_vars => PushedFirst'
<1> SUFFICES ASSUME PayloadInv, PushedFirst, [Next]_vars PROVE PushedFirst'
  OBVIOUS
<1>1. CASE Park \/ Ack
  <2>1. delivered' = {}
    BY <1>1 DEF Park, Ack, drained, PayloadInv, Draining
  <2> QED BY <2>1 DEF PushedFirst, KeepsNewest
<1>2. CASE Push
  <2>1. pc \in {"send", "drain"} /\ (Returns \/ delivered' = delivered)
    BY <1>2 DEF Push, Accept, AcceptUnheard, RejectToken, RejectPayload, NotDelivered,
           Exchange, Fails
  <2>2. rows' = rows
    BY <1>2 DEF Push, Accept, AcceptUnheard, RejectToken, RejectPayload, NotDelivered, disk
  <2> QED BY <2>1, <2>2, ReturnsInOrder DEF PushedFirst
<1>3. CASE ~Park /\ ~Ack /\ ~Push
  BY <1>3, OthersKeepRows DEF PushedFirst, KeepsNewest
<1> QED BY <1>1, <1>2, <1>3

\* What drain acks is a prefix of the queue, however short its batch was cut.
LEMMA AckSettles == PushedFirst /\ Ack => Fifo!Settle
<1> SUFFICES ASSUME PushedFirst, Ack PROVE Fifo!Settle
  OBVIOUS
<1>1. rows' = rows \ delivered /\ lastId' = lastId
  BY DEF Ack
<1>2. KeepsNewest(rows', rows) /\ rows' \subseteq rows
  BY <1>1 DEF PushedFirst
<1>3. IdsOf(rows') \subseteq IdsOf(rows) /\ Fifo!IsNewest(IdsOf(rows'), IdsOf(rows))
  BY <1>2, NewestIds
<1>4. IdsOf(rows)' = IdsOf(rows')
  BY DEF IdsOf
<1> QED BY <1>1, <1>3, <1>4, Zenon DEF Fifo!Settle

\* Under the daemon the queue keeps the promise of BoundedFifo (queue.py 3-6)
\* as it does alone: at most max_rows payloads wait, whatever leaves - trimmed
\* when one is parked, or acked by a drain that was cut short - is older than
\* what stays, and a death at any point takes no row (client.py 167-187).
THEOREM DeliveryKeepsPromise == Spec => Fifo!Spec
<1>1. Init => Fifo!Init
  BY DEF Init, Fifo!Init, IdsOf
<1>2. Init => PushedFirst
  BY DEF Init, PushedFirst, KeepsNewest
<1>3. PayloadInv /\ PushedFirst /\ [Next]_vars => [Fifo!Next]_(Fifo!vars)
  <2> SUFFICES ASSUME PayloadInv, PushedFirst, [Next]_vars PROVE [Fifo!Next]_(Fifo!vars)
    OBVIOUS
  <2>1. CASE Park
    BY <2>1, ParkParks DEF Fifo!Next
  <2>2. CASE Ack
    BY <2>2, AckSettles DEF Fifo!Next
  <2>3. CASE ~Park /\ ~Ack
    <3>1. UNCHANGED <<rows, lastId>>
      BY <2>3, OthersKeepRows
    <3> QED BY <3>1 DEF Fifo!vars, IdsOf
  <2> QED BY <2>1, <2>2, <2>3
<1> QED BY <1>1, <1>2, <1>3, PayloadInvariant, PushedFirstStep, PTL DEF Spec, Fifo!Spec

-----------------------------------------------------------------------------
\* The token

\* The hypotheses: nobody enrolls beside the daemon and no option overrides the
\* file; the backend answers 4xx to a bad token only.
FileIsItsOwn       == InlineToken = 0 /\ \A budget \in Budgets : budget["enroll"] = 0
OnlyAuthRejections == \A budget \in Budgets : budget["badReply"] = 0

\* Tokens are numbered as they are issued.
Issued ==
    /\ issued \in Nat /\ valid \subseteq 1 .. issued
    /\ token \in 0 .. issued /\ tokenFile \in 0 .. issued /\ fresh \in 0 .. issued
    /\ cli \in 0 .. issued

\* The re-claim flow is what stands between a wipe and a new token.
Flow ==
    /\ pc \in {"send", "judge", "park", "peek", "drain", "ack", "wipe"} => flow = "off"
    /\ pc \in {"request", "store"} => flow # "off"

\* Nobody else writes the file.
Alone == left \in [Events -> Nat] /\ left["enroll"] = 0 /\ cli = 0

\* What a daemon that pushes holds is what the file holds.
FileInv == Issued /\ Flow /\ Alone /\ RestartKeepsToken

\* A token that was rejected is dead, and what a wipe could not remove is, too.
Dead ==
    /\ pc \notin {"stopped", "log_only"} /\ flow = "off" /\ rejections # 0 => token \notin valid
    /\ flow # "off" => tokenFile \notin valid

\* authFails is never ahead of the rejections.
Judged ==
    /\ left \in [Events -> Nat] /\ left["badReply"] = 0
    /\ authFails \in Nat /\ rejections \in 0 .. AuthLimit
    /\ pc = "judge" \/ authFails <= rejections
    /\ pc = "judge" /\ authStatus => authFails < rejections
    /\ pc \in {"stopped", "peek", "drain", "ack"} => authFails = 0
    /\ flow = "off" /\ pc # "wipe" => authFails < AuthLimit
    /\ WipeNeedsRejections

-----------------------------------------------------------------------------
\* The steps, by what they do to the token

\* The steps that leave the token, the file, the flow and the claims alone.
LEMMA QuietSteps ==
    ASSUME Collect \/ Push \/ Judge \/ Park \/ Peek \/ Ack \/ NetworkDown \/ NetworkUp
           \/ MinutePasses \/ UNCHANGED vars
    PROVE  /\ UNCHANGED <<token, tokenFile, flow, fresh, valid, issued, claim, cli>>
           /\ pc' \in {"stopped", "log_only", "request", "store"} =>
                  pc' = pc \/ (pc' = "request" /\ flow # "off")
<1> USE DEF unsent, disk, backend, drained, auth, reclaim, outside, history, account, sending,
            daemon, world, vars
<1>1. CASE Push
  BY <1>1 DEF Push, Accept, AcceptUnheard, RejectToken, RejectPayload, NotDelivered, Exchange,
              Returns, Fails
<1>2. CASE Collect \/ Judge \/ Park \/ Peek \/ Ack
  BY <1>2 DEF Collect, Judge, Park, Peek, Ack
<1>3. CASE NetworkDown \/ NetworkUp \/ MinutePasses \/ UNCHANGED vars
  BY <1>3 DEF NetworkDown, NetworkUp, MinutePasses
<1> QED BY <1>1, <1>2, <1>3

\* The ways in which the daemon ends.
LEMMA Deaths ==
    ASSUME Crash \/ Restart \/ WatchdogKill
    PROVE  /\ Die /\ pc' = "stopped" /\ token' = 0 /\ flow' = "off" /\ fresh' = 0
           /\ authFails' = 0 /\ rejections' = 0
           /\ UNCHANGED <<valid, issued, claim, cli>>
           /\ IF pc = "store" THEN tokenFile' \in {tokenFile, 0, fresh}
              ELSE tokenFile' = tokenFile
  BY DEF Crash, Restart, WatchdogKill, Die, Forget, backend

\* What the budget allows only becomes less.
LEMMA BudgetShrinks ==
    ASSUME left \in [Events -> Nat], [Next]_vars, NEW e \in Events
    PROVE  left' \in [Events -> Nat] /\ left'[e] <= left[e]
<1>1. ASSUME NEW f \in Events, Happens(f)
      PROVE  left' \in [Events -> Nat] /\ left'[e] <= left[e]
  BY <1>1 DEF Happens
<1>2. left' = left \/ \E f \in Events : Happens(f)
  <2> USE DEF Events, Accidents
  <2>1. CASE Push
    BY <2>1 DEF Push, Accept, AcceptUnheard, RejectToken, RejectPayload, NotDelivered
  <2>2. CASE Collect \/ Judge \/ Park \/ Peek \/ Ack \/ Wipe \/ Store
    BY <2>2 DEF Collect, Judge, Park, Peek, Ack, Wipe, Store
  <2>3. CASE Start \/ Crash \/ Restart \/ WatchdogKill
    BY <2>3 DEF Start, Crash, Restart, WatchdogKill
  <2>4. CASE Reclaim
    BY <2>4 DEF Reclaim, RequestFails, PostMatches, PostHandsToken, PollPending, PollHandsToken
  <2>5. CASE CliReceives \/ CliWrites \/ NetworkDown \/ NetworkUp \/ Revoke \/ ReAdd \/ Approve
             \/ Reject \/ MinutePasses \/ UNCHANGED vars
    BY <2>5 DEF CliReceives, CliWrites, NetworkDown, NetworkUp, Revoke, ReAdd, Approve, Reject,
                MinutePasses, vars
  <2> QED BY <2>1, <2>2, <2>3, <2>4, <2>5 DEF Next, Daemon
<1> QED BY <1>1, <1>2

\* A request of the re-claim flow: at most a new token, and never off.
LEMMA Requests ==
    ASSUME Reclaim, flow # "off", Issued
    PROVE  /\ UNCHANGED <<token, tokenFile, cli, authStatus, authFails, rejections>>
           /\ pc = "request" /\ flow' # "off" /\ pc' \in {"idle", "store"}
           /\ \/ UNCHANGED <<valid, issued>>
              \/ issued' = issued + 1 /\ valid' = valid \cup {issued + 1}
           /\ fresh' \in {fresh, issued'}
  BY DEF Reclaim, Request, RequestFails, PostMatches, PostHandsToken, PollPending,
         PollHandsToken, Issue, auth, disk, history, Issued

\* The wipe and the hand-off.
LEMMA WipeAndStore ==
    ASSUME Wipe \/ Store
    PROVE  /\ UNCHANGED <<valid, issued, claim, cli>> /\ pc' = "idle"
           /\ Wipe => /\ pc = "wipe" /\ tokenFile' \in {tokenFile, 0} /\ token' = 0
                      /\ flow' = "post" /\ UNCHANGED <<fresh, authStatus, authFails, rejections>>
           /\ Store => /\ pc = "store" /\ tokenFile' = fresh /\ token' = fresh /\ fresh' = 0
                       /\ flow' = "off" /\ authFails' = 0 /\ rejections' = 0
                       /\ UNCHANGED authStatus
  BY DEF Wipe, Store, backend, auth, history

\* The backend and its operator.
LEMMA Outside ==
    ASSUME Revoke \/ ReAdd \/ Approve \/ Reject
    PROVE  /\ UNCHANGED <<pc, token, tokenFile, flow, fresh, issued, cli, authStatus, authFails,
                          rejections>>
           /\ valid' \in {valid, {}}
  BY DEF Revoke, ReAdd, Approve, Reject, world, daemon, auth, reclaim, disk, history

-----------------------------------------------------------------------------
\* What the file holds

LEMMA FileInitInv == FileIsItsOwn /\ Init => FileInv /\ Dead
<1> SUFFICES ASSUME FileIsItsOwn, Init PROVE FileInv /\ Dead
  OBVIOUS
<1>1. left \in [Events -> Nat] /\ left["enroll"] = 0
  BY DeliveryAssumption DEF Init, DeliveryAssumption, FileIsItsOwn
<1> QED BY <1>1 DEF Init, FileInv, Dead, Issued, Flow, Alone, RestartKeepsToken

\* Every step keeps the token of the daemon and that of the file the same, and
\* a dead token dead (cli.py 271-299, reclaim.py 117-126).
LEMMA FileStep ==
    ASSUME FileIsItsOwn, FileInv, [Next]_vars
    PROVE  FileInv' /\ (Dead => Dead' \/ (pc = "wipe" /\ rejections = 0))
<1>1. Alone' /\ ~CliReceives /\ ~CliWrites
  <2>1. left' \in [Events -> Nat] /\ left'["enroll"] <= left["enroll"] /\ left'["enroll"] \in Nat
    BY BudgetShrinks DEF FileInv, Alone, Events, Accidents
  <2>2. ~CliReceives /\ ~CliWrites
    BY DEF CliReceives, CliWrites, Happens, FileInv, Alone
  <2>3. cli' = cli
    <3>1. Start => cli' = cli
      BY DEF Start, backend
    <3> QED BY <2>2, <3>1, QuietSteps, Deaths, Requests, WipeAndStore, Outside
            DEF Next, Daemon, FileInv, Flow, Reclaim, Request, RequestFails, PostMatches,
                PostHandsToken, PollPending, PollHandsToken
  <2> QED BY <2>1, <2>2, <2>3 DEF FileInv, Alone
<1> USE DEF FileInv, Issued, Flow, RestartKeepsToken, StartToken, Dead, FileIsItsOwn
<1>2. CASE Crash \/ Restart \/ WatchdogKill
  <2>1. /\ pc' = "stopped" /\ token' = 0 /\ flow' = "off" /\ fresh' = 0
        /\ UNCHANGED <<valid, issued, cli>> /\ tokenFile' \in {tokenFile, 0, fresh}
    BY <1>2, Deaths
  <2>2. Issued'
    BY <2>1
  <2>3. Flow' /\ RestartKeepsToken' /\ (Dead => Dead')
    BY <2>1
  <2> QED BY <1>1, <2>2, <2>3
<1>3. CASE Start
  BY <1>1, <1>3 DEF Start, reclaim, disk, backend
<1>4. CASE Reclaim
  <2>1. flow # "off"
    BY <1>4 DEF Reclaim, Request, RequestFails, PostMatches, PostHandsToken, PollPending,
                PollHandsToken
  <2>2. /\ UNCHANGED <<token, tokenFile, cli>>
        /\ pc = "request" /\ flow' # "off" /\ pc' \in {"idle", "store"}
        /\ \/ UNCHANGED <<valid, issued>>
           \/ issued' = issued + 1 /\ valid' = valid \cup {issued + 1}
        /\ fresh' \in {fresh, issued'}
    BY <1>4, <2>1, Requests
  <2>3. Issued'
    <3>1. issued \in Nat /\ valid \subseteq 1 .. issued
      OBVIOUS
    <3>2. CASE UNCHANGED <<valid, issued>>
      BY <2>2, <3>1, <3>2
    <3>3. CASE issued' = issued + 1 /\ valid' = valid \cup {issued + 1}
      <4>1. issued' \in Nat /\ valid' \subseteq 1 .. issued'
        BY <3>1, <3>3
      <4>2. token' \in 0 .. issued' /\ tokenFile' \in 0 .. issued' /\ cli' \in 0 .. issued'
        BY <2>2, <3>1, <3>3
      <4>3. fresh' \in 0 .. issued'
        BY <2>2, <3>1, <3>3
      <4> QED BY <4>1, <4>2, <4>3
    <3> QED BY <2>2, <3>2, <3>3
  <2>4. Flow' /\ RestartKeepsToken' /\ (Dead => Dead')
    BY <2>1, <2>2
  <2> QED BY <1>1, <2>3, <2>4
<1>5. CASE Wipe \/ Store
  <2>1. UNCHANGED <<valid, issued, cli>> /\ pc' = "idle"
    BY <1>5, WipeAndStore
  <2>2. CASE Wipe
    <3>1. /\ pc = "wipe" /\ tokenFile' \in {tokenFile, 0} /\ token' = 0 /\ flow' = "post"
          /\ fresh' = fresh
      BY <2>2, WipeAndStore
    <3>2. Issued' /\ Flow' /\ RestartKeepsToken'
      BY <2>1, <3>1
    <3>3. Dead /\ rejections # 0 => Dead'
      BY <2>1, <3>1
    <3> QED BY <1>1, <3>1, <3>2, <3>3
  <2>3. CASE Store
    <3>1. /\ pc = "store" /\ tokenFile' = fresh /\ token' = fresh /\ fresh' = 0
          /\ flow' = "off" /\ rejections' = 0
      BY <2>3, WipeAndStore
    <3> QED BY <1>1, <2>1, <3>1
  <2> QED BY <1>5, <2>2, <2>3
<1>6. CASE Revoke \/ ReAdd \/ Approve \/ Reject
  BY <1>1, <1>6, Outside
<1>7. CASE Collect \/ Judge \/ Park \/ Peek \/ Ack \/ NetworkDown \/ NetworkUp
           \/ MinutePasses \/ UNCHANGED vars
  <2>1. rejections' = rejections
    BY <1>7 DEF Collect, Judge, Park, Peek, Ack, NetworkDown, NetworkUp, MinutePasses, vars,
                world, outside, history
  <2>2. pc' \in {"send", "judge", "park", "peek", "drain", "ack", "wipe"} => flow = "off"
    BY <1>7 DEF Collect, Judge, Park, Peek, Ack, NetworkDown, NetworkUp, MinutePasses, vars,
                world, daemon
  <2>3. /\ UNCHANGED <<token, tokenFile, flow, fresh, valid, issued, cli>>
        /\ pc' \in {"stopped", "log_only", "request", "store"} =>
               pc' = pc \/ (pc' = "request" /\ flow # "off")
    BY <1>7, QuietSteps
  <2>4. pc \in {"stopped", "log_only"} => pc' = pc
    BY <1>7 DEF Collect, Judge, Park, Peek, Ack, NetworkDown, NetworkUp, MinutePasses, vars,
                world, daemon
  <2> QED BY <1>1, <2>1, <2>2, <2>3, <2>4
<1>8. CASE Push
  <2>1. /\ pc \in {"send", "drain"} /\ pc' \in {"send", "judge", "park", "idle", "drain", "ack"}
        /\ rejections' # rejections /\ rejections' # 0 => token \notin valid
    BY <1>8 DEF Push, Accept, AcceptUnheard, RejectToken, RejectPayload, NotDelivered, Exchange,
                Returns, Fails
  <2> QED BY <1>1, <1>8, <2>1, QuietSteps
<1> QED BY <1>1, <1>2, <1>3, <1>4, <1>5, <1>6, <1>7, <1>8 DEF Next, Daemon

\* What the daemon pushes with is what a restart finds (cli.py 271-299,
\* client.py 83, reclaim.py 123-126), wherever it dies and whether or not the
\* file can be removed.
THEOREM RestartKeepsTokenEver == FileIsItsOwn /\ Spec => []RestartKeepsToken
<1>1. FileIsItsOwn /\ Init => FileInv
  BY FileInitInv
<1>2. FileIsItsOwn /\ FileInv /\ [Next]_vars => FileInv'
  BY FileStep
<1>3. FileInv => RestartKeepsToken
  BY DEF FileInv
<1>4. FileIsItsOwn => []FileIsItsOwn
  <2>. SUFFICES ASSUME FileIsItsOwn PROVE []FileIsItsOwn
    OBVIOUS
  <2> QED BY PTL
<1> QED BY <1>1, <1>2, <1>3, <1>4, PTL DEF Spec

-----------------------------------------------------------------------------
\* What a wipe takes

LEMMA FlowStep == Flow /\ [Next]_vars => Flow'
<1> SUFFICES ASSUME Flow, [Next]_vars PROVE Flow'
  OBVIOUS
<1> USE DEF Flow
<1>1. CASE Crash \/ Restart \/ WatchdogKill
  BY <1>1, Deaths
<1>2. CASE Start
  BY <1>2 DEF Start, reclaim
<1>3. CASE Reclaim
  BY <1>3 DEF Reclaim, Request, RequestFails, PostMatches, PostHandsToken, PollPending,
              PollHandsToken
<1>4. CASE Wipe \/ Store
  BY <1>4, WipeAndStore
<1>5. CASE Revoke \/ ReAdd \/ Approve \/ Reject
  BY <1>5, Outside
<1>6. CASE Collect \/ Judge \/ Park \/ Peek \/ Ack
  BY <1>6 DEF Collect, Judge, Park, Peek, Ack, reclaim
<1>7. CASE Push
  BY <1>7 DEF Push, Accept, AcceptUnheard, RejectToken, RejectPayload, NotDelivered, Exchange,
              Returns, Fails, unsent
<1>8. CASE CliReceives \/ CliWrites \/ NetworkDown \/ NetworkUp \/ MinutePasses \/ UNCHANGED vars
  BY <1>8 DEF CliReceives, CliWrites, NetworkDown, NetworkUp, MinutePasses, world, daemon,
              reclaim, vars
<1> QED BY <1>1, <1>2, <1>3, <1>4, <1>5, <1>6, <1>7, <1>8 DEF Next, Daemon

LEMMA JudgedInit == OnlyAuthRejections /\ Init => Flow /\ Judged
<1> SUFFICES ASSUME OnlyAuthRejections, Init PROVE Flow /\ Judged
  OBVIOUS
<1>1. left \in [Events -> Nat] /\ left["badReply"] = 0
  BY DeliveryAssumption DEF Init, DeliveryAssumption, OnlyAuthRejections
<1> QED BY <1>1, DeliveryAssumption
        DEF Init, Flow, Judged, WipeNeedsRejections, DeliveryAssumption

\* What push_sink counts has happened to the token it holds (cli.py 277-308).
LEMMA JudgedStep == Flow /\ Judged /\ [Next]_vars => Judged'
<1> SUFFICES ASSUME Flow, Judged, [Next]_vars PROVE Judged'
  OBVIOUS
<1>1. left' \in [Events -> Nat] /\ left'["badReply"] = 0 /\ ~RejectPayload
  <2>1. left' \in [Events -> Nat] /\ left'["badReply"] <= left["badReply"]
        /\ left'["badReply"] \in Nat
    BY BudgetShrinks DEF Judged, Events, Accidents
  <2> QED BY <2>1 DEF Judged, RejectPayload, Happens
<1>2. AuthLimit \in Nat /\ AuthLimit > 0
  BY DeliveryAssumption DEF DeliveryAssumption
<1> USE DEF Flow, Judged, WipeNeedsRejections
<1>3. CASE Crash \/ Restart \/ WatchdogKill
  BY <1>1, <1>2, <1>3, Deaths
<1>4. CASE Start
  BY <1>1, <1>2, <1>4 DEF Start, auth, reclaim
<1>5. CASE Reclaim
  <2>1. /\ UNCHANGED <<authStatus, authFails, rejections>> /\ pc' \in {"idle", "store"}
        /\ pc = "request"
    BY <1>5 DEF Reclaim, Request, RequestFails, PostMatches, PostHandsToken, PollPending,
                PollHandsToken, auth, history
  <2>2. flow # "off" /\ flow' # "off"
    BY <1>5 DEF Reclaim, Request, RequestFails, PostMatches, PostHandsToken, PollPending,
                PollHandsToken
  <2> QED BY <1>1, <1>2, <2>1, <2>2
<1>6. CASE Wipe \/ Store
  BY <1>1, <1>2, <1>6, WipeAndStore
<1>7. CASE Revoke \/ ReAdd \/ Approve \/ Reject
  BY <1>1, <1>2, <1>7, Outside
<1>8. CASE Judge
  BY <1>1, <1>2, <1>8 DEF Judge, reclaim, outside, history
<1>9. CASE Collect \/ Park \/ Peek \/ Ack
  BY <1>1, <1>2, <1>9 DEF Collect, Park, Peek, Ack, reclaim, auth, outside, history
<1>10. CASE Push
  <2>1. /\ \/ pc = "send" /\ pc' \in {"send", "judge", "park", "idle"}
           \/ pc = "drain" /\ pc' \in {"drain", "ack"}
        /\ UNCHANGED <<authFails, flow>>
    BY <1>10 DEF Push, Accept, AcceptUnheard, RejectToken, RejectPayload, NotDelivered,
                 Exchange, Returns, Fails, unsent
  <2>2. pc' = "judge" => Accept \/ RejectToken
    BY <1>1, <1>10, <2>1 DEF Push, AcceptUnheard, NotDelivered, Fails
  <2>3. \/ rejections' = rejections /\ ~(Accept \/ RejectToken)
        \/ Accept /\ rejections' = 0 /\ ~authStatus' /\ pc' \in {"judge", "drain", "ack"}
        \/ RejectToken /\ pc' \in {"judge", "drain", "ack"}
           /\ rejections' = IF rejections < AuthLimit THEN rejections + 1 ELSE AuthLimit
    BY <1>1, <1>10
    DEF Push, Accept, AcceptUnheard, RejectToken, NotDelivered, Exchange, Returns, Fails
  <2> QED BY <1>1, <1>2, <2>1, <2>2, <2>3
<1>11. CASE CliReceives \/ CliWrites \/ NetworkDown \/ NetworkUp \/ MinutePasses \/ UNCHANGED vars
  BY <1>1, <1>2, <1>11 DEF CliReceives, CliWrites, NetworkDown, NetworkUp, MinutePasses,
                           world, daemon, auth, reclaim, outside, history, vars
<1> QED BY <1>1, <1>3, <1>4, <1>5, <1>6, <1>7, <1>8, <1>9, <1>10, <1>11
        DEF Next, Daemon

\* A token is given up after AuthLimit auth rejections of it in a row (cli.py
\* 19-20, 277-299), whatever happens in between - if the backend answers with
\* no other 4xx, which the code does not tell from a success.
THEOREM WipeNeedsRejectionsEver == OnlyAuthRejections /\ Spec => []WipeNeedsRejections
<1>1. Judged => WipeNeedsRejections
  BY DEF Judged
<1> QED BY <1>1, JudgedInit, JudgedStep, FlowStep, PTL DEF Spec

\* What a step does to the file.
LEMMA KeptByStep ==
    ASSUME FileIsItsOwn, FileInv, Dead, Judged, [Next]_vars
    PROVE  tokenFile' = tokenFile \/ (tokenFile \in valid => tokenFile' \in valid')
<1>1. ~CliWrites
  BY DEF CliWrites, FileInv, Alone
<1> USE DEF FileInv, Flow, RestartKeepsToken, StartToken, FileIsItsOwn, Dead
<1>2. CASE Crash \/ Restart \/ WatchdogKill
  BY <1>2, Deaths
<1>3. CASE Start \/ CliReceives
  BY <1>3 DEF Start, CliReceives, disk
<1>4. CASE Reclaim
  BY <1>4 DEF Reclaim, Request, RequestFails, PostMatches, PostHandsToken, PollPending,
              PollHandsToken, disk
<1>5. CASE Wipe
  <2>1. pc = "wipe" /\ flow = "off" /\ rejections # 0
    BY <1>5, WipeAndStore, DeliveryAssumption
    DEF Judged, WipeNeedsRejections, DeliveryAssumption
  <2> QED BY <2>1
<1>6. CASE Store
  BY <1>6, WipeAndStore
<1>7. CASE Revoke \/ ReAdd \/ Approve \/ Reject
  BY <1>7, Outside
<1>8. CASE Collect \/ Push \/ Judge \/ Park \/ Peek \/ Ack \/ NetworkDown \/ NetworkUp
           \/ MinutePasses \/ UNCHANGED vars
  BY <1>8, QuietSteps
<1> QED BY <1>1, <1>2, <1>3, <1>4, <1>5, <1>6, <1>7, <1>8 DEF Next, Daemon

\* A token the backend accepts is never taken off the disk (cli.py 290-299), if
\* nobody enrolls beside the daemon and the backend answers 4xx to a dead token
\* only.
THEOREM ValidTokenAlwaysKept == FileIsItsOwn /\ OnlyAuthRejections /\ Spec => ValidTokenKept
<1>1. FileIsItsOwn /\ OnlyAuthRejections /\ Init => FileInv /\ Dead /\ Judged
  BY FileInitInv, JudgedInit
<1>2. FileIsItsOwn /\ FileInv /\ Dead /\ Judged /\ [Next]_vars => (FileInv /\ Dead /\ Judged)'
  <2> SUFFICES ASSUME FileIsItsOwn, FileInv, Dead, Judged, [Next]_vars
               PROVE  (FileInv /\ Dead /\ Judged)'
    OBVIOUS
  <2>1. Judged'
    BY JudgedStep DEF FileInv
  <2>2. ~(pc = "wipe" /\ rejections = 0)
    BY DeliveryAssumption DEF Judged, WipeNeedsRejections, DeliveryAssumption
  <2> QED BY <2>1, <2>2, FileStep
<1>3. FileIsItsOwn /\ FileInv /\ Dead /\ Judged /\ [Next]_vars =>
          [(tokenFile \in valid) => (tokenFile' \in valid')]_tokenFile
  BY KeptByStep
<1>4. FileIsItsOwn => []FileIsItsOwn
  <2>. SUFFICES ASSUME FileIsItsOwn PROVE []FileIsItsOwn
    OBVIOUS
  <2> QED BY PTL
<1> QED BY <1>1, <1>2, <1>3, <1>4, PTL DEF Spec, ValidTokenKept

-----------------------------------------------------------------------------
\* Types

\* Where the daemon can be.
Modes ==
    /\ pc \in Places /\ flow \in {"off", "post", "poll"}
    /\ authStatus \in BOOLEAN /\ throttled \in BOOLEAN /\ buffered \in BOOLEAN

\* The counters stay within their limits.
Counters ==
    /\ cur \in 0 .. MaxPayloads + 1 /\ attempt \in 1 .. Attempts /\ spent \in 0 .. Watchdog
    /\ authFails \in 0 .. AuthLimit /\ rejections \in 0 .. AuthLimit
    /\ flow = "off" /\ pc # "wipe" => authFails < AuthLimit

\* A claim that may still be approved has a token reserved.
Handed ==
    /\ token \in Tokens /\ tokenFile \in Tokens /\ fresh \in Tokens /\ cli \in Tokens
    /\ valid \subseteq Tokens \ {0} /\ issued \in Tokens
    /\ claim \in {"none", "open", "matched", "approved"} /\ up \in BOOLEAN
    /\ claim # "none" => issued < MaxTokens

\* What is said of the payloads is said of those that are followed.
Told ==
    \A set \in {refused, shed, lost, again, doubtful} : set \subseteq 1 .. MaxPayloads

LEMMA ConstantTypes ==
    /\ AuthLimit \in Nat \ {0} /\ Attempts \in Nat \ {0} /\ Watchdog \in Nat
    /\ MaxPayloads \in Nat /\ MaxTokens \in Nat \ {0}
  BY DeliveryAssumption DEF DeliveryAssumption

\* What the variables start from is within the limits.
LEMMA Least ==
    /\ 0 \in 0 .. MaxPayloads + 1 /\ 1 \in 1 .. Attempts /\ 0 \in 0 .. Watchdog
    /\ 0 \in 0 .. AuthLimit /\ 0 < AuthLimit
    /\ 0 \in Tokens /\ 1 \in Tokens /\ 1 \in Tokens \ {0} /\ InlineToken \in Tokens
    /\ \A n \in Nat : n < MaxTokens => n \in Tokens /\ n + 1 \in Tokens \ {0}
<1>1. InlineToken \in 0 .. MaxTokens
  BY DeliveryAssumption DEF DeliveryAssumption
<1> QED BY <1>1, ConstantTypes DEF Tokens

LEMMA TypesInit == Init => Modes /\ Counters /\ Handed /\ Told
<1> SUFFICES ASSUME Init PROVE Modes /\ Counters /\ Handed /\ Told
  OBVIOUS
<1>1. Modes
  BY DEF Init, Modes, Places
<1>2. Counters
  BY Least DEF Init, Counters
<1>3. Handed
  BY Least DEF Init, Handed
<1> QED BY <1>1, <1>2, <1>3 DEF Init, Told

LEMMA ModesStep == Flow /\ Modes /\ [Next]_vars => Modes'
<1> SUFFICES ASSUME Flow, Modes, [Next]_vars PROVE Modes'
  OBVIOUS
<1> USE DEF Modes, Places
<1>1. CASE Crash \/ Restart \/ WatchdogKill
  BY <1>1 DEF Crash, Restart, WatchdogKill, Die, Forget
<1>2. CASE Start
  BY <1>2 DEF Start, auth, reclaim
<1>3. CASE Reclaim
  <2>1. Request /\ flow' \in {"post", "poll"} /\ pc' \in {"idle", "store"}
    BY <1>3 DEF Reclaim, RequestFails, PostMatches, PostHandsToken, PollPending, PollHandsToken,
                Request, Flow
  <2> QED BY <2>1 DEF Request, auth
<1>4. CASE Wipe \/ Store
  BY <1>4 DEF Wipe, Store, auth
<1>5. CASE Revoke \/ ReAdd \/ Approve \/ Reject \/ NetworkDown \/ NetworkUp
  BY <1>5 DEF Revoke, ReAdd, Approve, Reject, NetworkDown, NetworkUp, world, daemon, auth,
              reclaim
<1>6. CASE CliReceives \/ CliWrites \/ MinutePasses \/ UNCHANGED vars
  BY <1>6 DEF CliReceives, CliWrites, MinutePasses, vars, daemon, auth, reclaim
<1>7. CASE Collect \/ Judge \/ Park \/ Peek \/ Ack
  BY <1>7 DEF Collect, Judge, Park, Peek, Ack, auth, reclaim
<1>8. CASE Push
  <2>1. /\ UNCHANGED unsent /\ authStatus' \in {authStatus, TRUE, FALSE}
        /\ pc' \in {"send", "drain", "judge", "ack", "park", "idle"}
    BY <1>8 DEF Push, Accept, AcceptUnheard, RejectToken, RejectPayload, NotDelivered, Exchange,
                Returns, Fails
  <2> QED BY <2>1 DEF unsent
<1> QED BY <1>1, <1>2, <1>3, <1>4, <1>5, <1>6, <1>7, <1>8 DEF Next, Daemon

LEMMA CountersStep == PayloadInv /\ Flow /\ Counters /\ [Next]_vars => Counters'
<1> SUFFICES ASSUME PayloadInv, Flow, Counters, [Next]_vars PROVE Counters'
  OBVIOUS
<1> USE DEF Counters
<1>1. CASE Crash \/ Restart \/ WatchdogKill
  BY <1>1, Least DEF Crash, Restart, WatchdogKill, Die, Forget
<1>2. CASE Start
  BY <1>2, Least DEF Start, sending, auth, reclaim
<1>3. CASE Reclaim
  <2>1. Request /\ flow' # "off"
    BY <1>3 DEF Reclaim, RequestFails, PostMatches, PostHandsToken, PollPending, PollHandsToken,
                Request, Flow
  <2>2. spent' \in 0 .. Watchdog
    BY <2>1, ConstantTypes DEF Request, Late
  <2> QED BY <2>1, <2>2 DEF Request, sending, auth, history
<1>4. CASE Wipe \/ Store
  BY <1>4, Least DEF Wipe, Store, sending, auth, history
<1>5. CASE Revoke \/ ReAdd \/ Approve \/ Reject \/ NetworkDown \/ NetworkUp
  BY <1>5 DEF Revoke, ReAdd, Approve, Reject, NetworkDown, NetworkUp, world, daemon, sending,
              auth, reclaim, history
<1>6. CASE CliReceives \/ CliWrites \/ MinutePasses \/ UNCHANGED vars
  BY <1>6 DEF CliReceives, CliWrites, MinutePasses, vars, outside, daemon, sending, auth,
              reclaim, history
<1>7. CASE Collect
  <2>1. produced' \in 0 .. MaxPayloads
    <3>1. Counting'
      BY <1>7, CollectKeeps DEF PayloadInv
    <3> QED BY <3>1, BudgetIsNat DEF Counting, Events
  <2>2. cur' \in 0 .. MaxPayloads + 1 /\ spent' = 0
    BY <1>7, <2>1, BudgetIsNat DEF Collect
  <2>3. UNCHANGED <<attempt, authFails, rejections, flow>> /\ pc # "wipe"
    BY <1>7 DEF Collect, drained, auth, reclaim
  <2> QED BY <2>2, <2>3, Least
<1>8. CASE Judge
  <2>1. authFails < AuthLimit
    BY <1>8 DEF Judge, Flow
  <2>2. authFails' \in 0 .. AuthLimit /\ (pc' # "wipe" => authFails' < AuthLimit)
    BY <1>8, <2>1, ConstantTypes DEF Judge
  <2> QED BY <1>8, <2>2, Least DEF Judge, drained, reclaim, outside, history
<1>9. CASE Park \/ Peek \/ Ack
  BY <1>9, Least DEF Park, Peek, Ack, drained, auth, reclaim, outside, history
<1>10. CASE Push
  <2>1. /\ Exchange /\ UNCHANGED unsent /\ (Returns \/ Fails)
        /\ \/ rejections' \in {rejections, 0}
           \/ rejections' = IF rejections < AuthLimit THEN rejections + 1 ELSE AuthLimit
    BY <1>10 DEF Push, Accept, AcceptUnheard, RejectToken, RejectPayload, NotDelivered
  <2>2. spent' \in 0 .. Watchdog
    <3>1. Watchdog \in Nat /\ spent \in 0 .. Watchdog
      BY ConstantTypes
    <3>2. CASE Watchdog = 0
      BY <2>1, <3>1, <3>2 DEF Exchange
    <3>3. CASE Watchdog > 0
      <4>1. spent < Watchdog
        BY <2>1, <3>1, <3>3 DEF Exchange, Late
      <4>2. spent' = spent + 1
        BY <2>1, <3>1, <3>3 DEF Exchange
      <4> QED BY <3>1, <4>1, <4>2
    <3> QED BY <3>1, <3>2, <3>3
  <2>3. rejections' \in 0 .. AuthLimit
    BY <2>1, ConstantTypes
  <2>4. attempt' \in 1 .. Attempts
    <3>1. \/ attempt' = 1
          \/ attempt < Attempts /\ attempt' = attempt + 1
      BY <2>1 DEF Returns, Fails
    <3>2. attempt \in 1 .. Attempts /\ Attempts \in Nat \ {0}
      BY ConstantTypes
    <3> QED BY <3>1, <3>2
  <2>5. cur' = cur /\ authFails' = authFails /\ flow' = flow
    BY <2>1 DEF unsent
  <2>6. pc # "wipe"
    BY <2>1 DEF Exchange
  <2> QED BY <2>2, <2>3, <2>4, <2>5, <2>6
<1> QED BY <1>1, <1>2, <1>3, <1>4, <1>5, <1>6, <1>7, <1>8, <1>9, <1>10 DEF Next, Daemon

LEMMA HandedStep == Handed /\ [Next]_vars => Handed'
<1> SUFFICES ASSUME Handed, [Next]_vars PROVE Handed'
  OBVIOUS
<1> USE Least DEF Handed
<1>1. CASE Crash \/ Restart \/ WatchdogKill
  BY <1>1 DEF Crash, Restart, WatchdogKill, Die, Forget, backend
<1>2. CASE Start
  BY <1>2 DEF Start, StartToken, reclaim, disk, backend
<1>3. CASE RequestFails \/ PostMatches \/ PollPending
  BY <1>3 DEF RequestFails, PostMatches, PollPending, Request, disk
<1>4. CASE PostHandsToken \/ PollHandsToken
  <2>1. issued \in Nat /\ issued < MaxTokens /\ claim' = "none" /\ issued' = issued + 1
        /\ valid' = valid \cup {issued + 1} /\ UNCHANGED <<token, tokenFile, cli, up>>
        /\ fresh' \in {fresh, issued + 1}
    BY <1>4 DEF PostHandsToken, PollHandsToken, Request, Issue, disk, Tokens
  <2> QED BY <2>1
<1>5. CASE Wipe \/ Store
  BY <1>5 DEF Wipe, Store, backend
<1>6. CASE Revoke \/ ReAdd \/ Approve \/ Reject \/ NetworkDown \/ NetworkUp
  <2>1. UNCHANGED <<token, tokenFile, fresh, cli, issued>> /\ valid' \in {valid, {}}
        /\ up' \in {up, TRUE, FALSE} /\ claim' \in {claim, "open", "approved", "none"}
    BY <1>6 DEF Revoke, ReAdd, Approve, Reject, NetworkDown, NetworkUp, world, daemon, reclaim,
                disk
  <2>2. claim' # "none" => issued < MaxTokens
    <3>1. issued \in Nat /\ MaxTokens \in Nat
      BY ConstantTypes DEF Tokens
    <3> QED BY <1>6, <3>1 DEF Revoke, ReAdd, Approve, Reject, NetworkDown, NetworkUp, Room
  <2> QED BY <2>1, <2>2
<1>7. CASE CliReceives \/ CliWrites
  <2>1. issued \in Nat /\ MaxTokens \in Nat
    BY ConstantTypes DEF Tokens
  <2>2. CliReceives => /\ issued < MaxTokens /\ cli' = issued + 1 /\ issued' = issued + 1
                       /\ valid' = valid \cup {issued + 1}
                       /\ claim # "none" => issued + 1 < MaxTokens
                       /\ UNCHANGED <<token, tokenFile, fresh, claim, up>>
    BY <2>1 DEF CliReceives, Issue, Room, daemon, reclaim, disk
  <2>3. CASE CliReceives
    BY <2>1, <2>2, <2>3
  <2>4. CASE CliWrites
    BY <2>4 DEF CliWrites, daemon, reclaim
  <2> QED BY <1>7, <2>3, <2>4
<1>8. CASE Collect \/ Push \/ Judge \/ Park \/ Peek \/ Ack \/ MinutePasses \/ UNCHANGED vars
  <2>1. up' = up
    BY <1>8 DEF Collect, Push, Accept, AcceptUnheard, RejectToken, RejectPayload, NotDelivered,
                Judge, Park, Peek, Ack, MinutePasses, backend, outside, vars
  <2> QED BY <1>8, <2>1, QuietSteps
<1> QED BY <1>1, <1>2, <1>3, <1>4, <1>5, <1>6, <1>7, <1>8 DEF Next, Daemon, Reclaim

LEMMA ToldStep == PayloadInv /\ Told /\ [Next]_vars => Told'
<1> SUFFICES ASSUME PayloadInv, Told, [Next]_vars PROVE Told'
  OBVIOUS
<1>1. accepted \subseteq 1 .. MaxPayloads
  BY CollectedIsFollowed, BudgetIsNat DEF PayloadInv, Counting
<1> USE DEF Told, Followed
<1>2. CASE Crash \/ Restart \/ WatchdogKill
  <2>1. Die
    BY <1>2 DEF Crash, Restart, WatchdogKill
  <2>2. {r.ts : r \in {d \in delivered : d.ts \in accepted}} \subseteq accepted
    OBVIOUS
  <2> QED BY <1>1, <2>1, <2>2 DEF Die
<1>3. CASE Collect \/ Park
  BY <1>3 DEF Collect, Park
<1>4. CASE Push
  BY <1>4 DEF Push, Accept, AcceptUnheard, RejectToken, RejectPayload, NotDelivered, Taken,
              Returns, Fails
<1>5. CASE Judge \/ Peek \/ Ack \/ Start \/ Wipe \/ Store \/ Reclaim
  BY <1>5 DEF Judge, Peek, Ack, Start, Wipe, Store, Reclaim, RequestFails, PostMatches,
              PostHandsToken, PollPending, PollHandsToken, Request, outside, history, account
<1>6. CASE CliReceives \/ CliWrites \/ NetworkDown \/ NetworkUp \/ Revoke \/ ReAdd \/ Approve
           \/ Reject \/ MinutePasses \/ UNCHANGED vars
  BY <1>6 DEF CliReceives, CliWrites, NetworkDown, NetworkUp, Revoke, ReAdd, Approve, Reject,
              MinutePasses, world, outside, history, account, vars
<1> QED BY <1>2, <1>3, <1>4, <1>5, <1>6 DEF Next, Daemon

\* Type correctness, which has arithmetic in it: the auth failures stop at the
\* limit, and no more tokens are handed out than were reserved.
THEOREM DeliveryTyped == Spec => []TypeOK
<1>1. Init => Flow /\ Modes /\ Counters /\ Handed /\ Told
  BY TypesInit DEF Init, Flow
<1>2. PayloadInv /\ Flow /\ Modes /\ Counters /\ Handed /\ Told /\ [Next]_vars =>
          (Flow /\ Modes /\ Counters /\ Handed /\ Told)'
  BY FlowStep, ModesStep, CountersStep, HandedStep, ToldStep
<1>3. PayloadInv /\ Modes /\ Counters /\ Handed /\ Told => TypeOK
  <2> SUFFICES ASSUME PayloadInv, Modes, Counters, Handed, Told PROVE TypeOK
    OBVIOUS
  <2>1. produced \in 0 .. MaxPayloads /\ accepted \subseteq 1 .. MaxPayloads
    BY CollectedIsFollowed, BudgetIsNat DEF PayloadInv, Counting
  <2>2. /\ rows \subseteq Row /\ batch \subseteq Row /\ delivered \subseteq Row
        /\ lastId \in Nat /\ left \in [Events -> Nat]
    BY DEF PayloadInv, Counting, Stored, Draining
  <2> QED BY <2>1, <2>2 DEF Modes, Counters, Handed, Told, TypeOK
<1> QED BY <1>1, <1>2, <1>3, PayloadInvariant, PTL DEF Spec
=============================================================================
