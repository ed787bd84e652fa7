------------------------------ MODULE RelayProofs ------------------------------
(***************************************************************************)
(* Theorems about Relay, for any number of sockets, installations,         *)
(* Bindings and webhooks and any outbox capacity.                          *)
(***************************************************************************)
EXTENDS Relay, SequenceTheorems, TLAPS

----------------------------------------------------------------------------
(* The operators of Connection *)

LEMMA RestProperties ==
  ASSUME NEW box \in Seq(Frames), NEW n \in 0..Len(box)
  PROVE  /\ Rest(box, n) \in Seq(Frames)
         /\ Len(Rest(box, n)) = Len(box) - n
         /\ \A k \in 1..Len(Rest(box, n)) : Rest(box, n)[k] = box[k + n]
  BY SubSeqProperties DEF Rest

LEMMA SendLoopProperties ==
  ASSUME NEW box \in Seq(Frames), NEW isCongested \in BOOLEAN,
         NEW sent \in SendLoop(box, isCongested)
  PROVE  /\ sent.shifted \in 0..Len(box)
         /\ sent.end \in {"congested", "empty", "dropped"}
         /\ sent.end = "empty" => sent.shifted = Len(box)
         /\ sent.end = "dropped" => sent.shifted >= 1
         /\ isCongested => sent.shifted = 0 /\ sent.end = "congested"
  BY LenProperties DEF SendLoop

LEMMA WakeWaitersType ==
  ASSUME NEW ss, NEW calls \in [Requests -> CallStates]
  PROVE  WakeWaiters(ss, calls) \in [Requests -> CallStates]
  BY DEF WakeWaiters, CallStates

LEMMA SettleType ==
  ASSUME TypeOK, NEW rs, NEW result \in Answers
  PROVE  Settle(rs, result) \in [Requests -> Answers]
  BY DEF Settle, TypeOK

LEMMA ReleaseType ==
  ASSUME TypeOK, NEW ss,
         NEW calls \in [Requests -> CallStates],
         NEW pend \in [Sockets -> SUBSET Requests],
         Release(ss, calls, pend)
  PROVE  /\ released' \in [Sockets -> BOOLEAN]
         /\ outbox' \in [Sockets -> Seq(Frames)]
         /\ pending' \in [Sockets -> SUBSET Requests]
         /\ answer' \in [Requests -> Answers]
         /\ call' \in [Requests -> CallStates]
<1>1. answer' \in [Requests -> Answers]
  BY SettleType DEF Release, Answers
<1>2. call' \in [Requests -> CallStates]
  BY WakeWaitersType DEF Release
<1>3. outbox' \in [Sockets -> Seq(Frames)]
  BY DEF Release, TypeOK
<1>4. released' \in [Sockets -> BOOLEAN] /\ pending' \in [Sockets -> SUBSET Requests]
  BY DEF Release, TypeOK
<1>5. QED BY <1>1, <1>2, <1>3, <1>4

LEMMA FlushType ==
  ASSUME TypeOK, NEW s \in Sockets,
         NEW box \in Seq(Frames), NEW isCongested \in BOOLEAN,
         NEW calls \in [Requests -> CallStates],
         NEW pend \in [Sockets -> SUBSET Requests],
         Flush(s, box, isCongested, calls, pend)
  PROVE  /\ outbox' \in [Sockets -> Seq(Frames)]
         /\ congested' \in [Sockets -> BOOLEAN]
         /\ released' \in [Sockets -> BOOLEAN]
         /\ pending' \in [Sockets -> SUBSET Requests]
         /\ wire' \in [Sockets -> SUBSET Requests]
         /\ call' \in [Requests -> CallStates]
         /\ answer' \in [Requests -> Answers]
<1> DEFINE Taken(sent) == IF sent.end = "dropped" THEN sent.shifted - 1 ELSE sent.shifted
<1>1. PICK sent \in SendLoop(box, isCongested) :
        /\ wire' = [wire EXCEPT ![s] = @ \cup ({box[k] : k \in 1..Taken(sent)} \ {Notice})]
        /\ congested' = [congested EXCEPT ![s] = sent.end = "congested"]
        /\ IF sent.end = "dropped"
           THEN Release({s}, calls, pend)
           ELSE /\ outbox' = [outbox EXCEPT ![s] = Rest(box, sent.shifted)]
                /\ pending' = pend
                /\ call' = IF Len(Rest(box, sent.shifted)) < Capacity
                           THEN WakeWaiters({s}, calls) ELSE calls
                /\ UNCHANGED <<released, answer>>
  BY DEF Flush
<1>2. /\ sent.shifted \in 0..Len(box)
      /\ sent.end = "dropped" => sent.shifted >= 1
  BY SendLoopProperties
<1>3. Taken(sent) \in 0..Len(box)
  BY <1>2, LenProperties
<1>4. {box[k] : k \in 1..Taken(sent)} \ {Notice} \subseteq Requests
  <2>1. \A k \in 1..Taken(sent) : box[k] \in Frames
    BY <1>3, ElementOfSeq, LenProperties
  <2>2. QED BY <2>1 DEF Frames
<1>5. wire' \in [Sockets -> SUBSET Requests] /\ congested' \in [Sockets -> BOOLEAN]
  BY <1>1, <1>4 DEF TypeOK
<1>6. CASE sent.end = "dropped"
  BY <1>1, <1>5, <1>6, ReleaseType
<1>7. CASE sent.end # "dropped"
  <2>1. Rest(box, sent.shifted) \in Seq(Frames)
    BY <1>2, RestProperties
  <2>2. outbox' \in [Sockets -> Seq(Frames)]
    BY <1>1, <1>7, <2>1 DEF TypeOK
  <2>3. call' \in [Requests -> CallStates]
    BY <1>1, <1>7, WakeWaitersType
  <2>4. QED BY <1>1, <1>5, <1>7, <2>2, <2>3 DEF TypeOK
<1>8. QED BY <1>6, <1>7

LEMMA NotifyType ==
  ASSUME TypeOK, NEW s \in Sockets, Notify(s)
  PROVE  /\ outbox' \in [Sockets -> Seq(Frames)]
         /\ congested' \in [Sockets -> BOOLEAN]
         /\ released' \in [Sockets -> BOOLEAN]
         /\ pending' \in [Sockets -> SUBSET Requests]
         /\ wire' \in [Sockets -> SUBSET Requests]
         /\ call' \in [Requests -> CallStates]
         /\ route' = route
         /\ answer' \in [Requests -> Answers]
<1>1. CASE released[s] \/ Len(outbox[s]) >= Capacity
  BY <1>1 DEF Notify, TypeOK, connVars, callVars
<1>2. CASE ~(released[s] \/ Len(outbox[s]) >= Capacity)
  <2>1. Append(outbox[s], Notice) \in Seq(Frames)
    BY AppendProperties DEF TypeOK, Frames
  <2>2. Flush(s, Append(outbox[s], Notice), congested[s], call, pending) /\ route' = route
    BY <1>2 DEF Notify
  <2>3. congested[s] \in BOOLEAN /\ call \in [Requests -> CallStates]
        /\ pending \in [Sockets -> SUBSET Requests]
    BY DEF TypeOK
  <2>4. QED BY <2>1, <2>2, <2>3, FlushType
<1>3. QED BY <1>1, <1>2

LEMMA EnqueueType ==
  ASSUME TypeOK, NEW s \in Sockets, NEW r \in Requests,
         NEW pend \in [Sockets -> SUBSET Requests],
         Enqueue(s, r, pend)
  PROVE  /\ outbox' \in [Sockets -> Seq(Frames)]
         /\ congested' \in [Sockets -> BOOLEAN]
         /\ released' \in [Sockets -> BOOLEAN]
         /\ pending' \in [Sockets -> SUBSET Requests]
         /\ wire' \in [Sockets -> SUBSET Requests]
         /\ call' \in [Requests -> CallStates]
         /\ answer' \in [Requests -> Answers]
<1>1. CASE Len(outbox[s]) >= Capacity
  BY <1>1 DEF Enqueue, TypeOK, CallStates
<1>2. CASE ~(Len(outbox[s]) >= Capacity)
  <2>1. Append(outbox[s], r) \in Seq(Frames)
    BY AppendProperties DEF TypeOK, Frames
  <2>2. [call EXCEPT ![r] = "returned"] \in [Requests -> CallStates]
    BY DEF TypeOK, CallStates
  <2>3. Flush(s, Append(outbox[s], r), congested[s], [call EXCEPT ![r] = "returned"], pend)
    BY <1>2 DEF Enqueue
  <2>4. congested[s] \in BOOLEAN
    BY DEF TypeOK
  <2>5. QED BY <2>1, <2>2, <2>3, <2>4, FlushType
<1>3. QED BY <1>1, <1>2

----------------------------------------------------------------------------
(* The inductive invariant. Its parts that speak of coroutines and pending maps take  *)
(* them as arguments: deliver() and enqueue() change them before flush() runs.        *)

\* A forward() past its lookup has a Connection; before that it has none.
RouteKnown(calls) ==
  \A r \in Requests :
    /\ calls[r] = "idle" => route[r] = None
    /\ calls[r] \in {"reading", "waiting", "woken"} => route[r] \in Sockets

\* An enqueue() that waits does so on a live Connection whose outbox is full.
WaitersBlocked(calls) ==
  \A r \in Requests :
    calls[r] = "waiting" => ~released[route[r]] /\ Len(outbox[route[r]]) = Capacity

PendingExact(calls, pend) ==
  \A r \in Requests, s \in Sockets :
    r \in pend[s] <=>
      /\ route[r] = s
      /\ calls[r] \in {"waiting", "woken", "returned"}
      /\ answer[r] = "none"

\* Nobody is answered before deliver().
FreshUnanswered(calls) ==
  \A r \in Requests : calls[r] \in {"idle", "reading"} => answer[r] = "none"

ReleasedEmpty(pend) ==
  \A s \in Sockets : released[s] => outbox[s] = <<>> /\ pend[s] = {}

Midway(calls, pend) ==
  /\ calls \in [Requests -> CallStates]
  /\ pend \in [Sockets -> SUBSET Requests]
  /\ RouteKnown(calls)
  /\ WaitersBlocked(calls)
  /\ PendingExact(calls, pend)
  /\ FreshUnanswered(calls)
  /\ ReleasedEmpty(pend)

\* Frames wait only while the socket is congested.
QueuedMeansCongested(s) == outbox[s] # <<>> => congested[s]

ConnInv ==
  /\ Midway(call, pending)
  /\ OutboxBounded
  /\ \A s \in Sockets : QueuedMeansCongested(s)
  /\ RoutedOnly

\* An authenticated socket has an installation, and the registry is current.
RegistryInv ==
  /\ \A s \in Sockets : sock[s] \in {"unused", "challenged"} => inst[s] = None
  /\ \A s \in Sockets : sock[s] = "attached" => inst[s] \in Installations
  /\ RegistryIsCurrent
  /\ OneLiveConnection

IInv == TypeOK /\ ConnInv /\ RegistryInv

LEMMA ReleaseKeeps ==
  ASSUME TypeOK, NEW ss \in SUBSET Sockets, NEW calls, NEW pend,
         Midway(calls, pend), OutboxBounded,
         Release(ss, calls, pend), route' = route
  PROVE  /\ Midway(call, pending)'
         /\ OutboxBounded'
         /\ \A s \in Sockets : outbox'[s] = outbox[s] \/ outbox'[s] = <<>>
         /\ \A s \in ss : outbox'[s] = <<>>
<1> DEFINE live == {s \in ss : ~released[s]}
<1>0. /\ released' = [s \in Sockets |-> released[s] \/ s \in live]
      /\ outbox' = [s \in Sockets |-> IF s \in live THEN <<>> ELSE outbox[s]]
      /\ pending' = [s \in Sockets |-> IF s \in live THEN {} ELSE pend[s]]
      /\ answer' = Settle(UNION {pend[s] : s \in live}, "offline")
      /\ call' = WakeWaiters(live, calls)
  BY DEF Release
<1>1. /\ released' \in [Sockets -> BOOLEAN]
      /\ pending' \in [Sockets -> SUBSET Requests]
      /\ call' \in [Requests -> CallStates]
  BY ReleaseType DEF Midway
<1>2. \A r \in Requests :
        call'[r] = IF route[r] \in live /\ calls[r] = "waiting" THEN "woken" ELSE calls[r]
  BY <1>0 DEF WakeWaiters
<1>3. \A r \in Requests :
        answer'[r] = IF (\E s \in live : r \in pend[s]) /\ answer[r] = "none"
                     THEN "offline" ELSE answer[r]
  BY <1>0 DEF Settle
<1>4. RouteKnown(call)'
  BY <1>2 DEF RouteKnown, Midway
<1>5. WaitersBlocked(call)'
  BY <1>0, <1>2 DEF WaitersBlocked, RouteKnown, Midway
<1>6. PendingExact(call, pending)'
  <2>0. SUFFICES ASSUME NEW r \in Requests, NEW s \in Sockets
                 PROVE  r \in pending'[s] <=>
                          /\ route[r] = s
                          /\ call'[r] \in {"waiting", "woken", "returned"}
                          /\ answer'[r] = "none"
    BY DEF PendingExact
  <2>1. CASE s \in live
    BY <1>0, <1>2, <1>3, <2>1 DEF PendingExact, Midway
  <2>2. CASE s \notin live
    <3>1. r \in pending'[s] <=> r \in pend[s]
      BY <1>0, <2>2
    <3>2. route[r] = s => call'[r] = calls[r]
      BY <1>2, <2>2
    <3>3. route[r] = s => answer'[r] = answer[r]
      BY <1>3, <2>2 DEF PendingExact, Midway
    <3>4. r \in pend[s] <=>
            /\ route[r] = s
            /\ calls[r] \in {"waiting", "woken", "returned"}
            /\ answer[r] = "none"
      BY DEF PendingExact, Midway
    <3>5. QED BY <3>1, <3>2, <3>3, <3>4
  <2>3. QED BY <2>1, <2>2
<1>7. FreshUnanswered(call)'
  BY <1>2, <1>3 DEF FreshUnanswered, PendingExact, Midway
<1>8. ReleasedEmpty(pending)'
  BY <1>0 DEF ReleasedEmpty, Midway
<1>9. OutboxBounded'
  BY <1>0, CapacityAssumption DEF OutboxBounded
<1>10. /\ \A s \in Sockets : outbox'[s] = outbox[s] \/ outbox'[s] = <<>>
       /\ \A s \in ss : outbox'[s] = <<>>
  BY <1>0 DEF ReleasedEmpty, Midway
<1>11. QED BY <1>1, <1>4, <1>5, <1>6, <1>7, <1>8, <1>9, <1>10 DEF Midway

\* What flush() asks of the box it is handed for socket s: it is bounded, it is empty
\* on a released Connection, and its webhooks were routed to s.
BoxOf(s, box) ==
  /\ box \in Seq(Frames)
  /\ Len(box) <= Capacity
  /\ released[s] => box = <<>>
  /\ \A k \in 1..Len(box) : box[k] \in Requests => route[box[k]] = s

LEMMA FlushKeeps ==
  ASSUME TypeOK, ConnInv, NEW s \in Sockets, NEW box, BoxOf(s, box),
         NEW isCongested \in BOOLEAN, NEW calls, NEW pend, Midway(calls, pend),
         Flush(s, box, isCongested, calls, pend), route' = route
  PROVE  ConnInv'
<1> DEFINE Taken(sent) == IF sent.end = "dropped" THEN sent.shifted - 1 ELSE sent.shifted
<1>1. PICK sent \in SendLoop(box, isCongested) :
        /\ wire' = [wire EXCEPT ![s] = @ \cup ({box[k] : k \in 1..Taken(sent)} \ {Notice})]
        /\ congested' = [congested EXCEPT ![s] = sent.end = "congested"]
        /\ IF sent.end = "dropped"
           THEN Release({s}, calls, pend)
           ELSE /\ outbox' = [outbox EXCEPT ![s] = Rest(box, sent.shifted)]
                /\ pending' = pend
                /\ call' = IF Len(Rest(box, sent.shifted)) < Capacity
                           THEN WakeWaiters({s}, calls) ELSE calls
                /\ UNCHANGED <<released, answer>>
  BY DEF Flush
<1>2. box \in Seq(Frames) /\ Len(box) \in Nat /\ Len(box) <= Capacity
  BY LenProperties DEF BoxOf
<1>3. /\ sent.shifted \in 0..Len(box)
      /\ sent.end \in {"congested", "empty", "dropped"}
      /\ sent.end = "empty" => sent.shifted = Len(box)
      /\ sent.end = "dropped" => sent.shifted >= 1
  BY <1>2, SendLoopProperties
<1>4. Taken(sent) \in 0..Len(box)
  BY <1>2, <1>3
<1>5. \A p \in Sockets, r \in Requests : r \in wire'[p] => route[r] = p
  <2>1. \A p \in Sockets, r \in Requests : r \in wire[p] => route[r] = p
    BY DEF ConnInv, RoutedOnly
  <2>2. \A k \in 1..Taken(sent) : box[k] \in Requests => route[box[k]] = s
    BY <1>2, <1>4 DEF BoxOf
  <2>3. \A r \in Requests : r \in wire'[s] => r \in wire[s] \/ \E k \in 1..Taken(sent) : box[k] = r
    BY <1>1 DEF TypeOK
  <2>4. \A p \in Sockets \ {s} : wire'[p] = wire[p]
    BY <1>1 DEF TypeOK
  <2>5. QED BY <2>1, <2>2, <2>3, <2>4
<1>6. CASE sent.end = "dropped"
  <2>1. Release({s}, calls, pend) /\ OutboxBounded
    BY <1>1, <1>6 DEF ConnInv
  <2>2. /\ Midway(call, pending)'
        /\ OutboxBounded'
        /\ \A p \in Sockets : outbox'[p] = outbox[p] \/ outbox'[p] = <<>>
        /\ outbox'[s] = <<>>
    BY <2>1, ReleaseKeeps
  <2>3. \A p \in Sockets : QueuedMeansCongested(p)'
    BY <1>1, <2>2 DEF QueuedMeansCongested, ConnInv, TypeOK
  <2>4. RoutedOnly'
    BY <1>5, <2>2, LenProperties DEF RoutedOnly, ConnInv
  <2>5. QED BY <2>2, <2>3, <2>4 DEF ConnInv
<1>7. CASE sent.end # "dropped"
  <2> DEFINE rest == Rest(box, sent.shifted)
  <2>1. /\ rest \in Seq(Frames)
        /\ Len(rest) = Len(box) - sent.shifted
        /\ \A k \in 1..Len(rest) : rest[k] = box[k + sent.shifted]
    BY <1>2, <1>3, RestProperties
  <2>2. /\ outbox' = [outbox EXCEPT ![s] = rest]
        /\ pending' = pend
        /\ call' = IF Len(rest) < Capacity THEN WakeWaiters({s}, calls) ELSE calls
        /\ released' = released /\ answer' = answer
    BY <1>1, <1>7
  <2>3. Len(rest) \in Nat /\ Len(rest) <= Capacity
    BY <1>2, <1>3, <2>1, CapacityAssumption
  <2>4. calls \in [Requests -> CallStates] /\ pend \in [Sockets -> SUBSET Requests]
    BY DEF Midway
  <2>5. \A r \in Requests :
          call'[r] = IF Len(rest) < Capacity /\ route[r] = s /\ calls[r] = "waiting"
                     THEN "woken" ELSE calls[r]
    BY <2>2, <2>4 DEF WakeWaiters
  <2>6. outbox'[s] = rest /\ \A p \in Sockets \ {s} : outbox'[p] = outbox[p]
    BY <2>2 DEF TypeOK
  <2>7. call' \in [Requests -> CallStates]
    BY <2>2, <2>4, WakeWaitersType
  <2>8. RouteKnown(call)'
    BY <2>5 DEF RouteKnown, Midway
  <2>9. WaitersBlocked(call)'
    <3>0. SUFFICES ASSUME NEW r \in Requests, call'[r] = "waiting"
                   PROVE  ~released'[route[r]] /\ Len(outbox'[route[r]]) = Capacity
      BY DEF WaitersBlocked
    <3>1. calls[r] = "waiting" /\ ~(Len(rest) < Capacity /\ route[r] = s)
      BY <2>5, <3>0
    <3>2. route[r] \in Sockets /\ ~released[route[r]] /\ Len(outbox[route[r]]) = Capacity
      BY <3>1 DEF WaitersBlocked, RouteKnown, Midway
    <3>3. CASE route[r] = s
      <4>1. Len(rest) = Capacity
        BY <2>3, <3>1, <3>3, CapacityAssumption
      <4>2. QED BY <2>2, <2>6, <3>2, <3>3, <4>1
    <3>4. CASE route[r] # s
      BY <2>2, <2>6, <3>2, <3>4
    <3>5. QED BY <3>3, <3>4
  <2>10. PendingExact(call, pending)'
    BY <2>2, <2>4, <2>5 DEF PendingExact, Midway
  <2>11. FreshUnanswered(call)'
    BY <2>2, <2>5 DEF FreshUnanswered, Midway
  <2>12. ReleasedEmpty(pending)'
    <3>1. released[s] => rest = <<>>
      BY <1>2, <1>3, <2>1, EmptySeq, LenProperties DEF BoxOf
    <3>2. QED BY <2>2, <2>6, <3>1 DEF ReleasedEmpty, Midway
  <2>13. OutboxBounded'
    BY <2>3, <2>6 DEF OutboxBounded, ConnInv
  <2>14. \A p \in Sockets : QueuedMeansCongested(p)'
    <3>1. rest # <<>> => sent.end = "congested"
      BY <1>2, <1>3, <1>7, <2>1, EmptySeq, LenProperties
    <3>2. congested'[s] = (sent.end = "congested") /\ \A p \in Sockets \ {s} : congested'[p] = congested[p]
      BY <1>1 DEF TypeOK
    <3>3. QED BY <2>6, <3>1, <3>2 DEF QueuedMeansCongested, ConnInv
  <2>15. RoutedOnly'
    <3>1. \A k \in 1..Len(rest) : rest[k] \in Requests => route[rest[k]] = s
      <4>1. TAKE k \in 1..Len(rest)
      <4>2. k + sent.shifted \in 1..Len(box) /\ rest[k] = box[k + sent.shifted]
        BY <1>2, <1>3, <2>1
      <4>3. QED BY <4>2 DEF BoxOf
    <3>2. QED BY <1>5, <2>6, <3>1 DEF RoutedOnly, ConnInv
  <2>16. QED
    BY <2>2, <2>4, <2>7, <2>8, <2>9, <2>10, <2>11, <2>12, <2>13, <2>14, <2>15 DEF ConnInv, Midway
<1>8. QED BY <1>6, <1>7

LEMMA NotifyKeeps ==
  ASSUME TypeOK, ConnInv, NEW s \in Sockets, Notify(s)
  PROVE  ConnInv'
<1>1. CASE released[s] \/ Len(outbox[s]) >= Capacity
  <2>1. UNCHANGED <<connVars, callVars>>
    BY <1>1 DEF Notify
  <2>2. QED
    BY <2>1 DEF connVars, callVars, ConnInv, Midway, RouteKnown, WaitersBlocked, PendingExact,
                FreshUnanswered, ReleasedEmpty, OutboxBounded, QueuedMeansCongested, RoutedOnly
<1>2. CASE ~(released[s] \/ Len(outbox[s]) >= Capacity)
  <2>1. BoxOf(s, Append(outbox[s], Notice))
    BY <1>2, AppendProperties, LenProperties, CapacityAssumption, NoticeAssumption
       DEF BoxOf, TypeOK, Frames, ConnInv, RoutedOnly
  <2>2. Flush(s, Append(outbox[s], Notice), congested[s], call, pending) /\ route' = route
    BY <1>2 DEF Notify
  <2>3. congested[s] \in BOOLEAN /\ Midway(call, pending)
    BY DEF TypeOK, ConnInv
  <2>4. QED BY <2>1, <2>2, <2>3, FlushKeeps
<1>3. QED BY <1>1, <1>2

\* One pass of enqueue() for a delivered request on a live Connection.
LEMMA EnqueueKeeps ==
  ASSUME TypeOK, ConnInv, NEW r \in Requests, NEW s \in Sockets, s = route[r],
         ~released[s], call[r] \in {"reading", "woken"},
         NEW pend,
         pend = IF call[r] = "reading" THEN [pending EXCEPT ![s] = @ \cup {r}] ELSE pending,
         Enqueue(s, r, pend), route' = route
  PROVE  ConnInv'
<1>1. /\ pend \in [Sockets -> SUBSET Requests]
      /\ \A q \in Requests, p \in Sockets : q \in pend[p] <=>
           q \in pending[p] \/ (call[r] = "reading" /\ q = r /\ p = s)
  BY DEF TypeOK
<1>2. \A c \in {"waiting", "returned"} : PendingExact([call EXCEPT ![r] = c], pend)
  BY <1>1 DEF PendingExact, FreshUnanswered, ConnInv, Midway, TypeOK
<1>3. \A c \in {"waiting", "returned"} :
        /\ [call EXCEPT ![r] = c] \in [Requests -> CallStates]
        /\ RouteKnown([call EXCEPT ![r] = c])
        /\ FreshUnanswered([call EXCEPT ![r] = c])
  BY DEF RouteKnown, FreshUnanswered, ConnInv, Midway, TypeOK, CallStates
<1>4. ReleasedEmpty(pend)
  BY <1>1 DEF ReleasedEmpty, ConnInv, Midway, TypeOK
<1>5. CASE Len(outbox[s]) >= Capacity
  <2>1. /\ call' = [call EXCEPT ![r] = "waiting"]
        /\ pending' = pend
        /\ UNCHANGED <<outbox, congested, released, wire, answer>>
    BY <1>5 DEF Enqueue
  <2>2. Len(outbox[s]) = Capacity
    BY <1>5, LenProperties, CapacityAssumption DEF ConnInv, OutboxBounded, TypeOK
  <2>3. WaitersBlocked(call)'
    BY <2>1, <2>2 DEF WaitersBlocked, ConnInv, Midway, TypeOK
  <2>4. Midway(call, pending)'
    BY <1>1, <1>2, <1>3, <1>4, <2>1, <2>3
       DEF Midway, RouteKnown, PendingExact, FreshUnanswered, ReleasedEmpty
  <2>5. QED
    BY <2>1, <2>4 DEF ConnInv, OutboxBounded, QueuedMeansCongested, RoutedOnly
<1>6. CASE ~(Len(outbox[s]) >= Capacity)
  <2>1. Flush(s, Append(outbox[s], r), congested[s], [call EXCEPT ![r] = "returned"], pend)
    BY <1>6 DEF Enqueue
  <2>2. BoxOf(s, Append(outbox[s], r))
    BY <1>6, AppendProperties, LenProperties, CapacityAssumption
       DEF BoxOf, TypeOK, Frames, ConnInv, RoutedOnly
  <2>3. WaitersBlocked([call EXCEPT ![r] = "returned"])
    BY DEF WaitersBlocked, ConnInv, Midway, TypeOK
  <2>4. Midway([call EXCEPT ![r] = "returned"], pend)
    BY <1>1, <1>2, <1>3, <1>4, <2>3 DEF Midway
  <2>5. congested[s] \in BOOLEAN
    BY DEF TypeOK
  <2>6. QED BY <2>1, <2>2, <2>4, <2>5, FlushKeeps
<1>7. QED BY <1>5, <1>6

\* Steps that leave the Connections and calls alone keep what is known of them.
LEMMA ConnUnchanged ==
  ASSUME ConnInv, UNCHANGED <<connVars, callVars>>
  PROVE  ConnInv'
  BY DEF connVars, callVars, ConnInv, Midway, RouteKnown, WaitersBlocked, PendingExact,
         FreshUnanswered, ReleasedEmpty, OutboxBounded, QueuedMeansCongested, RoutedOnly

LEMMA RegistryUnchanged ==
  ASSUME RegistryInv, UNCHANGED sockVars, \A s \in Sockets : released[s] => released'[s]
  PROVE  RegistryInv'
  BY DEF sockVars, RegistryInv, RegistryIsCurrent, OneLiveConnection

\* Nothing that flush() does revives a Connection.
LEMMA FlushReleases ==
  ASSUME TypeOK, NEW s, NEW box, NEW isCongested, NEW calls, NEW pend,
         Flush(s, box, isCongested, calls, pend)
  PROVE  \A p \in Sockets : released[p] => released'[p]
  BY DEF Flush, Release, TypeOK

\* forward() is told that request r is over: it is answered and no longer pending.
LEMMA ReturnKeeps ==
  ASSUME TypeOK, ConnInv, NEW r \in Requests, route[r] \in Sockets,
         answer' = Settle({r}, "offline"),
         pending' = [pending EXCEPT ![route[r]] = @ \ {r}],
         \/ call' = [call EXCEPT ![r] = "returned"]
         \/ call' = call /\ call[r] \in {"waiting", "woken", "returned"},
         UNCHANGED <<outbox, congested, released, wire, route>>
  PROVE  ConnInv'
<1>1. \A q \in Requests :
        answer'[q] = IF q = r /\ answer[q] = "none" THEN "offline" ELSE answer[q]
  BY DEF Settle
<1>2. \A q \in Requests, p \in Sockets :
        q \in pending'[p] <=> q \in pending[p] /\ ~(q = r /\ p = route[r])
  BY DEF TypeOK
<1>3. /\ \A q \in Requests \ {r} : call'[q] = call[q]
      /\ call'[r] \in {"waiting", "woken", "returned"}
      /\ call'[r] \in {"waiting", "woken"} => call'[r] = call[r]
  BY DEF TypeOK
<1>4. call' \in [Requests -> CallStates] /\ pending' \in [Sockets -> SUBSET Requests]
  BY DEF TypeOK, CallStates
<1>5. RouteKnown(call)' /\ WaitersBlocked(call)'
  BY <1>3 DEF RouteKnown, WaitersBlocked, ConnInv, Midway
<1>6. PendingExact(call, pending)'
  <2>0. SUFFICES ASSUME NEW q \in Requests, NEW p \in Sockets
                 PROVE  q \in pending'[p] <=>
                          /\ route[q] = p
                          /\ call'[q] \in {"waiting", "woken", "returned"}
                          /\ answer'[q] = "none"
    BY DEF PendingExact
  <2>1. q \in pending[p] <=>
          /\ route[q] = p
          /\ call[q] \in {"waiting", "woken", "returned"}
          /\ answer[q] = "none"
    BY DEF PendingExact, ConnInv, Midway
  <2>2. CASE q = r
    <3>1. answer'[q] # "none"
      BY <1>1, <2>2
    <3>2. q \notin pending'[p]
      BY <1>2, <2>1, <2>2
    <3>3. QED BY <3>1, <3>2
  <2>3. CASE q # r
    BY <1>1, <1>2, <1>3, <2>1, <2>3
  <2>4. QED BY <2>2, <2>3
<1>7. FreshUnanswered(call)'
  BY <1>1, <1>3 DEF FreshUnanswered, ConnInv, Midway
<1>8. ReleasedEmpty(pending)'
  BY <1>2, <1>4 DEF ReleasedEmpty, ConnInv, Midway
<1>9. QED
  BY <1>4, <1>5, <1>6, <1>7, <1>8
     DEF ConnInv, Midway, OutboxBounded, QueuedMeansCongested, RoutedOnly

\* A step of one request's delivery that its Connection alone decides.
LEMMA DeliveryKeeps ==
  ASSUME IInv, NEW r \in Requests,
         Deliver(r) \/ Resume(r) \/ DeliveryTimeout(r) \/ SpaceTimeout(r)
  PROVE  IInv'
<1>0. TypeOK /\ ConnInv /\ RegistryInv
  BY DEF IInv
<1>1. ASSUME Deliver(r) PROVE IInv'
  <2> DEFINE s == route[r]
  <2>1. s \in Sockets /\ call[r] = "reading"
    BY <1>0, <1>1 DEF Deliver, ConnInv, Midway, RouteKnown
  <2>2. CASE released[s]
    <3>1. /\ answer' = Settle({r}, "offline")
          /\ call' = [call EXCEPT ![r] = "returned"]
          /\ UNCHANGED connVars /\ UNCHANGED route
      BY <1>1, <2>2 DEF Deliver
    <3>2. pending' = [pending EXCEPT ![s] = @ \ {r}]
      BY <1>0, <2>1, <2>2, <3>1 DEF connVars, ConnInv, Midway, ReleasedEmpty, TypeOK
    <3>3. ConnInv'
      BY <1>0, <2>1, <3>1, <3>2, ReturnKeeps DEF connVars
    <3>4. TypeOK'
      BY <1>0, <1>1, <3>1, SettleType DEF Deliver, sockVars, connVars, TypeOK, CallStates, Answers
    <3>5. RegistryInv'
      BY <1>0, <1>1, <3>1, RegistryUnchanged DEF Deliver, connVars
    <3>6. QED BY <3>3, <3>4, <3>5 DEF IInv
  <2>3. CASE ~released[s]
    <3>1. Enqueue(s, r, [pending EXCEPT ![s] = @ \cup {r}]) /\ route' = route
      BY <1>1, <2>3 DEF Deliver
    <3>2. ConnInv'
      BY <1>0, <2>1, <2>3, <3>1, EnqueueKeeps
    <3>3. [pending EXCEPT ![s] = @ \cup {r}] \in [Sockets -> SUBSET Requests]
      BY <1>0 DEF TypeOK
    <3>4. TypeOK'
      BY <1>0, <1>1, <2>1, <3>1, <3>3, EnqueueType DEF Deliver, sockVars, TypeOK
    <3>5. RegistryInv'
      BY <1>0, <1>1, <3>1, FlushReleases, RegistryUnchanged DEF Deliver, Enqueue
    <3>6. QED BY <3>2, <3>4, <3>5 DEF IInv
  <2>4. QED BY <2>2, <2>3
<1>2. ASSUME Resume(r) PROVE IInv'
  <2> DEFINE s == route[r]
  <2>1. s \in Sockets /\ call[r] = "woken"
    BY <1>0, <1>2 DEF Resume, ConnInv, Midway, RouteKnown
  <2>2. CASE released[s]
    <3>1. /\ answer' = Settle({r}, "offline")
          /\ call' = [call EXCEPT ![r] = "returned"]
          /\ pending' = [pending EXCEPT ![s] = @ \ {r}]
          /\ UNCHANGED <<outbox, congested, released, wire, route>>
      BY <1>2, <2>2 DEF Resume
    <3>2. ConnInv'
      BY <1>0, <2>1, <3>1, ReturnKeeps
    <3>3. TypeOK'
      BY <1>0, <1>2, <3>1, SettleType DEF Resume, sockVars, TypeOK, CallStates, Answers
    <3>4. RegistryInv'
      BY <1>0, <1>2, <3>1, RegistryUnchanged DEF Resume
    <3>5. QED BY <3>2, <3>3, <3>4 DEF IInv
  <2>3. CASE ~released[s]
    <3>1. Enqueue(s, r, pending) /\ route' = route
      BY <1>2, <2>3 DEF Resume
    <3>2. ConnInv'
      BY <1>0, <2>1, <2>3, <3>1, EnqueueKeeps
    <3>3. pending \in [Sockets -> SUBSET Requests]
      BY <1>0 DEF TypeOK
    <3>4. TypeOK'
      BY <1>0, <1>2, <2>1, <3>1, <3>3, EnqueueType DEF Resume, sockVars, TypeOK
    <3>5. RegistryInv'
      BY <1>0, <1>2, <3>1, FlushReleases, RegistryUnchanged DEF Resume, Enqueue
    <3>6. QED BY <3>2, <3>4, <3>5 DEF IInv
  <2>4. QED BY <2>2, <2>3
<1>3. ASSUME DeliveryTimeout(r) \/ SpaceTimeout(r) PROVE IInv'
  <2> DEFINE s == route[r]
  <2>1. s \in Sockets /\ call[r] \in {"waiting", "woken", "returned"}
    <3>1. CASE DeliveryTimeout(r)
      BY <1>0, <3>1 DEF DeliveryTimeout, ConnInv, Midway, PendingExact, TypeOK
    <3>2. CASE SpaceTimeout(r)
      BY <1>0, <3>2 DEF SpaceTimeout, ConnInv, Midway, RouteKnown
    <3>3. QED BY <1>3, <3>1, <3>2
  <2>2. /\ pending' = [pending EXCEPT ![s] = @ \ {r}]
        /\ answer' = Settle({r}, "offline")
        /\ call' = call \/ call' = [call EXCEPT ![r] = "returned"]
        /\ UNCHANGED <<sockVars, bindings, outbox, congested, released, wire, route>>
    BY <1>3 DEF DeliveryTimeout, SpaceTimeout
  <2>3. TypeOK'
    BY <1>0, <2>2, SettleType DEF TypeOK, sockVars, CallStates, Answers
  <2>4. ConnInv'
    BY <1>0, <2>1, <2>2, ReturnKeeps
  <2>5. RegistryInv'
    BY <1>0, <2>2, RegistryUnchanged
  <2>6. QED BY <2>3, <2>4, <2>5 DEF IInv
<1>4. QED BY <1>1, <1>2, <1>3

\* The local daemon's answer, and the frames that leave without a request in hand.
LEMMA FrameKeeps ==
  ASSUME IInv, NEW s \in Sockets,
         \/ \E r \in Requests : Respond(s, r)
         \/ Drained(s) \/ ProtocolError(s)
         \/ \E bs \in SUBSET Bindings : SyncBindings(s, bs)
  PROVE  IInv'
<1>0. TypeOK /\ ConnInv /\ RegistryInv
  BY DEF IInv
<1>1. ASSUME NEW r \in Requests, Respond(s, r) PROVE IInv'
  <2>1. /\ pending' = [pending EXCEPT ![s] = @ \ {r}]
        /\ answer' = Settle(pending[s] \cap {r}, "response")
        /\ UNCHANGED <<sockVars, bindings, outbox, congested, released, wire, call, route>>
    BY <1>1 DEF Respond
  <2>2. TypeOK'
    BY <1>0, <2>1, SettleType DEF TypeOK, sockVars, Answers
  <2>3. \A q \in Requests :
          answer'[q] = IF q = r /\ r \in pending[s] /\ answer[q] = "none"
                       THEN "response" ELSE answer[q]
    BY <2>1 DEF Settle
  <2>4. /\ PendingExact(call, pending)'
        /\ FreshUnanswered(call)'
        /\ ReleasedEmpty(pending)'
    <3>1. \A q \in Requests, p \in Sockets :
            q \in pending'[p] <=> q \in pending[p] /\ ~(q = r /\ p = s)
      BY <1>0, <2>1 DEF TypeOK
    <3>2. \A q \in Requests, p \in Sockets : q \in pending[p] <=>
            /\ route[q] = p
            /\ call[q] \in {"waiting", "woken", "returned"}
            /\ answer[q] = "none"
      BY <1>0 DEF PendingExact, ConnInv, Midway
    <3>3. \A q \in Requests, p \in Sockets : q \in pending'[p] <=>
            /\ route[q] = p
            /\ call[q] \in {"waiting", "woken", "returned"}
            /\ answer'[q] = "none"
      <4>1. TAKE q \in Requests, p \in Sockets
      <4>2. CASE q = r /\ r \in pending[s]
        BY <2>3, <3>1, <3>2, <4>2
      <4>3. CASE ~(q = r /\ r \in pending[s])
        BY <2>3, <3>1, <3>2, <4>3
      <4>4. QED BY <4>2, <4>3
    <3>4. PendingExact(call, pending)'
      BY <2>1, <3>3 DEF PendingExact
    <3>5. FreshUnanswered(call)'
      BY <1>0, <2>1, <2>3, <3>2 DEF FreshUnanswered, ConnInv, Midway
    <3>6. ReleasedEmpty(pending)'
      BY <1>0, <2>1 DEF ReleasedEmpty, ConnInv, Midway, TypeOK
    <3>7. QED BY <3>4, <3>5, <3>6
  <2>5. ConnInv'
    BY <1>0, <2>1, <2>2, <2>4
       DEF ConnInv, Midway, RouteKnown, WaitersBlocked, OutboxBounded, QueuedMeansCongested,
           RoutedOnly, TypeOK
  <2>6. RegistryInv'
    BY <1>0, <2>1, RegistryUnchanged
  <2>7. QED BY <2>2, <2>5, <2>6 DEF IInv
<1>2. ASSUME Drained(s) PROVE IInv'
  <2>1. /\ Flush(s, outbox[s], FALSE, call, pending)
        /\ UNCHANGED <<sockVars, bindings, route>>
    BY <1>2 DEF Drained
  <2>2. BoxOf(s, outbox[s])
    BY <1>0 DEF BoxOf, TypeOK, ConnInv, Midway, OutboxBounded, ReleasedEmpty, RoutedOnly
  <2>3. ConnInv'
    BY <1>0, <2>1, <2>2, FlushKeeps DEF ConnInv
  <2>4. TypeOK'
    BY <1>0, <2>1, FlushType DEF TypeOK, sockVars
  <2>5. RegistryInv'
    BY <1>0, <2>1, FlushReleases, RegistryUnchanged
  <2>6. QED BY <2>3, <2>4, <2>5 DEF IInv
<1>3. ASSUME Notify(s), UNCHANGED sockVars, bindings' \in [Bindings -> Installations \cup {None}]
      PROVE  IInv'
  <2>1. ConnInv'
    BY <1>0, <1>3, NotifyKeeps
  <2>2. TypeOK'
    BY <1>0, <1>3, NotifyType DEF TypeOK, sockVars
  <2>3. \A p \in Sockets : released[p] => released'[p]
    BY <1>0, <1>3, FlushReleases DEF Notify, connVars
  <2>4. RegistryInv'
    BY <1>0, <1>3, <2>3, RegistryUnchanged
  <2>5. QED BY <2>1, <2>2, <2>4 DEF IInv
<1>4. ASSUME ProtocolError(s) PROVE IInv'
  BY <1>0, <1>3, <1>4 DEF ProtocolError, TypeOK
<1>5. ASSUME NEW bs \in SUBSET Bindings, SyncBindings(s, bs) PROVE IInv'
  <2>1. CASE \E b \in bs : bindings[b] \notin {None, inst[s]}
    BY <1>0, <1>3, <1>5, <2>1 DEF SyncBindings, TypeOK
  <2>2. CASE ~(\E b \in bs : bindings[b] \notin {None, inst[s]})
    <3>1. /\ sock[s] = "attached"
          /\ bindings' = TakeBindings(inst[s], bs)
          /\ UNCHANGED <<connVars, callVars>> /\ UNCHANGED sockVars
      BY <1>5, <2>2 DEF SyncBindings
    <3>2. inst[s] \in Installations
      BY <1>0, <3>1 DEF RegistryInv
    <3>3. TypeOK'
      BY <1>0, <3>1, <3>2 DEF TypeOK, TakeBindings, sockVars, connVars, callVars
    <3>4. RegistryInv'
      BY <1>0, <3>1, RegistryUnchanged DEF connVars
    <3>5. QED BY <1>0, <3>1, <3>3, <3>4, ConnUnchanged DEF IInv
  <2>3. QED BY <2>1, <2>2
<1>6. QED BY <1>1, <1>2, <1>4, <1>5

\* A socket's life: it opens, proves who it is or is refused, and closes.
LEMMA SocketKeeps ==
  ASSUME IInv, NEW s \in Sockets,
         \/ Open(s) \/ RefuseSocket(s) \/ Closed(s)
         \/ \E i \in Installations : Authenticate(s, i)
  PROVE  IInv'
<1>0. TypeOK /\ ConnInv /\ RegistryInv
  BY DEF IInv
<1>1. ASSUME Open(s) \/ RefuseSocket(s) PROVE IInv'
  <2>1. /\ sock[s] \in {"unused", "challenged"}
        /\ \/ sock[s] = "unused" /\ sock' = [sock EXCEPT ![s] = "challenged"]
           \/ sock' = [sock EXCEPT ![s] = "closing"]
        /\ UNCHANGED <<up, inst, registry, bindings, connVars, callVars>>
    BY <1>1 DEF Open, RefuseSocket
  <2>2. TypeOK'
    BY <1>0, <2>1 DEF TypeOK, SocketStates, connVars, callVars
  <2>3. RegistryInv'
    BY <1>0, <2>1 DEF RegistryInv, RegistryIsCurrent, OneLiveConnection, connVars, TypeOK
  <2>4. QED BY <1>0, <2>1, <2>2, <2>3, ConnUnchanged DEF IInv
<1>2. ASSUME NEW ss \in SUBSET Sockets, Release(ss, call, pending),
             UNCHANGED <<congested, wire, route>>
      PROVE  /\ ConnInv'
             /\ released' \in [Sockets -> BOOLEAN]
             /\ outbox' \in [Sockets -> Seq(Frames)]
             /\ pending' \in [Sockets -> SUBSET Requests]
             /\ answer' \in [Requests -> Answers]
             /\ call' \in [Requests -> CallStates]
  <2>1. /\ Midway(call, pending)'
        /\ OutboxBounded'
        /\ \A p \in Sockets : outbox'[p] = outbox[p] \/ outbox'[p] = <<>>
    BY <1>0, <1>2, ReleaseKeeps DEF ConnInv
  <2>2. RoutedOnly' /\ \A p \in Sockets : QueuedMeansCongested(p)'
    BY <1>0, <1>2, <2>1, LenProperties DEF RoutedOnly, QueuedMeansCongested, ConnInv
  <2>3. QED BY <1>0, <1>2, <2>1, <2>2, ReleaseType DEF ConnInv, Midway
<1>3. ASSUME Closed(s) PROVE IInv'
  <2>1. /\ sock' = [sock EXCEPT ![s] = "closed"]
        /\ Release(IF inst[s] = None THEN {} ELSE {s}, call, pending)
        /\ registry' = IF inst[s] = None THEN registry ELSE Detach(s)
        /\ UNCHANGED <<up, inst, bindings, congested, wire, route>>
    BY <1>3 DEF Closed
  <2>2. TypeOK'
    BY <1>0, <1>2, <2>1 DEF TypeOK, SocketStates, Detach
  <2>3. \A p \in Sockets : released[p] => released'[p]
    BY <2>1 DEF Release
  <2>4. \A i \in Installations :
          registry'[i] = IF registry[i] = s THEN None ELSE registry[i]
    BY <1>0, <2>1, NoneAssumption DEF Detach, RegistryInv, RegistryIsCurrent, TypeOK
  <2>5. RegistryInv'
    BY <1>0, <2>1, <2>3, <2>4 DEF RegistryInv, RegistryIsCurrent, OneLiveConnection, TypeOK
  <2>6. QED BY <1>2, <2>1, <2>2, <2>5 DEF IInv
<1>4. ASSUME NEW i \in Installations, Authenticate(s, i) PROVE IInv'
  <2> DEFINE replaced == {p \in Sockets : p = registry[i] /\ ~released[p]}
  <2>1. /\ sock[s] = "challenged"
        /\ sock' = [p \in Sockets |->
                      IF p = s THEN "attached" ELSE IF p \in replaced THEN "closing" ELSE sock[p]]
        /\ inst' = [inst EXCEPT ![s] = i]
        /\ registry' = [registry EXCEPT ![i] = s]
        /\ Release(replaced, call, pending)
        /\ UNCHANGED <<up, bindings, congested, wire, route>>
    BY <1>4 DEF Authenticate
  <2>2. TypeOK'
    BY <1>0, <1>2, <2>1 DEF TypeOK, SocketStates
  <2>3. \A p \in Sockets : released[p] => released'[p]
    BY <2>1 DEF Release
  <2>4. \A p \in Sockets : sock'[p] # "attached" \/ p = s \/ (sock[p] = "attached" /\ p \notin replaced)
    BY <2>1
  <2>5. RegistryIsCurrent'
    <3>0. SUFFICES ASSUME NEW j \in Installations, registry'[j] # None
                   PROVE  inst'[registry'[j]] = j /\ sock'[registry'[j]] = "attached"
      BY DEF RegistryIsCurrent
    <3>1. CASE j = i
      BY <1>0, <2>1, <3>1 DEF TypeOK
    <3>2. CASE j # i
      <4>1. registry'[j] = registry[j]
        BY <1>0, <2>1, <3>2 DEF TypeOK
      <4>2. registry[j] \in Sockets /\ inst[registry[j]] = j /\ sock[registry[j]] = "attached"
        BY <1>0, <3>0, <4>1 DEF RegistryInv, RegistryIsCurrent, TypeOK
      <4>3. registry[j] # s /\ registry[j] \notin replaced
        <5>1. registry[j] # s
          BY <1>0, <2>1, <4>2 DEF RegistryInv
        <5>2. registry[i] \in Sockets => inst[registry[i]] = i
          BY <1>0, NoneAssumption DEF RegistryInv, RegistryIsCurrent
        <5>3. QED BY <3>2, <4>2, <5>1, <5>2
      <4>4. QED BY <1>0, <2>1, <4>1, <4>2, <4>3 DEF TypeOK
    <3>3. QED BY <3>1, <3>2
  <2>6. OneLiveConnection'
    <3>0. SUFFICES ASSUME NEW p \in Sockets, sock'[p] = "attached", ~released'[p]
                   PROVE  registry'[inst'[p]] = p
      BY DEF OneLiveConnection
    <3>1. CASE p = s
      BY <1>0, <2>1, <3>1 DEF TypeOK
    <3>2. CASE p # s
      <4>1. sock[p] = "attached" /\ p \notin replaced /\ ~released[p]
        BY <2>3, <2>4, <3>0, <3>2
      <4>2. registry[inst[p]] = p /\ inst[p] \in Installations
        BY <1>0, <4>1 DEF RegistryInv, OneLiveConnection
      <4>3. inst[p] # i
        BY <4>1, <4>2
      <4>4. QED BY <1>0, <2>1, <3>2, <4>2, <4>3 DEF TypeOK
    <3>3. QED BY <3>1, <3>2
  <2>7. RegistryInv'
    BY <1>0, <2>1, <2>4, <2>5, <2>6 DEF RegistryInv, TypeOK
  <2>8. QED BY <1>2, <2>1, <2>2, <2>7 DEF IInv
<1>5. QED BY <1>1, <1>3, <1>4

\* A webhook arrives, and the Relay stops.
LEMMA ServerKeeps ==
  ASSUME IInv, Stop \/ \E r \in Requests, b \in Bindings : Forward(r, b)
  PROVE  IInv'
<1>0. TypeOK /\ ConnInv /\ RegistryInv
  BY DEF IInv
<1>1. ASSUME Stop PROVE IInv'
  <2> DEFINE registered == {s \in Sockets : \E i \in Installations : registry[i] = s}
  <2>1. /\ up' = FALSE
        /\ registry' = [i \in Installations |-> None]
        /\ sock' = [s \in Sockets |->
                      IF sock[s] \in {"challenged", "attached"} THEN "closing" ELSE sock[s]]
        /\ Release(registered, call, pending)
        /\ UNCHANGED <<inst, bindings, congested, wire, route>>
    BY <1>1 DEF Stop
  <2>2. /\ Midway(call, pending)'
        /\ OutboxBounded'
        /\ \A p \in Sockets : outbox'[p] = outbox[p] \/ outbox'[p] = <<>>
    BY <1>0, <2>1, ReleaseKeeps DEF ConnInv
  <2>3. RoutedOnly' /\ \A p \in Sockets : QueuedMeansCongested(p)'
    BY <1>0, <2>1, <2>2, LenProperties DEF RoutedOnly, QueuedMeansCongested, ConnInv
  <2>4. TypeOK'
    BY <1>0, <2>1, ReleaseType DEF TypeOK, SocketStates
  <2>5. RegistryInv'
    BY <1>0, <2>1 DEF RegistryInv, RegistryIsCurrent, OneLiveConnection, TypeOK
  <2>6. QED BY <2>2, <2>3, <2>4, <2>5 DEF IInv, ConnInv
<1>2. ASSUME NEW r \in Requests, NEW b \in Bindings, Forward(r, b) PROVE IInv'
  <2> DEFINE owner == bindings[b]
             connection == IF owner = None THEN None ELSE registry[owner]
  <2>1. call[r] = "idle" /\ UNCHANGED <<sockVars, bindings, connVars>>
    BY <1>2 DEF Forward
  <2>2. route[r] = None /\ answer[r] = "none"
    BY <1>0, <2>1 DEF ConnInv, Midway, RouteKnown, FreshUnanswered
  <2>3. \A s \in Sockets : r \notin pending[s]
    BY <1>0, <2>1 DEF ConnInv, Midway, PendingExact
  <2>4. RegistryInv'
    BY <1>0, <2>1, RegistryUnchanged DEF connVars
  <2>5. CASE connection = None
    <3>1. /\ call' = [call EXCEPT ![r] = "returned"]
          /\ answer' = Settle({r}, IF owner = None THEN "notFound" ELSE "offline")
          /\ route' = route
      BY <1>2, <2>5 DEF Forward
    <3>2. \E a \in {"notFound", "offline"} : answer' = [answer EXCEPT ![r] = a]
      BY <1>0, <2>2, <3>1 DEF Settle, TypeOK
    <3>3. TypeOK'
      BY <1>0, <2>1, <3>1, <3>2 DEF TypeOK, sockVars, connVars, CallStates, Answers
    <3>4. ConnInv'
      <4>1. /\ answer'[r] # "none" /\ call'[r] = "returned"
            /\ \A q \in Requests \ {r} : answer'[q] = answer[q] /\ call'[q] = call[q]
        BY <1>0, <3>1, <3>2 DEF TypeOK
      <4>2. RouteKnown(call)' /\ WaitersBlocked(call)' /\ FreshUnanswered(call)'
        BY <1>0, <2>1, <3>1, <4>1
           DEF connVars, RouteKnown, WaitersBlocked, FreshUnanswered, ConnInv, Midway
      <4>3. PendingExact(call, pending)'
        BY <1>0, <2>1, <2>3, <3>1, <4>1 DEF connVars, PendingExact, ConnInv, Midway
      <4>4. ReleasedEmpty(pending)' /\ call' \in [Requests -> CallStates]
        BY <1>0, <2>1, <3>3 DEF connVars, ReleasedEmpty, ConnInv, Midway, TypeOK
      <4>5. QED
        BY <1>0, <2>1, <3>1, <4>2, <4>3, <4>4
           DEF connVars, ConnInv, Midway, OutboxBounded, QueuedMeansCongested, RoutedOnly
    <3>5. QED BY <2>4, <3>3, <3>4 DEF IInv
  <2>6. CASE connection # None
    <3>1. /\ call' = [call EXCEPT ![r] = "reading"]
          /\ route' = [route EXCEPT ![r] = connection]
          /\ answer' = answer
      BY <1>2, <2>6 DEF Forward
    <3>2. connection \in Sockets
      BY <1>0, <2>6 DEF TypeOK
    <3>3. TypeOK'
      BY <1>0, <2>1, <3>1, <3>2 DEF TypeOK, sockVars, connVars, CallStates
    <3>4. \A s \in Sockets : r \notin wire[s] /\ \A k \in 1..Len(outbox[s]) : outbox[s][k] # r
      BY <1>0, <2>2, NoneAssumption DEF ConnInv, RoutedOnly
    <3>5. RoutedOnly'
      BY <1>0, <2>1, <3>1, <3>4 DEF RoutedOnly, ConnInv, connVars, TypeOK
    <3>6. Midway(call, pending)'
      BY <1>0, <2>1, <2>2, <2>3, <3>1, <3>2, <3>3
         DEF connVars, ConnInv, Midway, RouteKnown, WaitersBlocked, PendingExact, FreshUnanswered,
             ReleasedEmpty, TypeOK
    <3>7. ConnInv'
      BY <1>0, <2>1, <3>5, <3>6 DEF connVars, ConnInv, OutboxBounded, QueuedMeansCongested
    <3>8. QED BY <2>4, <3>3, <3>7 DEF IInv
  <2>7. QED BY <2>5, <2>6
<1>3. QED BY <1>1, <1>2

----------------------------------------------------------------------------
(* The theorems *)

LEMMA InitInv == Init => IInv
  BY CapacityAssumption, EmptySeq, NoneAssumption, LenProperties
     DEF Init, IInv, TypeOK, ConnInv, RegistryInv, Midway, RouteKnown, WaitersBlocked, PendingExact,
         FreshUnanswered, ReleasedEmpty, OutboxBounded, QueuedMeansCongested, RoutedOnly,
         RegistryIsCurrent, OneLiveConnection, SocketStates, CallStates, Answers

LEMMA StepInv == IInv /\ [Next]_vars => IInv'
<1> SUFFICES ASSUME IInv, [Next]_vars PROVE IInv'
  OBVIOUS
<1>1. CASE UNCHANGED vars
  <2>1. UNCHANGED <<sockVars, bindings, connVars, callVars>>
    BY <1>1 DEF vars
  <2>2. ConnInv'
    BY <2>1, ConnUnchanged DEF IInv
  <2>3. RegistryInv'
    BY <2>1, RegistryUnchanged DEF IInv, connVars
  <2>4. QED BY <2>1, <2>2, <2>3 DEF IInv, TypeOK, sockVars, connVars, callVars
<1>2. ASSUME NEW s \in Sockets, Open(s) \/ RefuseSocket(s) \/ Closed(s)
                                  \/ \E i \in Installations : Authenticate(s, i)
      PROVE IInv'
  BY <1>2, SocketKeeps
<1>3. ASSUME NEW s \in Sockets, \/ \E r \in Requests : Respond(s, r)
                                \/ Drained(s) \/ ProtocolError(s)
                                \/ \E bs \in SUBSET Bindings : SyncBindings(s, bs)
      PROVE IInv'
  BY <1>3, FrameKeeps
<1>4. ASSUME NEW r \in Requests,
             Deliver(r) \/ Resume(r) \/ DeliveryTimeout(r) \/ SpaceTimeout(r)
      PROVE IInv'
  BY <1>4, DeliveryKeeps
<1>5. ASSUME Stop \/ \E r \in Requests, b \in Bindings : Forward(r, b) PROVE IInv'
  BY <1>5, ServerKeeps
<1>6. QED BY <1>1, <1>2, <1>3, <1>4, <1>5 DEF Next

\* The inductive invariant holds in every reachable state.
THEOREM RelayInvariant == Spec => []IInv
<1>1. QED BY InitInv, StepInv, PTL DEF Spec

\* Type correctness of the Relay.
THEOREM RelayTypeOK == Spec => []TypeOK
<1>1. IInv => TypeOK
  BY DEF IInv
<1>2. QED BY RelayInvariant, <1>1, PTL

\* A coroutine that waits for space waits on a live Connection with a full outbox, so
\* no wake-up is lost whichever of drain, drop, close and replacement came between, and
\* frames wait only while the socket is congested.
THEOREM RelayWorkConserving == Spec => []WorkConserving
<1>1. IInv => WorkConserving
  BY DEF IInv, ConnInv, Midway, WaitersBlocked, ReleasedEmpty, QueuedMeansCongested, WorkConserving
<1>2. QED BY RelayInvariant, <1>1, PTL

\* The outbox of a Connection is bounded by OUTBOX_CAPACITY.
THEOREM RelayOutboxBounded == Spec => []OutboxBounded
<1>1. IInv => OutboxBounded
  BY DEF IInv, ConnInv
<1>2. QED BY RelayInvariant, <1>1, PTL

\* The pending map of a Connection holds the delivered webhooks nobody has answered, and
\* only those: a released Connection leaves no provider without an answer.
THEOREM RelayPendingIsUnanswered == Spec => []PendingIsUnanswered
<1>1. IInv => PendingIsUnanswered
  BY DEF IInv, ConnInv, Midway, PendingExact, PendingIsUnanswered
<1>2. QED BY RelayInvariant, <1>1, PTL

\* One live Connection per installation, the one the registry routes to.
THEOREM RelayRegistryIsExact == Spec => []RegistryIsExact
<1>1. IInv => RegistryIsExact
  BY DEF IInv, RegistryInv, RegistryIsExact
<1>2. QED BY RelayInvariant, <1>1, PTL

\* The frame of a webhook leaves only through the socket forward() looked up for it.
THEOREM RelayRoutedOnly == Spec => []RoutedOnly
<1>1. IInv => RoutedOnly
  BY DEF IInv, ConnInv
<1>2. QED BY RelayInvariant, <1>1, PTL

----------------------------------------------------------------------------
(* Frames and answers. What flush() takes was never handed over, because a webhook is  *)
(* queued by the one pass of enqueue() that returns, and a webhook that is answered as *)
(* unknown never has a Connection.                                                     *)

\* A webhook that is queued or was handed over has left enqueue().
QueuedReturned ==
  \A s \in Sockets, r \in Requests :
    r \in wire[s] \/ (\E k \in 1..Len(outbox[s]) : outbox[s][k] = r) => call[r] = "returned"

NotFoundUnrouted == \A r \in Requests : answer[r] = "notFound" => route[r] = None

FrameInv == NoFrameTwice /\ QueuedReturned /\ NotFoundUnrouted

\* What flush() needs of a box for s: its frames are distinct, were not handed over and
\* have left enqueue().
FreshBox(s, box, calls) ==
  /\ BoxOf(s, box)
  /\ \A k \in 1..Len(box) : box[k] \notin wire[s]
  /\ \A k, l \in 1..Len(box) : box[k] = box[l] /\ box[k] # Notice => k = l
  /\ \A k \in 1..Len(box) : box[k] \in Requests => calls[box[k]] = "returned"
  /\ \A r \in Requests : call[r] = "returned" => calls[r] = "returned"

\* A step in which flush() of s runs.
FlushStep(s) ==
  \E box \in Seq(Frames), isCongested \in BOOLEAN, calls \in [Requests -> CallStates],
     pend \in [Sockets -> SUBSET Requests] :
    FreshBox(s, box, calls) /\ Flush(s, box, isCongested, calls, pend) /\ route' = route

\* A step in which no frame leaves: outboxes may be emptied and rs told "offline".
OfflineStep(rs) ==
  /\ answer' = Settle(rs, "offline")
  /\ UNCHANGED <<wire, route>>
  /\ \A s \in Sockets : outbox'[s] \in {outbox[s], <<>>}
  /\ \A r \in Requests : call[r] = "returned" => call'[r] = "returned"

OfflineSteps == \E rs \in SUBSET Requests : OfflineStep(rs)

LEMMA NobodyOffline ==
  ASSUME TypeOK, UNCHANGED <<answer, wire, outbox, route>>,
         \A r \in Requests : call[r] = "returned" => call'[r] = "returned"
  PROVE  OfflineSteps
<1>1. answer' = Settle({}, "offline")
  BY DEF TypeOK, Settle
<1>2. OfflineStep({})
  BY <1>1 DEF OfflineStep
<1>3. QED BY <1>2 DEF OfflineSteps

LEMMA ReleaseIsOffline ==
  ASSUME TypeOK, NEW ss \in SUBSET Sockets, NEW calls \in [Requests -> CallStates],
         NEW pend \in [Sockets -> SUBSET Requests], Release(ss, calls, pend)
  PROVE  /\ \E rs \in SUBSET Requests : answer' = Settle(rs, "offline")
         /\ \A r \in Requests : calls[r] = "returned" => call'[r] = "returned"
         /\ \A s \in Sockets : outbox'[s] \in {outbox[s], <<>>}
         /\ \A s \in ss : ~released[s] => outbox'[s] = <<>>
         /\ \A s \in Sockets \ ss : outbox'[s] = outbox[s]
<1> DEFINE live == {s \in ss : ~released[s]}
           rs == UNION {pend[s] : s \in live}
<1>1. rs \in SUBSET Requests
  BY DEF TypeOK
<1>2. answer' = Settle(rs, "offline")
  BY DEF Release
<1>3. \A r \in Requests : calls[r] = "returned" => call'[r] = "returned"
  BY DEF Release, WakeWaiters
<1>4. outbox' = [s \in Sockets |-> IF s \in live THEN <<>> ELSE outbox[s]]
  BY DEF Release
<1>5. \E qs \in SUBSET Requests : answer' = Settle(qs, "offline")
  BY <1>1, <1>2
<1>6. QED BY <1>3, <1>4, <1>5

LEMMA ReleaseStep ==
  ASSUME TypeOK, NEW ss \in SUBSET Sockets, Release(ss, call, pending),
         UNCHANGED <<wire, route>>
  PROVE  OfflineSteps
<1>1. call \in [Requests -> CallStates] /\ pending \in [Sockets -> SUBSET Requests]
  BY DEF TypeOK
<1>2. QED BY <1>1, ReleaseIsOffline DEF OfflineSteps, OfflineStep

\* What flush() does to the frames: the first m leave, and the first n or all are gone.
LEMMA FlushEffect ==
  ASSUME TypeOK, NEW s \in Sockets, NEW box \in Seq(Frames), BoxOf(s, box),
         NEW isCongested \in BOOLEAN, NEW calls \in [Requests -> CallStates],
         NEW pend \in [Sockets -> SUBSET Requests],
         Flush(s, box, isCongested, calls, pend)
  PROVE  /\ \E rs \in SUBSET Requests : answer' = Settle(rs, "offline")
         /\ \A r \in Requests : calls[r] = "returned" => call'[r] = "returned"
         /\ \A p \in Sockets \ {s} : outbox'[p] = outbox[p] /\ wire'[p] = wire[p]
         /\ \E n \in 0..Len(box) : \E m \in 0..n :
              /\ wire'[s] = wire[s] \cup ({box[k] : k \in 1..m} \ {Notice})
              /\ outbox'[s] = <<>> \/ outbox'[s] = Rest(box, n)
<1> DEFINE Taken(sent) == IF sent.end = "dropped" THEN sent.shifted - 1 ELSE sent.shifted
<1>1. PICK sent \in SendLoop(box, isCongested) :
        /\ wire' = [wire EXCEPT ![s] = @ \cup ({box[k] : k \in 1..Taken(sent)} \ {Notice})]
        /\ IF sent.end = "dropped"
           THEN Release({s}, calls, pend)
           ELSE /\ outbox' = [outbox EXCEPT ![s] = Rest(box, sent.shifted)]
                /\ call' = IF Len(Rest(box, sent.shifted)) < Capacity
                           THEN WakeWaiters({s}, calls) ELSE calls
                /\ UNCHANGED <<released, answer>>
  BY DEF Flush
<1>2. /\ sent.shifted \in 0..Len(box)
      /\ sent.end = "dropped" => sent.shifted >= 1
  BY SendLoopProperties
<1>3. Taken(sent) \in 0..sent.shifted /\ Len(box) \in Nat
  BY <1>2, LenProperties
<1>4. /\ wire'[s] = wire[s] \cup ({box[k] : k \in 1..Taken(sent)} \ {Notice})
      /\ \A p \in Sockets \ {s} : wire'[p] = wire[p]
  BY <1>1 DEF TypeOK
<1>5. CASE sent.end = "dropped"
  <2>1. box # <<>>
    BY <1>2, <1>5, <1>3, EmptySeq
  <2>2. ~released[s]
    BY <2>1 DEF BoxOf
  <2>3. Release({s}, calls, pend) /\ {s} \in SUBSET Sockets
    BY <1>1, <1>5
  <2>4. QED BY <1>2, <1>3, <1>4, <2>2, <2>3, ReleaseIsOffline
<1>6. CASE sent.end # "dropped"
  <2>1. answer' = Settle({}, "offline")
    BY <1>1, <1>6 DEF TypeOK, Settle
  <2>2. \A r \in Requests : calls[r] = "returned" => call'[r] = "returned"
    BY <1>1, <1>6 DEF WakeWaiters
  <2>3. outbox'[s] = Rest(box, sent.shifted) /\ \A p \in Sockets \ {s} : outbox'[p] = outbox[p]
    BY <1>1, <1>6 DEF TypeOK
  <2>4. QED BY <1>2, <1>3, <1>4, <2>1, <2>2, <2>3
<1>7. QED BY <1>5, <1>6

LEMMA FlushKeepsFrames ==
  ASSUME IInv, FrameInv, NEW s \in Sockets, FlushStep(s)
  PROVE  FrameInv'
<1>0. TypeOK
  BY DEF IInv
<1>1. PICK box \in Seq(Frames), isCongested \in BOOLEAN, calls \in [Requests -> CallStates],
           pend \in [Sockets -> SUBSET Requests] :
        FreshBox(s, box, calls) /\ Flush(s, box, isCongested, calls, pend) /\ route' = route
  BY DEF FlushStep
<1>2. /\ \E rs \in SUBSET Requests : answer' = Settle(rs, "offline")
      /\ \A r \in Requests : calls[r] = "returned" => call'[r] = "returned"
      /\ \A p \in Sockets \ {s} : outbox'[p] = outbox[p] /\ wire'[p] = wire[p]
      /\ \E n \in 0..Len(box) : \E m \in 0..n :
           /\ wire'[s] = wire[s] \cup ({box[k] : k \in 1..m} \ {Notice})
           /\ outbox'[s] = <<>> \/ outbox'[s] = Rest(box, n)
  <2>1. BoxOf(s, box)
    BY <1>1 DEF FreshBox
  <2>2. QED BY <1>0, <1>1, <2>1, FlushEffect
<1>3. PICK n \in 0..Len(box) : \E m \in 0..n :
        /\ wire'[s] = wire[s] \cup ({box[k] : k \in 1..m} \ {Notice})
        /\ outbox'[s] = <<>> \/ outbox'[s] = Rest(box, n)
  BY <1>2
<1>4. PICK m \in 0..n :
        /\ wire'[s] = wire[s] \cup ({box[k] : k \in 1..m} \ {Notice})
        /\ outbox'[s] = <<>> \/ outbox'[s] = Rest(box, n)
  BY <1>3
<1>5. /\ Len(box) \in Nat
      /\ \A k \in 1..Len(box) : box[k] \notin wire[s]
      /\ \A k, l \in 1..Len(box) : box[k] = box[l] /\ box[k] # Notice => k = l
      /\ \A k \in 1..Len(box) : box[k] \in Requests => calls[box[k]] = "returned"
      /\ \A r \in Requests : call[r] = "returned" => calls[r] = "returned"
  BY <1>1, LenProperties DEF FreshBox
\* What is left of the box lies beyond what was taken from it.
<1>6. \A k \in 1..Len(outbox'[s]) :
        k + n \in 1..Len(box) /\ k + n > m /\ outbox'[s][k] = box[k + n]
  <2>1. CASE outbox'[s] = <<>>
    BY <2>1, LenProperties, EmptySeq
  <2>2. CASE outbox'[s] = Rest(box, n)
    BY <1>5, <2>2, RestProperties
  <2>3. QED BY <1>4, <2>1, <2>2
<1>7. \A p \in Sockets, r \in Requests :
        r \in wire'[p] => r \in wire[p] \/ (p = s /\ \E k \in 1..Len(box) : box[k] = r)
  <2>1. \A r \in Requests : r \in wire'[s] => r \in wire[s] \/ \E k \in 1..m : box[k] = r
    BY <1>4
  <2>2. QED BY <1>2, <1>5, <2>1
<1>8. \A p \in Sockets : \A k \in 1..Len(outbox'[p]) : outbox'[p][k] \notin wire'[p]
  <2>1. TAKE p \in Sockets
  <2>2. CASE p # s
    BY <1>2, <2>2 DEF FrameInv, NoFrameTwice
  <2>3. CASE p = s
    <3>1. SUFFICES ASSUME NEW k \in 1..Len(outbox'[s]), outbox'[s][k] \in wire'[s] PROVE FALSE
      BY <2>3
    <3>2. k + n \in 1..Len(box) /\ k + n > m /\ outbox'[s][k] = box[k + n]
      BY <1>6
    <3>3. box[k + n] \notin wire[s]
      BY <1>5, <3>2
    <3>4. PICK l \in 1..m : box[l] = box[k + n] /\ box[l] # Notice
      BY <1>4, <3>1, <3>2, <3>3
    <3>5. l \in 1..Len(box)
      BY <1>5
    <3>6. QED BY <1>5, <3>2, <3>4, <3>5
  <2>4. QED BY <2>2, <2>3
<1>9. \A p \in Sockets : \A k, l \in 1..Len(outbox'[p]) :
        outbox'[p][k] = outbox'[p][l] /\ outbox'[p][k] # Notice => k = l
  <2>1. TAKE p \in Sockets
  <2>2. CASE p # s
    BY <1>2, <2>2 DEF FrameInv, NoFrameTwice
  <2>3. CASE p = s
    <3>1. SUFFICES ASSUME NEW k \in 1..Len(outbox'[s]), NEW l \in 1..Len(outbox'[s]),
                          outbox'[s][k] = outbox'[s][l], outbox'[s][k] # Notice
                   PROVE  k = l
      BY <2>3
    <3>2. k + n = l + n
      BY <1>5, <1>6, <3>1
    <3>3. k \in Int /\ l \in Int
      OBVIOUS
    <3>4. QED BY <3>2, <3>3
  <2>4. QED BY <2>2, <2>3
<1>10. QueuedReturned'
  <2>1. SUFFICES ASSUME NEW p \in Sockets, NEW r \in Requests,
                        r \in wire'[p] \/ (\E k \in 1..Len(outbox'[p]) : outbox'[p][k] = r)
                 PROVE  call'[r] = "returned"
    BY DEF QueuedReturned
  <2>2. \/ r \in wire[p] \/ (\E k \in 1..Len(outbox[p]) : outbox[p][k] = r)
        \/ \E k \in 1..Len(box) : box[k] = r
    <3>1. CASE r \in wire'[p]
      BY <1>7, <3>1
    <3>2. CASE \E k \in 1..Len(outbox'[p]) : outbox'[p][k] = r
      <4>1. CASE p = s
        BY <1>6, <3>2, <4>1
      <4>2. CASE p # s
        BY <1>2, <3>2, <4>2
      <4>3. QED BY <4>1, <4>2
    <3>3. QED BY <2>1, <3>1, <3>2
  <2>3. calls[r] = "returned"
    BY <1>5, <2>2 DEF FrameInv, QueuedReturned
  <2>4. QED BY <1>2, <2>3
<1>11. NotFoundUnrouted'
  BY <1>1, <1>2 DEF FrameInv, NotFoundUnrouted, Settle
<1>12. QED BY <1>8, <1>9, <1>10, <1>11 DEF FrameInv, NoFrameTwice

LEMMA OfflineKeepsFrames ==
  ASSUME FrameInv, OfflineSteps
  PROVE  FrameInv'
<1>1. PICK rs \in SUBSET Requests : OfflineStep(rs)
  BY DEF OfflineSteps
<1>2. \A s \in Sockets : Len(outbox'[s]) = 0 \/ outbox'[s] = outbox[s]
  BY <1>1, EmptySeq, LenProperties DEF OfflineStep
<1>3. NoFrameTwice'
  BY <1>1, <1>2 DEF OfflineStep, FrameInv, NoFrameTwice
<1>4. QueuedReturned'
  BY <1>1, <1>2 DEF OfflineStep, FrameInv, QueuedReturned
<1>5. NotFoundUnrouted'
  BY <1>1 DEF OfflineStep, FrameInv, NotFoundUnrouted, Settle
<1>6. QED BY <1>3, <1>4, <1>5 DEF FrameInv

\* notify() may flush what waits, with its notice behind it.
LEMMA NotifyStep ==
  ASSUME IInv, FrameInv, NEW s \in Sockets, Notify(s)
  PROVE  FlushStep(s) \/ OfflineSteps
<1>0. TypeOK /\ ConnInv
  BY DEF IInv
<1>1. CASE released[s] \/ Len(outbox[s]) >= Capacity
  BY <1>0, <1>1, NobodyOffline DEF Notify, connVars, callVars
<1>2. CASE ~(released[s] \/ Len(outbox[s]) >= Capacity)
  <2> DEFINE box == Append(outbox[s], Notice)
  <2>1. BoxOf(s, box)
    BY <1>0, <1>2, AppendProperties, LenProperties, CapacityAssumption, NoticeAssumption
       DEF BoxOf, TypeOK, Frames, ConnInv, RoutedOnly
  <2>2. /\ Len(box) = Len(outbox[s]) + 1 /\ Len(outbox[s]) \in Nat
        /\ \A k \in 1..Len(outbox[s]) : box[k] = outbox[s][k]
        /\ box[Len(box)] = Notice /\ box \in Seq(Frames)
    BY <1>0, AppendProperties, LenProperties DEF TypeOK, Frames
  <2>3. wire[s] \subseteq Requests
    BY <1>0 DEF TypeOK
  <2>4. FreshBox(s, box, call)
    <3> HIDE DEF box
    <3>1. \A k \in 1..Len(box) : k = Len(box) \/ k \in 1..Len(outbox[s])
      BY <2>2
    <3>2. QED
      BY <2>1, <2>2, <2>3, <3>1, NoticeAssumption
         DEF FreshBox, FrameInv, NoFrameTwice, QueuedReturned
  <2>5. Flush(s, box, congested[s], call, pending) /\ route' = route
    BY <1>2 DEF Notify
  <2>6. /\ congested[s] \in BOOLEAN /\ call \in [Requests -> CallStates]
        /\ pending \in [Sockets -> SUBSET Requests]
    BY <1>0 DEF TypeOK
  <2> HIDE DEF box
  <2>7. QED BY <2>2, <2>4, <2>5, <2>6 DEF FlushStep
<1>3. QED BY <1>1, <1>2

\* enqueue() flushes what waits, with its own webhook behind it, and returns.
LEMMA EnqueueStep ==
  ASSUME IInv, FrameInv, NEW r \in Requests, NEW s \in Sockets, s = route[r],
         ~released[s], call[r] \in {"reading", "woken"},
         NEW pend \in [Sockets -> SUBSET Requests],
         Enqueue(s, r, pend), route' = route
  PROVE  FlushStep(s) \/ OfflineSteps
<1>0. TypeOK /\ ConnInv
  BY DEF IInv
<1>1. CASE Len(outbox[s]) >= Capacity
  <2>1. \A q \in Requests : call[q] = "returned" => call'[q] = "returned"
    BY <1>0, <1>1 DEF Enqueue, TypeOK
  <2>2. UNCHANGED <<answer, wire, outbox, route>>
    BY <1>1 DEF Enqueue
  <2>3. QED BY <1>0, <2>1, <2>2, NobodyOffline
<1>2. CASE ~(Len(outbox[s]) >= Capacity)
  <2> DEFINE box == Append(outbox[s], r)
             calls == [call EXCEPT ![r] = "returned"]
  <2>1. BoxOf(s, box)
    BY <1>0, <1>2, AppendProperties, LenProperties, CapacityAssumption
       DEF BoxOf, TypeOK, Frames, ConnInv, RoutedOnly
  <2>2. /\ Len(box) = Len(outbox[s]) + 1 /\ Len(outbox[s]) \in Nat
        /\ \A k \in 1..Len(outbox[s]) : box[k] = outbox[s][k]
        /\ box[Len(box)] = r /\ box \in Seq(Frames)
    BY <1>0, AppendProperties, LenProperties DEF TypeOK, Frames
  <2>3. r \notin wire[s] /\ \A k \in 1..Len(outbox[s]) : outbox[s][k] # r
    BY DEF FrameInv, QueuedReturned
  <2>4. /\ calls \in [Requests -> CallStates] /\ calls[r] = "returned"
        /\ \A q \in Requests : call[q] = "returned" => calls[q] = "returned"
    BY <1>0 DEF TypeOK, CallStates
  <2>5. Flush(s, box, congested[s], calls, pend)
    BY <1>2 DEF Enqueue
  <2> HIDE DEF box, calls
  <2>6. FreshBox(s, box, calls)
    <3>1. \A k \in 1..Len(box) : k = Len(box) \/ k \in 1..Len(outbox[s])
      BY <2>2
    <3>2. \A k \in 1..Len(box) : box[k] \notin wire[s]
      BY <2>2, <2>3, <3>1 DEF FrameInv, NoFrameTwice
    <3>3. \A k, l \in 1..Len(box) : box[k] = box[l] /\ box[k] # Notice => k = l
      BY <2>2, <2>3, <3>1 DEF FrameInv, NoFrameTwice
    <3>4. \A k \in 1..Len(box) : box[k] \in Requests => calls[box[k]] = "returned"
      BY <2>2, <2>4, <3>1 DEF FrameInv, QueuedReturned
    <3>5. QED BY <2>1, <2>4, <3>2, <3>3, <3>4 DEF FreshBox
  <2>7. congested[s] \in BOOLEAN
    BY <1>0 DEF TypeOK
  <2>8. QED BY <2>2, <2>4, <2>5, <2>6, <2>7 DEF FlushStep
<1>3. QED BY <1>1, <1>2

\* The steps that neither answer with the daemon's response nor look a Connection up.
LEMMA StepShape ==
  ASSUME IInv, FrameInv, [Next]_vars
  PROVE  \/ \E s \in Sockets : FlushStep(s)
         \/ OfflineSteps
         \/ \E s \in Sockets, r \in Requests : Respond(s, r)
         \/ \E r \in Requests, b \in Bindings : Forward(r, b)
<1>0. TypeOK /\ ConnInv
  BY DEF IInv
<1>1. CASE UNCHANGED vars
  BY <1>0, <1>1, NobodyOffline DEF vars, connVars, callVars
<1>2. ASSUME NEW s \in Sockets, Open(s) \/ RefuseSocket(s) PROVE OfflineSteps
  BY <1>0, <1>2, NobodyOffline DEF Open, RefuseSocket, connVars, callVars
<1>3. ASSUME NEW s \in Sockets, Closed(s) PROVE OfflineSteps
  BY <1>0, <1>3, ReleaseStep DEF Closed
<1>4. ASSUME NEW s \in Sockets, NEW i \in Installations, Authenticate(s, i) PROVE OfflineSteps
  BY <1>0, <1>4, ReleaseStep DEF Authenticate
<1>5. ASSUME Stop PROVE OfflineSteps
  BY <1>0, <1>5, ReleaseStep DEF Stop
<1>6. ASSUME NEW s \in Sockets, Drained(s) PROVE FlushStep(s)
  <2>1. BoxOf(s, outbox[s])
    BY <1>0 DEF BoxOf, TypeOK, ConnInv, Midway, OutboxBounded, ReleasedEmpty, RoutedOnly
  <2>2. FreshBox(s, outbox[s], call)
    BY <2>1 DEF FreshBox, FrameInv, NoFrameTwice, QueuedReturned
  <2>3. /\ outbox[s] \in Seq(Frames) /\ call \in [Requests -> CallStates]
        /\ pending \in [Sockets -> SUBSET Requests]
    BY <1>0 DEF TypeOK
  <2>4. QED BY <1>6, <2>2, <2>3 DEF Drained, FlushStep
<1>7. ASSUME NEW s \in Sockets, ProtocolError(s) PROVE FlushStep(s) \/ OfflineSteps
  BY <1>7, NotifyStep DEF ProtocolError
<1>8. ASSUME NEW s \in Sockets, NEW bs \in SUBSET Bindings, SyncBindings(s, bs)
      PROVE  FlushStep(s) \/ OfflineSteps
  <2>1. CASE Notify(s)
    BY <2>1, NotifyStep
  <2>2. CASE UNCHANGED <<connVars, callVars>>
    BY <1>0, <2>2, NobodyOffline DEF connVars, callVars
  <2>3. QED BY <1>8, <2>1, <2>2 DEF SyncBindings
<1>9. ASSUME NEW r \in Requests, Deliver(r) PROVE FlushStep(route[r]) \/ OfflineSteps
  <2>1. route[r] \in Sockets /\ call[r] = "reading"
    BY <1>0, <1>9 DEF Deliver, ConnInv, Midway, RouteKnown
  <2>2. CASE released[route[r]]
    <3>1. OfflineStep({r})
      BY <1>0, <1>9, <2>2 DEF Deliver, OfflineStep, connVars, TypeOK
    <3>2. QED BY <3>1 DEF OfflineSteps
  <2>3. CASE ~released[route[r]]
    <3>1. Enqueue(route[r], r, [pending EXCEPT ![route[r]] = @ \cup {r}]) /\ route' = route
      BY <1>9, <2>3 DEF Deliver
    <3>2. [pending EXCEPT ![route[r]] = @ \cup {r}] \in [Sockets -> SUBSET Requests]
      BY <1>0 DEF TypeOK
    <3>3. QED BY <2>1, <2>3, <3>1, <3>2, EnqueueStep
  <2>4. QED BY <2>2, <2>3
<1>10. ASSUME NEW r \in Requests, Resume(r) PROVE FlushStep(route[r]) \/ OfflineSteps
  <2>1. route[r] \in Sockets /\ call[r] = "woken"
    BY <1>0, <1>10 DEF Resume, ConnInv, Midway, RouteKnown
  <2>2. CASE released[route[r]]
    <3>1. OfflineStep({r})
      BY <1>0, <1>10, <2>2 DEF Resume, OfflineStep, TypeOK
    <3>2. QED BY <3>1 DEF OfflineSteps
  <2>3. CASE ~released[route[r]]
    <3>1. Enqueue(route[r], r, pending) /\ route' = route
      BY <1>10, <2>3 DEF Resume
    <3>2. pending \in [Sockets -> SUBSET Requests]
      BY <1>0 DEF TypeOK
    <3>3. QED BY <2>1, <2>3, <3>1, <3>2, EnqueueStep
  <2>4. QED BY <2>2, <2>3
<1>11. ASSUME NEW r \in Requests, DeliveryTimeout(r) \/ SpaceTimeout(r) PROVE OfflineSteps
  <2>1. OfflineStep({r})
    BY <1>0, <1>11 DEF DeliveryTimeout, SpaceTimeout, OfflineStep, TypeOK
  <2>2. QED BY <2>1 DEF OfflineSteps
<1>12. \A r \in Requests : Deliver(r) \/ Resume(r) => route[r] \in Sockets
  BY <1>0 DEF Deliver, Resume, ConnInv, Midway, RouteKnown
<1>13. QED
  BY <1>1, <1>2, <1>3, <1>4, <1>5, <1>6, <1>7, <1>8, <1>9, <1>10, <1>11, <1>12 DEF Next

LEMMA FrameInit == Init => FrameInv
  BY LenProperties, EmptySeq DEF Init, FrameInv, NoFrameTwice, QueuedReturned, NotFoundUnrouted

LEMMA FrameStep == IInv /\ FrameInv /\ [Next]_vars => FrameInv'
<1> SUFFICES ASSUME IInv, FrameInv, [Next]_vars PROVE FrameInv'
  OBVIOUS
<1>0. TypeOK /\ ConnInv
  BY DEF IInv
<1>1. ASSUME NEW s \in Sockets, NEW r \in Requests, Respond(s, r) PROVE FrameInv'
  <2>1. UNCHANGED <<outbox, wire, call, route>>
        /\ \A q \in Requests : answer'[q] = "notFound" => answer[q] = "notFound"
    BY <1>1 DEF Respond, Settle
  <2>2. QED BY <2>1 DEF FrameInv, NoFrameTwice, QueuedReturned, NotFoundUnrouted
<1>2. ASSUME NEW r \in Requests, NEW b \in Bindings, Forward(r, b) PROVE FrameInv'
  <2>1. call[r] = "idle" /\ UNCHANGED <<outbox, wire>>
    BY <1>2 DEF Forward, connVars
  <2>2. /\ \A q \in Requests \ {r} : call'[q] = call[q] /\ route'[q] = route[q]
        /\ \A q \in Requests \ {r} : answer'[q] = answer[q]
        /\ answer'[r] = "notFound" => route'[r] = None \/ answer[r] = "notFound"
    <3>1. route[r] = None
      BY <1>0, <2>1 DEF ConnInv, Midway, RouteKnown
    <3>2. QED BY <1>0, <1>2, <3>1 DEF Forward, Settle, TypeOK
  <2>3. answer[r] = "none"
    BY <1>0, <2>1 DEF ConnInv, Midway, FreshUnanswered
  <2>4. \A s \in Sockets : r \notin wire[s] /\ \A k \in 1..Len(outbox[s]) : outbox[s][k] # r
    BY <2>1 DEF FrameInv, QueuedReturned
  <2>5. QED BY <2>1, <2>2, <2>3, <2>4 DEF FrameInv, NoFrameTwice, QueuedReturned, NotFoundUnrouted
<1>3. QED BY <1>1, <1>2, StepShape, FlushKeepsFrames, OfflineKeepsFrames

----------------------------------------------------------------------------
(* The refinement: a step of the Relay is a step of WebhookExchange, or leaves the *)
(* exchange as it was.                                                             *)

Handed == UNION {wire[s] : s \in Sockets}

\* A step that tells rs, and nobody else, that the installation is offline.
LEMMA HandsOver ==
  ASSUME NEW out \in SUBSET Requests, \A r \in out : answer[r] # "notFound",
         Handed' = Handed \cup out,
         NEW rs \in SUBSET Requests, answer' = Settle(rs, "offline")
  PROVE  Exchange!Next
<1>1. PICK offline \in SUBSET Exchange!Unanswered : offline = {r \in rs : answer[r] = "none"}
  BY DEF Exchange!Unanswered
<1>2. answer' = [r \in Requests |-> IF r \in offline THEN "offline" ELSE answer[r]]
  BY <1>1 DEF Settle
<1>3. Exchange!HandOver(out, offline)
  BY <1>2 DEF Exchange!HandOver, Handed
<1>4. QED BY <1>1, <1>3 DEF Exchange!Next

LEMMA FlushImplements ==
  ASSUME IInv, FrameInv, NEW s \in Sockets, FlushStep(s)
  PROVE  Exchange!Next
<1>0. TypeOK
  BY DEF IInv
<1>1. PICK box \in Seq(Frames), isCongested \in BOOLEAN, calls \in [Requests -> CallStates],
           pend \in [Sockets -> SUBSET Requests] :
        FreshBox(s, box, calls) /\ Flush(s, box, isCongested, calls, pend) /\ route' = route
  BY DEF FlushStep
<1>2. BoxOf(s, box) /\ Len(box) \in Nat
  BY <1>1, LenProperties DEF FreshBox
<1>3. /\ \E rs \in SUBSET Requests : answer' = Settle(rs, "offline")
      /\ \A p \in Sockets \ {s} : wire'[p] = wire[p]
      /\ \E n \in 0..Len(box) : \E m \in 0..n :
           wire'[s] = wire[s] \cup ({box[k] : k \in 1..m} \ {Notice})
  <2>1. Flush(s, box, isCongested, calls, pend) /\ BoxOf(s, box)
    BY <1>1, <1>2
  <2>2. /\ \E rs \in SUBSET Requests : answer' = Settle(rs, "offline")
        /\ \A p \in Sockets \ {s} : outbox'[p] = outbox[p] /\ wire'[p] = wire[p]
        /\ \E n \in 0..Len(box) : \E m \in 0..n :
             /\ wire'[s] = wire[s] \cup ({box[k] : k \in 1..m} \ {Notice})
             /\ outbox'[s] = <<>> \/ outbox'[s] = Rest(box, n)
    BY <1>0, <2>1, FlushEffect
  <2>3. QED BY <2>2
<1>4. PICK n \in 0..Len(box) : \E m \in 0..n :
        wire'[s] = wire[s] \cup ({box[k] : k \in 1..m} \ {Notice})
  BY <1>3
<1>5. PICK m \in 0..n : wire'[s] = wire[s] \cup ({box[k] : k \in 1..m} \ {Notice})
  BY <1>4
<1> DEFINE out == {box[k] : k \in 1..m} \ {Notice}
<1>6. \A r \in out : r \in Requests /\ route[r] = s
  <2>1. TAKE r \in out
  <2>2. PICK k \in 1..m : box[k] = r /\ r # Notice
    OBVIOUS
  <2>3. k \in 1..Len(box)
    BY <1>2
  <2>4. r \in Requests
    BY <2>2, <2>3, ElementOfSeq DEF Frames
  <2>5. QED BY <1>2, <2>2, <2>3, <2>4 DEF BoxOf
<1>7. \A r \in out : answer[r] # "notFound"
  BY <1>6, NoneAssumption DEF FrameInv, NotFoundUnrouted
<1>8. Handed' = Handed \cup out
  BY <1>3, <1>5 DEF Handed
<1>9. out \in SUBSET Requests
  BY <1>6
<1> HIDE DEF out
<1>10. QED BY <1>3, <1>7, <1>8, <1>9, HandsOver

LEMMA OfflineImplements ==
  ASSUME OfflineSteps
  PROVE  Exchange!Next
<1>1. PICK rs \in SUBSET Requests : OfflineStep(rs)
  BY DEF OfflineSteps
<1>2. Handed' = Handed \cup {} /\ answer' = Settle(rs, "offline")
  BY <1>1 DEF OfflineStep, Handed
<1> DEFINE out == {}
<1>3. out \in SUBSET Requests /\ (\A r \in out : answer[r] # "notFound") /\ Handed' = Handed \cup out
  BY <1>2
<1> HIDE DEF out
<1>4. QED BY <1>2, <1>3, HandsOver

LEMMA RespondImplements ==
  ASSUME IInv, NEW s \in Sockets, NEW r \in Requests, Respond(s, r)
  PROVE  Exchange!Next \/ UNCHANGED Exchange!vars
<1>0. TypeOK
  BY DEF IInv
<1>1. /\ r \in wire[s] /\ UNCHANGED wire
      /\ answer' = Settle(pending[s] \cap {r}, "response")
  BY DEF Respond
<1>2. r \in Handed /\ Handed' = Handed
  BY <1>1 DEF Handed
<1>3. CASE r \in pending[s] /\ answer[r] = "none"
  <2>1. answer' = [answer EXCEPT ![r] = "response"]
    BY <1>0, <1>1, <1>3 DEF Settle, TypeOK
  <2>2. Exchange!Respond(r) /\ r \in Exchange!Unanswered
    BY <1>2, <1>3, <2>1 DEF Exchange!Respond, Exchange!Unanswered, Handed
  <2>3. QED BY <2>2 DEF Exchange!Next
<1>4. CASE ~(r \in pending[s] /\ answer[r] = "none")
  <2>1. answer' = answer
    BY <1>0, <1>1, <1>4 DEF Settle, TypeOK
  <2>2. QED BY <1>2, <2>1 DEF Exchange!vars, Handed
<1>5. QED BY <1>3, <1>4

LEMMA ForwardImplements ==
  ASSUME IInv, FrameInv, NEW r \in Requests, NEW b \in Bindings, Forward(r, b)
  PROVE  Exchange!Next \/ UNCHANGED Exchange!vars
<1>0. TypeOK /\ ConnInv
  BY DEF IInv
<1>1. call[r] = "idle" /\ UNCHANGED wire
  BY DEF Forward, connVars
<1>2. answer[r] = "none"
  BY <1>0, <1>1 DEF ConnInv, Midway, FreshUnanswered
<1>3. r \notin Handed /\ Handed' = Handed
  BY <1>1 DEF Handed, FrameInv, QueuedReturned
<1>4. CASE answer' = Settle({r}, "notFound")
  <2>1. answer' = [answer EXCEPT ![r] = "notFound"]
    BY <1>0, <1>2, <1>4 DEF Settle, TypeOK
  <2>2. Exchange!NotFound(r) /\ r \in Exchange!Unanswered
    BY <1>2, <1>3, <2>1 DEF Exchange!NotFound, Exchange!Unanswered, Handed
  <2>3. QED BY <2>2 DEF Exchange!Next
<1>5. CASE answer' = Settle({r}, "offline")
  <2>1. Handed' = Handed \cup {} /\ {r} \in SUBSET Requests
    BY <1>3
  <2> DEFINE out == {}
  <2>2. out \in SUBSET Requests /\ (\A q \in out : answer[q] # "notFound") /\ Handed' = Handed \cup out
    BY <2>1
  <2> HIDE DEF out
  <2>3. QED BY <1>5, <2>1, <2>2, HandsOver
<1>6. CASE answer' = answer
  BY <1>3, <1>6 DEF Exchange!vars, Handed
<1>7. QED BY <1>4, <1>5, <1>6 DEF Forward

LEMMA InitImplements == Init => Exchange!Init
<1> SUFFICES ASSUME Init PROVE Exchange!Init
  OBVIOUS
<1>1. UNION {wire[s] : s \in Sockets} = {}
  BY DEF Init
<1>2. QED BY <1>1 DEF Init, Exchange!Init

LEMMA StepImplements == IInv /\ FrameInv /\ [Next]_vars => [Exchange!Next]_Exchange!vars
  BY StepShape, FlushImplements, OfflineImplements, RespondImplements, ForwardImplements

LEMMA FramesKept == Spec => [](IInv /\ FrameInv)
<1>1. QED BY InitInv, StepInv, FrameInit, FrameStep, PTL DEF Spec

\* A webhook's frame is handed to a socket at most once, however often flush() is run
\* and wherever backpressure or a drop cuts it off.
THEOREM RelayNoFrameTwice == Spec => []NoFrameTwice
<1>1. FrameInv => NoFrameTwice
  BY DEF FrameInv
<1>2. QED BY FramesKept, <1>1, PTL

\* The Relay implements the exchange a provider relies on: one answer that never changes,
\* the daemon's only for a webhook that was handed over, and none handed over that no
\* installation owns.
THEOREM RelayImplementsExchange == Spec => ImplementsExchange
<1>1. QED BY InitImplements, StepImplements, FramesKept, PTL DEF Spec, ImplementsExchange, Exchange!Spec
=============================================================================
