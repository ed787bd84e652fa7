---------------------------------- MODULE Relay ----------------------------------
(***************************************************************************)
(* The Relay server: one Connection per authenticated socket, the registry *)
(* that keeps one socket per installation, and the webhook requests that   *)
(* wait in a Connection for the local daemon's answer                      *)
(* (apps/relay/src/connection.ts, server.ts, store.ts).                    *)
(*                                                                         *)
(* JavaScript runs a task to completion and then drains the microtask      *)
(* queue. A task here is an action; a coroutine that a task resumed        *)
(* ("woken") is the only thing that may run before the next task           *)
(* (NoMicrotask). The order of the woken coroutines is left open.          *)
(* Clocks are abstracted: a timer may fire at any moment it is armed.      *)
(* Signatures are abstracted: a socket either proves one installation's    *)
(* key or proves none.                                                     *)
(*                                                                         *)
(* A definition that no action uses is a defective variant of the one that *)
(* follows it, named for its defect. The mutation runs put it in that      *)
(* one's place to see a property fail.                                     *)
(***************************************************************************)
EXTENDS Naturals, Sequences

CONSTANTS
  Sockets,        \* WebSockets, each used for one connection
  Installations,  \* enrolled installations
  Bindings,       \* Binding IDs the installations route
  Requests,       \* provider webhooks
  Notice,         \* an error frame of the Relay (any wording)
  None,           \* "undefined" / NULL
  Capacity        \* OUTBOX_CAPACITY

ASSUME CapacityAssumption == Capacity \in Nat \ {0}
ASSUME NoticeAssumption == Notice \notin Requests
ASSUME NoneAssumption == None \notin Sockets \cup Installations

VARIABLES
  up,         \* the server has not been stopped
  sock,       \* life cycle of a socket
  inst,       \* socket.data.installationId
  registry,   \* inMemoryRegistry: installation -> its socket
  bindings,   \* RelayStore: binding -> owning installation
  outbox,     \* Connection.outbox
  congested,  \* Connection.congested
  released,   \* Connection.released
  pending,    \* Connection.pending (its keys)
  wire,       \* the requests whose frame the socket took
  call,       \* where the forward() of a request is
  route,      \* the Connection forward() captured
  answer      \* the HTTP answer of a request

sockVars == <<up, sock, inst, registry>>
connVars == <<outbox, congested, released, pending, wire>>
callVars == <<call, route, answer>>
vars == <<sockVars, bindings, connVars, callVars>>

SocketStates == {"unused", "challenged", "attached", "closing", "closed"}
CallStates == {"idle", "reading", "waiting", "woken", "returned"}
Answers == {"none", "offline", "response", "notFound"}
Frames == Requests \cup {Notice}

TypeOK ==
  /\ up \in BOOLEAN
  /\ sock \in [Sockets -> SocketStates]
  /\ inst \in [Sockets -> Installations \cup {None}]
  /\ registry \in [Installations -> Sockets \cup {None}]
  /\ bindings \in [Bindings -> Installations \cup {None}]
  /\ outbox \in [Sockets -> Seq(Frames)]
  /\ congested \in [Sockets -> BOOLEAN]
  /\ released \in [Sockets -> BOOLEAN]
  /\ pending \in [Sockets -> SUBSET Requests]
  /\ wire \in [Sockets -> SUBSET Requests]
  /\ call \in [Requests -> CallStates]
  /\ route \in [Requests -> Sockets \cup {None}]
  /\ answer \in [Requests -> Answers]

Init ==
  /\ up = TRUE
  /\ sock = [s \in Sockets |-> "unused"]
  /\ inst = [s \in Sockets |-> None]
  /\ registry = [i \in Installations |-> None]
  /\ bindings = [b \in Bindings |-> None]
  /\ outbox = [s \in Sockets |-> <<>>]
  /\ congested = [s \in Sockets |-> FALSE]
  /\ released = [s \in Sockets |-> FALSE]
  /\ pending = [s \in Sockets |-> {}]
  /\ wire = [s \in Sockets |-> {}]
  /\ call = [r \in Requests |-> "idle"]
  /\ route = [r \in Requests |-> None]
  /\ answer = [r \in Requests |-> "none"]

NoMicrotask == \A r \in Requests : call[r] # "woken"

----------------------------------------------------------------------------
(* Connection *)

\* wakeWaiters(): every enqueue() of a Connection in ss that waits for space resumes.
WakeWaiters(ss, calls) ==
  [r \in Requests |->
     IF route[r] \in ss /\ calls[r] = "waiting" THEN "woken" ELSE calls[r]]

\* settle(): a pending request gets its result; a settled one keeps the first.
Settle(rs, result) ==
  [r \in Requests |-> IF r \in rs /\ answer[r] = "none" THEN result ELSE answer[r]]

\* release() of the Connections in ss; `calls` and `pend` are the caller's own step.
ReleaseWithoutSettling(ss, calls, pend) ==
  LET live == {s \in ss : ~released[s]}
  IN  /\ released' = [s \in Sockets |-> released[s] \/ s \in live]
      /\ outbox' = [s \in Sockets |-> IF s \in live THEN <<>> ELSE outbox[s]]
      /\ pending' = [s \in Sockets |-> IF s \in live THEN {} ELSE pend[s]]
      /\ answer' = answer
      /\ call' = WakeWaiters(live, calls)

Release(ss, calls, pend) ==
  LET live == {s \in ss : ~released[s]}
  IN  /\ released' = [s \in Sockets |-> released[s] \/ s \in live]
      /\ outbox' = [s \in Sockets |-> IF s \in live THEN <<>> ELSE outbox[s]]
      /\ pending' = [s \in Sockets |-> IF s \in live THEN {} ELSE pend[s]]
      /\ answer' = Settle(UNION {pend[s] : s \in live}, "offline")
      /\ call' = WakeWaiters(live, calls)

\* The send loop of flush() on `box`: how many frames it shifts and why it ends.
\* Bun's send() takes the frame, takes it and reports backpressure, or drops it.
SendLoop(box, isCongested) ==
  IF isCongested
  THEN {[shifted |-> 0, end |-> "congested"]}
  ELSE {[shifted |-> Len(box), end |-> "empty"]}
         \cup [shifted : 1..Len(box), end : {"congested", "dropped"}]

\* What is left in the outbox after n frames were shifted.
RestKeepingLast(box, n) == SubSeq(box, IF n = 0 THEN 1 ELSE n, Len(box))

Rest(box, n) == SubSeq(box, n + 1, Len(box))

\* flush(), with the outbox, pending map and coroutines as its caller left them.
FlushWithoutWaking(s, box, isCongested, calls, pend) ==
  \E sent \in SendLoop(box, isCongested) :
    LET dropped == sent.end = "dropped"
        taken == IF dropped THEN sent.shifted - 1 ELSE sent.shifted
        rest == Rest(box, sent.shifted)
    IN  /\ wire' = [wire EXCEPT ![s] = @ \cup ({box[k] : k \in 1..taken} \ {Notice})]
        /\ congested' = [congested EXCEPT ![s] = sent.end = "congested"]
        /\ IF dropped
           THEN Release({s}, calls, pend)
           ELSE /\ outbox' = [outbox EXCEPT ![s] = rest]
                /\ pending' = pend
                /\ call' = calls
                /\ UNCHANGED <<released, answer>>

Flush(s, box, isCongested, calls, pend) ==
  \E sent \in SendLoop(box, isCongested) :
    LET dropped == sent.end = "dropped"
        taken == IF dropped THEN sent.shifted - 1 ELSE sent.shifted
        rest == Rest(box, sent.shifted)
    IN  /\ wire' = [wire EXCEPT ![s] = @ \cup ({box[k] : k \in 1..taken} \ {Notice})]
        /\ congested' = [congested EXCEPT ![s] = sent.end = "congested"]
        /\ IF dropped
           THEN Release({s}, calls, pend)
           ELSE /\ outbox' = [outbox EXCEPT ![s] = rest]
                /\ pending' = pend
                /\ call' = IF Len(rest) < Capacity THEN WakeWaiters({s}, calls) ELSE calls
                /\ UNCHANGED <<released, answer>>

\* notify(): an error frame is dropped rather than queued in a full outbox.
NotifyAsPending(s) ==
  IF released[s] \/ Len(outbox[s]) >= Capacity
  THEN UNCHANGED <<connVars, callVars>>
  ELSE /\ Flush(s, Append(outbox[s], Notice), congested[s], call,
                [pending EXCEPT ![s] = @ \cup {Notice}])
       /\ UNCHANGED route

Notify(s) ==
  IF released[s] \/ Len(outbox[s]) >= Capacity
  THEN UNCHANGED <<connVars, callVars>>
  ELSE /\ Flush(s, Append(outbox[s], Notice), congested[s], call, pending)
       /\ UNCHANGED route

\* One pass of enqueue()'s loop for request r, after deliver() or a wake-up.
EnqueueLate(s, r, pend) ==
  IF Len(outbox[s]) > Capacity
  THEN /\ call' = [call EXCEPT ![r] = "waiting"]
       /\ pending' = pend
       /\ UNCHANGED <<outbox, congested, released, wire, answer>>
  ELSE Flush(s, Append(outbox[s], r), congested[s], [call EXCEPT ![r] = "returned"], pend)

Enqueue(s, r, pend) ==
  IF Len(outbox[s]) >= Capacity
  THEN /\ call' = [call EXCEPT ![r] = "waiting"]
       /\ pending' = pend
       /\ UNCHANGED <<outbox, congested, released, wire, answer>>
  ELSE Flush(s, Append(outbox[s], r), congested[s], [call EXCEPT ![r] = "returned"], pend)

\* deliver(), once forward() has the body: it is on the Connection looked up before.
Deliver(r) ==
  /\ NoMicrotask
  /\ call[r] = "reading"
  /\ LET s == route[r] IN
     IF released[s]
     THEN /\ answer' = Settle({r}, "offline")
          /\ call' = [call EXCEPT ![r] = "returned"]
          /\ UNCHANGED connVars
     ELSE Enqueue(s, r, [pending EXCEPT ![s] = @ \cup {r}])
  /\ UNCHANGED <<sockVars, bindings, route>>

\* A woken enqueue() looks again: the Connection may be gone, or full once more.
ResumeOnCurrent(r) ==
  /\ call[r] = "woken"
  /\ LET s == registry[inst[route[r]]] IN
     IF s = None
     THEN /\ answer' = Settle({r}, "offline")
          /\ call' = [call EXCEPT ![r] = "returned"]
          /\ pending' = [pending EXCEPT ![route[r]] = @ \ {r}]
          /\ UNCHANGED <<outbox, congested, released, wire>>
     ELSE Enqueue(s, r, pending)
  /\ UNCHANGED <<sockVars, bindings, route>>

Resume(r) ==
  /\ call[r] = "woken"
  /\ LET s == route[r] IN
     IF released[s]
     THEN /\ answer' = Settle({r}, "offline")
          /\ call' = [call EXCEPT ![r] = "returned"]
          /\ pending' = [pending EXCEPT ![s] = @ \ {r}]
          /\ UNCHANGED <<outbox, congested, released, wire>>
     ELSE Enqueue(s, r, pending)
  /\ UNCHANGED <<sockVars, bindings, route>>

\* The deadline of deliver(): the provider is answered, the frame may still leave.
DeliveryTimeout(r) ==
  /\ NoMicrotask
  /\ route[r] # None
  /\ r \in pending[route[r]]
  /\ pending' = [pending EXCEPT ![route[r]] = @ \ {r}]
  /\ answer' = Settle({r}, "offline")
  /\ UNCHANGED <<sockVars, bindings, outbox, congested, released, wire, call, route>>

\* The deadline of waitForSpace(): enqueue() gives up and deliver() settles.
SpaceTimeout(r) ==
  /\ NoMicrotask
  /\ call[r] = "waiting"
  /\ call' = [call EXCEPT ![r] = "returned"]
  /\ pending' = [pending EXCEPT ![route[r]] = @ \ {r}]
  /\ answer' = Settle({r}, "offline")
  /\ UNCHANGED <<sockVars, bindings, outbox, congested, released, wire, route>>

\* webhook_response: respond() settles the request if this Connection has it pending.
RespondToAny(s, r) ==
  /\ NoMicrotask
  /\ sock[s] = "attached"
  /\ r \in wire[s]
  /\ pending' = [pending EXCEPT ![s] = @ \ {r}]
  /\ answer' = [answer EXCEPT ![r] = "response"]
  /\ UNCHANGED <<sockVars, bindings, outbox, congested, released, wire, call, route>>

Respond(s, r) ==
  /\ NoMicrotask
  /\ sock[s] = "attached"
  /\ r \in wire[s]
  /\ pending' = [pending EXCEPT ![s] = @ \ {r}]
  /\ answer' = Settle(pending[s] \cap {r}, "response")
  /\ UNCHANGED <<sockVars, bindings, outbox, congested, released, wire, call, route>>

\* The socket's buffer emptied: drained() clears the congestion and flushes.
Drained(s) ==
  /\ NoMicrotask
  /\ sock[s] = "attached"
  /\ Flush(s, outbox[s], FALSE, call, pending)
  /\ UNCHANGED <<sockVars, bindings, route>>

----------------------------------------------------------------------------
(* Sockets, the registry and the routes *)

\* websocket.open: a nonce is sent and the authentication timer armed.
Open(s) ==
  /\ NoMicrotask
  /\ up
  /\ sock[s] = "unused"
  /\ sock' = [sock EXCEPT ![s] = "challenged"]
  /\ UNCHANGED <<up, inst, registry, bindings, connVars, callVars>>

\* A first message that is no valid authenticate, or the authentication timer.
RefuseSocket(s) ==
  /\ NoMicrotask
  /\ sock[s] = "challenged"
  /\ sock' = [sock EXCEPT ![s] = "closing"]
  /\ UNCHANGED <<up, inst, registry, bindings, connVars, callVars>>

\* authenticate() and registry.attach(): the installation's previous Connection is
\* closed; close() returns early on one that was released before.
Authenticate(s, i) ==
  LET replaced == {p \in Sockets : p = registry[i] /\ ~released[p]}
  IN  /\ NoMicrotask
      /\ sock[s] = "challenged"
      /\ sock' = [p \in Sockets |->
                    IF p = s THEN "attached" ELSE IF p \in replaced THEN "closing" ELSE sock[p]]
      /\ inst' = [inst EXCEPT ![s] = i]
      /\ registry' = [registry EXCEPT ![i] = s]
      /\ Release(replaced, call, pending)
      /\ UNCHANGED <<up, bindings, congested, wire, route>>

\* registry.detach(): only the socket the registry still names is forgotten.
DetachAny(s) == [i \in Installations |-> IF i = inst[s] THEN None ELSE registry[i]]

Detach(s) == [i \in Installations |-> IF registry[i] = s THEN None ELSE registry[i]]

\* websocket.close, by the peer, the network or the Relay.
Closed(s) ==
  /\ NoMicrotask
  /\ sock[s] \in {"challenged", "attached", "closing"}
  /\ sock' = [sock EXCEPT ![s] = "closed"]
  /\ Release(IF inst[s] = None THEN {} ELSE {s}, call, pending)
  /\ registry' = IF inst[s] = None THEN registry ELSE Detach(s)
  /\ UNCHANGED <<up, inst, bindings, congested, wire, route>>

\* replaceBindings() in one transaction: binding_id is the primary key, so a Binding
\* of another installation aborts it; then nothing changes and the client is told.
TakeBindings(i, bs) ==
  [b \in Bindings |->
     IF b \in bs THEN i ELSE IF bindings[b] = i THEN None ELSE bindings[b]]

SyncBindings(s, bs) ==
  /\ NoMicrotask
  /\ sock[s] = "attached"
  /\ IF \E b \in bs : bindings[b] \notin {None, inst[s]}
     THEN Notify(s) /\ UNCHANGED bindings
     ELSE /\ bindings' = TakeBindings(inst[s], bs)
          /\ UNCHANGED <<connVars, callVars>>
  /\ UNCHANGED sockVars

\* A frame an authenticated socket may not send: it is told so.
ProtocolError(s) ==
  /\ NoMicrotask
  /\ sock[s] = "attached"
  /\ Notify(s)
  /\ UNCHANGED <<sockVars, bindings>>

\* forward() up to the await of the body: owner and Connection are looked up now.
Forward(r, b) ==
  /\ NoMicrotask
  /\ up
  /\ call[r] = "idle"
  /\ LET owner == bindings[b]
         connection == IF owner = None THEN None ELSE registry[owner]
     IN  IF connection = None
         THEN /\ call' = [call EXCEPT ![r] = "returned"]
              /\ answer' = Settle({r}, IF owner = None THEN "notFound" ELSE "offline")
              /\ UNCHANGED route
         ELSE /\ call' = [call EXCEPT ![r] = "reading"]
              /\ route' = [route EXCEPT ![r] = connection]
              /\ UNCHANGED answer
  /\ UNCHANGED <<sockVars, bindings, connVars>>

\* stop(): closeAll() on the registry, then the server closes every socket.
Stop ==
  LET registered == {s \in Sockets : \E i \in Installations : registry[i] = s}
  IN  /\ NoMicrotask
      /\ up
      /\ up' = FALSE
      /\ registry' = [i \in Installations |-> None]
      /\ sock' = [s \in Sockets |->
                    IF sock[s] \in {"challenged", "attached"} THEN "closing" ELSE sock[s]]
      /\ Release(registered, call, pending)
      /\ UNCHANGED <<inst, bindings, congested, wire, route>>

Next ==
  \/ \E s \in Sockets :
       \/ Open(s) \/ RefuseSocket(s) \/ Closed(s) \/ Drained(s) \/ ProtocolError(s)
       \/ \E i \in Installations : Authenticate(s, i)
       \/ \E bs \in SUBSET Bindings : SyncBindings(s, bs)
       \/ \E r \in Requests : Respond(s, r)
  \/ \E r \in Requests :
       \/ Deliver(r) \/ Resume(r) \/ DeliveryTimeout(r) \/ SpaceTimeout(r)
       \/ \E b \in Bindings : Forward(r, b)
  \/ Stop

\* Microtasks run and armed timers fire; nothing else has to happen.
Fairness ==
  \A r \in Requests :
    WF_vars(Resume(r)) /\ WF_vars(DeliveryTimeout(r)) /\ WF_vars(SpaceTimeout(r))

Spec == Init /\ [][Next]_vars /\ Fairness

----------------------------------------------------------------------------
(* Properties *)

\* No lost wake-up, no idle outbox: an enqueue() that waits for space waits on a live
\* Connection whose outbox is full, and frames wait only while the socket is congested.
WorkConserving ==
  /\ \A r \in Requests :
       call[r] = "waiting" => ~released[route[r]] /\ Len(outbox[route[r]]) = Capacity
  /\ \A s \in Sockets : outbox[s] # <<>> => congested[s] /\ ~released[s]

\* An outbox never grows past OUTBOX_CAPACITY, whichever enqueue() wins a freed slot.
OutboxBounded == \A s \in Sockets : Len(outbox[s]) <= Capacity

\* The pending map holds exactly the delivered requests nobody has answered: none is
\* forgotten when a Connection is released, and none is kept once it is answered.
PendingIsUnanswered ==
  \A r \in Requests, s \in Sockets :
    r \in pending[s] <=>
      /\ route[r] = s
      /\ call[r] \in {"waiting", "woken", "returned"}
      /\ answer[r] = "none"

\* A frame is handed to the socket at most once: what is still queued was not handed
\* over before, and nothing is queued twice.
NoFrameTwice ==
  \A s \in Sockets :
    /\ \A k \in 1..Len(outbox[s]) : outbox[s][k] \notin wire[s]
    /\ \A k, l \in 1..Len(outbox[s]) :
         outbox[s][k] = outbox[s][l] /\ outbox[s][k] # Notice => k = l

\* One installation has one live Connection, and it is the one webhooks are routed to;
\* a Connection that was replaced does not unregister its successor.
OneLiveConnection ==
  \A s \in Sockets : sock[s] = "attached" /\ ~released[s] => registry[inst[s]] = s

\* The registry names only open sockets of that installation.
RegistryIsCurrent ==
  \A i \in Installations :
    registry[i] # None => inst[registry[i]] = i /\ sock[registry[i]] = "attached"

\* The registry names exactly the live Connections, in whatever order sockets
\* authenticate, are replaced and deliver their close events.
RegistryIsExact == OneLiveConnection /\ RegistryIsCurrent

\* A webhook's frame leaves only through the socket it was routed to.
RoutedOnly ==
  \A s \in Sockets, r \in Requests :
    r \in wire[s] \/ (\E k \in 1..Len(outbox[s]) : outbox[s][k] = r) => route[r] = s

\* The Relay implements the exchange a provider relies on.
Exchange == INSTANCE WebhookExchange WITH handed <- UNION {wire[s] : s \in Sockets}
ImplementsExchange == Exchange!Spec

\* Every delivery ends: the provider is answered and enqueue() does not wait forever.
DeliveryEnds ==
  \A r \in Requests :
    call[r] \in {"waiting", "woken", "returned"}
      ~> call[r] = "returned" /\ answer[r] # "none"
=============================================================================
