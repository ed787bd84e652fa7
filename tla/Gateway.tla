--------------------------------- MODULE Gateway ---------------------------------
(***************************************************************************)
(* RelayClient (apps/cli/src/relay/client.ts), the timer that keeps the    *)
(* Relay's routes in step with the store (apps/cli/src/daemon.ts), and the *)
(* side of the protocol the Relay answers them with                        *)
(* (apps/relay/src/server.ts).                                             *)
(*                                                                         *)
(* One installation, whose identity and store every RelayClient shares:    *)
(* the daemon's, that of a second daemon, the one the wizard opens. A      *)
(* socket is in one of two places at a time, the client's readyState and   *)
(* the Relay's connection, and each side learns of the other's end when a  *)
(* frame or a close event arrives. Frames of one direction keep their      *)
(* order.                                                                  *)
(*                                                                         *)
(* Time is abstracted: the wait before a new attempt (250 ms, doubled up   *)
(* to 10 s) is some time. Webhooks are Relay's subject and appear only as  *)
(* a handler that throws: RelayClient answers them within one task.        *)
(*                                                                         *)
(* A definition that no action uses is a defective variant of the one that *)
(* follows it, named for its defect. The mutation runs put it in that      *)
(* one's place to see a property fail.                                     *)
(***************************************************************************)
EXTENDS Naturals, Sequences, FiniteSets

CONSTANTS
  Clients,     \* RelayClients of the installation
  Lives,       \* WebSockets a client has; one is used again after its end
  Bindings,    \* IDs of Bindings and setups
  None,        \* null
  MaxClosing,  \* bound: sockets still closing when a client opens the next
  MaxFaults    \* bound: faults of the network, the Relay, the keyring, a handler

ASSUME GatewayBoundsAssumption == MaxClosing \in Nat /\ MaxFaults \in Nat
ASSUME GatewayLivesAssumption == IsFiniteSet(Lives)
ASSUME GatewayNoneAssumption == None \notin Lives /\ None \notin Clients \X Lives

VARIABLES
  run,       \* where the loop of run() is
  stopping,  \* RelayClient.stopping
  life,      \* RelayClient.socket
  authed,    \* RelayClient.authenticated
  last,      \* the daemon's lastBindingSignature
  ready,     \* readyState; "broken" is a socket that failed, before its events
  seen,      \* connectOnce()'s own `authenticated`
  signing,   \* a challenge is being signed
  toClient,  \* frames on their way from the Relay
  toRelay,   \* frames on their way to the Relay
  conn,      \* the Relay's end of a socket
  registry,  \* the socket the Relay's registry names
  routes,    \* the Bindings the Relay routes to the installation
  enrolled,  \* the Relay knows the installation
  place,     \* where an ID is in the store
  faults     \* how many faults there were

clientVars == <<run, stopping, life, authed, last>>
socketVars == <<ready, seen, signing, toClient, toRelay>>
relayVars == <<conn, registry, routes, enrolled>>
vars == <<clientVars, socketVars, relayVars, place, faults>>

Sockets == Clients \X Lives
Running == {"reconnecting", "connecting", "backoff"}
LoopStates == Running \cup {"idle", "stopped", "refused"}
ReadyStates == {"closed", "connecting", "open", "closing", "broken"}
ConnStates == {"none", "challenged", "attached", "closed"}

\* What a client sends: its authentication, or the IDs it routes.
Frame == [type : {"authenticate", "sync_bindings"}, bindings : SUBSET Bindings]

TypeOK ==
  /\ run \in [Clients -> LoopStates]
  /\ stopping \in [Clients -> BOOLEAN]
  /\ life \in [Clients -> Lives \cup {None}]
  /\ authed \in [Clients -> BOOLEAN]
  /\ last \in [Clients -> SUBSET Bindings]
  /\ ready \in [Sockets -> ReadyStates]
  /\ seen \in [Sockets -> BOOLEAN]
  /\ signing \in [Sockets -> BOOLEAN]
  /\ toClient \in [Sockets -> Seq({"challenge", "authenticated", "error"})]
  /\ toRelay \in [Sockets -> Seq(Frame)]
  /\ conn \in [Sockets -> ConnStates]
  /\ registry \in Sockets \cup {None}
  /\ routes \subseteq Bindings
  /\ enrolled \in BOOLEAN
  /\ place \in [Bindings -> {"absent", "listed", "removed"}]
  /\ faults \in 0..MaxFaults

\* An enrolled installation whose clients have not started.
Init ==
  /\ run = [c \in Clients |-> "idle"]
  /\ stopping = [c \in Clients |-> FALSE]
  /\ life = [c \in Clients |-> None]
  /\ authed = [c \in Clients |-> FALSE]
  /\ last = [c \in Clients |-> {}]
  /\ ready = [s \in Sockets |-> "closed"]
  /\ seen = [s \in Sockets |-> FALSE]
  /\ signing = [s \in Sockets |-> FALSE]
  /\ toClient = [s \in Sockets |-> <<>>]
  /\ toRelay = [s \in Sockets |-> <<>>]
  /\ conn = [s \in Sockets |-> "none"]
  /\ registry = None
  /\ routes = {}
  /\ enrolled = TRUE
  /\ place = [b \in Bindings |-> "absent"]
  /\ faults = 0

\* listBindings(): the Bindings and the setups of the store.
Listed == {b \in Bindings : place[b] = "listed"}

Fault == faults < MaxFaults /\ faults' = faults + 1

----------------------------------------------------------------------------
(* The loop of run() *)

\* The promise of connectOnce() for socket s settles: only the first time, and only the
\* attempt the loop awaits counts. The loop ends instead once stop() was called.
Ends(s, how) ==
  [run EXCEPT ![s[1]] =
     IF @ = "connecting" /\ life[s[1]] = s[2]
     THEN IF stopping[s[1]] THEN "stopped" ELSE how
     ELSE @]

\* run(): the daemon starts once it has a Binding; the loop awaits its first attempt.
Run(c) ==
  /\ run[c] = "idle"
  /\ Listed # {}
  /\ run' = [run EXCEPT ![c] = "reconnecting"]
  /\ UNCHANGED <<stopping, life, authed, last, socketVars, relayVars, place, faults>>

\* connectOnce(): at once after an authenticated connection, else after the backoff.
Connect(c, l) ==
  LET s == <<c, l>> IN
  /\ run[c] \in {"reconnecting", "backoff"}
  /\ ~stopping[c]
  /\ ready[s] = "closed" /\ ~signing[s] /\ conn[s] \in {"none", "closed"}
  /\ Cardinality({k \in Lives : ready[<<c, k>>] \in {"closing", "broken"}}) <= MaxClosing
  /\ run' = [run EXCEPT ![c] = "connecting"]
  /\ life' = [life EXCEPT ![c] = l]
  /\ ready' = [ready EXCEPT ![s] = "connecting"]
  /\ seen' = [seen EXCEPT ![s] = FALSE]
  /\ conn' = [conn EXCEPT ![s] = "none"]
  /\ UNCHANGED <<stopping, authed, last, signing, toClient, toRelay, registry, routes,
                 enrolled, place, faults>>

\* The loop finds stopping set before another attempt.
LoopEnds(c) ==
  /\ run[c] \in {"reconnecting", "backoff"}
  /\ stopping[c]
  /\ run' = [run EXCEPT ![c] = "stopped"]
  /\ UNCHANGED <<stopping, life, authed, last, socketVars, relayVars, place, faults>>

\* close() on a socket: one that is ended already stays as it is.
CloseNothing(states, s) == states

Close(states, s) ==
  [states EXCEPT ![s] = IF @ \in {"connecting", "open"} THEN "closing" ELSE @]

\* stop(): the last socket is closed, the loop sees the flag when its await ends.
Stop(c) ==
  /\ run[c] \in Running
  /\ ~stopping[c]
  /\ stopping' = [stopping EXCEPT ![c] = TRUE]
  /\ ready' = IF life[c] = None THEN ready ELSE Close(ready, <<c, life[c]>>)
  /\ UNCHANGED <<run, life, authed, last, seen, signing, toClient, toRelay, relayVars,
                 place, faults>>

----------------------------------------------------------------------------
(* What the client sends *)

SyncFrame == [type |-> "sync_bindings", bindings |-> Listed]
Authentication == [type |-> "authenticate", bindings |-> {}]

\* send() on an open socket; what the Relay has closed its end for is lost.
Send(s, frame) ==
  toRelay' = [toRelay EXCEPT ![s] =
    IF conn[s] \in {"challenged", "attached"} THEN Append(@, frame) ELSE @]

CanSync(c) == authed[c] /\ life[c] # None /\ ready[<<c, life[c]>>] = "open"

\* The daemon's bindingSyncTimer: what it sent last is remembered, not what the Relay took.
SyncTimer(c) ==
  /\ run[c] \in Running
  /\ Listed # last[c]
  /\ CanSync(c)
  /\ last' = [last EXCEPT ![c] = Listed]
  /\ Send(<<c, life[c]>>, SyncFrame)
  /\ UNCHANGED <<run, stopping, life, authed, ready, seen, signing, toClient, relayVars,
                 place, faults>>

----------------------------------------------------------------------------
(* Events of a socket *)

\* A frame arrives; one that reaches a closing socket fires no event.
Arrives(s, frame) ==
  /\ ready[s] = "open"
  /\ toClient[s] # <<>>
  /\ Head(toClient[s]) = frame
  /\ toClient' = [toClient EXCEPT ![s] = Tail(@)]

\* challenge: the identity is read from the keyring and the nonce signed, meanwhile the
\* socket goes on.
OnChallenge(s) ==
  /\ Arrives(s, "challenge")
  /\ signing' = [signing EXCEPT ![s] = TRUE]
  /\ UNCHANGED <<clientVars, ready, seen, toRelay, relayVars, place, faults>>

\* The signature is there: it is sent, or send() throws because the socket is closing.
Signed(s) ==
  /\ signing[s]
  /\ signing' = [signing EXCEPT ![s] = FALSE]
  /\ IF ready[s] = "open"
     THEN Send(s, Authentication) /\ UNCHANGED run
     ELSE run' = Ends(s, "backoff") /\ UNCHANGED toRelay
  /\ UNCHANGED <<stopping, life, authed, last, ready, seen, toClient, relayVars, place,
                 faults>>

\* handleMessage() rejects with an error that is no refusal: the keyring cannot be read.
SigningFails(s) ==
  /\ signing[s]
  /\ Fault
  /\ signing' = [signing EXCEPT ![s] = FALSE]
  /\ ready' = Close(ready, s)
  /\ run' = Ends(s, "backoff")
  /\ UNCHANGED <<stopping, life, authed, last, seen, toClient, toRelay, relayVars, place>>

\* authenticated: the routes are sent on the last socket, then the state change is
\* recorded in the store, which may throw.
OnAuthenticatedSilently(s) ==
  LET c == s[1] IN
  /\ Arrives(s, "authenticated")
  /\ authed' = [authed EXCEPT ![c] = TRUE]
  /\ \/ /\ seen' = [seen EXCEPT ![s] = TRUE]
        /\ UNCHANGED <<ready, run, faults>>
     \/ /\ Fault
        /\ ready' = Close(ready, s)
        /\ run' = Ends(s, "backoff")
        /\ UNCHANGED seen
  /\ UNCHANGED <<stopping, life, last, signing, toRelay, relayVars, place>>

OnAuthenticated(s) ==
  LET c == s[1] IN
  /\ Arrives(s, "authenticated")
  /\ authed' = [authed EXCEPT ![c] = TRUE]
  /\ IF ready[<<c, life[c]>>] = "open"
     THEN Send(<<c, life[c]>>, SyncFrame) ELSE UNCHANGED toRelay
  /\ \/ /\ seen' = [seen EXCEPT ![s] = TRUE]
        /\ UNCHANGED <<ready, run, faults>>
     \/ /\ Fault
        /\ ready' = Close(ready, s)
        /\ run' = Ends(s, "backoff")
        /\ UNCHANGED seen
  /\ UNCHANGED <<stopping, life, last, signing, relayVars, place>>

\* error: whatever the Relay complains of is a refusal.
OnError(s) ==
  /\ Arrives(s, "error")
  /\ ready' = Close(ready, s)
  /\ run' = Ends(s, "refused")
  /\ UNCHANGED <<stopping, life, authed, last, seen, signing, toRelay, relayVars, place,
                 faults>>

\* The handler of a webhook throws: its error closes the socket and the attempt.
HandlerFails(s) ==
  /\ ready[s] = "open" /\ seen[s]
  /\ Fault
  /\ ready' = Close(ready, s)
  /\ run' = Ends(s, "backoff")
  /\ UNCHANGED <<stopping, life, authed, last, seen, signing, toClient, toRelay, relayVars,
                 place>>

\* The Relay's close frame arrives after its other frames.
PeerCloses(s) ==
  /\ ready[s] = "open"
  /\ conn[s] = "closed"
  /\ toClient[s] = <<>>
  /\ ready' = [ready EXCEPT ![s] = "closing"]
  /\ UNCHANGED <<clientVars, seen, signing, toClient, toRelay, relayVars, place, faults>>

\* The connection breaks; each side learns of it later.
Breaks(s) ==
  /\ ready[s] = "open"
  /\ Fault
  /\ ready' = [ready EXCEPT ![s] = "broken"]
  /\ UNCHANGED <<clientVars, seen, signing, toClient, toRelay, relayVars, place>>

\* close: a connection that had authenticated is replaced by the loop, another counts as
\* refused, unless an error event came first.
CloseEventForgetful(s) ==
  /\ ready[s] \in {"closing", "broken"}
  /\ ready' = [ready EXCEPT ![s] = "closed"]
  /\ toClient' = [toClient EXCEPT ![s] = <<>>]
  /\ \/ run' = Ends(s, IF seen[s] THEN "reconnecting" ELSE "refused")
     \/ ready[s] = "broken" /\ run' = Ends(s, "backoff")
  /\ UNCHANGED <<stopping, life, authed, last, seen, signing, toRelay, relayVars, place,
                 faults>>

CloseEvent(s) ==
  /\ ready[s] \in {"closing", "broken"}
  /\ ready' = [ready EXCEPT ![s] = "closed"]
  /\ toClient' = [toClient EXCEPT ![s] = <<>>]
  /\ authed' = [authed EXCEPT ![s[1]] = FALSE]
  /\ \/ run' = Ends(s, IF seen[s] THEN "reconnecting" ELSE "refused")
     \/ ready[s] = "broken" /\ run' = Ends(s, "backoff")
  /\ UNCHANGED <<stopping, life, last, seen, signing, toRelay, relayVars, place, faults>>

\* The Relay cannot be reached: the error event comes first.
ConnectFails(s) ==
  /\ ready[s] = "connecting"
  /\ Fault
  /\ ready' = [ready EXCEPT ![s] = "closed"]
  /\ authed' = [authed EXCEPT ![s[1]] = FALSE]
  /\ run' = Ends(s, "backoff")
  /\ UNCHANGED <<stopping, life, last, seen, signing, toClient, toRelay, relayVars, place>>

----------------------------------------------------------------------------
(* The Relay's end *)

\* websocket.open: a challenge is sent.
Accept(s) ==
  /\ ready[s] = "connecting"
  /\ conn[s] = "none"
  /\ ready' = [ready EXCEPT ![s] = "open"]
  /\ conn' = [conn EXCEPT ![s] = "challenged"]
  /\ toClient' = [toClient EXCEPT ![s] = <<"challenge">>]
  /\ UNCHANGED <<clientVars, seen, signing, toRelay, registry, routes, enrolled, place,
                 faults>>

\* The Relay's ends of the sockets ss are closed and what was sent to them is dropped.
CloseConns(ss) ==
  /\ conn' = [s \in Sockets |-> IF s \in ss THEN "closed" ELSE conn[s]]
  /\ registry' = IF registry \in ss THEN None ELSE registry

Tell(s, frame) == toClient' = [toClient EXCEPT ![s] = Append(@, frame)]

\* authenticate(): the socket that was registered is closed.
Authenticate(s) ==
  /\ Tell(s, "authenticated")
  /\ conn' = [p \in Sockets |->
       IF p = s THEN "attached" ELSE IF p = registry THEN "closed" ELSE conn[p]]
  /\ registry' = s
  /\ toRelay' = [p \in Sockets |->
       IF p = s THEN Tail(toRelay[p]) ELSE IF p = registry THEN <<>> ELSE toRelay[p]]
  /\ UNCHANGED routes

\* authenticate(): anything else that comes first, or an unknown installation.
RefuseUnreadably(s) ==
  /\ Tell(s, "closed")
  /\ CloseConns({s})
  /\ toRelay' = [toRelay EXCEPT ![s] = <<>>]
  /\ UNCHANGED routes

Refuse(s) ==
  /\ Tell(s, "error")
  /\ CloseConns({s})
  /\ toRelay' = [toRelay EXCEPT ![s] = <<>>]
  /\ UNCHANGED routes

\* dispatch(): the routes are replaced; without the installation's row none can be added,
\* and a second authentication is told off.
Dispatch(s) ==
  LET frame == Head(toRelay[s]) IN
  /\ toRelay' = [toRelay EXCEPT ![s] = Tail(@)]
  /\ IF frame.type = "sync_bindings" /\ (enrolled \/ frame.bindings = {})
     THEN routes' = frame.bindings /\ UNCHANGED toClient
     ELSE Tell(s, "error") /\ UNCHANGED routes
  /\ UNCHANGED <<conn, registry>>

RelayReads(s) ==
  /\ toRelay[s] # <<>>
  /\ \/ /\ conn[s] = "challenged"
        /\ IF Head(toRelay[s]).type = "authenticate" /\ enrolled
           THEN Authenticate(s) ELSE Refuse(s)
     \/ /\ conn[s] = "attached"
        /\ Dispatch(s)
  /\ UNCHANGED <<clientVars, ready, seen, signing, enrolled, place, faults>>

\* The client's end is gone: its frames came before its close frame, unless it broke.
RelayLoses(s) ==
  /\ conn[s] \in {"challenged", "attached"}
  /\ ready[s] \in {"broken", "closed"} \/ (ready[s] = "closing" /\ toRelay[s] = <<>>)
  /\ CloseConns({s})
  /\ toRelay' = [toRelay EXCEPT ![s] = <<>>]
  /\ UNCHANGED <<clientVars, ready, seen, signing, toClient, routes, enrolled, place, faults>>

\* The Relay is restarted, or its authentication timer fires before the answer.
RelayCloses(s) ==
  /\ conn[s] \in {"challenged", "attached"}
  /\ Fault
  /\ CloseConns({s})
  /\ toRelay' = [toRelay EXCEPT ![s] = <<>>]
  /\ UNCHANGED <<clientVars, ready, seen, signing, toClient, routes, enrolled, place>>

\* pruneInactive(): the installation and its routes are deleted.
Prune ==
  /\ enrolled
  /\ Fault
  /\ enrolled' = FALSE
  /\ routes' = {}
  /\ UNCHANGED <<clientVars, socketVars, conn, registry, place>>

----------------------------------------------------------------------------
(* The store, changed by the command line *)

\* createBindingSetup(); an ID is random and is never used again.
Add(b) ==
  /\ place[b] = "absent"
  /\ place' = [place EXCEPT ![b] = "listed"]
  /\ UNCHANGED <<clientVars, socketVars, relayVars, faults>>

Remove(b) ==
  /\ place[b] = "listed"
  /\ place' = [place EXCEPT ![b] = "removed"]
  /\ UNCHANGED <<clientVars, socketVars, relayVars, faults>>

SocketStep(s) ==
  \/ OnChallenge(s) \/ Signed(s) \/ OnAuthenticated(s) \/ OnError(s)
  \/ PeerCloses(s) \/ CloseEvent(s)

RelayStep(s) == Accept(s) \/ RelayReads(s) \/ RelayLoses(s)

LoopStep(c) == LoopEnds(c) \/ \E l \in Lives : Connect(c, l)

Next ==
  \/ \E c \in Clients : Run(c) \/ Stop(c) \/ LoopStep(c) \/ SyncTimer(c)
  \/ \E s \in Sockets :
       \/ SocketStep(s) \/ RelayStep(s)
       \/ SigningFails(s) \/ HandlerFails(s) \/ Breaks(s) \/ ConnectFails(s) \/ RelayCloses(s)
  \/ Prune
  \/ \E b \in Bindings : Add(b) \/ Remove(b)

\* Frames and events arrive, signatures end, timers fire, the Relay answers. Nothing has
\* to start, to stop, to fail or to change the store.
Fairness ==
  /\ \A c \in Clients : WF_vars(LoopStep(c)) /\ WF_vars(SyncTimer(c))
  /\ \A s \in Sockets : WF_vars(SocketStep(s)) /\ WF_vars(RelayStep(s))

Spec == Init /\ [][Next]_vars /\ Fairness

----------------------------------------------------------------------------
(* Properties *)

\* No socket leaks: one that is not closing is the one the loop awaits, whatever error,
\* refusal or stop ended the attempts before it.
NoLeakedSocket ==
  \A s \in Sockets :
    ready[s] \in {"connecting", "open"} => run[s[1]] = "connecting" /\ life[s[1]] = s[2]

\* stop() ends the loop, in whatever await it is.
StopEnds == \A c \in Clients : stopping[c] ~> run[c] \in {"stopped", "refused"}

\* Every Binding that stays listed is routed in the end, through reconnections and frames
\* that were lost, as long as one client is left alone and the Relay knows it.
ListedIsRouted ==
  \A c \in Clients :
    <>[](\A d \in Clients \ {c} : run[d] \notin Running)
      => <>[](run[c] \in Running /\ enrolled => Listed \subseteq routes)

\* A Binding that stays listed is never taken off the Relay's routes, however clients
\* reconnect and replace each other: each brings the routes up to what the store listed
\* when it sent them, and no frame of one that was replaced undoes that. Only a pruning of
\* the installation does. (Needs MaxClosing = 0.)
ListedStaysRouted ==
  [][\A b \in Bindings : b \in routes /\ place[b] = "listed" /\ enrolled' => b \in routes']_vars

\* Only a refusal ends the daemon: a client that gave up was unknown to the Relay.
OnlyRefusalEndsTheDaemon ==
  \A c \in Clients : run[c] = "refused" => ~enrolled
=============================================================================
