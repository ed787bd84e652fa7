------------------------------- MODULE GatewayProofs -------------------------------
(***************************************************************************)
(* Proofs about Gateway, for any number of RelayClients, sockets, Bindings *)
(* and faults: no error, refusal or stop leaves a socket behind that the   *)
(* loop of run() does not await.                                           *)
(*                                                                         *)
(* The invariant adds what a challenge that is still being signed says of  *)
(* its socket: its answer may end an attempt long after that began.        *)
(*                                                                         *)
(* The second part is about the field that attempts share, for clients     *)
(* whose sockets are closed before the next is opened, the third about     *)
(* what such clients have the Relay route.                                 *)
(***************************************************************************)
EXTENDS Gateway, FiniteSetTheorems, TLAPS

\* The parts of TypeOK that this needs.
Types ==
  /\ run \in [Clients -> LoopStates]
  /\ life \in [Clients -> Lives \cup {None}]
  /\ ready \in [Sockets -> ReadyStates]
  /\ signing \in [Sockets -> BOOLEAN]

\* A signature is asked for on an open socket, and no socket is used again before it is there.
SigningWasOpen == \A s \in Sockets : signing[s] => ready[s] # "connecting"

IInv == Types /\ SigningWasOpen /\ NoLeakedSocket

Alive(s) == ready[s] \in {"connecting", "open"}

----------------------------------------------------------------------------
(* Lemmas about the operators *)

LEMMA SocketsArePairs ==
  ASSUME NEW s \in Sockets
  PROVE  s[1] \in Clients /\ s[2] \in Lives /\ s = <<s[1], s[2]>>
BY DEF Sockets

\* A socket that is closed is not alive, and no other becomes so.
LEMMA CloseIs ==
  ASSUME Types, NEW s \in Sockets
  PROVE  /\ Close(ready, s) \in [Sockets -> ReadyStates]
         /\ Close(ready, s)[s] \notin {"connecting", "open"}
         /\ \A t \in Sockets : t # s => Close(ready, s)[t] = ready[t]
BY DEF Types, Close, ReadyStates

\* The attempt of a socket that is not alive any more ends.
LEMMA EndsInv ==
  ASSUME IInv, NEW s \in Sockets,
         run' = run \/ \E how \in LoopStates : run' = Ends(s, how),
         life' = life, ready' \in [Sockets -> ReadyStates],
         ready'[s] \notin {"connecting", "open"},
         \A t \in Sockets : t # s => ready'[t] = ready[t],
         signing' \in [Sockets -> BOOLEAN],
         \A t \in Sockets : signing'[t] => signing[t]
  PROVE  IInv'
<1>1. Types'
  BY SocketsArePairs DEF IInv, Types, Ends, LoopStates, Running
<1>2. SigningWasOpen'
  BY DEF IInv, SigningWasOpen
<1>3. NoLeakedSocket'
  <2> SUFFICES ASSUME NEW t \in Sockets, ready'[t] \in {"connecting", "open"}
               PROVE  run'[t[1]] = "connecting" /\ life'[t[1]] = t[2]
    BY DEF NoLeakedSocket
  <2>1. t # s /\ run[t[1]] = "connecting" /\ life[t[1]] = t[2]
    BY DEF IInv, NoLeakedSocket
  <2>2. t[1] \in Clients /\ (s[1] # t[1] \/ life[s[1]] # s[2])
    BY <2>1, SocketsArePairs
  <2>3. CASE run' = run
    BY <2>1, <2>3
  <2>4. CASE \E how \in LoopStates : run' = Ends(s, how)
    BY <2>1, <2>2, <2>4 DEF IInv, Types, Ends
  <2>5. QED BY <2>3, <2>4
<1>4. QED BY <1>1, <1>2, <1>3 DEF IInv

\* No socket comes to life.
LEMMA QuietInv ==
  ASSUME IInv, UNCHANGED <<run, life>>, ready' \in [Sockets -> ReadyStates],
         \A t \in Sockets :
           /\ ready'[t] \in {"connecting", "open"} => ready[t] \in {"connecting", "open"}
           /\ ready'[t] = "connecting" => ready[t] = "connecting" /\ signing'[t] = signing[t],
         signing' \in [Sockets -> BOOLEAN]
  PROVE  IInv'
BY DEF IInv, Types, SigningWasOpen, NoLeakedSocket

----------------------------------------------------------------------------
(* It holds initially *)

LEMMA InitInv == Init => IInv
BY DEF Init, IInv, Types, LoopStates, ReadyStates, Running, SigningWasOpen, NoLeakedSocket

----------------------------------------------------------------------------
(* Steps of the loop *)

LEMMA RunInv ==
  ASSUME IInv, NEW c \in Clients, Run(c)
  PROVE  IInv'
<1>1. /\ run[c] = "idle" /\ run' = [run EXCEPT ![c] = "reconnecting"]
      /\ UNCHANGED <<life, ready, signing>>
  BY DEF Run, socketVars
<1>2. QED
  BY <1>1, SocketsArePairs
     DEF IInv, Types, LoopStates, Running, SigningWasOpen, NoLeakedSocket

LEMMA LoopEndsInv ==
  ASSUME IInv, NEW c \in Clients, LoopEnds(c)
  PROVE  IInv'
<1>1. /\ run[c] \in {"reconnecting", "backoff"} /\ run' = [run EXCEPT ![c] = "stopped"]
      /\ UNCHANGED <<life, ready, signing>>
  BY DEF LoopEnds, socketVars
<1>2. QED
  BY <1>1, SocketsArePairs
     DEF IInv, Types, LoopStates, Running, SigningWasOpen, NoLeakedSocket

LEMMA ConnectInv ==
  ASSUME IInv, NEW c \in Clients, NEW l \in Lives, Connect(c, l)
  PROVE  IInv'
<1> DEFINE s == <<c, l>>
<1>1. /\ run[c] # "connecting" /\ ~signing[s] /\ s \in Sockets
      /\ run' = [run EXCEPT ![c] = "connecting"] /\ life' = [life EXCEPT ![c] = l]
      /\ ready' = [ready EXCEPT ![s] = "connecting"] /\ signing' = signing
  BY DEF Connect, Sockets
<1>2. Types'
  BY <1>1 DEF IInv, Types, LoopStates, Running, ReadyStates
<1>3. SigningWasOpen'
  BY <1>1 DEF IInv, Types, SigningWasOpen
<1>4. NoLeakedSocket'
  <2> SUFFICES ASSUME NEW t \in Sockets, ready'[t] \in {"connecting", "open"}
               PROVE  run'[t[1]] = "connecting" /\ life'[t[1]] = t[2]
    BY DEF NoLeakedSocket
  <2>1. CASE t = s
    BY <1>1, <2>1 DEF IInv, Types
  <2>2. CASE t # s
    <3>1. run[t[1]] = "connecting" /\ life[t[1]] = t[2] /\ t[1] \in Clients
      BY <1>1, <2>2, SocketsArePairs DEF IInv, Types, NoLeakedSocket
    <3>2. QED BY <1>1, <3>1 DEF IInv, Types
  <2>3. QED BY <2>1, <2>2
<1>5. QED BY <1>2, <1>3, <1>4 DEF IInv

LEMMA StopInv ==
  ASSUME IInv, NEW c \in Clients, Stop(c)
  PROVE  IInv'
<1>1. UNCHANGED <<run, life, signing>>
  BY DEF Stop
<1>2. CASE ready' = ready
  BY <1>1, <1>2, QuietInv DEF IInv, Types
<1>3. CASE life[c] # None /\ ready' = Close(ready, <<c, life[c]>>)
  <2>1. <<c, life[c]>> \in Sockets
    BY <1>3 DEF IInv, Types, Sockets
  <2>2. QED BY <1>1, <1>3, <2>1, CloseIs, QuietInv DEF IInv, Types
<1>4. QED BY <1>2, <1>3 DEF Stop

----------------------------------------------------------------------------
(* Events of a socket *)

LEMMA SocketInv ==
  ASSUME IInv, NEW s \in Sockets,
         \/ OnChallenge(s) \/ Signed(s) \/ SigningFails(s) \/ OnAuthenticated(s)
         \/ OnError(s) \/ HandlerFails(s) \/ PeerCloses(s) \/ Breaks(s)
         \/ CloseEvent(s) \/ ConnectFails(s)
  PROVE  IInv'
<1>1. CASE OnChallenge(s)
  <2>1. /\ ready[s] = "open" /\ signing' = [signing EXCEPT ![s] = TRUE]
        /\ UNCHANGED <<run, life, ready>>
    BY <1>1 DEF OnChallenge, Arrives, clientVars
  <2>2. QED BY <2>1, QuietInv DEF IInv, Types
<1>2. CASE Signed(s)
  <2>1. /\ signing[s] /\ signing' = [signing EXCEPT ![s] = FALSE]
        /\ UNCHANGED <<life, ready>>
    BY <1>2 DEF Signed
  <2>2. signing' \in [Sockets -> BOOLEAN] /\ \A t \in Sockets : signing'[t] => signing[t]
    BY <2>1 DEF IInv, Types
  <2>3. CASE run' = run
    <3>1. ready[s] # "connecting"
      BY <2>1 DEF IInv, SigningWasOpen
    <3>2. \A t \in Sockets : ready[t] = "connecting" => signing'[t] = signing[t]
      BY <2>1, <3>1 DEF IInv, Types
    <3>3. QED BY <2>1, <2>2, <2>3, <3>2, QuietInv DEF IInv, Types
  <2>4. CASE ready[s] # "open" /\ run' = Ends(s, "backoff")
    <3>1. ready'[s] \notin {"connecting", "open"}
      BY <2>1, <2>4 DEF IInv, SigningWasOpen
    <3>2. QED BY <2>1, <2>2, <2>4, <3>1, EndsInv DEF IInv, Types, LoopStates, Running
  <2>5. QED BY <1>2, <2>3, <2>4 DEF Signed
<1>3. ASSUME ready' = Close(ready, s), life' = life,
             run' = run \/ \E how \in LoopStates : run' = Ends(s, how),
             signing' = signing \/ signing' = [signing EXCEPT ![s] = FALSE]
      PROVE  IInv'
  <2>1. signing' \in [Sockets -> BOOLEAN] /\ \A t \in Sockets : signing'[t] => signing[t]
    BY <1>3 DEF IInv, Types
  <2>2. QED BY <1>3, <2>1, CloseIs, EndsInv DEF IInv
<1>4. CASE SigningFails(s)
  BY <1>3, <1>4 DEF SigningFails, LoopStates, Running
<1>5. CASE OnAuthenticated(s)
  <2>1. CASE UNCHANGED <<ready, run>>
    BY <1>5, <2>1, QuietInv DEF OnAuthenticated, IInv, Types
  <2>2. CASE ready' = Close(ready, s) /\ run' = Ends(s, "backoff")
    BY <1>3, <1>5, <2>2 DEF OnAuthenticated, LoopStates, Running
  <2>3. QED BY <1>5, <2>1, <2>2 DEF OnAuthenticated
<1>6. CASE OnError(s)
  BY <1>3, <1>6 DEF OnError, LoopStates
<1>7. CASE HandlerFails(s)
  BY <1>3, <1>7 DEF HandlerFails, LoopStates, Running
<1>8. CASE PeerCloses(s) \/ Breaks(s)
  <2>1. /\ ready' = [ready EXCEPT ![s] = "closing"] \/ ready' = [ready EXCEPT ![s] = "broken"]
        /\ UNCHANGED <<run, life, signing>>
    BY <1>8 DEF PeerCloses, Breaks, clientVars
  <2>2. QED BY <2>1, QuietInv DEF IInv, Types, ReadyStates
<1>9. CASE CloseEvent(s) \/ ConnectFails(s)
  <2>1. /\ ready' = [ready EXCEPT ![s] = "closed"] /\ UNCHANGED <<life, signing>>
        /\ \E how \in LoopStates : run' = Ends(s, how)
    BY <1>9 DEF CloseEvent, ConnectFails, LoopStates, Running
  <2>2. QED BY <2>1, EndsInv DEF IInv, Types, ReadyStates
<1>10. QED BY <1>1, <1>2, <1>4, <1>5, <1>6, <1>7, <1>8, <1>9

----------------------------------------------------------------------------
(* The Relay's end, and the rest *)

LEMMA AcceptInv ==
  ASSUME IInv, NEW s \in Sockets, Accept(s)
  PROVE  IInv'
<1>1. /\ ready[s] = "connecting" /\ ready' = [ready EXCEPT ![s] = "open"]
      /\ UNCHANGED <<run, life, signing>>
  BY DEF Accept, clientVars
<1>2. QED BY <1>1, QuietInv DEF IInv, Types, ReadyStates

\* The steps that touch neither the loop nor a socket's state.
LEMMA OtherInv ==
  ASSUME IInv, UNCHANGED <<run, life, ready, signing>>
  PROVE  IInv'
BY DEF IInv, Types, SigningWasOpen, NoLeakedSocket

LEMMA StepInv == IInv /\ [Next]_vars => IInv'
<1> SUFFICES ASSUME IInv, [Next]_vars PROVE IInv'
  OBVIOUS
<1>1. CASE UNCHANGED vars
  BY <1>1, OtherInv DEF vars, clientVars, socketVars
<1>2. ASSUME NEW c \in Clients, Run(c) \/ Stop(c) \/ LoopStep(c) \/ SyncTimer(c)
      PROVE  IInv'
  <2>1. CASE SyncTimer(c)
    BY <2>1, OtherInv DEF SyncTimer
  <2>2. CASE LoopStep(c)
    BY <2>2, LoopEndsInv, ConnectInv DEF LoopStep
  <2>3. QED BY <1>2, <2>1, <2>2, RunInv, StopInv
<1>3. ASSUME NEW s \in Sockets, RelayStep(s) \/ RelayCloses(s)
      PROVE  IInv'
  <2>1. CASE RelayReads(s) \/ RelayLoses(s) \/ RelayCloses(s)
    BY <2>1, OtherInv DEF RelayReads, RelayLoses, RelayCloses, clientVars
  <2>2. QED BY <1>3, <2>1, AcceptInv DEF RelayStep
<1>4. CASE Prune \/ \E b \in Bindings : Add(b) \/ Remove(b)
  BY <1>4, OtherInv DEF Prune, Add, Remove, clientVars, socketVars
<1>5. CASE Next
  BY <1>2, <1>3, <1>4, <1>5, SocketInv DEF Next, SocketStep
<1>6. QED BY <1>1, <1>5

\* A socket that is open or opens is the one its client's loop awaits: every way an attempt of
\* connectOnce() ends closes the socket before the next one is made.
THEOREM GatewayInvariant == Spec => []IInv
<1>1. QED BY InitInv, StepInv, PTL DEF Spec

\* No socket leaks, for any number of clients, sockets of each, Bindings and faults: one that
\* is connecting or open is the one the loop of its client awaits.
THEOREM GatewayNoLeakedSocket == Spec => []NoLeakedSocket
<1>1. IInv => NoLeakedSocket
  BY DEF IInv
<1>2. QED BY GatewayInvariant, <1>1, PTL

----------------------------------------------------------------------------
(* The field that attempts share *)

\* A socket is closed before its client opens another.
OneSocket ==
  \A s, t \in Sockets :
    s[1] = t[1] /\ ready[s] # "closed" /\ ready[t] # "closed" => s = t

\* close: the field is reset with the last socket that could have set it.
AuthedHasSocket ==
  \A c \in Clients : authed[c] => \E l \in Lives : ready[<<c, l>>] # "closed"

FieldAgrees ==
  \A s \in Sockets :
    /\ ready[s] \in {"connecting", "open"} => (authed[s[1]] <=> seen[s])
    /\ ready[s] = "connecting" => ~seen[s]

FieldInv ==
  /\ authed \in [Clients -> BOOLEAN] /\ seen \in [Sockets -> BOOLEAN]
  /\ OneSocket /\ AuthedHasSocket /\ FieldAgrees

\* No socket is opened, ends or is authenticated.
LEMMA FieldStays ==
  ASSUME FieldInv, UNCHANGED <<authed, seen>>,
         \A t \in Sockets :
           /\ ready'[t] = "closed" <=> ready[t] = "closed"
           /\ ready'[t] \in {"connecting", "open"} => ready[t] \in {"connecting", "open"}
           /\ ready'[t] = "connecting" => ready[t] = "connecting"
  PROVE  FieldInv'
<1>1. OneSocket' /\ FieldAgrees'
  BY DEF FieldInv, OneSocket, FieldAgrees
<1>2. AuthedHasSocket'
  <2> SUFFICES ASSUME NEW c \in Clients, authed[c]
               PROVE  \E l \in Lives : ready'[<<c, l>>] # "closed"
    BY DEF AuthedHasSocket
  <2>1. PICK l \in Lives : ready[<<c, l>>] # "closed"
    BY DEF FieldInv, AuthedHasSocket
  <2>2. <<c, l>> \in Sockets
    BY DEF Sockets
  <2>3. QED BY <2>1, <2>2
<1>3. QED BY <1>1, <1>2 DEF FieldInv

\* What close() does to a socket.
LEMMA FieldCloses ==
  ASSUME IInv, FieldInv, NEW s \in Sockets, ready' = Close(ready, s), UNCHANGED <<authed, seen>>
  PROVE  FieldInv'
<1>1. \A t \in Sockets : ready'[t] = IF t = s /\ ready[s] \in {"connecting", "open"}
                                     THEN "closing" ELSE ready[t]
  BY DEF Close, IInv, Types
<1>2. QED BY <1>1, FieldStays

\* An attempt begins when every socket of the client is closed.
LEMMA ConnectField ==
  ASSUME MaxClosing = 0, IInv, FieldInv, NEW c \in Clients, NEW l \in Lives, Connect(c, l)
  PROVE  FieldInv'
<1>1. PICK s \in Sockets : s = <<c, l>>
  BY DEF Sockets
<1>2. /\ run[c] # "connecting" /\ authed' = authed
      /\ ready' = [ready EXCEPT ![s] = "connecting"] /\ seen' = [seen EXCEPT ![s] = FALSE]
      /\ Cardinality({k \in Lives : ready[<<c, k>>] \in {"closing", "broken"}}) <= 0
  BY <1>1 DEF Connect
<1>3. {k \in Lives : ready[<<c, k>>] \in {"closing", "broken"}} = {}
  <2>1. PICK K \in SUBSET Lives : K = {k \in Lives : ready[<<c, k>>] \in {"closing", "broken"}}
    OBVIOUS
  <2>2. IsFiniteSet(K)
    BY GatewayLivesAssumption, FS_Subset
  <2>3. Cardinality(K) \in Nat /\ Cardinality(K) <= 0
    BY <1>2, <2>1, <2>2, FS_CardinalityType
  <2>4. Cardinality(K) = 0
    BY <2>3
  <2>5. K = {}
    BY <2>2, <2>4, FS_EmptySet
  <2>6. QED BY <2>1, <2>5
<1>4. ASSUME NEW t \in Sockets, t[1] = c
      PROVE  ready[t] = "closed"
  <2>1. t = <<c, t[2]>> /\ t[2] \in Lives
    BY <1>4, SocketsArePairs
  <2>2. ready[t] \notin {"closing", "broken"}
    BY <1>3, <2>1
  <2>3. ready[t] \notin {"connecting", "open"}
    BY <1>2, <1>4 DEF IInv, NoLeakedSocket
  <2>4. QED BY <2>2, <2>3 DEF IInv, Types, ReadyStates
<1>5. ~authed[c]
  <2>1. ASSUME NEW k \in Lives
        PROVE  ready[<<c, k>>] = "closed"
    BY <1>4 DEF Sockets
  <2>2. QED BY <2>1 DEF FieldInv, AuthedHasSocket
<1>6. s[1] = c /\ ready'[s] = "connecting" /\ ~seen'[s]
      /\ \A t \in Sockets : t # s => ready'[t] = ready[t] /\ seen'[t] = seen[t]
  BY <1>1, <1>2 DEF IInv, Types, FieldInv
<1>7. OneSocket'
  BY <1>4, <1>6 DEF FieldInv, OneSocket
<1>8. AuthedHasSocket'
  <2> SUFFICES ASSUME NEW d \in Clients, authed[d]
               PROVE  \E k \in Lives : ready'[<<d, k>>] # "closed"
    BY <1>2 DEF AuthedHasSocket
  <2>1. PICK k \in Lives : ready[<<d, k>>] # "closed"
    BY DEF FieldInv, AuthedHasSocket
  <2>2. <<d, k>> \in Sockets /\ d # c
    BY <1>5 DEF Sockets
  <2>3. <<d, k>> # s
    BY <1>1, <2>2
  <2>4. QED BY <1>6, <2>1, <2>2, <2>3
<1>9. FieldAgrees'
  BY <1>2, <1>5, <1>6 DEF FieldInv, FieldAgrees
<1>10. authed' \in [Clients -> BOOLEAN] /\ seen' \in [Sockets -> BOOLEAN]
  BY <1>2 DEF FieldInv
<1>11. QED BY <1>7, <1>8, <1>9, <1>10 DEF FieldInv

\* The close event of a client's only socket resets the field.
LEMMA CloseEventField ==
  ASSUME IInv, FieldInv, NEW s \in Sockets, CloseEvent(s) \/ ConnectFails(s)
  PROVE  FieldInv'
<1>1. /\ ready[s] # "closed" /\ ready' = [ready EXCEPT ![s] = "closed"]
      /\ authed' = [authed EXCEPT ![s[1]] = FALSE] /\ seen' = seen
  BY DEF CloseEvent, ConnectFails
<1>2. s[1] \in Clients
  BY SocketsArePairs
<1>3. /\ ready'[s] = "closed" /\ \A t \in Sockets : t # s => ready'[t] = ready[t]
      /\ ~authed'[s[1]] /\ \A c \in Clients : c # s[1] => authed'[c] = authed[c]
      /\ authed' \in [Clients -> BOOLEAN] /\ seen' \in [Sockets -> BOOLEAN]
  BY <1>1, <1>2 DEF IInv, Types, FieldInv
<1>4. OneSocket'
  BY <1>3 DEF FieldInv, OneSocket
<1>5. AuthedHasSocket'
  <2> SUFFICES ASSUME NEW c \in Clients, authed'[c]
               PROVE  \E l \in Lives : ready'[<<c, l>>] # "closed"
    BY DEF AuthedHasSocket
  <2>1. c # s[1] /\ authed[c]
    BY <1>3
  <2>2. PICK l \in Lives : ready[<<c, l>>] # "closed"
    BY <2>1 DEF FieldInv, AuthedHasSocket
  <2>3. <<c, l>> \in Sockets /\ <<c, l>> # s
    BY <2>1 DEF Sockets
  <2>4. QED BY <1>3, <2>2, <2>3
<1>6. FieldAgrees'
  <2> SUFFICES ASSUME NEW t \in Sockets, ready'[t] # "closed"
               PROVE  /\ ready'[t] \in {"connecting", "open"} => (authed'[t[1]] <=> seen'[t])
                      /\ ready'[t] = "connecting" => ~seen'[t]
    BY DEF FieldAgrees
  <2>1. t # s /\ ready'[t] = ready[t]
    BY <1>3
  <2>2. t[1] # s[1] /\ t[1] \in Clients
    BY <1>1, <2>1, SocketsArePairs DEF FieldInv, OneSocket
  <2>3. authed'[t[1]] = authed[t[1]] /\ seen' = seen
    BY <1>1, <1>3, <2>2
  <2>4. QED BY <2>1, <2>3 DEF FieldInv, FieldAgrees
<1>7. QED BY <1>3, <1>4, <1>5, <1>6 DEF FieldInv

LEMMA OnAuthenticatedField ==
  ASSUME IInv, FieldInv, NEW s \in Sockets, OnAuthenticated(s)
  PROVE  FieldInv'
<1>1. /\ ready[s] = "open" /\ authed' = [authed EXCEPT ![s[1]] = TRUE]
      /\ \/ seen' = [seen EXCEPT ![s] = TRUE] /\ ready' = ready
         \/ ready' = Close(ready, s) /\ seen' = seen
  BY DEF OnAuthenticated, Arrives
<1>2. s[1] \in Clients /\ s[2] \in Lives /\ s = <<s[1], s[2]>>
  BY SocketsArePairs
<1>3. /\ authed'[s[1]] /\ \A c \in Clients : c # s[1] => authed'[c] = authed[c]
      /\ authed' \in [Clients -> BOOLEAN] /\ seen' \in [Sockets -> BOOLEAN]
      /\ \A t \in Sockets : t # s => ready'[t] = ready[t] /\ seen'[t] = seen[t]
      /\ \/ ready'[s] = "open" /\ seen'[s]
         \/ ready'[s] = "closing"
  <2>1. /\ authed'[s[1]] /\ \A c \in Clients : c # s[1] => authed'[c] = authed[c]
        /\ authed' \in [Clients -> BOOLEAN]
    BY <1>1, <1>2 DEF FieldInv
  <2>2. CASE seen' = [seen EXCEPT ![s] = TRUE] /\ ready' = ready
    <3>1. /\ seen'[s] /\ seen' \in [Sockets -> BOOLEAN]
          /\ \A t \in Sockets : t # s => seen'[t] = seen[t]
      BY <2>2 DEF FieldInv
    <3>2. QED BY <1>1, <2>1, <2>2, <3>1
  <2>3. CASE ready' = Close(ready, s) /\ seen' = seen
    <3>1. ready'[s] = "closing" /\ \A t \in Sockets : t # s => ready'[t] = ready[t]
      BY <1>1, <2>3 DEF IInv, Types, Close
    <3>2. QED BY <2>1, <2>3, <3>1 DEF FieldInv
  <2>4. QED BY <1>1, <2>2, <2>3
<1>4. OneSocket'
  BY <1>1, <1>3 DEF FieldInv, OneSocket
<1>5. AuthedHasSocket'
  <2> SUFFICES ASSUME NEW c \in Clients, authed'[c]
               PROVE  \E l \in Lives : ready'[<<c, l>>] # "closed"
    BY DEF AuthedHasSocket
  <2>1. CASE c = s[1]
    BY <1>2, <1>3, <2>1
  <2>2. CASE c # s[1]
    <3>1. PICK l \in Lives : ready[<<c, l>>] # "closed"
      BY <1>3, <2>2 DEF FieldInv, AuthedHasSocket
    <3>2. <<c, l>> \in Sockets /\ <<c, l>> # s
      BY <2>2 DEF Sockets
    <3>3. QED BY <1>3, <3>1, <3>2
  <2>3. QED BY <2>1, <2>2
<1>6. FieldAgrees'
  <2> SUFFICES ASSUME NEW t \in Sockets, ready'[t] # "closed"
               PROVE  /\ ready'[t] \in {"connecting", "open"} => (authed'[t[1]] <=> seen'[t])
                      /\ ready'[t] = "connecting" => ~seen'[t]
    BY DEF FieldAgrees
  <2>1. CASE t = s
    BY <1>3, <2>1
  <2>2. CASE t # s
    <3>1. ready'[t] = ready[t] /\ seen'[t] = seen[t]
      BY <1>3, <2>2
    <3>2. t[1] # s[1] /\ t[1] \in Clients
      BY <1>1, <2>2, <3>1, SocketsArePairs DEF FieldInv, OneSocket
    <3>3. authed'[t[1]] = authed[t[1]]
      BY <1>3, <3>2
    <3>4. QED BY <3>1, <3>3 DEF FieldInv, FieldAgrees
  <2>3. QED BY <2>1, <2>2
<1>7. QED BY <1>3, <1>4, <1>5, <1>6 DEF FieldInv

LEMMA SocketField ==
  ASSUME IInv, FieldInv, NEW s \in Sockets,
         \/ OnChallenge(s) \/ Signed(s) \/ SigningFails(s) \/ OnError(s) \/ HandlerFails(s)
         \/ PeerCloses(s) \/ Breaks(s) \/ Accept(s)
  PROVE  FieldInv'
<1>1. CASE OnChallenge(s) \/ Signed(s)
  BY <1>1, FieldStays DEF OnChallenge, Signed, clientVars
<1>2. CASE SigningFails(s) \/ OnError(s) \/ HandlerFails(s)
  BY <1>2, FieldCloses DEF SigningFails, OnError, HandlerFails
<1>3. CASE PeerCloses(s) \/ Breaks(s) \/ Accept(s)
  <2>1. /\ UNCHANGED <<authed, seen>>
        /\ \/ ready[s] = "open" /\ ready' = [ready EXCEPT ![s] = "closing"]
           \/ ready[s] = "open" /\ ready' = [ready EXCEPT ![s] = "broken"]
           \/ ready[s] = "connecting" /\ ready' = [ready EXCEPT ![s] = "open"]
    BY <1>3 DEF PeerCloses, Breaks, Accept, clientVars
  <2>2. \A t \in Sockets : /\ ready'[t] = "closed" <=> ready[t] = "closed"
                           /\ ready'[t] \in {"connecting", "open"} => ready[t] \in {"connecting", "open"}
                           /\ ready'[t] = "connecting" => ready[t] = "connecting"
    BY <2>1 DEF IInv, Types
  <2>3. QED BY <2>1, <2>2, FieldStays
<1>4. QED BY <1>1, <1>2, <1>3

LEMMA StopField ==
  ASSUME IInv, FieldInv, NEW c \in Clients, Stop(c)
  PROVE  FieldInv'
<1>1. UNCHANGED <<authed, seen>>
  BY DEF Stop
<1>2. CASE ready' = ready
  BY <1>1, <1>2, FieldStays
<1>3. CASE life[c] # None /\ ready' = Close(ready, <<c, life[c]>>)
  <2>1. PICK s \in Sockets : s = <<c, life[c]>>
    BY <1>3 DEF IInv, Types, Sockets
  <2>2. QED BY <1>1, <1>3, <2>1, FieldCloses
<1>4. QED BY <1>2, <1>3 DEF Stop

LEMMA StepField == MaxClosing = 0 /\ IInv /\ FieldInv /\ [Next]_vars => FieldInv'
<1> SUFFICES ASSUME MaxClosing = 0, IInv, FieldInv, [Next]_vars PROVE FieldInv'
  OBVIOUS
<1>1. UNCHANGED <<ready, authed, seen>> => FieldInv'
  BY FieldStays
<1>2. CASE UNCHANGED vars
  BY <1>1, <1>2 DEF vars, clientVars, socketVars
<1>3. ASSUME NEW c \in Clients, Run(c) \/ Stop(c) \/ LoopStep(c) \/ SyncTimer(c)
      PROVE  FieldInv'
  <2>1. CASE SyncTimer(c) \/ Run(c) \/ LoopEnds(c)
    BY <1>1, <2>1 DEF SyncTimer, Run, LoopEnds, socketVars
  <2>2. QED BY <1>3, <2>1, StopField, ConnectField DEF LoopStep
<1>4. ASSUME NEW s \in Sockets,
             \/ SocketStep(s) \/ RelayStep(s)
             \/ SigningFails(s) \/ HandlerFails(s) \/ Breaks(s) \/ ConnectFails(s) \/ RelayCloses(s)
      PROVE  FieldInv'
  <2>1. CASE RelayReads(s) \/ RelayLoses(s) \/ RelayCloses(s)
    BY <1>1, <2>1 DEF RelayReads, RelayLoses, RelayCloses, clientVars
  <2>2. QED BY <1>4, <2>1, SocketField, CloseEventField, OnAuthenticatedField DEF SocketStep, RelayStep
<1>5. CASE Prune \/ \E b \in Bindings : Add(b) \/ Remove(b)
  BY <1>1, <1>5 DEF Prune, Add, Remove, clientVars, socketVars
<1>6. QED BY <1>2, <1>3, <1>4, <1>5 DEF Next

----------------------------------------------------------------------------
(* What the Relay routes *)

\* Frames on their way to the Relay, over the routes R there and the places P in the store:
\* what a later one leaves out was removed, and so was what the first leaves out of R.
InOrder(Q, R, P) ==
  \A i \in 1..Len(Q) : Q[i].type = "sync_bindings" =>
    /\ \A b \in Q[i].bindings : P[b] # "absent"
    /\ \A b \in R \ Q[i].bindings : P[b] = "removed"
    /\ \A j \in 1..Len(Q) : i < j /\ Q[j].type = "sync_bindings" =>
         \A b \in Q[i].bindings \ Q[j].bindings : P[b] = "removed"

RouteTypes ==
  /\ conn \in [Sockets -> ConnStates]
  /\ toRelay \in [Sockets -> Seq(Frame)]
  /\ toClient \in [Sockets -> Seq({"challenge", "authenticated", "error"})]
  /\ registry \in Sockets \cup {None}
  /\ routes \subseteq Bindings
  /\ place \in [Bindings -> {"absent", "listed", "removed"}]

\* The Relay routes for one socket, the one it has in its registry.
OneAttached == \A s \in Sockets : conn[s] = "attached" <=> registry = s

\* A socket that the Relay has challenged was not told that it is authenticated.
NotYet ==
  \A s \in Sockets : conn[s] = "challenged" =>
    ~seen[s] /\ \A i \in 1..Len(toClient[s]) : toClient[s][i] # "authenticated"

\* Only the attached socket has routes on their way, and they bring nothing back.
SendsInOrder ==
  \A s \in Sockets :
    /\ toRelay[s] # <<>> => conn[s] \in {"challenged", "attached"}
    /\ conn[s] = "challenged" =>
         \A i \in 1..Len(toRelay[s]) : toRelay[s][i].type # "sync_bindings"
    /\ InOrder(toRelay[s], routes, place)

RoutedWasListed == \A b \in routes : place[b] # "absent"

RouteInv == RouteTypes /\ OneAttached /\ NotYet /\ SendsInOrder /\ RoutedWasListed

\* The frames behind the first, before and after it is dispatched.
LEMMA OrderTail ==
  ASSUME NEW Q \in Seq(Frame), Q # <<>>, NEW R, NEW P, InOrder(Q, R, P)
  PROVE  InOrder(Tail(Q), R, P)
<1>1. /\ Len(Q) \in Nat /\ Len(Q) > 0 /\ Len(Tail(Q)) = Len(Q) - 1
      /\ \A i \in 1..(Len(Q) - 1) : Tail(Q)[i] = Q[i + 1]
  OBVIOUS
<1> SUFFICES ASSUME NEW i \in 1..Len(Tail(Q)), Tail(Q)[i].type = "sync_bindings"
             PROVE  /\ \A b \in Tail(Q)[i].bindings : P[b] # "absent"
                    /\ \A b \in R \ Tail(Q)[i].bindings : P[b] = "removed"
                    /\ \A j \in 1..Len(Tail(Q)) : i < j /\ Tail(Q)[j].type = "sync_bindings" =>
                         \A b \in Tail(Q)[i].bindings \ Tail(Q)[j].bindings : P[b] = "removed"
  BY DEF InOrder
<1>2. i \in 1..(Len(Q) - 1) /\ i + 1 \in 1..Len(Q) /\ Tail(Q)[i] = Q[i + 1]
  BY <1>1
<1>3. /\ \A b \in Q[i + 1].bindings : P[b] # "absent"
      /\ \A b \in R \ Q[i + 1].bindings : P[b] = "removed"
      /\ \A j \in 1..Len(Q) : i + 1 < j /\ Q[j].type = "sync_bindings" =>
           \A b \in Q[i + 1].bindings \ Q[j].bindings : P[b] = "removed"
  BY <1>2 DEF InOrder
<1>4. ASSUME NEW j \in 1..Len(Tail(Q)), i < j, Tail(Q)[j].type = "sync_bindings",
             NEW b \in Tail(Q)[i].bindings \ Tail(Q)[j].bindings
      PROVE  P[b] = "removed"
  <2>1. j + 1 \in 1..Len(Q) /\ i + 1 < j + 1 /\ Tail(Q)[j] = Q[j + 1]
    BY <1>1, <1>2, <1>4
  <2>2. QED BY <1>2, <1>3, <1>4, <2>1
<1>5. QED BY <1>2, <1>3, <1>4

LEMMA OrderTaken ==
  ASSUME NEW Q \in Seq(Frame), Q # <<>>, NEW R, NEW P, InOrder(Q, R, P),
         Head(Q).type = "sync_bindings"
  PROVE  /\ InOrder(Tail(Q), Head(Q).bindings, P)
         /\ \A b \in Head(Q).bindings : P[b] # "absent"
         /\ \A b \in R \ Head(Q).bindings : P[b] = "removed"
<1>1. /\ Len(Q) \in Nat /\ Len(Q) > 0 /\ Len(Tail(Q)) = Len(Q) - 1 /\ Head(Q) = Q[1]
      /\ \A i \in 1..(Len(Q) - 1) : Tail(Q)[i] = Q[i + 1]
  OBVIOUS
<1>2. 1 \in 1..Len(Q)
  BY <1>1
<1>3. /\ \A b \in Q[1].bindings : P[b] # "absent"
      /\ \A b \in R \ Q[1].bindings : P[b] = "removed"
      /\ \A j \in 1..Len(Q) : 1 < j /\ Q[j].type = "sync_bindings" =>
           \A b \in Q[1].bindings \ Q[j].bindings : P[b] = "removed"
  BY <1>1, <1>2 DEF InOrder
<1>4. InOrder(Tail(Q), R, P)
  BY OrderTail
<1>5. ASSUME NEW i \in 1..Len(Tail(Q)), Tail(Q)[i].type = "sync_bindings",
             NEW b \in Head(Q).bindings \ Tail(Q)[i].bindings
      PROVE  P[b] = "removed"
  <2>1. i + 1 \in 1..Len(Q) /\ 1 < i + 1 /\ Tail(Q)[i] = Q[i + 1]
    BY <1>1, <1>5
  <2>2. QED BY <1>1, <1>3, <1>5, <2>1
<1>6. QED BY <1>1, <1>3, <1>4, <1>5 DEF InOrder

LEMMA FrameBindings ==
  ASSUME NEW Q \in Seq(Frame), NEW i \in 1..Len(Q)
  PROVE  Q[i].bindings \subseteq Bindings
<1>1. Q[i] \in Frame
  OBVIOUS
<1>2. \A f \in Frame : f.bindings \subseteq Bindings
  BY DEF Frame
<1>3. QED BY <1>1, <1>2

\* The first authentication and the routes as they are listed go behind the others.
LEMMA OrderAppend ==
  ASSUME NEW Q \in Seq(Frame), NEW f \in Frame, NEW R, NEW P, InOrder(Q, R, P),
         R \subseteq Bindings, P \in [Bindings -> {"absent", "listed", "removed"}],
         \A b \in R : P[b] # "absent",
         f.type = "sync_bindings" => f.bindings = {b \in Bindings : P[b] = "listed"}
  PROVE  InOrder(Append(Q, f), R, P)
<1> DEFINE A == Append(Q, f)
<1>1. /\ Len(Q) \in Nat /\ Len(A) = Len(Q) + 1 /\ A[Len(Q) + 1] = f
      /\ \A i \in 1..Len(Q) : A[i] = Q[i]
      /\ \A i \in 1..Len(A) : i \in 1..Len(Q) \/ i = Len(Q) + 1
  OBVIOUS
<1>2. \A i \in 1..Len(Q) : Q[i].bindings \subseteq Bindings
  BY FrameBindings
<1> HIDE DEF A
<1>3. ASSUME NEW i \in 1..Len(A), A[i].type = "sync_bindings"
      PROVE  /\ \A b \in A[i].bindings : P[b] # "absent"
             /\ \A b \in R \ A[i].bindings : P[b] = "removed"
             /\ \A j \in 1..Len(A) : i < j /\ A[j].type = "sync_bindings" =>
                  \A b \in A[i].bindings \ A[j].bindings : P[b] = "removed"
  <2>1. CASE i = Len(Q) + 1
    <3>1. A[i].bindings = {b \in Bindings : P[b] = "listed"}
      BY <1>1, <1>3, <2>1
    <3>2. \A j \in 1..Len(A) : ~(i < j)
      BY <1>1, <2>1
    <3>3. \A b \in R \ A[i].bindings : P[b] = "removed"
      BY <3>1
    <3>4. QED BY <3>1, <3>2, <3>3
  <2>2. CASE i \in 1..Len(Q)
    <3>1. /\ A[i] = Q[i] /\ \A b \in Q[i].bindings : P[b] # "absent"
          /\ \A b \in R \ Q[i].bindings : P[b] = "removed"
          /\ \A j \in 1..Len(Q) : i < j /\ Q[j].type = "sync_bindings" =>
               \A b \in Q[i].bindings \ Q[j].bindings : P[b] = "removed"
      BY <1>1, <1>3, <2>2 DEF InOrder
    <3>2. ASSUME NEW j \in 1..Len(A), i < j, A[j].type = "sync_bindings",
                 NEW b \in A[i].bindings \ A[j].bindings
          PROVE  P[b] = "removed"
      <4>1. CASE j \in 1..Len(Q)
        BY <1>1, <3>1, <3>2, <4>1
      <4>2. CASE j = Len(Q) + 1
        BY <1>1, <1>2, <2>2, <3>1, <3>2, <4>2
      <4>3. QED BY <1>1, <4>1, <4>2
    <3>3. QED BY <3>1, <3>2
  <2>3. QED BY <1>1, <2>1, <2>2
<1>4. QED BY <1>3 DEF InOrder, A

\* Routes go, and Bindings are listed and removed, never the other way round.
LEMMA OrderLater ==
  ASSUME NEW Q \in Seq(Frame), NEW R, NEW P, NEW S, NEW T, InOrder(Q, R, P), S \subseteq R,
         R \subseteq Bindings,
         \A b \in Bindings : /\ P[b] # "absent" => T[b] # "absent"
                             /\ P[b] = "removed" => T[b] = "removed"
  PROVE  InOrder(Q, S, T)
<1>1. \A i \in 1..Len(Q) : Q[i].bindings \subseteq Bindings
  BY FrameBindings
<1>2. ASSUME NEW i \in 1..Len(Q), Q[i].type = "sync_bindings"
      PROVE  /\ \A b \in Q[i].bindings : T[b] # "absent"
             /\ \A b \in S \ Q[i].bindings : T[b] = "removed"
             /\ \A j \in 1..Len(Q) : i < j /\ Q[j].type = "sync_bindings" =>
                  \A b \in Q[i].bindings \ Q[j].bindings : T[b] = "removed"
  BY <1>1, <1>2 DEF InOrder
<1>3. QED BY <1>2 DEF InOrder

LEMMA OrderEmpty ==
  ASSUME NEW R, NEW P
  PROVE  InOrder(<<>>, R, P)
BY DEF InOrder

----------------------------------------------------------------------------
(* Steps that leave the Relay's registry and the queues to it alone *)

\* Frames arrive at clients, routes are pruned, Bindings come and go.
LEMMA LaterRoutes ==
  ASSUME RouteInv, UNCHANGED <<conn, registry, toRelay, seen>>,
         toClient' \in [Sockets -> Seq({"challenge", "authenticated", "error"})],
         \A s \in Sockets : toClient'[s] \in {toClient[s], <<>>} \/
                             (toClient[s] # <<>> /\ toClient'[s] = Tail(toClient[s])),
         place' \in [Bindings -> {"absent", "listed", "removed"}], routes' \subseteq routes,
         \A b \in Bindings : /\ place[b] # "absent" => place'[b] # "absent"
                             /\ place[b] = "removed" => place'[b] = "removed"
  PROVE  RouteInv'
<1>1. RouteTypes'
  BY DEF RouteInv, RouteTypes
<1>2. OneAttached'
  BY DEF RouteInv, OneAttached
<1>3. NotYet'
  <2> SUFFICES ASSUME NEW s \in Sockets, conn[s] = "challenged", NEW i \in 1..Len(toClient'[s])
               PROVE  ~seen[s] /\ toClient'[s][i] # "authenticated"
    BY DEF NotYet, RouteInv
  <2>1. PICK Q \in Seq({"challenge", "authenticated", "error"}) : Q = toClient[s]
    BY DEF RouteInv, RouteTypes
  <2>2. ~seen[s] /\ \A k \in 1..Len(Q) : Q[k] # "authenticated"
    BY <2>1 DEF RouteInv, NotYet
  <2>3. CASE Q # <<>> /\ toClient'[s] = Tail(Q)
    <3>1. i + 1 \in 1..Len(Q) /\ toClient'[s][i] = Q[i + 1]
      BY <2>3
    <3>2. QED BY <2>2, <3>1
  <2>4. CASE toClient'[s] = <<>>
    BY <2>2, <2>4
  <2>5. QED BY <2>1, <2>2, <2>3, <2>4
<1>4. SendsInOrder'
  <2> SUFFICES ASSUME NEW s \in Sockets
               PROVE  InOrder(toRelay[s], routes', place')
    BY DEF RouteInv, SendsInOrder
  <2>1. toRelay[s] \in Seq(Frame) /\ routes \subseteq Bindings /\ InOrder(toRelay[s], routes, place)
    BY DEF RouteInv, RouteTypes, SendsInOrder
  <2>2. QED BY <2>1, OrderLater
<1>5. RoutedWasListed'
  BY DEF RouteInv, RouteTypes, RoutedWasListed
<1>6. QED BY <1>1, <1>2, <1>3, <1>4, <1>5 DEF RouteInv

LEMMA LaterHeard ==
  ASSUME RouteInv, UNCHANGED <<conn, registry, toRelay, seen, place>>, routes' \subseteq routes,
         toClient' \in [Sockets -> Seq({"challenge", "authenticated", "error"})],
         \A s \in Sockets : toClient'[s] \in {toClient[s], <<>>} \/
                             (toClient[s] # <<>> /\ toClient'[s] = Tail(toClient[s]))
  PROVE  RouteInv'
<1>1. /\ place' \in [Bindings -> {"absent", "listed", "removed"}]
      /\ \A b \in Bindings : /\ place[b] # "absent" => place'[b] # "absent"
                             /\ place[b] = "removed" => place'[b] = "removed"
  BY DEF RouteInv, RouteTypes
<1>2. QED BY <1>1, LaterRoutes

----------------------------------------------------------------------------
(* What clients send *)

LEMMA SendOrder ==
  ASSUME RouteInv, NEW s \in Sockets, NEW f \in Frame, Send(s, f),
         UNCHANGED <<conn, routes, place>>,
         f.type = "sync_bindings" => f.bindings = Listed /\ conn[s] # "challenged"
  PROVE  toRelay' \in [Sockets -> Seq(Frame)] /\ SendsInOrder'
<1>1. toRelay[s] \in Seq(Frame) /\ toRelay \in [Sockets -> Seq(Frame)]
  BY DEF RouteInv, RouteTypes
<1>2. PICK Q \in Seq(Frame) : Q = IF conn[s] \in {"challenged", "attached"}
                                  THEN Append(toRelay[s], f) ELSE toRelay[s]
  <2>1. Append(toRelay[s], f) \in Seq(Frame)
    BY <1>1
  <2>2. QED BY <1>1, <2>1
<1>3. toRelay' = [toRelay EXCEPT ![s] = Q]
  BY <1>1, <1>2 DEF Send
<1>4. toRelay' \in [Sockets -> Seq(Frame)]
  BY <1>1, <1>3
<1>5. ASSUME NEW t \in Sockets, t # s
      PROVE  toRelay'[t] = toRelay[t]
  BY <1>1, <1>3, <1>5
<1>6. toRelay'[s] = Q
  BY <1>1, <1>3
<1>7. Q # <<>> => conn[s] \in {"challenged", "attached"}
  BY <1>2 DEF RouteInv, SendsInOrder
<1>8. conn[s] = "challenged" => \A i \in 1..Len(Q) : Q[i].type # "sync_bindings"
  <2> SUFFICES ASSUME conn[s] = "challenged", NEW i \in 1..Len(Q)
               PROVE  Q[i].type # "sync_bindings"
    OBVIOUS
  <2>1. Q = Append(toRelay[s], f) /\ f.type # "sync_bindings"
    BY <1>2
  <2>2. \A k \in 1..Len(toRelay[s]) : toRelay[s][k].type # "sync_bindings"
    BY DEF RouteInv, SendsInOrder
  <2>3. (i \in 1..Len(toRelay[s]) /\ Q[i] = toRelay[s][i]) \/ Q[i] = f
    BY <1>1, <2>1
  <2>4. QED BY <2>1, <2>2, <2>3
<1>9. InOrder(Q, routes, place)
  <2>1. /\ InOrder(toRelay[s], routes, place) /\ routes \subseteq Bindings
        /\ place \in [Bindings -> {"absent", "listed", "removed"}]
        /\ \A b \in routes : place[b] # "absent"
    BY DEF RouteInv, RouteTypes, SendsInOrder, RoutedWasListed
  <2>2. f.type = "sync_bindings" => f.bindings = {b \in Bindings : place[b] = "listed"}
    BY DEF Listed
  <2>3. InOrder(Append(toRelay[s], f), routes, place)
    BY <1>1, <2>1, <2>2, OrderAppend
  <2>4. QED BY <1>2, <2>1, <2>3
<1>10. SendsInOrder'
  <2> SUFFICES ASSUME NEW t \in Sockets
               PROVE  /\ toRelay'[t] # <<>> => conn[t] \in {"challenged", "attached"}
                      /\ conn[t] = "challenged" =>
                           \A i \in 1..Len(toRelay'[t]) : toRelay'[t][i].type # "sync_bindings"
                      /\ InOrder(toRelay'[t], routes, place)
    BY DEF SendsInOrder
  <2>1. CASE t = s
    BY <1>6, <1>7, <1>8, <1>9, <2>1
  <2>2. CASE t # s
    BY <1>5, <2>2 DEF RouteInv, SendsInOrder
  <2>3. QED BY <2>1, <2>2
<1>11. QED BY <1>4, <1>10

LEMMA SyncIs == /\ SyncFrame \in Frame /\ SyncFrame.type = "sync_bindings"
                /\ SyncFrame.bindings = Listed
                /\ Authentication \in Frame /\ Authentication.type # "sync_bindings"
BY DEF SyncFrame, Authentication, Frame, Listed

LEMMA SendRoutes ==
  ASSUME RouteInv, NEW s \in Sockets, NEW f \in Frame, Send(s, f),
         UNCHANGED <<conn, registry, routes, place, seen, toClient>>,
         f.type = "sync_bindings" => f.bindings = Listed /\ conn[s] # "challenged"
  PROVE  RouteInv'
<1>1. toRelay' \in [Sockets -> Seq(Frame)] /\ SendsInOrder'
  BY SendOrder
<1>2. QED BY <1>1 DEF RouteInv, RouteTypes, OneAttached, NotYet, RoutedWasListed

\* The Binding timer of the daemon goes by the field, which says what the Relay told.
LEMMA SyncTimerRoutes ==
  ASSUME IInv, FieldInv, RouteInv, NEW c \in Clients, SyncTimer(c)
  PROVE  RouteInv'
<1>1. /\ authed[c] /\ life[c] # None /\ ready[<<c, life[c]>>] = "open"
      /\ Send(<<c, life[c]>>, SyncFrame)
      /\ UNCHANGED <<conn, registry, routes, place, seen, toClient>>
  BY DEF SyncTimer, CanSync, relayVars
<1>2. PICK s \in Sockets : s = <<c, life[c]>>
  BY <1>1 DEF IInv, Types, Sockets
<1>3. s[1] = c
  BY <1>2
<1>4. seen[s]
  BY <1>1, <1>2, <1>3 DEF FieldInv, FieldAgrees
<1>5. conn[s] # "challenged"
  BY <1>4 DEF RouteInv, NotYet
<1>6. Send(s, SyncFrame)
  BY <1>1, <1>2
<1>7. QED BY <1>1, <1>5, <1>6, SyncIs, SendRoutes

LEMMA SignedRoutes ==
  ASSUME RouteInv, NEW s \in Sockets, Signed(s)
  PROVE  RouteInv'
<1>1. UNCHANGED <<conn, registry, routes, place, seen, toClient>>
  BY DEF Signed, relayVars
<1>2. CASE Send(s, Authentication)
  BY <1>1, <1>2, SyncIs, SendRoutes
<1>3. CASE UNCHANGED toRelay
  BY <1>1, <1>3 DEF RouteInv, RouteTypes, OneAttached, NotYet, SendsInOrder, RoutedWasListed
<1>4. QED BY <1>2, <1>3 DEF Signed

\* The socket that was told is the last one, so that is where the routes are sent.
LEMMA OnAuthenticatedRoutes ==
  ASSUME IInv, FieldInv, RouteInv, NEW s \in Sockets, OnAuthenticated(s)
  PROVE  RouteInv'
<1>1. /\ ready[s] = "open" /\ toClient[s] # <<>> /\ Head(toClient[s]) = "authenticated"
      /\ toClient' = [toClient EXCEPT ![s] = Tail(toClient[s])]
      /\ seen' = [seen EXCEPT ![s] = TRUE] \/ seen' = seen
      /\ UNCHANGED <<conn, registry, routes, place>>
  BY DEF OnAuthenticated, Arrives, relayVars
<1>2. s[1] \in Clients /\ s = <<s[1], life[s[1]]>>
  BY <1>1, SocketsArePairs DEF IInv, NoLeakedSocket
<1>3. Send(s, SyncFrame)
  BY <1>1, <1>2 DEF OnAuthenticated
<1>4. PICK Q \in Seq({"challenge", "authenticated", "error"}) : Q = toClient[s]
  BY DEF RouteInv, RouteTypes
<1>5. 1 \in 1..Len(Q) /\ Q[1] = "authenticated" /\ Tail(Q) \in Seq({"challenge", "authenticated", "error"})
  BY <1>1, <1>4
<1>6. conn[s] # "challenged"
  BY <1>4, <1>5 DEF RouteInv, NotYet
<1>7. toRelay' \in [Sockets -> Seq(Frame)] /\ SendsInOrder'
  BY <1>1, <1>3, <1>6, SyncIs, SendOrder
<1>8. /\ toClient' \in [Sockets -> Seq({"challenge", "authenticated", "error"})]
      /\ \A t \in Sockets : t # s => toClient'[t] = toClient[t] /\ seen'[t] = seen[t]
  BY <1>1, <1>4, <1>5 DEF RouteInv, RouteTypes, FieldInv
<1>9. RouteTypes'
  BY <1>1, <1>7, <1>8 DEF RouteInv, RouteTypes
<1>10. NotYet'
  BY <1>1, <1>6, <1>8 DEF RouteInv, NotYet
<1>11. QED BY <1>1, <1>7, <1>9, <1>10 DEF RouteInv, OneAttached, RoutedWasListed

----------------------------------------------------------------------------
(* Sockets at the Relay *)

LEMMA ConnectRoutes ==
  ASSUME FieldInv, RouteInv, NEW c \in Clients, NEW l \in Lives, Connect(c, l)
  PROVE  RouteInv'
<1>1. PICK s \in Sockets : s = <<c, l>>
  BY DEF Sockets
<1>2. /\ conn[s] \in {"none", "closed"} /\ conn' = [conn EXCEPT ![s] = "none"]
      /\ seen' = [seen EXCEPT ![s] = FALSE]
      /\ UNCHANGED <<toClient, toRelay, registry, routes, place>>
  BY <1>1 DEF Connect
<1>3. /\ conn' \in [Sockets -> ConnStates] /\ conn'[s] = "none"
      /\ \A t \in Sockets : t # s => conn'[t] = conn[t] /\ seen'[t] = seen[t]
  BY <1>2 DEF RouteInv, RouteTypes, ConnStates, FieldInv
<1>4. RouteTypes'
  BY <1>2, <1>3 DEF RouteInv, RouteTypes
<1>5. OneAttached'
  BY <1>2, <1>3 DEF RouteInv, OneAttached
<1>6. NotYet'
  BY <1>2, <1>3 DEF RouteInv, NotYet
<1>7. SendsInOrder'
  BY <1>2, <1>3 DEF RouteInv, SendsInOrder
<1>8. QED BY <1>2, <1>4, <1>5, <1>6, <1>7 DEF RouteInv, RoutedWasListed

LEMMA AcceptRoutes ==
  ASSUME FieldInv, RouteInv, NEW s \in Sockets, Accept(s)
  PROVE  RouteInv'
<1>1. /\ conn[s] = "none" /\ ready[s] = "connecting"
      /\ conn' = [conn EXCEPT ![s] = "challenged"]
      /\ toClient' = [toClient EXCEPT ![s] = <<"challenge">>]
      /\ UNCHANGED <<seen, toRelay, registry, routes, place>>
  BY DEF Accept
<1>2. ~seen[s] /\ toRelay[s] = <<>>
  BY <1>1 DEF FieldInv, FieldAgrees, RouteInv, SendsInOrder
<1>3. /\ conn' \in [Sockets -> ConnStates] /\ conn'[s] = "challenged"
      /\ toClient' \in [Sockets -> Seq({"challenge", "authenticated", "error"})]
      /\ toClient'[s] = <<"challenge">>
      /\ \A t \in Sockets : t # s => conn'[t] = conn[t] /\ toClient'[t] = toClient[t]
  BY <1>1 DEF RouteInv, RouteTypes, ConnStates
<1>4. RouteTypes'
  BY <1>1, <1>3 DEF RouteInv, RouteTypes
<1>5. OneAttached'
  BY <1>1, <1>3 DEF RouteInv, OneAttached
<1>6. NotYet'
  <2>1. \A i \in 1..Len(toClient'[s]) : toClient'[s][i] # "authenticated"
    BY <1>3
  <2>2. QED BY <1>1, <1>2, <1>3, <2>1 DEF RouteInv, NotYet
<1>7. SendsInOrder'
  BY <1>1, <1>2, <1>3 DEF RouteInv, SendsInOrder
<1>8. QED BY <1>1, <1>4, <1>5, <1>6, <1>7 DEF RouteInv, RoutedWasListed

\* The Relay's end of a socket is closed, with what was on its way to it; the client may be
\* told why.
LEMMA ClosedRoutes ==
  ASSUME RouteInv, NEW s \in Sockets, conn[s] \in {"challenged", "attached"}, CloseConns({s}),
         toRelay' = [toRelay EXCEPT ![s] = <<>>],
         UNCHANGED toClient \/ Tell(s, "error"), UNCHANGED <<seen, routes, place>>
  PROVE  RouteInv'
<1>1. /\ conn' \in [Sockets -> ConnStates] /\ conn'[s] = "closed"
      /\ toRelay' \in [Sockets -> Seq(Frame)] /\ toRelay'[s] = <<>>
      /\ toClient' \in [Sockets -> Seq({"challenge", "authenticated", "error"})]
      /\ registry' = IF registry = s THEN None ELSE registry
      /\ \A t \in Sockets : t # s => /\ conn'[t] = conn[t] /\ toRelay'[t] = toRelay[t]
                                    /\ toClient'[t] = toClient[t]
  <2>1. /\ conn' \in [Sockets -> ConnStates] /\ conn'[s] = "closed"
        /\ \A t \in Sockets : t # s => conn'[t] = conn[t]
        /\ registry' = IF registry = s THEN None ELSE registry
    BY DEF CloseConns, RouteInv, RouteTypes, ConnStates
  <2>2. /\ toRelay' \in [Sockets -> Seq(Frame)] /\ toRelay'[s] = <<>>
        /\ \A t \in Sockets : t # s => toRelay'[t] = toRelay[t]
    BY DEF RouteInv, RouteTypes
  <2>3. /\ toClient' \in [Sockets -> Seq({"challenge", "authenticated", "error"})]
        /\ \A t \in Sockets : t # s => toClient'[t] = toClient[t]
    <3>1. toClient[s] \in Seq({"challenge", "authenticated", "error"})
      BY DEF RouteInv, RouteTypes
    <3>2. Append(toClient[s], "error") \in Seq({"challenge", "authenticated", "error"})
      BY <3>1
    <3>3. QED BY <3>2 DEF Tell, RouteInv, RouteTypes
  <2>4. QED BY <2>1, <2>2, <2>3
<1>2. RouteTypes'
  BY <1>1 DEF RouteInv, RouteTypes
<1>3. OneAttached'
  BY <1>1, GatewayNoneAssumption DEF RouteInv, RouteTypes, OneAttached, Sockets
<1>4. NotYet'
  BY <1>1 DEF RouteInv, NotYet
<1>5. SendsInOrder'
  BY <1>1, OrderEmpty DEF RouteInv, SendsInOrder
<1>6. QED BY <1>2, <1>3, <1>4, <1>5 DEF RouteInv, RoutedWasListed

\* Who authenticates takes the place of the socket in the registry, with what was sent there.
LEMMA AuthenticateRoutes ==
  ASSUME RouteInv, NEW s \in Sockets, conn[s] = "challenged", toRelay[s] # <<>>,
         Authenticate(s), UNCHANGED <<seen, place>>
  PROVE  RouteInv'
<1>1. PICK Q \in Seq(Frame) : Q = toRelay[s]
  BY DEF RouteInv, RouteTypes
<1>2. toClient[s] \in Seq({"challenge", "authenticated", "error"}) /\ Q # <<>> /\ Tail(Q) \in Seq(Frame)
  BY <1>1 DEF RouteInv, RouteTypes
<1>3. Append(toClient[s], "authenticated") \in Seq({"challenge", "authenticated", "error"})
  BY <1>2
<1>4. /\ toClient' \in [Sockets -> Seq({"challenge", "authenticated", "error"})]
      /\ \A t \in Sockets : t # s => toClient'[t] = toClient[t]
  BY <1>3 DEF Authenticate, Tell, RouteInv, RouteTypes
<1>5. /\ conn' = [p \in Sockets |->
           IF p = s THEN "attached" ELSE IF p = registry THEN "closed" ELSE conn[p]]
      /\ registry' = s /\ routes' = routes
      /\ toRelay' = [p \in Sockets |->
           IF p = s THEN Tail(Q) ELSE IF p = registry THEN <<>> ELSE toRelay[p]]
  BY <1>1 DEF Authenticate
<1>6. conn' \in [Sockets -> ConnStates] /\ toRelay' \in [Sockets -> Seq(Frame)]
  <2>1. <<>> \in Seq(Frame)
    OBVIOUS
  <2>2. QED BY <1>2, <1>5, <2>1 DEF RouteInv, RouteTypes, ConnStates
<1>7. RouteTypes'
  BY <1>4, <1>5, <1>6 DEF RouteInv, RouteTypes
<1>8. OneAttached'
  BY <1>5 DEF RouteInv, OneAttached
<1>9. NotYet'
  BY <1>4, <1>5 DEF RouteInv, NotYet
<1>10. InOrder(Tail(Q), routes, place)
  BY <1>1, <1>2, OrderTail DEF RouteInv, SendsInOrder
<1>11. SendsInOrder'
  <2> SUFFICES ASSUME NEW t \in Sockets
               PROVE  /\ toRelay'[t] # <<>> => conn'[t] \in {"challenged", "attached"}
                      /\ conn'[t] = "challenged" =>
                           \A i \in 1..Len(toRelay'[t]) : toRelay'[t][i].type # "sync_bindings"
                      /\ InOrder(toRelay'[t], routes, place)
    BY <1>5 DEF SendsInOrder
  <2>1. CASE t = s
    BY <1>5, <1>10, <2>1
  <2>2. CASE t # s /\ t = registry
    <3>1. toRelay'[t] = <<>> /\ conn'[t] = "closed"
      BY <1>5, <2>2
    <3>2. QED BY <3>1, OrderEmpty
  <2>3. CASE t # s /\ t # registry
    BY <1>5, <2>3 DEF RouteInv, SendsInOrder
  <2>4. QED BY <2>1, <2>2, <2>3
<1>12. QED BY <1>5, <1>7, <1>8, <1>9, <1>11 DEF RouteInv, RoutedWasListed

\* What is dispatched comes from the registered socket; it takes off the routes only what was
\* removed.
LEMMA DispatchRoutes ==
  ASSUME RouteInv, NEW s \in Sockets, conn[s] = "attached", toRelay[s] # <<>>, Dispatch(s),
         UNCHANGED <<seen, place>>
  PROVE  RouteInv' /\ \A b \in routes \ routes' : place[b] = "removed"
<1>1. PICK Q \in Seq(Frame) : Q = toRelay[s]
  BY DEF RouteInv, RouteTypes
<1>2. /\ Q # <<>> /\ Tail(Q) \in Seq(Frame) /\ InOrder(Q, routes, place)
      /\ toRelay' = [toRelay EXCEPT ![s] = Tail(Q)] /\ UNCHANGED <<conn, registry>>
  BY <1>1 DEF RouteInv, SendsInOrder, Dispatch
<1>3. PICK f \in Frame : f = Head(Q) /\ f.bindings \subseteq Bindings
  <2>1. 1 \in 1..Len(Q) /\ Head(Q) = Q[1] /\ Head(Q) \in Frame
    BY <1>2
  <2>2. Head(Q).bindings \subseteq Bindings
    BY <2>1, FrameBindings
  <2>3. QED BY <2>1, <2>2
<1>4. /\ toRelay' \in [Sockets -> Seq(Frame)] /\ toRelay'[s] = Tail(Q)
      /\ \A t \in Sockets : t # s => toRelay'[t] = toRelay[t]
  BY <1>2 DEF RouteInv, RouteTypes
<1>5. /\ toClient' \in [Sockets -> Seq({"challenge", "authenticated", "error"})]
      /\ \A t \in Sockets : t # s => toClient'[t] = toClient[t]
  <2>1. toClient[s] \in Seq({"challenge", "authenticated", "error"})
    BY DEF RouteInv, RouteTypes
  <2>2. Append(toClient[s], "error") \in Seq({"challenge", "authenticated", "error"})
    BY <2>1
  <2>3. UNCHANGED toClient \/ Tell(s, "error")
    BY DEF Dispatch
  <2>4. QED BY <2>2, <2>3 DEF Tell, RouteInv, RouteTypes
<1>6. /\ routes' \subseteq Bindings /\ InOrder(Tail(Q), routes', place)
      /\ \A b \in routes' : place[b] # "absent"
      /\ \A b \in routes \ routes' : place[b] = "removed"
  <2>1. CASE f.type = "sync_bindings" /\ routes' = f.bindings
    BY <1>2, <1>3, <2>1, OrderTaken
  <2>2. CASE UNCHANGED routes
    <3>1. InOrder(Tail(Q), routes, place)
      BY <1>2, OrderTail
    <3>2. QED BY <2>2, <3>1 DEF RouteInv, RouteTypes, RoutedWasListed
  <2>3. QED BY <1>1, <1>3, <2>1, <2>2 DEF Dispatch
<1>7. ASSUME NEW t \in Sockets, t # s
      PROVE  toRelay[t] = <<>> \/ conn[t] = "challenged"
  BY <1>7 DEF RouteInv, OneAttached, SendsInOrder
<1>8. ASSUME NEW t \in Sockets, t # s
      PROVE  InOrder(toRelay[t], routes', place)
  <2>1. CASE toRelay[t] = <<>>
    BY <2>1, OrderEmpty
  <2>2. CASE conn[t] = "challenged"
    BY <2>2 DEF RouteInv, SendsInOrder, InOrder
  <2>3. QED BY <1>7, <1>8, <2>1, <2>2
<1>9. RouteTypes'
  BY <1>2, <1>4, <1>5, <1>6 DEF RouteInv, RouteTypes
<1>10. OneAttached'
  BY <1>2 DEF RouteInv, OneAttached
<1>11. NotYet'
  BY <1>2, <1>5 DEF RouteInv, NotYet
<1>12. SendsInOrder'
  BY <1>2, <1>4, <1>6, <1>8 DEF RouteInv, SendsInOrder
<1>13. RoutedWasListed'
  BY <1>6 DEF RoutedWasListed
<1>14. QED BY <1>6, <1>9, <1>10, <1>11, <1>12, <1>13 DEF RouteInv

\* An event of a socket takes a frame to the client from the front, or all with its close.
LEMMA SocketRoutes ==
  ASSUME IInv, FieldInv, RouteInv, NEW s \in Sockets,
         \/ SocketStep(s) \/ SigningFails(s) \/ HandlerFails(s) \/ Breaks(s) \/ ConnectFails(s)
  PROVE  RouteInv'
<1>1. toClient[s] \in Seq({"challenge", "authenticated", "error"})
  BY DEF RouteInv, RouteTypes
<1>2. UNCHANGED <<conn, registry, toRelay, seen, toClient, routes, place>> => RouteInv'
  BY DEF RouteInv, RouteTypes, OneAttached, NotYet, SendsInOrder, RoutedWasListed
<1>3. CASE OnChallenge(s) \/ OnError(s)
  <2>1. /\ toClient[s] # <<>> /\ toClient' = [toClient EXCEPT ![s] = Tail(toClient[s])]
        /\ UNCHANGED <<conn, registry, toRelay, seen, routes, place>>
    BY <1>3 DEF OnChallenge, OnError, Arrives, relayVars
  <2>2. Tail(toClient[s]) \in Seq({"challenge", "authenticated", "error"})
    BY <1>1, <2>1
  <2>3. /\ toClient' \in [Sockets -> Seq({"challenge", "authenticated", "error"})]
        /\ \A t \in Sockets : toClient'[t] \in {toClient[t], <<>>} \/
                                (toClient[t] # <<>> /\ toClient'[t] = Tail(toClient[t]))
    BY <2>1, <2>2 DEF RouteInv, RouteTypes
  <2>4. QED BY <2>1, <2>3, LaterHeard
<1>4. CASE CloseEvent(s)
  <2>1. /\ toClient' = [toClient EXCEPT ![s] = <<>>]
        /\ UNCHANGED <<conn, registry, toRelay, seen, routes, place>>
    BY <1>4 DEF CloseEvent, relayVars
  <2>2. /\ toClient' \in [Sockets -> Seq({"challenge", "authenticated", "error"})]
        /\ \A t \in Sockets : toClient'[t] \in {toClient[t], <<>>} \/
                                (toClient[t] # <<>> /\ toClient'[t] = Tail(toClient[t]))
    BY <2>1 DEF RouteInv, RouteTypes
  <2>3. QED BY <2>1, <2>2, LaterHeard
<1>5. CASE \/ SigningFails(s) \/ HandlerFails(s) \/ PeerCloses(s) \/ Breaks(s) \/ ConnectFails(s)
  BY <1>2, <1>5 DEF SigningFails, HandlerFails, PeerCloses, Breaks, ConnectFails, relayVars
<1>6. QED BY <1>3, <1>4, <1>5, SignedRoutes, OnAuthenticatedRoutes DEF SocketStep

\* The Relay's steps, and what they take off the routes.
LEMMA RelayRoutes ==
  ASSUME FieldInv, RouteInv, NEW s \in Sockets, RelayStep(s) \/ RelayCloses(s)
  PROVE  RouteInv' /\ \A b \in routes \ routes' : place[b] = "removed"
<1>1. CASE Accept(s)
  BY <1>1, AcceptRoutes DEF Accept
<1>2. CASE RelayLoses(s) \/ RelayCloses(s)
  <2>1. /\ conn[s] \in {"challenged", "attached"} /\ CloseConns({s})
        /\ toRelay' = [toRelay EXCEPT ![s] = <<>>]
        /\ UNCHANGED <<toClient, seen, routes, place>>
    BY <1>2 DEF RelayLoses, RelayCloses
  <2>2. QED BY <2>1, ClosedRoutes
<1>3. CASE RelayReads(s)
  <2>1. toRelay[s] # <<>> /\ UNCHANGED <<seen, place>>
    BY <1>3 DEF RelayReads
  <2>2. CASE conn[s] = "challenged" /\ Authenticate(s)
    BY <2>1, <2>2, AuthenticateRoutes DEF Authenticate
  <2>3. CASE conn[s] = "challenged" /\ Refuse(s)
    BY <2>1, <2>3, ClosedRoutes DEF Refuse
  <2>4. CASE conn[s] = "attached" /\ Dispatch(s)
    BY <2>1, <2>4, DispatchRoutes
  <2>5. QED BY <1>3, <2>2, <2>3, <2>4 DEF RelayReads
<1>4. QED BY <1>1, <1>2, <1>3 DEF RelayStep

LEMMA StepRoutes ==
  ASSUME IInv, FieldInv, RouteInv, [Next]_vars
  PROVE  RouteInv' /\ (enrolled' => \A b \in routes \ routes' : place[b] = "removed")
<1>1. UNCHANGED <<conn, registry, toRelay, seen, toClient, routes, place>> => RouteInv'
  BY DEF RouteInv, RouteTypes, OneAttached, NotYet, SendsInOrder, RoutedWasListed
<1>2. CASE UNCHANGED vars
  BY <1>1, <1>2 DEF vars, clientVars, socketVars, relayVars
<1>3. ASSUME NEW c \in Clients, Run(c) \/ Stop(c) \/ LoopStep(c) \/ SyncTimer(c)
      PROVE  RouteInv' /\ routes' = routes
  <2>1. CASE Run(c) \/ Stop(c) \/ LoopEnds(c)
    BY <1>1, <2>1 DEF Run, Stop, LoopEnds, socketVars, relayVars
  <2>2. CASE SyncTimer(c)
    BY <2>2, SyncTimerRoutes DEF SyncTimer, relayVars
  <2>3. ASSUME NEW l \in Lives, Connect(c, l)
        PROVE  RouteInv' /\ routes' = routes
    BY <2>3, ConnectRoutes DEF Connect
  <2>4. QED BY <1>3, <2>1, <2>2, <2>3 DEF LoopStep
<1>4. ASSUME NEW s \in Sockets,
             \/ SocketStep(s) \/ SigningFails(s) \/ HandlerFails(s) \/ Breaks(s) \/ ConnectFails(s)
      PROVE  RouteInv' /\ routes' = routes
  <2>1. routes' = routes
    BY <1>4 DEF SocketStep, OnChallenge, Signed, OnAuthenticated, OnError, PeerCloses, CloseEvent,
                SigningFails, HandlerFails, Breaks, ConnectFails, relayVars
  <2>2. QED BY <1>4, <2>1, SocketRoutes
<1>5. ASSUME NEW s \in Sockets, RelayStep(s) \/ RelayCloses(s)
      PROVE  RouteInv' /\ \A b \in routes \ routes' : place[b] = "removed"
  BY <1>5, RelayRoutes
<1>6. CASE Prune
  <2>1. ~enrolled' /\ routes' = {} /\ UNCHANGED <<conn, registry, toRelay, seen, toClient, place>>
    BY <1>6 DEF Prune, socketVars
  <2>2. /\ toClient' \in [Sockets -> Seq({"challenge", "authenticated", "error"})]
        /\ routes' \subseteq routes /\ \A t \in Sockets : toClient'[t] \in {toClient[t], <<>>}
    BY <2>1 DEF RouteInv, RouteTypes
  <2>3. RouteInv'
    BY <2>1, <2>2, LaterHeard
  <2>4. QED BY <2>1, <2>3
<1>7. ASSUME NEW b \in Bindings, Add(b) \/ Remove(b)
      PROVE  RouteInv' /\ routes' = routes
  <2>1. /\ UNCHANGED <<conn, registry, toRelay, seen, toClient, routes>>
        /\ \/ place[b] = "absent" /\ place' = [place EXCEPT ![b] = "listed"]
           \/ place[b] = "listed" /\ place' = [place EXCEPT ![b] = "removed"]
    BY <1>7 DEF Add, Remove, socketVars, relayVars
  <2>2. /\ place' \in [Bindings -> {"absent", "listed", "removed"}]
        /\ \A d \in Bindings : /\ place[d] # "absent" => place'[d] # "absent"
                               /\ place[d] = "removed" => place'[d] = "removed"
    BY <2>1 DEF RouteInv, RouteTypes
  <2>3. /\ toClient' \in [Sockets -> Seq({"challenge", "authenticated", "error"})]
        /\ routes' \subseteq routes /\ \A t \in Sockets : toClient'[t] \in {toClient[t], <<>>}
    BY <2>1 DEF RouteInv, RouteTypes
  <2>4. RouteInv'
    BY <2>1, <2>2, <2>3, LaterRoutes
  <2>5. QED BY <2>1, <2>4
<1>8. QED BY <1>2, <1>3, <1>4, <1>5, <1>6, <1>7 DEF Next

LEMMA InitRoutes == Init => RouteInv
BY OrderEmpty, GatewayNoneAssumption
   DEF Init, RouteInv, RouteTypes, OneAttached, NotYet, SendsInOrder, RoutedWasListed, ConnStates,
       Sockets

\* A Binding that stays listed stays routed, for any number of clients that replace each other
\* at the Relay, of reconnections and of changes of the store, as long as the Relay knows the
\* installation: who authenticates takes the place of the socket before with what was on
\* its way there, and routes are sent as they are listed then, behind one another. A socket
\* closes within the backoff before the next is opened.
THEOREM GatewayListedStaysRouted == MaxClosing = 0 => (Spec => ListedStaysRouted)
<1> SUFFICES ASSUME MaxClosing = 0 PROVE Spec => ListedStaysRouted
  OBVIOUS
<1>1. Init => FieldInv
  BY DEF Init, FieldInv, OneSocket, AuthedHasSocket, FieldAgrees
<1>2. IInv /\ FieldInv /\ [Next]_vars => FieldInv'
  BY StepField
<1>3. IInv /\ FieldInv /\ RouteInv /\ [Next]_vars => RouteInv'
  BY StepRoutes
<1>4. IInv /\ FieldInv /\ RouteInv /\ [Next]_vars =>
        [\A b \in Bindings : b \in routes /\ place[b] = "listed" /\ enrolled' => b \in routes']_vars
  BY StepRoutes
<1>5. QED BY <1>1, <1>2, <1>3, <1>4, InitRoutes, GatewayInvariant, PTL DEF Spec, ListedStaysRouted
=============================================================================
