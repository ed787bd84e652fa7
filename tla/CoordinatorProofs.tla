--------------------------- MODULE CoordinatorProofs ---------------------------
(***************************************************************************)
(* Theorems about Coordinator, for any number of conversations, events,    *)
(* turns and interactions, any concurrency and any number of crashes.      *)
(***************************************************************************)
EXTENDS Coordinator, SequenceTheorems, FiniteSetTheorems, TLAPS

----------------------------------------------------------------------------
(* The inductive invariant *)

\* The turns that are being executed.
Busy == {t \in Turns : exec[t] # None}

\* A process that is down remembers nothing.
DownIsEmpty ==
  ~up => queue = <<>> /\ running = 0 /\ live = {} /\ \A t \in Turns : exec[t] = None

\* An interaction that was not settled was settled by nobody.
OpenBySomebody ==
  \A i \in Interactions : ixStatus[i] \in {"unused", "pending"} => ixBy[i] = "nobody"

IInv ==
  /\ TypeOK
  /\ PoolIsCounted
  /\ WorkConserving
  /\ LiveIsPending
  /\ WaitingIsAnswerable
  /\ PermissionByOperator
  /\ DownIsEmpty
  /\ OpenBySomebody

----------------------------------------------------------------------------
(* Operators *)

LEMMA TurnIsNotNone ==
  ASSUME TypeOK, NEW t \in Turns, exec[t] # None
  PROVE  exec[t] \in Turn
  BY DEF TypeOK

LEMMA MarkDeliveredType ==
  ASSUME NEW table \in Seq(FollowUp), NEW n
  PROVE  /\ MarkDelivered(table, n) \in Seq(FollowUp)
         /\ Len(MarkDelivered(table, n)) = Len(table)
         /\ \A k \in 1..Len(table) : MarkDelivered(table, n)[k].event = table[k].event
<1>1. Len(table) \in Nat /\ \A k \in 1..Len(table) : table[k] \in FollowUp
  BY LenProperties, ElementOfSeq
<1>2. \A k \in 1..Len(table) : [table[k] EXCEPT !.delivered = @ \/ k = n] \in FollowUp
  BY <1>1 DEF FollowUp
<1>3. MarkDelivered(table, n) \in [1..Len(table) -> FollowUp]
  BY <1>2 DEF MarkDelivered
<1>4. MarkDelivered(table, n) \in Seq(FollowUp) /\ Len(MarkDelivered(table, n)) = Len(table)
  BY <1>1, <1>3, IsASeq, LenProperties
<1>5. \A k \in 1..Len(table) : MarkDelivered(table, n)[k].event = table[k].event
  BY <1>1 DEF MarkDelivered, FollowUp
<1>6. QED BY <1>4, <1>5

LEMMA BusyIsFinite == IsFiniteSet(Busy) /\ Cardinality(Busy) \in Nat
  BY TurnsAssumption, FS_Subset, FS_CardinalityType DEF Busy

\* A free turn starts, a busy one ends: the pool's count follows.
LEMMA BusyGrows ==
  ASSUME TypeOK, NEW t \in Turns, exec[t] = None, NEW turn \in Turn,
         exec' = [exec EXCEPT ![t] = turn], turn # None
  PROVE  Cardinality({u \in Turns : exec'[u] # None}) = Cardinality(Busy) + 1
<1>1. {u \in Turns : exec'[u] # None} = Busy \cup {t} /\ t \notin Busy
  BY DEF TypeOK, Busy
<1>2. QED BY <1>1, BusyIsFinite, FS_AddElement

LEMMA BusyShrinks ==
  ASSUME TypeOK, NEW t \in Turns, exec[t] # None, exec' = [exec EXCEPT ![t] = None]
  PROVE  /\ Cardinality({u \in Turns : exec'[u] # None}) = Cardinality(Busy) - 1
         /\ Cardinality(Busy) >= 1
<1>1. {u \in Turns : exec'[u] # None} = Busy \ {t} /\ t \in Busy
  BY DEF TypeOK, Busy
<1>2. Cardinality(Busy \ {t}) = Cardinality(Busy) - 1
  BY <1>1, BusyIsFinite, FS_RemoveElement
<1>3. Cardinality(Busy \ {t}) \in Nat
  BY BusyIsFinite, FS_RemoveElement, FS_CardinalityType
<1>4. QED BY <1>1, <1>2, <1>3, BusyIsFinite

----------------------------------------------------------------------------
(* Groups of the invariant's parts, by the variables they speak of *)

\* Of the store and the process.
TypeStore ==
  /\ up \in BOOLEAN /\ doomed \in BOOLEAN /\ crashes \in 0..MaxCrashes
  /\ ingress \subseteq Events
  /\ status \in [Conversations -> Statuses \cup {"none"}]
  /\ rows \in [Conversations -> Seq(FollowUp)]
  /\ creating \in [Messages -> Conversations \cup {None}]
  /\ stopping \in [Stops -> Conversations \cup {None}]

IxInv ==
  /\ ixStatus \in [Interactions -> {"unused", "pending", "settled", "cancelled"}]
  /\ ixSession \in [Interactions -> Conversations \cup {None}]
  /\ ixKind \in [Interactions -> {"permission", "other"}]
  /\ ixBy \in [Interactions -> {"nobody", "operator", "participant"}]
  /\ live \subseteq Interactions
  /\ asker \in [Interactions -> Turns \cup {None}]
  /\ LiveIsPending
  /\ PermissionByOperator
  /\ OpenBySomebody

PoolInv ==
  /\ queue \in Seq(Turn)
  /\ running \in Nat
  /\ pumping \in BOOLEAN
  /\ exec \in [Turns -> Turn \cup {None}]
  /\ active \in [Conversations -> Turns \cup {None}]
  /\ PoolIsCounted

LEMMA Grouped ==
  IInv <=> TypeStore /\ IxInv /\ PoolInv /\ WorkConserving /\ WaitingIsAnswerable /\ DownIsEmpty
  BY DEF IInv, TypeOK, TypeStore, IxInv, PoolInv

LEMMA Regrouped ==
  ASSUME TypeStore', IxInv', PoolInv', WorkConserving', WaitingIsAnswerable', DownIsEmpty'
  PROVE  IInv'
  BY DEF IInv, TypeOK, TypeStore, IxInv, PoolInv

LEMMA IxUnchanged ==
  ASSUME IxInv, UNCHANGED ixVars
  PROVE  IxInv'
  BY DEF ixVars, IxInv, LiveIsPending, PermissionByOperator, OpenBySomebody

LEMMA PoolUnchanged ==
  ASSUME PoolInv, UNCHANGED poolVars
  PROVE  PoolInv'
  BY DEF poolVars, PoolInv, PoolIsCounted

\* Tasks that leave pool, interactions and the sessions' status alone.
LEMMA QuietKeeps ==
  ASSUME IInv, TypeStore', UNCHANGED <<processVars, status, ixVars, poolVars>>
  PROVE  IInv'
<1>1. IxInv' /\ PoolInv'
  BY Grouped, IxUnchanged, PoolUnchanged
<1>2. WorkConserving'
  BY DEF IInv, WorkConserving, Task, processVars, poolVars
<1>3. WaitingIsAnswerable'
  BY DEF IInv, WaitingIsAnswerable, LiveOf, processVars, ixVars
<1>4. DownIsEmpty'
  BY DEF IInv, DownIsEmpty, processVars, poolVars, ixVars
<1>5. QED BY <1>1, <1>2, <1>3, <1>4, Regrouped

\* A turn of session c is scheduled while its status becomes "queued".
LEMMA ScheduleKeeps ==
  ASSUME IInv, up, TypeStore', NEW c \in Conversations, NEW m \in Messages,
         Schedule([session |-> c, prompt |-> m, row |-> 0]),
         status' = [status EXCEPT ![c] = "queued"],
         UNCHANGED <<processVars, ixVars, running, exec, active>>
  PROVE  IInv'
<1>1. queue' = Append(queue, [session |-> c, prompt |-> m, row |-> 0]) /\ pumping' = TRUE
  BY DEF Schedule, RequestPump
<1>2. PoolInv'
  <2>1. queue' \in Seq(Turn)
    BY <1>1, AppendProperties DEF Turn, IInv, TypeOK
  <2>2. QED BY <1>1, <2>1, Grouped DEF PoolInv, PoolIsCounted
<1>3. IxInv'
  BY Grouped, IxUnchanged
<1>4. WorkConserving' /\ DownIsEmpty'
  BY <1>1 DEF WorkConserving, Task, DownIsEmpty, processVars
<1>5. WaitingIsAnswerable'
  BY DEF IInv, TypeOK, WaitingIsAnswerable, LiveOf, processVars, ixVars
<1>6. QED BY <1>2, <1>3, <1>4, <1>5, Regrouped

\* Interactions are settled by somebody who may do so.
LEMMA SettleKeeps ==
  ASSUME IInv, NEW is \in SUBSET Interactions,
         NEW how \in {"settled", "cancelled"},
         NEW by \in {"nobody", "operator", "participant"},
         \A i \in is : ixKind[i] = "permission" => by # "participant",
         SettleInteractions(is, how, by)
  PROVE  IxInv'
<1>1. /\ ixStatus' = [i \in Interactions |-> IF i \in is THEN how ELSE ixStatus[i]]
      /\ ixBy' = [i \in Interactions |-> IF i \in is THEN by ELSE ixBy[i]]
      /\ live' = live \ is
      /\ asker' = [i \in Interactions |-> IF i \in is THEN None ELSE asker[i]]
      /\ ixSession' = ixSession /\ ixKind' = ixKind
  BY DEF SettleInteractions
<1>2. LiveIsPending' /\ PermissionByOperator' /\ OpenBySomebody'
  BY <1>1 DEF IInv, TypeOK, LiveIsPending, PermissionByOperator, OpenBySomebody
<1>3. QED BY <1>1, <1>2 DEF IInv, TypeOK, IxInv

\* A settled interaction of session c that leaves it in a status other than "waiting".
LEMMA SettledTaskKeeps ==
  ASSUME IInv, up, TypeStore', IxInv', NEW c \in Conversations,
         live' \subseteq live, live \ live' \subseteq LiveOf(c), ixSession' = ixSession,
         status'[c] # "waiting" \/ live' = live,
         \A d \in Conversations : status'[d] = "waiting" => status[d] = "waiting",
         UNCHANGED <<processVars, poolVars>>
  PROVE  IInv'
<1>1. PoolInv'
  BY Grouped, PoolUnchanged
<1>2. WorkConserving' /\ DownIsEmpty'
  BY DEF IInv, WorkConserving, Task, DownIsEmpty, processVars, poolVars
<1>3. WaitingIsAnswerable'
  BY DEF IInv, TypeOK, WaitingIsAnswerable, LiveOf, processVars
<1>4. QED BY <1>1, <1>2, <1>3, Regrouped

----------------------------------------------------------------------------
(* The actions *)

\* A reply or a response settles a pending interaction.
LEMMA ResolveKeeps ==
  ASSUME IInv, up, NEW e \in Events, NEW c \in Conversations, NEW i \in Interactions,
         NEW by \in {"operator", "participant"}, MayAnswer(i, by),
         ingress' = ingress \cup {e},
         ResolveInteraction(c, i, by),
         UNCHANGED <<processVars, rows, poolVars, creating, stopping>>
  PROVE  IInv'
<1>1. /\ ixSession[i] = c
      /\ SettleInteractions({i}, "settled", by)
      /\ status' = IF i \in live THEN [status EXCEPT ![c] = Woken(@)] ELSE status
  BY DEF ResolveInteraction
<1>2. IxInv'
  BY <1>1, SettleKeeps DEF MayAnswer
<1>3. TypeStore'
  BY <1>1 DEF IInv, TypeOK, TypeStore, processVars, Woken, Statuses
<1>4. live' = live \ {i} /\ ixSession' = ixSession
  BY <1>1 DEF SettleInteractions
<1>5. /\ live' \subseteq live
      /\ live \ live' \subseteq LiveOf(c)
      /\ status'[c] # "waiting" \/ live' = live
      /\ \A d \in Conversations : status'[d] = "waiting" => status[d] = "waiting"
  BY <1>1, <1>4 DEF IInv, TypeOK, LiveOf, Woken
<1>6. QED BY <1>2, <1>3, <1>4, <1>5, SettledTaskKeeps

LEMMA AcceptMessageKeeps ==
  ASSUME IInv, NEW m \in Messages, AcceptMessage(m)
  PROVE  IInv'
<1>0. TypeOK /\ m \in Events
  BY DEF IInv, Events
<1>1. ASSUME WorktreeReady(m) PROVE IInv'
  <2> DEFINE c == creating[m]
  <2>1. /\ up /\ c \in Conversations
        /\ creating' = [creating EXCEPT ![m] = None]
        /\ UNCHANGED <<processVars, ingress, rows, ixVars, running, exec, active, stopping>>
    BY <1>0, <1>1 DEF WorktreeReady, Task, TypeOK
  <2>2. CASE status[c] = "none"
    <3>1. /\ status' = [status EXCEPT ![c] = "queued"]
          /\ Schedule([session |-> c, prompt |-> m, row |-> 0])
      BY <1>1, <2>2 DEF WorktreeReady
    <3>2. TypeStore'
      BY <1>0, <2>1, <3>1 DEF TypeOK, TypeStore, Statuses, processVars
    <3>3. QED BY <2>1, <3>1, <3>2, ScheduleKeeps
  <2>3. CASE status[c] # "none"
    <3>1. UNCHANGED <<status, queue, pumping>>
      BY <1>1, <2>3 DEF WorktreeReady
    <3>2. TypeStore'
      BY <1>0, <2>1, <3>1 DEF TypeOK, TypeStore, processVars
    <3>3. QED BY <2>1, <3>1, <3>2, QuietKeeps DEF poolVars
  <2>4. QED BY <2>2, <2>3
<1>2. ASSUME WorktreeFails(m) PROVE IInv'
  <2>1. /\ creating' = [creating EXCEPT ![m] = None]
        /\ UNCHANGED <<processVars, storeVars, poolVars, live, asker, stopping>>
    BY <1>2 DEF WorktreeFails
  <2>2. TypeStore'
    BY <1>0, <2>1 DEF TypeOK, TypeStore, processVars, storeVars
  <2>3. QED BY <2>1, <2>2, QuietKeeps DEF storeVars, ixVars
<1>3. ASSUME NEW c \in Conversations, AcceptFirst(m, c) PROVE IInv'
  <2>1. /\ ingress' = ingress \cup {m}
        /\ creating' = [creating EXCEPT ![m] = c]
        /\ UNCHANGED <<processVars, status, rows, ixVars, poolVars, stopping>>
    BY <1>3 DEF AcceptFirst, RecordIngress
  <2>2. TypeStore'
    BY <1>0, <2>1 DEF TypeOK, TypeStore, processVars
  <2>3. QED BY <2>1, <2>2, QuietKeeps
<1>4. ASSUME NEW c \in Conversations, AcceptFollowUp(m, c) PROVE IInv'
  <2>1. /\ ingress' = ingress \cup {m}
        /\ rows' = [rows EXCEPT ![c] = Append(@, [event |-> m, delivered |-> FALSE])]
        /\ UNCHANGED <<processVars, status, ixVars, poolVars, creating, stopping>>
    BY <1>4 DEF AcceptFollowUp, RecordIngress, EnqueueFollowUp
  <2>2. Append(rows[c], [event |-> m, delivered |-> FALSE]) \in Seq(FollowUp)
    BY <1>0, AppendProperties DEF TypeOK, FollowUp
  <2>3. TypeStore'
    BY <1>0, <2>1, <2>2 DEF TypeOK, TypeStore, processVars
  <2>4. QED BY <2>1, <2>3, QuietKeeps
<1>5. ASSUME NEW c \in Conversations, AcceptResume(m, c) PROVE IInv'
  <2>1. /\ up
        /\ ingress' = ingress \cup {m}
        /\ status' = [status EXCEPT ![c] = "queued"]
        /\ Schedule([session |-> c, prompt |-> m, row |-> 0])
        /\ UNCHANGED <<processVars, rows, ixVars, running, exec, active, creating, stopping>>
    BY <1>5 DEF AcceptResume, RecordIngress, Task
  <2>2. TypeStore'
    BY <1>0, <2>1 DEF TypeOK, TypeStore, Statuses, processVars
  <2>3. QED BY <2>1, <2>2, ScheduleKeeps
<1>6. ASSUME NEW c \in Conversations, NEW i \in Interactions,
             NEW by \in {"operator", "participant"}, AcceptReply(m, c, i, by)
      PROVE  IInv'
  BY <1>0, <1>6, ResolveKeeps DEF AcceptReply, RecordIngress, Task
<1>7. QED BY <1>1, <1>2, <1>3, <1>4, <1>5, <1>6 DEF AcceptMessage

\* Stops.
LEMMA StopKeeps ==
  ASSUME IInv, NEW e \in Stops,
         Interrupted(e) \/ InterruptFails(e) \/ \E c \in Conversations : AcceptStop(e, c)
  PROVE  IInv'
<1>0. TypeOK /\ e \in Events
  BY DEF IInv, Events
<1>1. ASSUME up, NEW c \in Conversations, FinishStop(c),
             ingress' = ingress \/ ingress' = ingress \cup {e},
             stopping' \in [Stops -> Conversations \cup {None}],
             UNCHANGED <<processVars, rows, poolVars, creating>>
      PROVE  IInv'
  <2>1. CASE MayBecome(status[c], "stopped")
    <3>1. /\ SettleInteractions(LiveOf(c), "cancelled", "nobody")
          /\ status' = [status EXCEPT ![c] = "stopped"]
      BY <1>1, <2>1 DEF FinishStop, Woken
    <3>2. LiveOf(c) \in SUBSET Interactions
      BY <1>0 DEF LiveOf, TypeOK
    <3>3. IxInv'
      BY <3>1, <3>2, SettleKeeps
    <3>4. TypeStore'
      BY <1>0, <1>1, <3>1 DEF TypeOK, TypeStore, processVars, Statuses
    <3>5. live' = live \ LiveOf(c) /\ ixSession' = ixSession
      BY <3>1 DEF SettleInteractions
    <3>6. /\ status'[c] # "waiting"
          /\ \A d \in Conversations : status'[d] = "waiting" => status[d] = "waiting"
      BY <1>0, <3>1 DEF TypeOK
    <3>7. QED BY <1>1, <3>3, <3>4, <3>5, <3>6, SettledTaskKeeps
  <2>2. CASE ~MayBecome(status[c], "stopped")
    <3>1. UNCHANGED <<status, ixVars>>
      BY <1>1, <2>2 DEF FinishStop
    <3>2. TypeStore'
      BY <1>0, <1>1, <3>1 DEF TypeOK, TypeStore, processVars
    <3>3. QED BY <1>1, <3>1, <3>2, QuietKeeps
  <2>3. QED BY <2>1, <2>2
<1>2. ASSUME Interrupted(e) PROVE IInv'
  <2>1. stopping[e] \in Conversations /\ stopping' \in [Stops -> Conversations \cup {None}]
    BY <1>0, <1>2 DEF Interrupted, TypeOK
  <2>2. QED BY <1>1, <1>2, <2>1 DEF Interrupted, Task
<1>3. ASSUME InterruptFails(e) PROVE IInv'
  <2>1. /\ stopping' = [stopping EXCEPT ![e] = None]
        /\ UNCHANGED <<processVars, storeVars, poolVars, live, asker, creating>>
    BY <1>3 DEF InterruptFails
  <2>2. TypeStore'
    BY <1>0, <2>1 DEF TypeOK, TypeStore, processVars, storeVars
  <2>3. QED BY <2>1, <2>2, QuietKeeps DEF storeVars, ixVars
<1>4. ASSUME NEW c \in Conversations, AcceptStop(e, c) PROVE IInv'
  <2>1. CASE active[c] = None
    BY <1>0, <1>1, <1>4, <2>1 DEF AcceptStop, RecordIngress, Task, TypeOK
  <2>2. CASE active[c] # None
    <3>1. /\ ingress' = ingress \cup {e}
          /\ stopping' = [stopping EXCEPT ![e] = c]
          /\ UNCHANGED <<processVars, status, rows, ixVars, poolVars, creating>>
      BY <1>4, <2>2 DEF AcceptStop, RecordIngress
    <3>2. TypeStore'
      BY <1>0, <3>1 DEF TypeOK, TypeStore, processVars
    <3>3. QED BY <3>1, <3>2, QuietKeeps
  <2>3. QED BY <2>1, <2>2
<1>5. QED BY <1>2, <1>3, <1>4

\* The runtime asks, and takes a question back.
LEMMA AskKeeps ==
  ASSUME IInv, NEW i \in Interactions,
         \/ Abort(i)
         \/ \E t \in Turns, kind \in {"permission", "other"} : Ask(t, i, kind)
  PROVE  IInv'
<1>0. TypeOK
  BY DEF IInv
<1>1. ASSUME Abort(i) PROVE IInv'
  <2> DEFINE c == ixSession[i]
  <2>1. /\ up /\ i \in live
        /\ SettleInteractions({i}, "cancelled", "nobody")
        /\ status' = [status EXCEPT ![c] = Woken(@)]
        /\ UNCHANGED <<processVars, ingress, rows, poolVars, creating, stopping>>
    BY <1>1 DEF Abort, Task
  <2>2. c \in Conversations
    BY <2>1 DEF IInv, TypeOK, LiveIsPending
  <2>3. IxInv'
    BY <2>1, SettleKeeps
  <2>4. TypeStore'
    BY <1>0, <2>1 DEF TypeOK, TypeStore, processVars, Woken, Statuses
  <2>5. live' = live \ {i} /\ ixSession' = ixSession
    BY <2>1 DEF SettleInteractions
  <2>6. /\ live \ live' \subseteq LiveOf(c)
        /\ status'[c] # "waiting"
        /\ \A d \in Conversations : status'[d] = "waiting" => status[d] = "waiting"
    BY <1>0, <2>1, <2>2, <2>5 DEF TypeOK, LiveOf, Woken
  <2>7. QED BY <2>1, <2>2, <2>3, <2>4, <2>5, <2>6, SettledTaskKeeps
<1>2. ASSUME NEW t \in Turns, NEW kind \in {"permission", "other"}, Ask(t, i, kind) PROVE IInv'
  <2> DEFINE c == exec[t].session
  <2>1. /\ up /\ exec[t] # None /\ ixStatus[i] = "unused"
        /\ ixStatus' = [ixStatus EXCEPT ![i] = "pending"]
        /\ ixSession' = [ixSession EXCEPT ![i] = c]
        /\ ixKind' = [ixKind EXCEPT ![i] = kind]
        /\ \/ /\ status' = [status EXCEPT ![c] = "waiting"]
              /\ live' = live \cup {i}
              /\ asker' = [asker EXCEPT ![i] = t]
           \/ UNCHANGED <<status, live, asker>>
        /\ UNCHANGED <<processVars, ingress, rows, ixBy, poolVars, creating, stopping>>
    BY <1>2 DEF Ask, Task
  <2>2. c \in Conversations
    BY <1>0, <2>1, TurnIsNotNone DEF Turn
  <2>3. i \notin live
    BY <2>1 DEF IInv, LiveIsPending
  <2>4. LiveIsPending'
    BY <1>0, <2>1, <2>2, <2>3, NoneAssumption DEF IInv, TypeOK, LiveIsPending
  <2>5. PermissionByOperator' /\ OpenBySomebody'
    BY <1>0, <2>1 DEF IInv, TypeOK, PermissionByOperator, OpenBySomebody
  <2>6. IxInv'
    <3>1. /\ ixStatus' \in [Interactions -> {"unused", "pending", "settled", "cancelled"}]
          /\ ixSession' \in [Interactions -> Conversations \cup {None}]
      BY <1>0, <2>1, <2>2 DEF TypeOK
    <3>2. /\ ixKind' \in [Interactions -> {"permission", "other"}]
          /\ ixBy' \in [Interactions -> {"nobody", "operator", "participant"}]
      BY <1>0, <2>1 DEF TypeOK
    <3>3. live' \subseteq Interactions /\ asker' \in [Interactions -> Turns \cup {None}]
      BY <1>0, <2>1 DEF TypeOK
    <3>4. QED BY <2>4, <2>5, <3>1, <3>2, <3>3 DEF IxInv
  <2>7. TypeStore'
    BY <1>0, <2>1 DEF TypeOK, TypeStore, processVars, Statuses
  <2>8. PoolInv'
    BY <2>1, Grouped, PoolUnchanged
  <2>9. WaitingIsAnswerable'
    BY <1>0, <2>1, <2>2, <2>3 DEF IInv, TypeOK, WaitingIsAnswerable, LiveOf, processVars
  <2>10. WorkConserving' /\ DownIsEmpty'
    BY <2>1 DEF IInv, WorkConserving, Task, DownIsEmpty, processVars, poolVars
  <2>11. QED BY <2>6, <2>7, <2>8, <2>9, <2>10, Regrouped
<1>3. QED BY <1>1, <1>2

\* pump().
LEMMA PumpKeeps ==
  ASSUME IInv, Pump
  PROVE  IInv'
<1>0. TypeOK /\ Concurrency \in Nat \ {0} /\ running <= Concurrency
  BY ConcurrencyAssumption DEF IInv, PoolIsCounted
<1>1. up /\ pumping /\ UNCHANGED <<up, crashes, ingress, rows, ixVars, creating, stopping>>
  BY DEF Pump
<1>2. IxInv' /\ DownIsEmpty'
  BY <1>1, Grouped, IxUnchanged DEF DownIsEmpty
<1>3. CASE queue = <<>> \/ PoolIsFull
  <2>1. pumping' = FALSE /\ UNCHANGED <<doomed, status, queue, running, exec, active>>
    BY <1>3 DEF Pump
  <2>2. TypeStore' /\ PoolInv'
    BY <1>0, <1>1, <2>1, Grouped DEF TypeStore, PoolInv, PoolIsCounted
  <2>3. WorkConserving'
    BY <1>0, <1>3, <2>1 DEF WorkConserving, PoolIsFull, TypeOK
  <2>4. WaitingIsAnswerable'
    BY <1>1, <2>1 DEF IInv, WaitingIsAnswerable, LiveOf, ixVars
  <2>5. QED BY <1>2, <2>2, <2>3, <2>4, Regrouped
<1>4. CASE ~(queue = <<>> \/ PoolIsFull)
  <2> DEFINE turn == Head(queue)
             c == turn.session
  <2>1. /\ queue' = Tail(queue) /\ pumping' = pumping
        /\ \/ /\ status[c] # "stopped" /\ MayBecome(status[c], "running")
              /\ StartTurn(turn)
           \/ DiscardTurn(turn)
    BY <1>4 DEF Pump
  <2>2. turn \in Turn /\ c \in Conversations /\ queue' \in Seq(Turn)
    <3>1. queue \in Seq(Turn) /\ queue # <<>>
      BY <1>0, <1>4 DEF TypeOK
    <3>2. turn \in Turn /\ Tail(queue) \in Seq(Turn)
      BY <3>1, HeadTailProperties
    <3>3. c \in Conversations
      BY <3>2 DEF Turn
    <3>4. QED BY <2>1, <3>2, <3>3
  <2>3. WorkConserving'
    BY <1>1, <2>1 DEF WorkConserving, Task
  <2>4. CASE DiscardTurn(turn)
    <3>1. /\ doomed' = (doomed \/ status[c] # "stopped")
          /\ UNCHANGED <<status, running, exec, active>>
      BY <2>4 DEF DiscardTurn
    <3>2. TypeStore' /\ PoolInv'
      BY <1>0, <1>1, <2>1, <2>2, <3>1, Grouped DEF TypeStore, PoolInv, PoolIsCounted
    <3>3. WaitingIsAnswerable'
      BY <1>1, <3>1 DEF IInv, WaitingIsAnswerable, LiveOf, ixVars
    <3>4. QED BY <1>2, <2>3, <3>2, <3>3, Regrouped
  <2>5. CASE StartTurn(turn)
    <3>1. PICK t \in Turns :
            /\ exec[t] = None
            /\ exec' = [exec EXCEPT ![t] = turn]
            /\ active' = [active EXCEPT ![c] = t]
      BY <2>5 DEF StartTurn
    <3>2. /\ status' = [status EXCEPT ![c] = "running"]
          /\ running' = running + 1 /\ doomed' = doomed
      BY <2>5 DEF StartTurn
    <3>3. TypeStore'
      BY <1>0, <1>1, <2>2, <3>2 DEF TypeOK, TypeStore, Statuses
    <3>4. PoolIsCounted'
      <4>1. Cardinality({u \in Turns : exec'[u] # None}) = Cardinality(Busy) + 1
        BY <1>0, <2>2, <3>1, NoTurnAssumption, BusyGrows
      <4>2. running = Cardinality(Busy) /\ running < Concurrency
        BY <1>0, <1>4 DEF IInv, PoolIsCounted, Busy, PoolIsFull, TypeOK
      <4>3. QED BY <1>0, <3>2, <4>1, <4>2 DEF PoolIsCounted, TypeOK
    <3>5. PoolInv'
      BY <1>0, <2>1, <2>2, <3>1, <3>2, <3>4 DEF TypeOK, PoolInv
    <3>6. WaitingIsAnswerable'
      BY <1>0, <1>1, <2>2, <3>2 DEF IInv, TypeOK, WaitingIsAnswerable, LiveOf, ixVars
    <3>7. QED BY <1>2, <2>3, <3>3, <3>5, <3>6, Regrouped
  <2>6. QED BY <2>1, <2>4, <2>5
<1>5. QED BY <1>3, <1>4

\* What a session is left in is no longer "waiting".
LEMMA LeaveProperties ==
  ASSUME NEW s \in Statuses \cup {"none"}, NEW target \in {"completed", "failed", "interrupted"}
  PROVE  /\ Leave(s, target) \in Statuses \cup {"none"}
         /\ Leave(s, target) # "waiting"
  BY DEF Leave, MayBecome, Transitions, Statuses

\* execute() ends.
LEMMA EndTurnKeeps ==
  ASSUME IInv, NEW t \in Turns, EndTurn(t)
  PROVE  IInv'
<1> DEFINE c == exec[t].session
<1>0. TypeOK /\ Concurrency \in Nat \ {0}
  BY ConcurrencyAssumption DEF IInv
<1>1. /\ up /\ exec[t] # None
      /\ exec' = [exec EXCEPT ![t] = None]
      /\ active' = [active EXCEPT ![c] = None]
      /\ running' = running - 1
      /\ pumping' = TRUE
      /\ asker' = [i \in Interactions |-> IF asker[i] = t THEN None ELSE asker[i]]
      /\ UNCHANGED <<up, crashes, ingress, ixStatus, ixSession, ixKind, ixBy, live, creating, stopping>>
  BY DEF EndTurn, TurnSucceeds, TurnFails, LeaveTurn, RequestPump, Task
<1>2. exec[t] \in Turn /\ c \in Conversations
  BY <1>0, <1>1, TurnIsNotNone DEF Turn
<1>3. PoolIsCounted' /\ running' \in Nat
  <2>1. /\ Cardinality({u \in Turns : exec'[u] # None}) = Cardinality(Busy) - 1
        /\ Cardinality(Busy) >= 1
    BY <1>0, <1>1, BusyShrinks
  <2>2. running = Cardinality(Busy) /\ running <= Concurrency /\ running \in Nat
    BY DEF IInv, PoolIsCounted, Busy, TypeOK
  <2>3. QED BY <1>0, <1>1, <2>1, <2>2 DEF PoolIsCounted
<1>4. IxInv'
  BY <1>0, <1>1 DEF IInv, TypeOK, IxInv, LiveIsPending, PermissionByOperator, OpenBySomebody
<1>5. /\ status' \in [Conversations -> Statuses \cup {"none"}]
      /\ \A d \in Conversations : status'[d] = "waiting" => status[d] = "waiting"
      /\ doomed' \in BOOLEAN
      /\ rows' \in [Conversations -> Seq(FollowUp)]
      /\ queue' \in Seq(Turn)
  <2>1. ASSUME NEW target \in {"completed", "failed", "interrupted"}, CloseTurn(c, target)
        PROVE  /\ status' \in [Conversations -> Statuses \cup {"none"}]
               /\ \A d \in Conversations : status'[d] = "waiting" => status[d] = "waiting"
               /\ doomed' \in BOOLEAN
               /\ queue' \in Seq(Turn)
    BY <1>0, <1>2, <2>1, LeaveProperties DEF CloseTurn, TypeOK
  <2>2. CASE TurnFails(t, "failed") \/ TurnFails(t, "interrupted")
    BY <1>0, <2>1, <2>2 DEF TurnFails, TypeOK
  <2>3. CASE TurnSucceeds(t) /\ status[c] = "stopped"
    BY <1>0, <2>3 DEF TurnSucceeds, TypeOK
  <2>4. CASE TurnSucceeds(t) /\ status[c] # "stopped"
    <3> DEFINE table == MarkDelivered(rows[c], exec[t].row)
    <3>1. /\ rows' = [rows EXCEPT ![c] = table]
          /\ \/ CloseTurn(c, "completed")
             \/ /\ \E n \in FirstOf(QueuedFollowUps(table)) :
                     queue' = Append(queue, [session |-> c, prompt |-> table[n].event, row |-> n])
                /\ UNCHANGED <<status, doomed>>
      BY <2>4 DEF TurnSucceeds
    <3>2. table \in Seq(FollowUp)
      BY <1>0, <1>2, MarkDeliveredType DEF TypeOK
    <3>3. rows' \in [Conversations -> Seq(FollowUp)]
      BY <1>0, <3>1, <3>2 DEF TypeOK
    <3>4. ASSUME NEW n \in FirstOf(QueuedFollowUps(table)),
                 queue' = Append(queue, [session |-> c, prompt |-> table[n].event, row |-> n])
          PROVE  queue' \in Seq(Turn)
      <4>1. n \in Nat /\ table[n] \in FollowUp
        BY <3>2, <3>4, LenProperties, ElementOfSeq DEF FirstOf, QueuedFollowUps
      <4>2. [session |-> c, prompt |-> table[n].event, row |-> n] \in Turn
        BY <1>2, <4>1 DEF Turn, FollowUp
      <4>3. QED BY <1>0, <3>4, <4>2, AppendProperties DEF TypeOK
    <3>5. QED BY <1>0, <2>1, <3>1, <3>3, <3>4 DEF TypeOK
  <2>5. QED BY <2>2, <2>3, <2>4 DEF EndTurn
<1>6. TypeStore' /\ PoolInv'
  BY <1>0, <1>1, <1>2, <1>3, <1>5 DEF TypeOK, TypeStore, PoolInv
<1>7. WorkConserving' /\ DownIsEmpty'
  BY <1>1 DEF WorkConserving, Task, DownIsEmpty
<1>8. WaitingIsAnswerable'
  BY <1>1, <1>5 DEF IInv, WaitingIsAnswerable, LiveOf
<1>9. QED BY <1>4, <1>6, <1>7, <1>8, Regrouped

\* The process ends and starts again.
LEMMA ProcessKeeps ==
  ASSUME IInv, Exit \/ Crash \/ Restart
  PROVE  IInv'
<1>0. TypeOK
  BY DEF IInv
<1>1. ASSUME Exit \/ Crash PROVE IInv'
  <2>1. LoseMemory /\ crashes' \in 0..MaxCrashes
    BY <1>0, <1>1, BoundsAssumption DEF Exit, Crash, TypeOK
  <2>2. /\ up' = FALSE /\ doomed' = FALSE /\ queue' = <<>> /\ running' = 0 /\ pumping' = FALSE
        /\ exec' = [t \in Turns |-> None]
        /\ active' = [c \in Conversations |-> None]
        /\ live' = {}
        /\ asker' = [i \in Interactions |-> None]
        /\ creating' = [m \in Messages |-> None]
        /\ stopping' = [e \in Stops |-> None]
        /\ UNCHANGED <<ingress, status, rows, ixStatus, ixSession, ixKind, ixBy>>
    BY <2>1 DEF LoseMemory, storeVars
  <2>3. TypeStore'
    BY <1>0, <2>1, <2>2 DEF TypeOK, TypeStore
  <2>4. IxInv'
    BY <1>0, <2>2 DEF IInv, TypeOK, IxInv, LiveIsPending, PermissionByOperator, OpenBySomebody
  <2>5. PoolInv'
    <3>1. {t \in Turns : exec'[t] # None} = {}
      BY <2>2
    <3>2. PoolIsCounted'
      <4>1. Cardinality({}) = 0
        BY FS_EmptySet
      <4>2. running' = 0 /\ 0 <= Concurrency
        BY <2>2, ConcurrencyAssumption
      <4>3. QED BY <3>1, <4>1, <4>2 DEF PoolIsCounted
    <3>3. QED BY <2>2, <3>2, EmptySeq DEF PoolInv
  <2>6. WorkConserving' /\ DownIsEmpty' /\ WaitingIsAnswerable'
    BY <2>2 DEF WorkConserving, DownIsEmpty, WaitingIsAnswerable
  <2>7. QED BY <2>3, <2>4, <2>5, <2>6, Regrouped
<1>2. ASSUME Restart PROVE IInv'
  <2> DEFINE lost == {c \in Conversations : status[c] \in {"running", "waiting"}}
  <2>1. /\ ~up /\ up' = TRUE
        /\ status' = [c \in Conversations |-> IF c \in lost THEN "interrupted" ELSE status[c]]
        /\ ixStatus' = [i \in Interactions |->
                          IF ixStatus[i] = "pending" /\ ixSession[i] \in lost
                          THEN "cancelled" ELSE ixStatus[i]]
        /\ UNCHANGED <<doomed, crashes, ingress, rows, ixSession, ixKind, ixBy, live, asker>>
        /\ UNCHANGED <<poolVars, creating, stopping>>
    BY <1>2 DEF Restart
  <2>2. queue = <<>> /\ live = {}
    BY <2>1 DEF IInv, DownIsEmpty
  <2>3. TypeStore'
    BY <1>0, <2>1 DEF TypeOK, TypeStore, Statuses
  <2>4. IxInv'
    BY <1>0, <2>1, <2>2 DEF IInv, TypeOK, IxInv, LiveIsPending, PermissionByOperator, OpenBySomebody
  <2>5. PoolInv'
    BY <2>1, Grouped, PoolUnchanged
  <2>6. WorkConserving' /\ DownIsEmpty' /\ WaitingIsAnswerable'
    BY <2>1, <2>2 DEF WorkConserving, DownIsEmpty, WaitingIsAnswerable, poolVars
  <2>7. QED BY <2>3, <2>4, <2>5, <2>6, Regrouped
<1>3. QED BY <1>1, <1>2

\* Events without an effect, and responses.
LEMMA OtherEventKeeps ==
  ASSUME IInv,
         \/ \E e \in Events : IgnoreEvent(e)
         \/ \E e \in Responses, c \in Conversations, i \in Interactions,
               by \in {"operator", "participant"} : AcceptResponse(e, c, i, by)
  PROVE  IInv'
<1>0. TypeOK
  BY DEF IInv
<1>1. ASSUME NEW e \in Events, IgnoreEvent(e) PROVE IInv'
  <2>1. /\ ingress' = ingress \cup {e}
        /\ UNCHANGED <<processVars, status, rows, ixVars, poolVars, creating, stopping>>
    BY <1>1 DEF IgnoreEvent, RecordIngress
  <2>2. TypeStore'
    BY <1>0, <2>1 DEF TypeOK, TypeStore, processVars
  <2>3. QED BY <2>1, <2>2, QuietKeeps
<1>2. ASSUME NEW e \in Responses, NEW c \in Conversations, NEW i \in Interactions,
             NEW by \in {"operator", "participant"}, AcceptResponse(e, c, i, by)
      PROVE  IInv'
  <2>1. e \in Events
    BY DEF Events
  <2>2. QED BY <1>2, <2>1, ResolveKeeps DEF AcceptResponse, RecordIngress, Task
<1>3. QED BY <1>1, <1>2

LEMMA InitInv == Init => IInv
<1> SUFFICES ASSUME Init PROVE IInv
  OBVIOUS
<1>1. TypeOK
  <2>1. <<>> \in Seq(Turn) /\ <<>> \in Seq(FollowUp)
    BY EmptySeq
  <2>2. 0 \in 0..MaxCrashes
    BY BoundsAssumption
  <2>3. QED BY <2>1, <2>2 DEF Init, TypeOK
<1>2. PoolIsCounted
  <2>1. {t \in Turns : exec[t] # None} = {}
    BY DEF Init
  <2>2. Cardinality({}) = 0
    BY FS_EmptySet
  <2>3. running = 0 /\ 0 <= Concurrency
    BY ConcurrencyAssumption DEF Init
  <2>4. QED BY <2>1, <2>2, <2>3 DEF PoolIsCounted
<1>3. WorkConserving /\ WaitingIsAnswerable
  BY DEF Init, WorkConserving, WaitingIsAnswerable
<1>4. LiveIsPending /\ PermissionByOperator /\ DownIsEmpty /\ OpenBySomebody
  BY DEF Init, LiveIsPending, PermissionByOperator, DownIsEmpty, OpenBySomebody
<1>5. QED BY <1>1, <1>2, <1>3, <1>4 DEF IInv

LEMMA StutterKeeps ==
  ASSUME IInv, UNCHANGED vars
  PROVE  IInv'
<1>1. TypeStore'
  BY DEF IInv, TypeOK, TypeStore, vars, processVars, storeVars
<1>2. QED BY <1>1, QuietKeeps DEF vars, storeVars, ixVars

LEMMA StepInv == IInv /\ [Next]_vars => IInv'
<1> SUFFICES ASSUME IInv, [Next]_vars PROVE IInv'
  OBVIOUS
<1>1. CASE \E e \in Events : IgnoreEvent(e)
  BY <1>1, OtherEventKeeps
<1>2. CASE \E m \in Messages : AcceptMessage(m)
  BY <1>2, AcceptMessageKeeps
<1>3. CASE \E e \in Stops :
             \/ Interrupted(e) \/ InterruptFails(e)
             \/ \E c \in Conversations : AcceptStop(e, c)
  BY <1>3, StopKeeps
<1>4. CASE \E e \in Responses, c \in Conversations, i \in Interactions,
              by \in {"operator", "participant"} : AcceptResponse(e, c, i, by)
  BY <1>4, OtherEventKeeps
<1>5. CASE Pump
  BY <1>5, PumpKeeps
<1>6. CASE \E t \in Turns :
             \/ EndTurn(t)
             \/ \E i \in Interactions, kind \in {"permission", "other"} : Ask(t, i, kind)
  BY <1>6, EndTurnKeeps, AskKeeps
<1>7. CASE \E i \in Interactions : Abort(i)
  BY <1>7, AskKeeps
<1>8. CASE Exit \/ Crash \/ Restart
  BY <1>8, ProcessKeeps
<1>9. CASE UNCHANGED vars
  BY <1>9, StutterKeeps
<1>10. QED
  BY <1>1, <1>2, <1>3, <1>4, <1>5, <1>6, <1>7, <1>8, <1>9 DEF Next

----------------------------------------------------------------------------
(* Stopped sessions *)

\* One step for one session: what StopSticks asks of it.
StopKept(c) ==
  status[c] = "stopped" =>
    /\ status'[c] # "stopped" =>
         status'[c] = "queued" /\ \E m \in Messages : m \in ingress' \ ingress
    /\ \A t \in Turns : exec'[t] # None /\ exec'[t] # exec[t] => exec'[t].session # c

LEMMA StopStep ==
  ASSUME TypeOK, [Next]_vars, NEW c \in Conversations, status[c] = "stopped"
  PROVE  StopKept(c)
<1>1. ASSUME status'[c] = "stopped", exec' = exec PROVE StopKept(c)
  BY <1>1 DEF StopKept
<1>2. ASSUME NEW e \in Events, IgnoreEvent(e) PROVE StopKept(c)
  BY <1>1, <1>2 DEF IgnoreEvent, poolVars
<1>3. ASSUME NEW m \in Messages, AcceptMessage(m) PROVE StopKept(c)
  <2>1. CASE WorktreeReady(m)
    <3>1. exec' = exec /\ (status' = status \/ status' = [status EXCEPT ![creating[m]] = "queued"])
      BY <2>1 DEF WorktreeReady
    <3>2. status' # status => status[creating[m]] = "none"
      BY <2>1 DEF WorktreeReady
    <3>3. status'[c] = "stopped"
      BY <3>1, <3>2 DEF TypeOK
    <3>4. QED BY <1>1, <3>1, <3>3
  <2>2. CASE WorktreeFails(m)
    BY <1>1, <2>2 DEF WorktreeFails, storeVars, poolVars
  <2>3. ASSUME NEW d \in Conversations, AcceptFirst(m, d) \/ AcceptFollowUp(m, d)
        PROVE  StopKept(c)
    BY <1>1, <2>3 DEF AcceptFirst, AcceptFollowUp, poolVars
  <2>4. ASSUME NEW d \in Conversations, AcceptResume(m, d) PROVE StopKept(c)
    <3>1. /\ status' = [status EXCEPT ![d] = "queued"] /\ exec' = exec
          /\ m \in ingress' \ ingress
      BY <2>4 DEF AcceptResume, RecordIngress
    <3>2. status'[c] \in {"stopped", "queued"}
      BY <3>1 DEF TypeOK
    <3>3. QED BY <3>1, <3>2 DEF StopKept
  <2>5. ASSUME NEW d \in Conversations, NEW i \in Interactions,
               NEW by \in {"operator", "participant"}, AcceptReply(m, d, i, by)
        PROVE  StopKept(c)
    <3>1. exec' = exec /\ (status' = status \/ status' = [status EXCEPT ![d] = Woken(@)])
      BY <2>5 DEF AcceptReply, ResolveInteraction, poolVars
    <3>2. status'[c] = "stopped"
      BY <3>1 DEF TypeOK, Woken
    <3>3. QED BY <1>1, <3>1, <3>2
  <2>6. QED BY <1>3, <2>1, <2>2, <2>3, <2>4, <2>5 DEF AcceptMessage
<1>4. ASSUME NEW e \in Stops,
             Interrupted(e) \/ InterruptFails(e) \/ \E d \in Conversations : AcceptStop(e, d)
      PROVE  StopKept(c)
  <2>1. exec' = exec
    BY <1>4 DEF Interrupted, InterruptFails, AcceptStop, poolVars
  <2>2. status' = status \/ \E d : status' = [status EXCEPT ![d] = "stopped"]
    BY <1>4 DEF Interrupted, InterruptFails, AcceptStop, FinishStop, Woken, storeVars
  <2>3. QED BY <1>1, <2>1, <2>2 DEF TypeOK
<1>5. ASSUME NEW e \in Responses, NEW d \in Conversations, NEW i \in Interactions,
             NEW by \in {"operator", "participant"}, AcceptResponse(e, d, i, by)
      PROVE  StopKept(c)
  <2>1. exec' = exec /\ (status' = status \/ status' = [status EXCEPT ![d] = Woken(@)])
    BY <1>5 DEF AcceptResponse, ResolveInteraction, poolVars
  <2>2. status'[c] = "stopped"
    BY <2>1 DEF TypeOK, Woken
  <2>3. QED BY <1>1, <2>1, <2>2
<1>6. CASE Pump
  <2> DEFINE turn == Head(queue)
  <2>1. CASE UNCHANGED <<status, exec>>
    BY <1>1, <2>1
  <2>2. CASE StartTurn(turn) /\ status[turn.session] # "stopped"
    <3>1. PICK t \in Turns : exec' = [exec EXCEPT ![t] = turn]
      BY <2>2 DEF StartTurn
    <3>2. status' = [status EXCEPT ![turn.session] = "running"]
      BY <2>2 DEF StartTurn
    <3>3. status'[c] = "stopped" /\ turn.session # c
      BY <2>2, <3>2 DEF TypeOK
    <3>4. QED BY <3>1, <3>3 DEF StopKept, TypeOK
  <2>3. QED BY <1>6, <2>1, <2>2 DEF Pump, DiscardTurn
<1>7. ASSUME NEW t \in Turns, EndTurn(t) PROVE StopKept(c)
  <2> DEFINE d == exec[t].session
  <2>1. exec' = [exec EXCEPT ![t] = None]
    BY <1>7 DEF EndTurn, TurnSucceeds, TurnFails, LeaveTurn
  <2>2. \/ status' = status
        \/ \E target : status' = [status EXCEPT ![d] = Leave(@, target)]
    BY <1>7 DEF EndTurn, TurnSucceeds, TurnFails, CloseTurn
  <2>3. status'[c] = "stopped"
    BY <2>2 DEF TypeOK, Leave
  <2>4. \A u \in Turns : exec'[u] # None => exec'[u] = exec[u]
    BY <2>1 DEF TypeOK
  <2>5. QED BY <2>3, <2>4 DEF StopKept
<1>8. ASSUME NEW t \in Turns, NEW i \in Interactions, NEW kind \in {"permission", "other"},
             Ask(t, i, kind)
      PROVE  StopKept(c)
  <2>1. exec' = exec
    BY <1>8 DEF Ask, poolVars
  <2>2. \/ status' = status
        \/ \E d : /\ MayBecome(status[d], "waiting")
                 /\ status' = [status EXCEPT ![d] = "waiting"]
    BY <1>8 DEF Ask
  <2>3. status'[c] = "stopped"
    BY <2>2 DEF TypeOK, MayBecome, Transitions
  <2>4. QED BY <1>1, <2>1, <2>3
<1>9. ASSUME NEW i \in Interactions, Abort(i) PROVE StopKept(c)
  <2>1. exec' = exec /\ status' = [status EXCEPT ![ixSession[i]] = Woken(@)]
    BY <1>9 DEF Abort, poolVars
  <2>2. status'[c] = "stopped"
    BY <2>1 DEF TypeOK, Woken
  <2>3. QED BY <1>1, <2>1, <2>2
<1>10. CASE Exit \/ Crash \/ Restart
  <2>1. \A t \in Turns : exec'[t] # None => exec'[t] = exec[t]
    BY <1>10 DEF Exit, Crash, Restart, LoseMemory, poolVars
  <2>2. status'[c] = "stopped"
    BY <1>10 DEF Exit, Crash, Restart, LoseMemory, storeVars, TypeOK
  <2>3. QED BY <2>1, <2>2 DEF StopKept
<1>11. CASE UNCHANGED vars
  BY <1>1, <1>11 DEF vars, storeVars, poolVars
<1>12. QED
  BY <1>2, <1>3, <1>4, <1>5, <1>6, <1>7, <1>8, <1>9, <1>10, <1>11 DEF Next

----------------------------------------------------------------------------
(* Messages and what holds them *)

InQueue(m) == \E k \in 1..Len(queue) : queue[k].prompt = m
InTurn(m) == \E t \in Turns : exec[t] # None /\ exec[t].prompt = m
InRows(m) == \E c \in Conversations : \E k \in QueuedFollowUps(rows[c]) : rows[c][k].event = m

LEMMA HeldBefore ==
  ASSUME NEW m,
         creating'[m] # None => Holds(m),
         InQueue(m)' => Holds(m),
         InTurn(m)' => Holds(m),
         InRows(m)' => Holds(m),
         Holds(m)'
  PROVE  Holds(m)
  BY DEF Holds, InQueue, InTurn, InRows

LEMMA HeldUnchanged ==
  ASSUME NEW m
  PROVE  /\ UNCHANGED queue => (InQueue(m)' => Holds(m))
         /\ UNCHANGED exec => (InTurn(m)' => Holds(m))
         /\ UNCHANGED rows => (InRows(m)' => Holds(m))
         /\ UNCHANGED creating => (creating'[m] # None => Holds(m))
  BY DEF Holds, InQueue, InTurn, InRows

\* A turn is pushed: only its own prompt is new in the queue.
LEMMA HeldPushed ==
  ASSUME TypeOK, NEW m, NEW turn \in Turn, queue' = Append(queue, turn),
         turn.prompt = m => Holds(m)
  PROVE  InQueue(m)' => Holds(m)
<1> SUFFICES ASSUME NEW k \in 1..Len(queue'), queue'[k].prompt = m PROVE Holds(m)
  BY DEF InQueue
<1>1. /\ Len(queue') = Len(queue) + 1 /\ Len(queue) \in Nat
      /\ \A n \in 1..Len(queue) : queue'[n] = queue[n]
      /\ queue'[Len(queue) + 1] = turn
  BY AppendProperties, LenProperties DEF TypeOK
<1>2. CASE k \in 1..Len(queue)
  BY <1>1, <1>2 DEF Holds
<1>3. CASE k = Len(queue) + 1
  BY <1>1, <1>3
<1>4. QED BY <1>1, <1>2, <1>3

LEMMA HeldStep ==
  ASSUME TypeOK, [Next]_vars, NEW m \in Messages, m \in ingress, Holds(m)'
  PROVE  Holds(m)
<1>1. ASSUME UNCHANGED <<queue, exec, rows, creating>> PROVE Holds(m)
  BY <1>1, HeldUnchanged, HeldBefore
<1>2. ASSUME NEW e \in Events, IgnoreEvent(e) PROVE Holds(m)
  BY <1>1, <1>2 DEF IgnoreEvent, poolVars
<1>3. ASSUME NEW x \in Messages, AcceptMessage(x) PROVE Holds(m)
  <2>1. CASE WorktreeReady(x)
    <3>1. /\ creating[x] # None /\ creating' = [creating EXCEPT ![x] = None]
          /\ UNCHANGED <<rows, exec>>
          /\ \/ queue' = queue
             \/ queue' = Append(queue, [session |-> creating[x], prompt |-> x, row |-> 0])
      BY <2>1 DEF WorktreeReady, Schedule
    <3>2. [session |-> creating[x], prompt |-> x, row |-> 0] \in Turn
      BY <3>1 DEF TypeOK, Turn
    <3>3. creating'[m] # None => Holds(m)
      BY <3>1 DEF TypeOK, Holds
    <3>4. x = m => Holds(m)
      BY <3>1 DEF Holds
    <3>5. InQueue(m)' => Holds(m)
      BY <3>1, <3>2, <3>4, HeldPushed, HeldUnchanged
    <3>6. QED BY <3>1, <3>3, <3>5, HeldUnchanged, HeldBefore
  <2>2. CASE WorktreeFails(x)
    <3>1. /\ creating' = [creating EXCEPT ![x] = None]
          /\ UNCHANGED <<rows, exec, queue>>
      BY <2>2 DEF WorktreeFails, storeVars, poolVars
    <3>2. creating'[m] # None => Holds(m)
      BY <3>1 DEF TypeOK, Holds
    <3>3. QED BY <3>1, <3>2, HeldUnchanged, HeldBefore
  <2>3. ASSUME NEW c \in Conversations, AcceptFirst(x, c) PROVE Holds(m)
    <3>1. /\ x # m /\ creating' = [creating EXCEPT ![x] = c]
          /\ UNCHANGED <<rows, exec, queue>>
      BY <2>3 DEF AcceptFirst, RecordIngress, poolVars
    <3>2. creating'[m] # None => Holds(m)
      BY <3>1 DEF TypeOK, Holds
    <3>3. QED BY <3>1, <3>2, HeldUnchanged, HeldBefore
  <2>4. ASSUME NEW c \in Conversations, AcceptFollowUp(x, c) PROVE Holds(m)
    <3> DEFINE new == [event |-> x, delivered |-> FALSE]
    <3>1. /\ x # m /\ rows' = [rows EXCEPT ![c] = Append(@, new)]
          /\ UNCHANGED <<creating, exec, queue>>
      BY <2>4 DEF AcceptFollowUp, RecordIngress, EnqueueFollowUp, poolVars
    <3>2. InRows(m)' => Holds(m)
      <4> SUFFICES ASSUME NEW d \in Conversations, NEW k \in QueuedFollowUps(rows'[d]),
                          rows'[d][k].event = m
                   PROVE  Holds(m)
        BY DEF InRows
      <4>1. CASE d # c
        BY <3>1, <4>1 DEF TypeOK, Holds
      <4>2. CASE d = c
        <5>1. new \in FollowUp /\ rows[c] \in Seq(FollowUp) /\ rows'[c] = Append(rows[c], new)
          BY <3>1 DEF TypeOK, FollowUp
        <5>2. /\ Len(rows'[c]) = Len(rows[c]) + 1 /\ Len(rows[c]) \in Nat
              /\ \A n \in 1..Len(rows[c]) : rows'[c][n] = rows[c][n]
              /\ rows'[c][Len(rows[c]) + 1] = new
          BY <5>1, AppendProperties, LenProperties
        <5>3. k \in 1..Len(rows[c])
          BY <3>1, <4>2, <5>2 DEF QueuedFollowUps
        <5>4. k \in QueuedFollowUps(rows[c]) /\ rows[c][k].event = m
          BY <4>2, <5>2, <5>3 DEF QueuedFollowUps
        <5>5. QED BY <5>4 DEF Holds
      <4>3. QED BY <4>1, <4>2
    <3>3. QED BY <3>1, <3>2, HeldUnchanged, HeldBefore
  <2>5. ASSUME NEW c \in Conversations, AcceptResume(x, c) PROVE Holds(m)
    <3> DEFINE turn == [session |-> c, prompt |-> x, row |-> 0]
    <3>1. /\ x # m /\ queue' = Append(queue, turn)
          /\ UNCHANGED <<creating, exec, rows>>
      BY <2>5 DEF AcceptResume, RecordIngress, Schedule
    <3>2. turn \in Turn
      BY DEF Turn
    <3>3. InQueue(m)' => Holds(m)
      BY <3>1, <3>2, HeldPushed
    <3>4. QED BY <3>1, <3>3, HeldUnchanged, HeldBefore
  <2>6. ASSUME NEW c \in Conversations, NEW i \in Interactions,
               NEW by \in {"operator", "participant"}, AcceptReply(x, c, i, by)
        PROVE  Holds(m)
    BY <1>1, <2>6 DEF AcceptReply, poolVars
  <2>7. QED BY <1>3, <2>1, <2>2, <2>3, <2>4, <2>5, <2>6 DEF AcceptMessage
<1>4. ASSUME NEW e \in Stops,
             Interrupted(e) \/ InterruptFails(e) \/ \E c \in Conversations : AcceptStop(e, c)
      PROVE  Holds(m)
  BY <1>1, <1>4 DEF Interrupted, InterruptFails, AcceptStop, poolVars, storeVars
<1>5. ASSUME NEW e \in Responses, NEW c \in Conversations, NEW i \in Interactions,
             NEW by \in {"operator", "participant"}, AcceptResponse(e, c, i, by)
      PROVE  Holds(m)
  BY <1>1, <1>5 DEF AcceptResponse, poolVars
<1>6. CASE Pump
  <2>1. UNCHANGED <<rows, creating>>
    BY <1>6 DEF Pump
  <2>2. CASE UNCHANGED <<queue, exec>>
    BY <1>1, <2>1, <2>2
  <2>3. CASE queue # <<>> /\ queue' = Tail(queue)
    <3>1. /\ Head(queue) = queue[1] /\ 1 \in 1..Len(queue)
          /\ Len(queue') = Len(queue) - 1 /\ Len(queue) \in Nat
          /\ \A k \in 1..Len(queue') : queue'[k] = queue[k + 1]
      <4>1. queue \in Seq(Turn)
        BY DEF TypeOK
      <4>2. /\ Len(Tail(queue)) = Len(queue) - 1
            /\ \A k \in 1..Len(Tail(queue)) : Tail(queue)[k] = queue[k + 1]
        BY <2>3, <4>1, HeadTailProperties
      <4>3. Len(queue) \in Nat /\ Len(queue) # 0
        BY <2>3, <4>1, LenProperties, EmptySeq
      <4>4. Head(queue) = queue[1]
        BY <2>3, <4>1
      <4>5. QED BY <2>3, <4>2, <4>3, <4>4
    <3>2. InQueue(m)' => Holds(m)
      <4> SUFFICES ASSUME NEW k \in 1..Len(queue'), queue'[k].prompt = m PROVE Holds(m)
        BY DEF InQueue
      <4>1. k + 1 \in 1..Len(queue) /\ queue[k + 1].prompt = m
        BY <3>1
      <4>2. QED BY <4>1 DEF Holds
    <3>3. \/ exec' = exec
          \/ \E t \in Turns : exec' = [exec EXCEPT ![t] = Head(queue)]
      BY <1>6 DEF Pump, StartTurn, DiscardTurn
    <3>4. InTurn(m)' => Holds(m)
      BY <3>1, <3>3 DEF InTurn, Holds, TypeOK
    <3>5. QED BY <2>1, <3>2, <3>4, HeldUnchanged, HeldBefore
  <2>4. QED BY <1>6, <2>2, <2>3 DEF Pump
<1>7. ASSUME NEW t \in Turns, EndTurn(t) PROVE Holds(m)
  <2> DEFINE c == exec[t].session
             table == MarkDelivered(rows[c], exec[t].row)
  <2>1. exec[t] # None /\ exec' = [exec EXCEPT ![t] = None] /\ creating' = creating
    BY <1>7 DEF EndTurn, TurnSucceeds, TurnFails, LeaveTurn
  <2>2. c \in Conversations
    BY <2>1, TurnIsNotNone DEF Turn
  <2>3. InTurn(m)' => Holds(m)
    BY <2>1 DEF InTurn, Holds, TypeOK
  <2>4. CASE UNCHANGED <<rows, queue>>
    BY <2>1, <2>3, <2>4, HeldUnchanged, HeldBefore
  <2>5. CASE /\ rows' = [rows EXCEPT ![c] = table]
             /\ \/ queue' = queue
                \/ \E n \in FirstOf(QueuedFollowUps(table)) :
                     queue' = Append(queue, [session |-> c, prompt |-> table[n].event, row |-> n])
    <3>1. /\ rows[c] \in Seq(FollowUp) /\ table \in Seq(FollowUp)
          /\ Len(table) = Len(rows[c])
          /\ \A k \in 1..Len(rows[c]) : table[k].event = rows[c][k].event
      BY <2>2, MarkDeliveredType DEF TypeOK
    <3>2. QueuedFollowUps(table) \subseteq QueuedFollowUps(rows[c])
      <4> SUFFICES ASSUME NEW k \in 1..Len(rows[c]), rows[c][k].delivered
                   PROVE  table[k].delivered
        BY <3>1 DEF QueuedFollowUps
      <4>1. rows[c][k] \in FollowUp
        BY <3>1, ElementOfSeq
      <4>2. table[k] = [rows[c][k] EXCEPT !.delivered = @ \/ k = exec[t].row]
        BY DEF MarkDelivered
      <4>3. table[k].delivered = (rows[c][k].delivered \/ k = exec[t].row)
        BY <4>1, <4>2 DEF FollowUp
      <4>4. QED BY <4>3
    <3>3. ASSUME NEW k \in QueuedFollowUps(table), table[k].event = m PROVE Holds(m)
      BY <2>2, <3>1, <3>2, <3>3 DEF Holds, QueuedFollowUps
    <3>4. InRows(m)' => Holds(m)
      BY <2>2, <2>5, <3>3 DEF InRows, Holds, TypeOK
    <3>5. InQueue(m)' => Holds(m)
      <4>1. CASE queue' = queue
        BY <4>1, HeldUnchanged
      <4>2. ASSUME NEW n \in FirstOf(QueuedFollowUps(table)),
                   queue' = Append(queue, [session |-> c, prompt |-> table[n].event, row |-> n])
            PROVE  InQueue(m)' => Holds(m)
        <5>1. n \in QueuedFollowUps(table) /\ n \in Nat /\ table[n] \in FollowUp
          BY <3>1, LenProperties, ElementOfSeq DEF FirstOf, QueuedFollowUps
        <5>2. [session |-> c, prompt |-> table[n].event, row |-> n] \in Turn
          BY <2>2, <5>1 DEF Turn, FollowUp
        <5>3. QED BY <3>3, <4>2, <5>1, <5>2, HeldPushed
      <4>3. QED BY <2>5, <4>1, <4>2
    <3>6. QED BY <2>1, <2>3, <3>4, <3>5, HeldUnchanged, HeldBefore
  <2>6. QED BY <1>7, <2>4, <2>5 DEF EndTurn, TurnSucceeds, TurnFails, CloseTurn
<1>8. ASSUME NEW t \in Turns, NEW i \in Interactions, NEW kind \in {"permission", "other"},
             Ask(t, i, kind)
      PROVE  Holds(m)
  BY <1>1, <1>8 DEF Ask, poolVars
<1>9. ASSUME NEW i \in Interactions, Abort(i) PROVE Holds(m)
  BY <1>1, <1>9 DEF Abort, poolVars
<1>10. CASE Exit \/ Crash
  <2>1. /\ queue' = <<>> /\ exec' = [t \in Turns |-> None] /\ UNCHANGED rows
        /\ creating' = [x \in Messages |-> None]
    BY <1>10 DEF Exit, Crash, LoseMemory, storeVars
  <2>2. ~InQueue(m)'
    BY <2>1, EmptySeq DEF InQueue
  <2>3. QED BY <2>1, <2>2, HeldUnchanged, HeldBefore DEF InTurn
<1>11. CASE Restart
  BY <1>1, <1>11 DEF Restart, poolVars
<1>12. CASE UNCHANGED vars
  BY <1>1, <1>12 DEF vars, storeVars, poolVars
<1>13. QED
  BY <1>2, <1>3, <1>4, <1>5, <1>6, <1>7, <1>8, <1>9, <1>10, <1>11, <1>12 DEF Next

----------------------------------------------------------------------------
(* The theorems *)

\* The parts of the inductive invariant hold together, in every reachable state of
\* accept(), pump(), execute(), stop() and the restarts of the daemon.
THEOREM CoordinatorInvariant == Spec => []IInv
  BY InitInv, StepInv, PTL DEF Spec

\* Every variable keeps its type; running, a natural number, is never decremented
\* below zero by the finally blocks of pump().
THEOREM CoordinatorTypeOK == Spec => []TypeOK
  BY CoordinatorInvariant, PTL DEF IInv

\* pump() counts the turns it executes and never executes more than `concurrency`.
THEOREM CoordinatorPoolIsCounted == Spec => []PoolIsCounted
  BY CoordinatorInvariant, PTL DEF IInv

\* Every push and every finally is followed by a pump(), so no slot idles.
THEOREM CoordinatorWorkConserving == Spec => []WorkConserving
  BY CoordinatorInvariant, PTL DEF IInv

\* pendingInteractions holds only interactions the store has pending: the reply, the
\* response, the stop and the abort that settles one finds it unsettled.
THEOREM CoordinatorLiveIsPending == Spec => []LiveIsPending
  BY CoordinatorInvariant, PTL DEF IInv

\* A session that waits has an interaction that wakes it, also after a crash.
THEOREM CoordinatorWaitingIsAnswerable == Spec => []WaitingIsAnswerable
  BY CoordinatorInvariant, PTL DEF IInv

\* resolveInteraction() lets nobody but the operator settle a permission.
THEOREM CoordinatorPermissionByOperator == Spec => []PermissionByOperator
  BY CoordinatorInvariant, PTL DEF IInv

\* A stop holds against everything the interrupted turn, its settled interactions, the
\* pool and a restart still do; only a new message queues the session again.
THEOREM CoordinatorStopSticks == Spec => StopSticks
<1>1. TypeOK /\ [Next]_vars =>
        [\A c \in Conversations : status[c] = "stopped" =>
           /\ status'[c] # "stopped" =>
                status'[c] = "queued" /\ \E m \in Messages : m \in ingress' \ ingress
           /\ \A t \in Turns : exec'[t] # None /\ exec'[t] # exec[t] => exec'[t].session # c]_vars
  BY StopStep DEF StopKept
<1>2. QED BY <1>1, CoordinatorTypeOK, PTL DEF Spec, StopSticks

\* A message that was recorded and is held nowhere is never taken up again, in spite of
\* redelivery, crashes and recovery: recordIngress() guards every path into the pool.
THEOREM CoordinatorEventUsedOnce == Spec => EventUsedOnce
<1>1. TypeOK /\ [Next]_vars =>
        [\A m \in Messages : m \in ingress /\ ~Holds(m) => ~Holds(m)']_vars
  BY HeldStep
<1>2. QED BY <1>1, CoordinatorTypeOK, PTL DEF Spec, EventUsedOnce

----------------------------------------------------------------------------
(* Without stops a session has one turn at a time. Its status tells where that turn is, *)
(* so execute() never attempts a transition that is refused.                           *)

NobodyStops == Stops = {}

\* At most one turn of session c is executed or scheduled.
OneTurn(c) ==
  /\ \A t, u \in Executing(c) : t = u
  /\ \A k, l \in Scheduled(c) : k = l
  /\ Executing(c) = {} \/ Scheduled(c) = {}

\* A session that waits has an executed turn that asked.
StatusFits(c) ==
  /\ status[c] # "stopped"
  /\ Executing(c) # {} => status[c] \in {"running", "waiting"}
  /\ Scheduled(c) # {} => status[c] \in {"queued", "running"}
  /\ up /\ status[c] = "running" => Executing(c) # {} \/ Scheduled(c) # {}
  /\ up /\ status[c] = "waiting" => \E t \in Executing(c) : OutstandingOf(t) # {}

\* The runtime that waits for an interaction executes a turn of its session.
AskerExecutes ==
  \A i \in Interactions : asker[i] # None =>
    exec[asker[i]] # None /\ exec[asker[i]].session = ixSession[i]

SessionInv(c) == OneTurn(c) /\ StatusFits(c)

SerialInv ==
  /\ ~doomed
  /\ AskerExecutes
  /\ \A c \in Conversations : SessionInv(c)

\* A turn is pushed, taken from the queue by pump(), and left.
LEMMA PushedQueue ==
  ASSUME TypeOK, NEW turn \in Turn, queue' = Append(queue, turn)
  PROVE  /\ Len(queue) \in Nat /\ Len(queue') = Len(queue) + 1
         /\ \A k \in 1..Len(queue) : queue'[k] = queue[k]
         /\ queue'[Len(queue) + 1] = turn
  BY AppendProperties, LenProperties DEF TypeOK

LEMMA PushedScheduled ==
  ASSUME TypeOK, NEW turn \in Turn, queue' = Append(queue, turn), NEW c
  PROVE  /\ turn.session = c => Scheduled(c)' = Scheduled(c) \cup {Len(queue) + 1}
         /\ turn.session # c => Scheduled(c)' = Scheduled(c)
  BY PushedQueue DEF Scheduled

LEMMA PumpedQueue ==
  ASSUME TypeOK, queue # <<>>, queue' = Tail(queue)
  PROVE  /\ Head(queue) = queue[1] /\ Head(queue) \in Turn /\ 1 \in 1..Len(queue)
         /\ Len(queue') = Len(queue) - 1 /\ Len(queue) \in Nat
         /\ \A k \in 1..Len(queue') : queue'[k] = queue[k + 1]
<1>1. queue \in Seq(Turn)
  BY DEF TypeOK
<1>2. /\ Len(Tail(queue)) = Len(queue) - 1 /\ Head(queue) \in Turn
      /\ \A k \in 1..Len(Tail(queue)) : Tail(queue)[k] = queue[k + 1]
  BY <1>1, HeadTailProperties
<1>3. Len(queue) \in Nat /\ Len(queue) # 0
  BY <1>1, LenProperties, EmptySeq
<1>4. Head(queue) = queue[1]
  BY <1>1
<1>5. QED BY <1>2, <1>3, <1>4

LEMMA PumpedScheduled ==
  ASSUME TypeOK, queue # <<>>, queue' = Tail(queue), NEW c
  PROVE  /\ Head(queue).session = c <=> 1 \in Scheduled(c)
         /\ \A k \in Scheduled(c)' : k \in Nat /\ k # 0 /\ k + 1 \in Scheduled(c)
         /\ \A k \in Scheduled(c) : k = 1 \/ k - 1 \in Scheduled(c)'
<1> USE PumpedQueue
<1>1. Head(queue).session = c <=> 1 \in Scheduled(c)
  BY DEF Scheduled
<1>2. \A k \in Scheduled(c)' : k \in Nat /\ k # 0 /\ k + 1 \in Scheduled(c)
  BY DEF Scheduled
<1>3. ASSUME NEW k \in Scheduled(c), k # 1 PROVE k - 1 \in Scheduled(c)'
  <2>1. k \in 1..Len(queue) /\ queue[k].session = c
    BY DEF Scheduled
  <2>2. k - 1 \in 1..Len(queue') /\ queue'[k - 1] = queue[(k - 1) + 1] /\ (k - 1) + 1 = k
    BY <1>3, <2>1
  <2>3. QED BY <2>1, <2>2 DEF Scheduled
<1>4. QED BY <1>1, <1>2, <1>3

LEMMA EmptyScheduled ==
  ASSUME queue = <<>>, NEW c
  PROVE  Scheduled(c) = {}
  BY EmptySeq, LenProperties DEF Scheduled

LEMMA StartedExecuting ==
  ASSUME TypeOK, NEW t \in Turns, exec[t] = None, NEW turn \in Turn,
         exec' = [exec EXCEPT ![t] = turn], NEW c
  PROVE  /\ turn.session = c => Executing(c)' = Executing(c) \cup {t}
         /\ turn.session # c => Executing(c)' = Executing(c)
  BY NoTurnAssumption DEF TypeOK, Executing

LEMMA LeftExecuting ==
  ASSUME TypeOK, NEW t \in Turns, exec' = [exec EXCEPT ![t] = None], NEW c
  PROVE  Executing(c)' = Executing(c) \ {t}
  BY DEF TypeOK, Executing

\* Tasks that leave the turns, the statuses and the askers alone.
LEMMA QuietSerial ==
  ASSUME SerialInv, UNCHANGED <<up, doomed, status, queue, exec, ixSession, asker>>
  PROVE  SerialInv'
  BY DEF SerialInv, AskerExecutes, SessionInv, OneTurn, StatusFits, Executing, Scheduled,
         OutstandingOf

LEMMA SessionUnchanged ==
  ASSUME NEW c, SessionInv(c), Executing(c)' = Executing(c), Scheduled(c)' = Scheduled(c),
         status'[c] = status[c], up' = up,
         \A t \in Executing(c) : OutstandingOf(t) # {} => OutstandingOf(t)' # {}
  PROVE  SessionInv(c)'
  BY DEF SessionInv, OneTurn, StatusFits

\* A session without a turn gets one.
LEMMA ScheduleSerial ==
  ASSUME IInv, SerialInv, up, NEW c \in Conversations, NEW m \in Messages,
         status[c] \notin {"queued", "running", "waiting"},
         Schedule([session |-> c, prompt |-> m, row |-> 0]),
         status' = [status EXCEPT ![c] = "queued"],
         UNCHANGED <<processVars, ixVars, running, exec, active>>
  PROVE  SerialInv'
<1> DEFINE turn == [session |-> c, prompt |-> m, row |-> 0]
<1>1. TypeOK /\ turn \in Turn /\ queue' = Append(queue, turn) /\ turn.session = c
  BY DEF IInv, Schedule, Turn
<1> HIDE DEF turn
<1>2. UNCHANGED <<up, doomed, exec, ixSession, asker>>
  BY DEF processVars, ixVars
<1>3. \A d : Executing(d)' = Executing(d) /\ \A t : OutstandingOf(t)' = OutstandingOf(t)
  BY <1>2 DEF Executing, OutstandingOf
<1>4. Executing(c) = {} /\ Scheduled(c) = {}
  BY DEF SerialInv, SessionInv, StatusFits
<1>5. SessionInv(c)'
  <2>1. Executing(c)' = {} /\ Scheduled(c)' = {Len(queue) + 1}
    BY <1>1, <1>3, <1>4, PushedScheduled
  <2>2. status'[c] = "queued"
    BY <1>1 DEF TypeOK
  <2>3. QED BY <2>1, <2>2 DEF SessionInv, OneTurn, StatusFits
<1>6. ASSUME NEW d \in Conversations, d # c PROVE SessionInv(d)'
  BY <1>1, <1>2, <1>3, <1>6, PushedScheduled, SessionUnchanged DEF SerialInv, TypeOK
<1>7. QED BY <1>2, <1>5, <1>6 DEF SerialInv, AskerExecutes

\* An interaction is settled: its session runs if it waited.
LEMMA SettleSerial ==
  ASSUME IInv, SerialInv, up, NEW i \in Interactions, NEW how, NEW by,
         ixSession[i] \in Conversations,
         SettleInteractions({i}, how, by),
         \/ i \in live /\ status' = [status EXCEPT ![ixSession[i]] = Woken(@)]
         \/ i \notin live /\ status' = status,
         UNCHANGED <<processVars, poolVars>>
  PROVE  SerialInv'
<1> DEFINE c == ixSession[i]
<1>1. TypeOK /\ ixSession' = ixSession /\ UNCHANGED <<up, doomed, queue, exec>>
  BY DEF IInv, SettleInteractions, processVars, poolVars
<1>2. asker' = [j \in Interactions |-> IF j \in {i} THEN None ELSE asker[j]]
  BY DEF SettleInteractions
<1>3. \A d : Executing(d)' = Executing(d) /\ Scheduled(d)' = Scheduled(d)
  BY <1>1 DEF Executing, Scheduled
<1>4. AskerExecutes'
  BY <1>1, <1>2 DEF SerialInv, AskerExecutes
<1>5. CASE i \notin live
  <2>1. asker[i] = None
    BY <1>5 DEF IInv, LiveIsPending
  <2>2. asker' = asker /\ status' = status
    BY <1>1, <1>2, <1>5, <2>1 DEF TypeOK
  <2>3. QED BY <1>1, <2>2, QuietSerial
<1>6. CASE i \in live
  <2>1. status' = [status EXCEPT ![c] = Woken(@)]
    BY <1>6
  <2>2. SessionInv(c)'
    <3>1. status'[c] = (IF status[c] = "waiting" THEN "running" ELSE status[c])
      BY <1>1, <2>1 DEF TypeOK, Woken
    <3>2. SessionInv(c)
      BY DEF SerialInv
    <3>3. QED BY <1>1, <1>3, <3>1, <3>2 DEF SessionInv, OneTurn, StatusFits
  <2>3. ASSUME NEW d \in Conversations, d # c PROVE SessionInv(d)'
    <3>1. \A t \in Executing(d) : asker[i] # t
      BY <2>3, NoneAssumption DEF SerialInv, AskerExecutes, Executing
    <3>2. \A t \in Executing(d) : OutstandingOf(t)' = OutstandingOf(t)
      BY <1>1, <1>2, <3>1, NoneAssumption DEF OutstandingOf, Executing
    <3>3. status'[d] = status[d]
      BY <1>1, <2>1, <2>3 DEF TypeOK
    <3>4. QED BY <1>1, <1>3, <3>2, <3>3, SessionUnchanged DEF SerialInv
  <2>4. QED BY <1>1, <1>4, <2>2, <2>3 DEF SerialInv
<1>7. QED BY <1>5, <1>6

LEMMA AskSerial ==
  ASSUME IInv, SerialInv, NEW t \in Turns, NEW i \in Interactions, NEW kind, Ask(t, i, kind)
  PROVE  SerialInv'
<1>0. TypeOK
  BY DEF IInv
<1>2. PICK c \in Conversations : c = exec[t].session
  BY <1>0, TurnIsNotNone DEF Ask, Turn
<1>1. /\ up /\ exec[t] # None /\ ixStatus[i] = "unused"
      /\ ixSession' = [ixSession EXCEPT ![i] = c]
      /\ \/ /\ MayBecome(status[c], "waiting")
            /\ status' = [status EXCEPT ![c] = "waiting"]
            /\ asker' = [asker EXCEPT ![i] = t]
         \/ ~MayBecome(status[c], "waiting")
      /\ UNCHANGED <<up, doomed, queue, exec>>
  BY <1>2 DEF Ask, Task, processVars, poolVars
<1>3. t \in Executing(c) /\ status[c] \in {"running", "waiting"}
  BY <1>1, <1>2 DEF Executing, SerialInv, SessionInv, StatusFits
<1>4. /\ status' = [status EXCEPT ![c] = "waiting"]
      /\ asker' = [asker EXCEPT ![i] = t]
  BY <1>1, <1>3 DEF MayBecome, Transitions
<1>5. asker[i] = None
  BY <1>1 DEF IInv, LiveIsPending
<1>6. \A d : Executing(d)' = Executing(d) /\ Scheduled(d)' = Scheduled(d)
  BY <1>1 DEF Executing, Scheduled
<1>7. AskerExecutes'
  <2>1. \A j \in Interactions : asker'[j] = IF j = i THEN t ELSE asker[j]
    BY <1>0, <1>4 DEF TypeOK
  <2>2. ixSession'[i] = c /\ \A j \in Interactions : j # i => ixSession'[j] = ixSession[j]
    BY <1>0, <1>1 DEF TypeOK
  <2>3. QED BY <1>1, <1>2, <2>1, <2>2 DEF SerialInv, AskerExecutes
<1>8. \A u \in Turns : OutstandingOf(u) \subseteq OutstandingOf(u)'
  BY <1>0, <1>4, <1>5, NoneAssumption DEF TypeOK, OutstandingOf
<1>9. i \in OutstandingOf(t)'
  BY <1>0, <1>4 DEF TypeOK, OutstandingOf
<1>10. SessionInv(c)'
  <2>1. status'[c] = "waiting"
    BY <1>0, <1>2, <1>4 DEF TypeOK
  <2>2. SessionInv(c)
    BY <1>2 DEF SerialInv
  <2>3. OneTurn(c)' /\ Scheduled(c)' = {}
    BY <1>3, <1>6, <2>2 DEF SessionInv, OneTurn
  <2>4. \E u \in Executing(c)' : OutstandingOf(u)' # {}
    BY <1>3, <1>6, <1>9
  <2>5. QED BY <1>6, <2>1, <2>3, <2>4 DEF SessionInv, StatusFits
<1>11. ASSUME NEW d \in Conversations, d # c PROVE SessionInv(d)'
  <2>1. \A u \in Executing(d) : OutstandingOf(u) # {} => OutstandingOf(u)' # {}
    BY <1>8 DEF Executing
  <2>2. status'[d] = status[d]
    BY <1>0, <1>4, <1>11 DEF TypeOK
  <2>3. QED BY <1>1, <1>6, <2>1, <2>2, SessionUnchanged DEF SerialInv
<1>12. QED BY <1>1, <1>7, <1>10, <1>11 DEF SerialInv

\* pump() starts the one turn of a session, and discards none.
LEMMA PumpSerial ==
  ASSUME IInv, SerialInv, Pump
  PROVE  SerialInv'
<1>0. TypeOK /\ UNCHANGED <<up, ixSession, asker>>
  BY DEF IInv, Pump, ixVars
<1>1. CASE UNCHANGED <<doomed, status, queue, exec>>
  BY <1>0, <1>1, QuietSerial
<1>2. CASE ~UNCHANGED <<doomed, status, queue, exec>>
  <2>0. queue # <<>> /\ queue' = Tail(queue)
    BY <1>2 DEF Pump
  <2>a. PICK turn \in Turn : turn = Head(queue)
    BY <1>0, <2>0, PumpedQueue
  <2> DEFINE c == turn.session
  <2>1. /\ queue # <<>> /\ queue' = Tail(queue)
        /\ IF status[c] # "stopped" /\ MayBecome(status[c], "running")
           THEN StartTurn(turn) ELSE DiscardTurn(turn)
    BY <1>2, <2>a DEF Pump
  <2>2. turn \in Turn /\ c \in Conversations /\ 1 \in Scheduled(c)
    BY <1>0, <2>1, <2>a, PumpedScheduled DEF Turn
  <2> HIDE DEF c
  <2>3. SessionInv(c)
    BY <2>2 DEF SerialInv
  <2>4. status[c] \in {"queued", "running"} /\ Executing(c) = {} /\ Scheduled(c) = {1}
    BY <2>2, <2>3 DEF SessionInv, StatusFits, OneTurn
  <2>5. StartTurn(turn)
    BY <2>1, <2>4 DEF MayBecome, Transitions
  <2>6. PICK t \in Turns : exec[t] = None /\ exec' = [exec EXCEPT ![t] = turn]
    BY <2>5 DEF StartTurn
  <2>7. status' = [status EXCEPT ![c] = "running"] /\ doomed' = doomed
    BY <2>5 DEF StartTurn, c
  <2>8. Executing(c)' = {t} /\ Scheduled(c)' = {}
    <3>1. Executing(c)' = {t}
      BY <1>0, <2>2, <2>4, <2>6, StartedExecuting DEF c
    <3>2. \A k \in Scheduled(c)' : k \in Nat /\ k # 0 /\ k + 1 \in Scheduled(c)
      BY <1>0, <2>1, PumpedScheduled
    <3>3. QED BY <2>4, <3>1, <3>2
  <2>9. SessionInv(c)'
    <3>1. status'[c] = "running"
      BY <1>0, <2>2, <2>7 DEF TypeOK
    <3>2. QED BY <2>8, <3>1 DEF SessionInv, OneTurn, StatusFits
  <2>10. \A u : OutstandingOf(u)' = OutstandingOf(u)
    BY <1>0 DEF OutstandingOf
  <2>11. ASSUME NEW d \in Conversations, d # c PROVE SessionInv(d)'
    <3>1. Executing(d)' = Executing(d) /\ status'[d] = status[d]
      BY <1>0, <2>2, <2>6, <2>7, <2>11, StartedExecuting DEF TypeOK, c
    <3>2. /\ 1 \notin Scheduled(d)
          /\ \A k \in Scheduled(d)' : k \in Nat /\ k # 0 /\ k + 1 \in Scheduled(d)
          /\ \A k \in Scheduled(d) : k = 1 \/ k - 1 \in Scheduled(d)'
      BY <1>0, <2>1, <2>a, <2>11, PumpedScheduled DEF c
    <3>3. SessionInv(d)
      BY DEF SerialInv
    <3>4. \A k, l \in Scheduled(d)' : k = l
      BY <3>2, <3>3 DEF SessionInv, OneTurn
    <3>5. Scheduled(d)' = {} <=> Scheduled(d) = {}
      BY <3>2
    <3>6. QED BY <1>0, <2>10, <3>1, <3>3, <3>4, <3>5 DEF SessionInv, OneTurn, StatusFits
  <2>12. AskerExecutes'
    BY <1>0, <2>6 DEF SerialInv, AskerExecutes, TypeOK
  <2>13. QED BY <2>7, <2>9, <2>11, <2>12 DEF SerialInv
<1>3. QED BY <1>1, <1>2

LEMMA LeaveAllowed ==
  ASSUME NEW s \in {"running", "waiting"}, NEW target \in {"completed", "failed", "interrupted"}
  PROVE  ~Rejects(s, target) /\ Leave(s, target) \in {"completed", "failed", "interrupted"}
  BY DEF Rejects, Leave, MayBecome, Transitions

\* execute() ends: the session has no turn any more, or its next one.
LEMMA EndTurnSerial ==
  ASSUME IInv, SerialInv, NEW t \in Turns, EndTurn(t)
  PROVE  SerialInv'
<1>0. TypeOK
  BY DEF IInv
<1>2. PICK c \in Conversations : c = exec[t].session /\ t \in Executing(c)
  <2>1. exec[t] # None
    BY DEF EndTurn, TurnSucceeds, TurnFails
  <2>2. QED BY <1>0, <2>1, TurnIsNotNone DEF Turn, Executing
<1>1. /\ up /\ exec[t] # None /\ exec' = [exec EXCEPT ![t] = None]
      /\ asker' = [i \in Interactions |-> IF asker[i] = t THEN None ELSE asker[i]]
      /\ UNCHANGED <<up, ixSession>>
  BY DEF EndTurn, TurnSucceeds, TurnFails, LeaveTurn, Task
<1>3. SessionInv(c) /\ status[c] \in {"running", "waiting"}
  BY <1>2 DEF SerialInv, SessionInv, StatusFits
<1>4. Executing(c) = {t} /\ Scheduled(c) = {}
  BY <1>2, <1>3 DEF SessionInv, OneTurn
<1>5. Executing(c)' = {} /\ \A d : d # c => Executing(d)' = Executing(d)
  <2>1. \A d : Executing(d)' = Executing(d) \ {t}
    BY <1>0, <1>1, LeftExecuting
  <2>2. \A d : d # c => t \notin Executing(d)
    BY <1>2 DEF Executing
  <2>3. QED BY <1>4, <2>1, <2>2
<1>6. AskerExecutes'
  BY <1>0, <1>1 DEF SerialInv, AskerExecutes, TypeOK
<1>7. \/ /\ \E target \in {"completed", "failed", "interrupted"} : CloseTurn(c, target)
         /\ queue' = queue
      \/ /\ \E turn \in Turn : turn.session = c /\ queue' = Append(queue, turn)
         /\ UNCHANGED <<status, doomed>> /\ status[c] = "running"
  <2>1. CASE TurnFails(t, "failed") \/ TurnFails(t, "interrupted")
    BY <1>2, <2>1 DEF TurnFails, CloseTurn
  <2>2. CASE TurnSucceeds(t)
    <3> DEFINE table == MarkDelivered(rows[c], exec[t].row)
    <3>1. /\ OutstandingOf(t) = {}
          /\ \/ CloseTurn(c, "completed")
             \/ /\ \E n \in FirstOf(QueuedFollowUps(table)) :
                     queue' = Append(queue, [session |-> c, prompt |-> table[n].event, row |-> n])
                /\ UNCHANGED <<status, doomed>>
      BY <1>2, <1>3, <2>2 DEF TurnSucceeds
    <3>2. status[c] = "running"
      BY <1>1, <1>3, <1>4, <3>1 DEF SessionInv, StatusFits
    <3>3. table \in Seq(FollowUp)
      BY <1>0, <1>2, MarkDeliveredType DEF TypeOK
    <3>4. \A n \in FirstOf(QueuedFollowUps(table)) :
            [session |-> c, prompt |-> table[n].event, row |-> n] \in Turn
      <4> HIDE DEF table
      <4>1. TAKE n \in FirstOf(QueuedFollowUps(table))
      <4>2. n \in 1..Len(table) /\ Len(table) \in Nat
        BY <3>3, LenProperties DEF FirstOf, QueuedFollowUps
      <4>3. n \in Nat /\ table[n] \in FollowUp
        BY <3>3, <4>2, ElementOfSeq
      <4>4. QED BY <4>3 DEF Turn, FollowUp
    <3>5. CASE CloseTurn(c, "completed")
      BY <3>5 DEF CloseTurn
    <3>6. CASE ~CloseTurn(c, "completed")
      BY <3>1, <3>2, <3>4, <3>6
    <3>7. QED BY <3>5, <3>6
  <2>3. QED BY <2>1, <2>2 DEF EndTurn
<1>8. \A d \in Conversations : d # c =>
        \A u \in Executing(d) : OutstandingOf(u)' = OutstandingOf(u)
  <2>1. \A d \in Conversations : d # c => t \notin Executing(d)
    BY <1>2 DEF Executing
  <2>2. \A u \in Turns \ {t} : OutstandingOf(u)' = OutstandingOf(u)
    BY <1>0, <1>1, NoneAssumption DEF OutstandingOf, TypeOK
  <2>3. QED BY <2>1, <2>2 DEF Executing
<1>9. CASE /\ \E target \in {"completed", "failed", "interrupted"} : CloseTurn(c, target)
           /\ queue' = queue
  <2>1. PICK target \in {"completed", "failed", "interrupted"} : CloseTurn(c, target)
    BY <1>9
  <2>2. /\ doomed' = doomed
        /\ status' = [status EXCEPT ![c] = Leave(@, target)]
        /\ Leave(status[c], target) \in {"completed", "failed", "interrupted"}
    <3>1. ~Rejects(status[c], target)
          /\ Leave(status[c], target) \in {"completed", "failed", "interrupted"}
      BY <1>3, LeaveAllowed
    <3>2. doomed' = doomed
      BY <1>0, <2>1, <3>1 DEF CloseTurn, TypeOK
    <3>3. QED BY <2>1, <3>1, <3>2 DEF CloseTurn
  <2>3. \A d : Scheduled(d)' = Scheduled(d)
    BY <1>9 DEF Scheduled
  <2>4. status'[c] \in {"completed", "failed", "interrupted"}
        /\ \A d \in Conversations : d # c => status'[d] = status[d]
    BY <1>0, <1>2, <2>2 DEF TypeOK
  <2>5. SessionInv(c)'
    BY <1>4, <1>5, <2>3, <2>4 DEF SessionInv, OneTurn, StatusFits
  <2>6. ASSUME NEW d \in Conversations, d # c PROVE SessionInv(d)'
    BY <1>1, <1>5, <1>8, <2>3, <2>4, <2>6, SessionUnchanged DEF SerialInv
  <2>7. QED BY <1>6, <2>2, <2>5, <2>6 DEF SerialInv
<1>10. CASE /\ \E turn \in Turn : turn.session = c /\ queue' = Append(queue, turn)
            /\ UNCHANGED <<status, doomed>> /\ status[c] = "running"
  <2>1. PICK turn \in Turn : turn.session = c /\ queue' = Append(queue, turn)
    BY <1>10
  <2>2. Scheduled(c)' = {Len(queue) + 1}
    BY <1>0, <1>4, <2>1, PushedScheduled
  <2>3. SessionInv(c)'
    BY <1>5, <1>10, <2>2 DEF SessionInv, OneTurn, StatusFits
  <2>4. ASSUME NEW d \in Conversations, d # c PROVE SessionInv(d)'
    <3>1. Scheduled(d)' = Scheduled(d)
      BY <1>0, <2>1, <2>4, PushedScheduled
    <3>2. QED BY <1>1, <1>5, <1>8, <1>10, <2>4, <3>1, SessionUnchanged DEF SerialInv
  <2>5. QED BY <1>6, <1>10, <2>3, <2>4 DEF SerialInv
<1>11. QED BY <1>7, <1>9, <1>10

\* A crash forgets the turns, and recovery interrupts the sessions that had one.
LEMMA ProcessSerial ==
  ASSUME IInv, SerialInv, Exit \/ Crash \/ Restart
  PROVE  SerialInv'
<1>0. TypeOK
  BY DEF IInv
<1>1. ASSUME Exit \/ Crash PROVE SerialInv'
  <2>1. /\ up' = FALSE /\ doomed' = FALSE /\ queue' = <<>>
        /\ exec' = [t \in Turns |-> None]
        /\ asker' = [i \in Interactions |-> None]
        /\ status' = status
    BY <1>1 DEF Exit, Crash, LoseMemory, storeVars
  <2>2. \A c : Executing(c)' = {} /\ Scheduled(c)' = {}
    <3>1. \A c : Scheduled(c)' = {}
      BY <2>1, EmptySeq, LenProperties DEF Scheduled
    <3>2. QED BY <2>1, <3>1 DEF Executing
  <2>3. AskerExecutes'
    BY <2>1 DEF AskerExecutes
  <2>4. \A c \in Conversations : status[c] # "stopped"
    BY DEF SerialInv, SessionInv, StatusFits
  <2>5. QED BY <2>1, <2>2, <2>3, <2>4 DEF SerialInv, SessionInv, OneTurn, StatusFits
<1>2. ASSUME Restart PROVE SerialInv'
  <2>1. /\ ~up /\ UNCHANGED <<doomed, queue, exec, ixSession, asker>>
        /\ status' = [c \in Conversations |->
                        IF status[c] \in {"running", "waiting"} THEN "interrupted" ELSE status[c]]
    BY <1>2 DEF Restart, poolVars
  <2>2. queue = <<>> /\ \A t \in Turns : exec[t] = None
    BY <2>1 DEF IInv, DownIsEmpty
  <2>3. \A c : Executing(c)' = {} /\ Scheduled(c)' = {}
    <3>1. \A c : Scheduled(c)' = {}
      BY <2>1, <2>2, EmptySeq, LenProperties DEF Scheduled
    <3>2. QED BY <2>1, <2>2, <3>1 DEF Executing
  <2>4. AskerExecutes'
    BY <2>1 DEF SerialInv, AskerExecutes
  <2>5. \A c \in Conversations : status'[c] \notin {"stopped", "running", "waiting"}
    BY <2>1 DEF SerialInv, SessionInv, StatusFits
  <2>6. QED BY <2>1, <2>3, <2>4, <2>5 DEF SerialInv, SessionInv, OneTurn, StatusFits
<1>3. QED BY <1>1, <1>2

LEMMA SerialStep ==
  ASSUME NobodyStops, IInv, SerialInv, [Next]_vars
  PROVE  SerialInv'
<1>0. TypeOK
  BY DEF IInv
<1>1. ASSUME NEW e \in Events, IgnoreEvent(e) PROVE SerialInv'
  BY <1>1, QuietSerial DEF IgnoreEvent, processVars, ixVars, poolVars
<1>2. ASSUME NEW m \in Messages, AcceptMessage(m) PROVE SerialInv'
  <2>1. CASE WorktreeReady(m)
    <3>1. CASE status[creating[m]] = "none"
      BY <1>0, <2>1, <3>1, ScheduleSerial DEF WorktreeReady, Task, TypeOK
    <3>2. CASE status[creating[m]] # "none"
      BY <2>1, <3>2, QuietSerial DEF WorktreeReady, processVars, ixVars
    <3>3. QED BY <3>1, <3>2
  <2>2. CASE WorktreeFails(m)
    BY <2>2, QuietSerial DEF WorktreeFails, processVars, storeVars, poolVars
  <2>3. ASSUME NEW c \in Conversations, AcceptFirst(m, c) \/ AcceptFollowUp(m, c)
        PROVE  SerialInv'
    BY <2>3, QuietSerial DEF AcceptFirst, AcceptFollowUp, processVars, ixVars, poolVars
  <2>4. ASSUME NEW c \in Conversations, AcceptResume(m, c) PROVE SerialInv'
    BY <2>4, ScheduleSerial DEF AcceptResume, Task
  <2>5. ASSUME NEW c \in Conversations, NEW i \in Interactions,
               NEW by \in {"operator", "participant"}, AcceptReply(m, c, i, by)
        PROVE  SerialInv'
    BY <2>5, SettleSerial DEF AcceptReply, ResolveInteraction, Task
  <2>6. QED BY <1>2, <2>1, <2>2, <2>3, <2>4, <2>5 DEF AcceptMessage
<1>3. ASSUME NEW e \in Responses, NEW c \in Conversations, NEW i \in Interactions,
             NEW by \in {"operator", "participant"}, AcceptResponse(e, c, i, by)
      PROVE  SerialInv'
  BY <1>3, SettleSerial DEF AcceptResponse, ResolveInteraction, Task
<1>4. ASSUME NEW i \in Interactions, Abort(i) PROVE SerialInv'
  <2>1. ixSession[i] \in Conversations /\ i \in live
    BY <1>0, <1>4 DEF Abort, IInv, LiveIsPending, TypeOK
  <2>2. QED BY <1>4, <2>1, SettleSerial DEF Abort, Task
<1>5. CASE UNCHANGED vars
  BY <1>5, QuietSerial DEF vars, processVars, storeVars, poolVars
<1>6. Stops = {}
  BY DEF NobodyStops
<1>7. QED
  BY <1>1, <1>2, <1>3, <1>4, <1>5, <1>6, AskSerial, PumpSerial, EndTurnSerial, ProcessSerial
     DEF Next

LEMMA SerialInit == Init => SerialInv
  BY EmptySeq, LenProperties
     DEF Init, SerialInv, AskerExecutes, SessionInv, OneTurn, StatusFits, Executing, Scheduled

----------------------------------------------------------------------------
(* Without stops the follow-ups of a session are delivered in their order, and every *)
(* message is in one place.                                                          *)

AllTurns == {queue[k] : k \in 1..Len(queue)} \cup ({exec[t] : t \in Turns} \ {None})

\* The delivered follow-ups of a session come before the queued ones.
DeliveredUpTo(table, d) == \A k \in 1..Len(table) : table[k].delivered <=> k <= d

DeliveredPrefix == \A c \in Conversations : \E d \in 0..Len(rows[c]) : DeliveredUpTo(rows[c], d)

\* The turn of a follow-up runs the first one that is queued.
RunsRow(turn) ==
  turn.row # 0 =>
    /\ turn.row <= Len(rows[turn.session])
    /\ rows[turn.session][turn.row].event = turn.prompt
    /\ \A k \in 1..turn.row : rows[turn.session][k].delivered <=> k < turn.row

InAnyRow(m) == \E c \in Conversations : \E k \in 1..Len(rows[c]) : rows[c][k].event = m

\* A message is a follow-up, or it opens a turn.
MessagesApart ==
  /\ \A m \in Messages : InAnyRow(m) => m \in ingress
  /\ \A m \in Messages : creating[m] # None => m \in ingress /\ ~InAnyRow(m)
  /\ \A turn \in AllTurns : turn.prompt \in ingress
  /\ \A turn \in AllTurns : turn.row = 0 => ~InAnyRow(turn.prompt)

OrderInv == DeliveredPrefix /\ (\A turn \in AllTurns : RunsRow(turn)) /\ MessagesApart

LEMMA TurnsTyped ==
  ASSUME TypeOK
  PROVE  AllTurns \subseteq Turn
<1>1. \A k \in 1..Len(queue) : queue[k] \in Turn
  BY ElementOfSeq DEF TypeOK
<1>2. \A t \in Turns : exec[t] # None => exec[t] \in Turn
  BY DEF TypeOK
<1>3. QED BY <1>1, <1>2 DEF AllTurns

LEMMA TurnsPushed ==
  ASSUME TypeOK, NEW turn \in Turn, queue' = Append(queue, turn), exec' = exec
  PROVE  AllTurns' = AllTurns \cup {turn}
<1>1. {queue'[k] : k \in 1..Len(queue')} = {queue[k] : k \in 1..Len(queue)} \cup {turn}
  BY PushedQueue
<1>2. QED BY <1>1 DEF AllTurns

LEMMA TurnsPumped ==
  ASSUME TypeOK, queue # <<>>, queue' = Tail(queue),
         exec' = exec \/ \E t \in Turns : exec' = [exec EXCEPT ![t] = Head(queue)]
  PROVE  AllTurns' \subseteq AllTurns
<1>1. {queue'[k] : k \in 1..Len(queue')} \subseteq {queue[k] : k \in 1..Len(queue)}
  BY PumpedQueue
<1>2. Head(queue) \in {queue[k] : k \in 1..Len(queue)}
  BY PumpedQueue
<1>3. {exec'[t] : t \in Turns} \subseteq {exec[t] : t \in Turns} \cup {Head(queue)}
  BY DEF TypeOK
<1>4. QED BY <1>1, <1>2, <1>3 DEF AllTurns

\* A turn ends, and at most one of its session takes its place.
LEMMA TurnsLeft ==
  ASSUME TypeOK, NEW t \in Turns, exec[t] # None, exec' = [exec EXCEPT ![t] = None],
         NEW new \in Turn, queue' = queue \/ queue' = Append(queue, new),
         NEW c, Executing(c) = {t}, Scheduled(c) = {}
  PROVE  /\ \A turn \in AllTurns' : \/ turn \in AllTurns /\ turn.session # c
                                    \/ turn = new
         /\ queue' = queue => \A turn \in AllTurns' : turn \in AllTurns /\ turn.session # c
<1>1. \A u \in Turns : exec'[u] # None => exec'[u] = exec[u] /\ u # t
  BY DEF TypeOK
<1>2. \A u \in Turns : exec'[u] # None => exec'[u].session # c /\ exec'[u] \in AllTurns
  BY <1>1 DEF Executing, AllTurns
<1>3. \A k \in 1..Len(queue) : queue[k].session # c /\ queue[k] \in AllTurns
  BY DEF Scheduled, AllTurns
<1>4. CASE queue' = queue
  BY <1>2, <1>3, <1>4 DEF AllTurns
<1>5. CASE queue' # queue
  <2>1. \A k \in 1..Len(queue') : \/ queue'[k] = new
                                  \/ queue'[k].session # c /\ queue'[k] \in AllTurns
    BY <1>3, <1>5, PushedQueue
  <2>2. QED BY <1>2, <1>5, <2>1 DEF AllTurns
<1>6. QED BY <1>4, <1>5

LEMMA QuietOrder ==
  ASSUME OrderInv, AllTurns' \subseteq AllTurns, rows' = rows, ingress \subseteq ingress',
         \A m \in Messages : creating'[m] # None => creating[m] # None
  PROVE  OrderInv'
<1>1. \A m : InAnyRow(m)' <=> InAnyRow(m)
  BY DEF InAnyRow
<1>2. \A turn : RunsRow(turn)' <=> RunsRow(turn)
  BY DEF RunsRow
<1>3. MessagesApart'
  BY <1>1 DEF OrderInv, MessagesApart
<1>4. DeliveredPrefix'
  BY DEF OrderInv, DeliveredPrefix, DeliveredUpTo
<1>5. QED BY <1>2, <1>3, <1>4 DEF OrderInv

\* A message opens a turn of its own.
LEMMA PushOrder ==
  ASSUME OrderInv, NEW turn, turn.row = 0, turn.prompt \in ingress', ~InAnyRow(turn.prompt),
         AllTurns' = AllTurns \cup {turn}, rows' = rows, ingress \subseteq ingress',
         \A m \in Messages : creating'[m] # None => creating[m] # None
  PROVE  OrderInv'
<1>1. \A m : InAnyRow(m)' <=> InAnyRow(m)
  BY DEF InAnyRow
<1>2. \A other : RunsRow(other)' <=> RunsRow(other)
  BY DEF RunsRow
<1>3. MessagesApart'
  BY <1>1 DEF OrderInv, MessagesApart
<1>4. DeliveredPrefix'
  BY DEF OrderInv, DeliveredPrefix, DeliveredUpTo
<1>5. RunsRow(turn)
  BY DEF RunsRow
<1>6. QED BY <1>2, <1>3, <1>4, <1>5 DEF OrderInv


LEMMA MarkedFields ==
  ASSUME NEW table \in Seq(FollowUp), NEW n
  PROVE  \A k \in 1..Len(table) :
           /\ MarkDelivered(table, n)[k].event = table[k].event
           /\ MarkDelivered(table, n)[k].delivered <=> table[k].delivered \/ k = n
<1>1. \A k \in 1..Len(table) : table[k] \in FollowUp
  BY ElementOfSeq
<1>2. QED BY <1>1 DEF MarkDelivered, FollowUp

\* The queued rows of a table whose first d rows are delivered.
LEMMA QueuedAfter ==
  ASSUME NEW table \in Seq(FollowUp), NEW d \in 0..Len(table), DeliveredUpTo(table, d)
  PROVE  /\ QueuedFollowUps(table) = (d + 1)..Len(table)
         /\ \A n \in FirstOf(QueuedFollowUps(table)) : n = d + 1 /\ n \in 1..Len(table)
<1>1. Len(table) \in Nat
  BY LenProperties
<1>2. QueuedFollowUps(table) = (d + 1)..Len(table)
  BY <1>1 DEF QueuedFollowUps, DeliveredUpTo
<1>3. ASSUME NEW n \in FirstOf(QueuedFollowUps(table)) PROVE n = d + 1 /\ n \in 1..Len(table)
  <2>1. n \in (d + 1)..Len(table) /\ \A k \in (d + 1)..Len(table) : n <= k
    BY <1>2 DEF FirstOf
  <2>2. d + 1 \in (d + 1)..Len(table)
    BY <1>1, <2>1
  <2>3. QED BY <1>1, <2>1, <2>2
<1>4. QED BY <1>2, <1>3

\* The first queued row is marked, or none.
LEMMA MarkNext ==
  ASSUME NEW table \in Seq(FollowUp), NEW d \in 0..Len(table), DeliveredUpTo(table, d),
         NEW n \in 0..Len(table), n = 0 \/ n = d + 1
  PROVE  DeliveredUpTo(MarkDelivered(table, n), IF n = 0 THEN d ELSE n)
<1>1. Len(table) \in Nat /\ Len(MarkDelivered(table, n)) = Len(table)
  BY LenProperties, MarkDeliveredType
<1>2. QED BY <1>1, MarkedFields DEF DeliveredUpTo

\* The row a turn runs is the one after the delivered ones.
LEMMA RowIsNext ==
  ASSUME TypeOK, NEW turn \in Turn, RunsRow(turn), turn.row # 0,
         NEW d \in 0..Len(rows[turn.session]), DeliveredUpTo(rows[turn.session], d)
  PROVE  turn.row = d + 1 /\ turn.row \in 1..Len(rows[turn.session])
<1> DEFINE n == turn.row
           table == rows[turn.session]
<1>1. table \in Seq(FollowUp) /\ Len(table) \in Nat /\ n \in Nat
  BY LenProperties DEF TypeOK, Turn
<1>2. n \in 1..Len(table) /\ \A k \in 1..n : table[k].delivered <=> k < n
  BY <1>1 DEF RunsRow
<1>3. \A k \in 1..n : table[k].delivered <=> k <= d
  BY <1>1, <1>2 DEF DeliveredUpTo
<1> HIDE DEF n, table
<1>4. n > d
  BY <1>1, <1>2, <1>3
<1>5. n = 1 \/ n - 1 <= d
  <2>1. CASE n # 1
    <3>1. n - 1 \in 1..n /\ n - 1 < n
      BY <1>2, <2>1
    <3>2. QED BY <1>2, <1>3, <3>1
  <2>2. QED BY <2>1
<1>6. d \in Nat
  BY <1>1 DEF table
<1>7. QED BY <1>1, <1>2, <1>4, <1>5, <1>6 DEF n, table

\* A follow-up gets the next row.
LEMMA AppendOrder ==
  ASSUME TypeOK, OrderInv, NEW m \in Messages, NEW c \in Conversations, AcceptFollowUp(m, c)
  PROVE  OrderInv'
<1> DEFINE row == [event |-> m, delivered |-> FALSE]
<1>1. /\ m \notin ingress /\ ingress' = ingress \cup {m}
      /\ rows' = [rows EXCEPT ![c] = Append(@, row)]
      /\ UNCHANGED <<queue, exec, creating>>
  BY DEF AcceptFollowUp, RecordIngress, EnqueueFollowUp, poolVars
<1>2. AllTurns' = AllTurns
  BY <1>1 DEF AllTurns
<1>3. row.event = m /\ ~row.delivered /\ row \in FollowUp
  BY DEF FollowUp
<1> HIDE DEF row
<1>4. /\ rows'[c] = Append(rows[c], row)
      /\ \A d \in Conversations : d # c => rows'[d] = rows[d]
      /\ rows[c] \in Seq(FollowUp) /\ Len(rows[c]) \in Nat
  BY <1>1, LenProperties DEF TypeOK
<1>5. /\ Len(rows'[c]) = Len(rows[c]) + 1
      /\ \A k \in 1..Len(rows[c]) : rows'[c][k] = rows[c][k]
      /\ rows'[c][Len(rows[c]) + 1] = row
  BY <1>3, <1>4, AppendProperties
<1>6. \A x : InAnyRow(x)' <=> InAnyRow(x) \/ x = m
  <2>1. TAKE x
  <2>2. (\E k \in 1..Len(rows'[c]) : rows'[c][k].event = x)
          <=> (\E k \in 1..Len(rows[c]) : rows[c][k].event = x) \/ x = m
    BY <1>3, <1>4, <1>5
  <2>3. QED BY <1>4, <2>2 DEF InAnyRow
<1>7. MessagesApart'
  <2>1. \A turn \in AllTurns : turn.prompt \in ingress
    BY DEF OrderInv, MessagesApart
  <2>2. \A turn \in AllTurns : turn.prompt # m
    BY <1>1, <2>1
  <2>3. QED BY <1>1, <1>2, <1>6, <2>1, <2>2 DEF OrderInv, MessagesApart
<1>8. DeliveredPrefix'
  <2>1. ASSUME NEW d \in 0..Len(rows[c]), DeliveredUpTo(rows[c], d)
        PROVE  d \in 0..Len(rows'[c]) /\ DeliveredUpTo(rows'[c], d)
    BY <1>3, <1>4, <1>5, <2>1 DEF DeliveredUpTo
  <2>2. ASSUME NEW e \in Conversations PROVE \E d \in 0..Len(rows'[e]) : DeliveredUpTo(rows'[e], d)
    <3>1. \E d \in 0..Len(rows[e]) : DeliveredUpTo(rows[e], d)
      BY DEF OrderInv, DeliveredPrefix
    <3>2. CASE e = c
      BY <2>1, <3>1, <3>2
    <3>3. CASE e # c
      BY <1>4, <3>1, <3>3
    <3>4. QED BY <3>2, <3>3
  <2>3. QED BY <2>2 DEF DeliveredPrefix, DeliveredUpTo
<1>9. ASSUME NEW turn \in AllTurns PROVE RunsRow(turn)'
  <2>1. RunsRow(turn) /\ turn.session \in Conversations /\ turn.row \in Nat
    BY TurnsTyped DEF OrderInv, Turn
  <2>2. CASE turn.session = c
    <3>1. ASSUME turn.row # 0
          PROVE  /\ turn.row <= Len(rows'[c])
                 /\ \A k \in 1..turn.row : rows'[c][k] = rows[c][k]
                 /\ turn.row \in 1..turn.row
      BY <1>4, <1>5, <2>1, <2>2, <3>1 DEF RunsRow
    <3>2. QED BY <2>1, <2>2, <3>1 DEF RunsRow
  <2>3. CASE turn.session # c
    <3>1. rows'[turn.session] = rows[turn.session]
      BY <1>4, <2>1, <2>3
    <3>2. QED BY <2>1, <3>1 DEF RunsRow
  <2>4. QED BY <2>2, <2>3
<1>10. QED BY <1>2, <1>7, <1>8, <1>9 DEF OrderInv

\* What TurnSucceeds() does to a session without stops: d rows are delivered then.
LEMMA SucceedShape ==
  ASSUME IInv, SerialInv, OrderInv, NEW t \in Turns, TurnSucceeds(t)
  PROVE  \E c \in Conversations, d \in Nat :
           /\ exec[t] \in Turn /\ exec[t] \in AllTurns /\ exec[t].session = c
           /\ Executing(c) = {t} /\ Scheduled(c) = {}
           /\ exec' = [exec EXCEPT ![t] = None]
           /\ rows' = [rows EXCEPT ![c] = MarkDelivered(rows[c], exec[t].row)]
           /\ d \in 0..Len(rows'[c]) /\ DeliveredUpTo(rows'[c], d)
           /\ exec[t].row # 0 => exec[t].row = d /\ DeliveredUpTo(rows[c], d - 1)
                                 /\ rows[c][d].event = exec[t].prompt
           /\ exec[t].row = 0 => rows'[c] = rows[c] /\ DeliveredUpTo(rows[c], d)
           /\ \/ d = Len(rows'[c]) /\ queue' = queue
              \/ /\ d + 1 \in 1..Len(rows'[c])
                 /\ queue' = Append(queue, [session |-> c, prompt |-> rows'[c][d + 1].event,
                                            row |-> d + 1])
<1>0. TypeOK
  BY DEF IInv
<1>1. PICK old \in Turn : old = exec[t] /\ exec[t] # None
  BY <1>0, TurnIsNotNone DEF TurnSucceeds
<1>2. old \in AllTurns /\ RunsRow(old)
  BY <1>1 DEF AllTurns, OrderInv
<1>3. PICK c \in Conversations : c = old.session
  BY DEF Turn
<1>4. t \in Executing(c) /\ SessionInv(c)
  BY <1>1, <1>3 DEF Executing, SerialInv
<1>5. Executing(c) = {t} /\ Scheduled(c) = {}
  BY <1>4 DEF SessionInv, OneTurn
<1>6. PICK table : table = MarkDelivered(rows[c], old.row)
  OBVIOUS
<1>7. /\ exec' = [exec EXCEPT ![t] = None]
      /\ rows' = [rows EXCEPT ![c] = table]
      /\ \/ QueuedFollowUps(table) = {} /\ queue' = queue
         \/ \E n \in FirstOf(QueuedFollowUps(table)) :
              queue' = Append(queue, [session |-> c, prompt |-> table[n].event, row |-> n])
  <2>1. status[c] # "stopped"
    BY <1>4 DEF SessionInv, StatusFits
  <2>2. QED BY <1>1, <1>3, <1>6, <2>1 DEF TurnSucceeds, LeaveTurn, CloseTurn
<1>8. rows'[c] = table /\ rows[c] \in Seq(FollowUp) /\ Len(rows[c]) \in Nat
  BY <1>0, <1>7, LenProperties DEF TypeOK
<1>9. table \in Seq(FollowUp) /\ Len(table) = Len(rows[c])
  BY <1>6, <1>8, MarkDeliveredType
<1>10. PICK b \in 0..Len(rows[c]) : DeliveredUpTo(rows[c], b)
  BY DEF OrderInv, DeliveredPrefix
<1>11. old.row # 0 => old.row = b + 1 /\ old.row \in 1..Len(rows[c])
  BY <1>0, <1>2, <1>3, <1>10, RowIsNext
<1>12. PICK d \in Nat : d = IF old.row = 0 THEN b ELSE old.row
  BY <1>8, <1>11
<1>13. d \in 0..Len(table) /\ DeliveredUpTo(table, d)
  <2>1. old.row \in 0..Len(rows[c])
    BY <1>8, <1>11
  <2>2. DeliveredUpTo(table, IF old.row = 0 THEN b ELSE old.row)
    BY <1>6, <1>8, <1>10, <1>11, <2>1, MarkNext
  <2>3. QED BY <1>8, <1>9, <1>11, <1>12, <2>2
<1>14. \/ d = Len(table) /\ queue' = queue
       \/ /\ d + 1 \in 1..Len(table)
          /\ queue' = Append(queue, [session |-> c, prompt |-> table[d + 1].event, row |-> d + 1])
  <2>1. CASE QueuedFollowUps(table) = {} /\ queue' = queue
    <3>1. (d + 1)..Len(table) = {}
      BY <1>9, <1>13, <2>1, QueuedAfter
    <3>2. Len(table) \in Nat /\ d \in 0..Len(table) /\ d + 1 \notin (d + 1)..Len(table)
      BY <1>8, <1>9, <1>13, <3>1
    <3>3. d = Len(table)
      BY <3>2
    <3>4. QED BY <2>1, <3>3
  <2>2. CASE \E n \in FirstOf(QueuedFollowUps(table)) :
               queue' = Append(queue, [session |-> c, prompt |-> table[n].event, row |-> n])
    BY <1>9, <1>13, <2>2, QueuedAfter
  <2>3. QED BY <1>7, <2>1, <2>2
<1>15. old.row # 0 => old.row = d /\ DeliveredUpTo(rows[c], d - 1) /\ rows[c][d].event = old.prompt
  <2>1. ASSUME old.row # 0 PROVE d - 1 = b /\ rows[c][old.row].event = old.prompt
    BY <1>2, <1>3, <1>8, <1>11, <1>12, <2>1 DEF RunsRow
  <2>2. QED BY <1>10, <1>12, <2>1
<1>16. old.row = 0 => table = rows[c] /\ d = b
  <2>1. ASSUME old.row = 0 PROVE table = rows[c]
    <3>1. \A k \in 1..Len(rows[c]) : rows[c][k] \in FollowUp /\ k # 0
      BY <1>8, ElementOfSeq
    <3>2. \A k \in 1..Len(rows[c]) : [rows[c][k] EXCEPT !.delivered = @ \/ k = old.row] = rows[c][k]
      BY <2>1, <3>1 DEF FollowUp
    <3>3. table = [k \in 1..Len(rows[c]) |-> rows[c][k]]
      BY <1>6, <3>2 DEF MarkDelivered
    <3>4. \A k \in 1..Len(rows[c]) : table[k] = rows[c][k]
      BY <3>3
    <3>5. QED BY <1>8, <1>9, <3>4, SeqEqual
  <2>2. QED BY <1>12, <2>1
<1>17. /\ exec[t] \in Turn /\ exec[t] \in AllTurns /\ exec[t].session = c
       /\ rows' = [rows EXCEPT ![c] = MarkDelivered(rows[c], exec[t].row)]
  BY <1>1, <1>2, <1>3, <1>6, <1>7
<1>18. /\ exec[t].row # 0 => exec[t].row = d /\ DeliveredUpTo(rows[c], d - 1)
                              /\ rows[c][d].event = exec[t].prompt
       /\ exec[t].row = 0 => rows'[c] = rows[c] /\ DeliveredUpTo(rows[c], d)
  <2>1. old.row = 0 => DeliveredUpTo(rows[c], d)
    BY <1>10, <1>16
  <2>2. QED BY <1>1, <1>8, <1>15, <1>16, <2>1
<1>19. /\ d \in 0..Len(rows'[c]) /\ DeliveredUpTo(rows'[c], d)
       /\ \/ d = Len(rows'[c]) /\ queue' = queue
          \/ /\ d + 1 \in 1..Len(rows'[c])
             /\ queue' = Append(queue, [session |-> c, prompt |-> rows'[c][d + 1].event,
                                        row |-> d + 1])
  BY <1>8, <1>13, <1>14
<1>20. QED
  <2> HIDE DEF TurnSucceeds
  <2>1. exec' = [exec EXCEPT ![t] = None] /\ Executing(c) = {t} /\ Scheduled(c) = {}
    BY <1>5, <1>7
  <2>2. QED BY <1>17, <1>18, <1>19, <2>1

\* A turn succeeds: its row is delivered, and the next one is scheduled.
LEMMA SucceedOrder ==
  ASSUME IInv, SerialInv, OrderInv, NEW t \in Turns, TurnSucceeds(t)
  PROVE  OrderInv'
<1>0. TypeOK
  BY DEF IInv
<1>1. PICK c \in Conversations, d \in Nat :
        /\ exec[t] \in Turn /\ exec[t].session = c
        /\ Executing(c) = {t} /\ Scheduled(c) = {}
        /\ exec' = [exec EXCEPT ![t] = None]
        /\ rows' = [rows EXCEPT ![c] = MarkDelivered(rows[c], exec[t].row)]
        /\ d \in 0..Len(rows'[c]) /\ DeliveredUpTo(rows'[c], d)
        /\ \/ d = Len(rows'[c]) /\ queue' = queue
           \/ /\ d + 1 \in 1..Len(rows'[c])
              /\ queue' = Append(queue, [session |-> c, prompt |-> rows'[c][d + 1].event,
                                         row |-> d + 1])
  BY SucceedShape
<1>2. /\ rows[c] \in Seq(FollowUp) /\ rows'[c] = MarkDelivered(rows[c], exec[t].row)
      /\ \A e \in Conversations : e # c => rows'[e] = rows[e]
  BY <1>0, <1>1 DEF TypeOK
<1>3. /\ rows'[c] \in Seq(FollowUp) /\ Len(rows'[c]) = Len(rows[c]) /\ Len(rows[c]) \in Nat
      /\ \A k \in 1..Len(rows[c]) : rows'[c][k].event = rows[c][k].event
  BY <1>2, MarkDeliveredType, LenProperties
<1>4. ingress' = ingress /\ creating' = creating /\ exec[t] # None
  BY DEF TurnSucceeds
<1>5. \A m : InAnyRow(m)' <=> InAnyRow(m)
  BY <1>2, <1>3 DEF InAnyRow
<1>6. DeliveredPrefix'
  <2>1. \A e \in Conversations : \E b \in 0..Len(rows'[e]) : DeliveredUpTo(rows'[e], b)
    BY <1>1, <1>2 DEF OrderInv, DeliveredPrefix
  <2>2. QED BY <2>1 DEF DeliveredPrefix, DeliveredUpTo
<1>7. ASSUME NEW turn \in AllTurns, turn.session # c PROVE RunsRow(turn)'
  <2>1. turn.session \in Conversations /\ RunsRow(turn)
    BY <1>0, TurnsTyped DEF OrderInv, Turn
  <2>2. rows'[turn.session] = rows[turn.session]
    BY <1>2, <1>7, <2>1
  <2>3. QED BY <2>1, <2>2 DEF RunsRow
<1>8. CASE queue' = queue
  <2>1. \A turn \in AllTurns' : turn \in AllTurns /\ turn.session # c
    BY <1>0, <1>1, <1>4, <1>8, TurnsLeft
  <2>2. MessagesApart'
    BY <1>4, <1>5, <2>1 DEF OrderInv, MessagesApart
  <2>3. QED BY <1>6, <1>7, <2>1, <2>2 DEF OrderInv
<1>9. CASE /\ d + 1 \in 1..Len(rows'[c])
           /\ queue' = Append(queue, [session |-> c, prompt |-> rows'[c][d + 1].event,
                                      row |-> d + 1])
  <2>1. PICK new : new = [session |-> c, prompt |-> rows'[c][d + 1].event, row |-> d + 1]
    OBVIOUS
  <2>2. /\ new.session = c /\ new.prompt = rows'[c][d + 1].event /\ new.row = d + 1
        /\ queue' = Append(queue, new) /\ d + 1 # 0
    BY <1>9, <2>1
  <2>3. new \in Turn /\ new.prompt \in Messages
    <3>1. rows'[c][d + 1] \in FollowUp
      BY <1>3, <1>9, ElementOfSeq
    <3>2. QED BY <2>1, <3>1 DEF Turn, FollowUp
  <2>4. \A turn \in AllTurns' : (turn \in AllTurns /\ turn.session # c) \/ turn = new
    BY <1>0, <1>1, <1>4, <2>2, <2>3, TurnsLeft
  <2>5. RunsRow(new)'
    <3>1. \A k \in 1..(d + 1) : rows'[c][k].delivered <=> k < d + 1
      BY <1>1, <1>3, <1>9 DEF DeliveredUpTo
    <3>2. QED BY <1>3, <1>9, <2>2, <3>1 DEF RunsRow
  <2>6. InAnyRow(new.prompt)
    BY <1>3, <1>9, <2>2 DEF InAnyRow
  <2>7. new.prompt \in ingress
    BY <2>3, <2>6 DEF OrderInv, MessagesApart
  <2>8. MessagesApart'
    BY <1>4, <1>5, <2>2, <2>4, <2>7 DEF OrderInv, MessagesApart
  <2>9. QED BY <1>6, <1>7, <2>4, <2>5, <2>8 DEF OrderInv
<1>10. QED BY <1>1, <1>8, <1>9

\* A turn fails: its row stays queued.
LEMMA FailOrder ==
  ASSUME TypeOK, OrderInv, NEW t \in Turns, NEW target, TurnFails(t, target)
  PROVE  OrderInv'
<1>1. /\ exec' = [exec EXCEPT ![t] = None]
      /\ UNCHANGED <<queue, rows, ingress, creating>>
  BY DEF TurnFails, LeaveTurn, CloseTurn
<1>2. {exec'[u] : u \in Turns} \subseteq {exec[u] : u \in Turns} \cup {None}
  BY <1>1 DEF TypeOK
<1>3. AllTurns' \subseteq AllTurns
  BY <1>1, <1>2 DEF AllTurns
<1>4. QED BY <1>1, <1>3, QuietOrder

LEMMA PumpOrder ==
  ASSUME TypeOK, OrderInv, Pump
  PROVE  OrderInv'
<1>1. UNCHANGED <<rows, ingress, creating>>
  BY DEF Pump
<1>2. AllTurns' \subseteq AllTurns
  <2>1. CASE UNCHANGED <<queue, exec>>
    BY <2>1 DEF AllTurns
  <2>2. CASE /\ queue # <<>> /\ queue' = Tail(queue)
             /\ exec' = exec \/ \E t \in Turns : exec' = [exec EXCEPT ![t] = Head(queue)]
    BY <2>2, TurnsPumped
  <2>3. QED BY <2>1, <2>2 DEF Pump, StartTurn, DiscardTurn
<1>3. QED BY <1>1, <1>2, QuietOrder

\* A message is recorded, and its worktree is awaited.
LEMMA FirstOrder ==
  ASSUME TypeOK, OrderInv, NEW m \in Messages, NEW c \in Conversations, AcceptFirst(m, c)
  PROVE  OrderInv'
<1>1. /\ m \notin ingress /\ ingress' = ingress \cup {m}
      /\ creating' = [creating EXCEPT ![m] = c]
      /\ UNCHANGED <<rows, queue, exec>>
  BY DEF AcceptFirst, RecordIngress, poolVars
<1>2. AllTurns' = AllTurns /\ \A x : InAnyRow(x)' <=> InAnyRow(x)
  BY <1>1 DEF AllTurns, InAnyRow
<1>3. ~InAnyRow(m)
  BY <1>1 DEF OrderInv, MessagesApart
<1>4. \A x \in Messages : x # m => creating'[x] = creating[x]
  BY <1>1 DEF TypeOK
<1>5. MessagesApart'
  BY <1>1, <1>2, <1>3, <1>4 DEF OrderInv, MessagesApart
<1>6. DeliveredPrefix' /\ \A turn \in AllTurns : RunsRow(turn)'
  BY <1>1 DEF OrderInv, DeliveredPrefix, DeliveredUpTo, RunsRow
<1>7. QED BY <1>2, <1>5, <1>6 DEF OrderInv

\* The message of a new turn is in no row: it was recorded just now, or held until its
\* worktree was there.
LEMMA OpenOrder ==
  ASSUME TypeOK, OrderInv, NEW m \in Messages, NEW c \in Conversations,
         m \in ingress', ~InAnyRow(m), ingress \subseteq ingress',
         Schedule([session |-> c, prompt |-> m, row |-> 0]),
         UNCHANGED <<rows, exec>>,
         \A x \in Messages : creating'[x] # None => creating[x] # None
  PROVE  OrderInv'
<1>1. PICK turn : turn = [session |-> c, prompt |-> m, row |-> 0]
  OBVIOUS
<1>2. /\ turn \in Turn /\ turn.row = 0 /\ turn.prompt = m
      /\ queue' = Append(queue, turn)
  BY <1>1 DEF Turn, Schedule
<1>3. AllTurns' = AllTurns \cup {turn}
  BY <1>2, TurnsPushed
<1>4. QED BY <1>2, <1>3, PushOrder

LEMMA QuietTurns ==
  ASSUME UNCHANGED <<queue, exec>>
  PROVE  AllTurns' = AllTurns
  BY DEF AllTurns

LEMMA OrderStep ==
  ASSUME NobodyStops, IInv, SerialInv, OrderInv, [Next]_vars
  PROVE  OrderInv'
<1>0. TypeOK
  BY DEF IInv
<1>1. ASSUME NEW e \in Events, IgnoreEvent(e) PROVE OrderInv'
  BY <1>1, QuietTurns, QuietOrder DEF IgnoreEvent, RecordIngress, poolVars
<1>2. ASSUME NEW m \in Messages, AcceptMessage(m) PROVE OrderInv'
  <2>1. CASE WorktreeReady(m)
    <3>1. PICK c \in Conversations : c = creating[m]
      BY <1>0, <2>1 DEF WorktreeReady, TypeOK
    <3>2. creating[m] # None /\ m \in ingress /\ ~InAnyRow(m)
      BY <2>1 DEF WorktreeReady, OrderInv, MessagesApart
    <3>3. /\ UNCHANGED <<rows, exec, ingress>>
          /\ \A x \in Messages : creating'[x] # None => creating[x] # None
      BY <1>0, <2>1 DEF WorktreeReady, TypeOK
    <3>4. CASE status[c] = "none"
      <4>1. Schedule([session |-> c, prompt |-> m, row |-> 0])
        BY <2>1, <3>1, <3>4 DEF WorktreeReady
      <4>2. QED BY <1>0, <3>2, <3>3, <4>1, OpenOrder
    <3>5. CASE status[c] # "none"
      BY <2>1, <3>1, <3>3, <3>5, QuietTurns, QuietOrder DEF WorktreeReady
    <3>6. QED BY <3>4, <3>5
  <2>2. CASE WorktreeFails(m)
    <3>1. /\ UNCHANGED <<rows, queue, exec, ingress>>
          /\ \A x \in Messages : creating'[x] # None => creating[x] # None
      BY <1>0, <2>2 DEF WorktreeFails, TypeOK, storeVars, poolVars
    <3>2. QED BY <3>1, QuietTurns, QuietOrder
  <2>3. ASSUME NEW c \in Conversations, AcceptFirst(m, c) PROVE OrderInv'
    BY <1>0, <2>3, FirstOrder
  <2>4. ASSUME NEW c \in Conversations, AcceptFollowUp(m, c) PROVE OrderInv'
    BY <1>0, <2>4, AppendOrder
  <2>5. ASSUME NEW c \in Conversations, AcceptResume(m, c) PROVE OrderInv'
    <3>1. /\ m \in ingress' /\ m \notin ingress /\ ingress \subseteq ingress'
          /\ Schedule([session |-> c, prompt |-> m, row |-> 0])
          /\ UNCHANGED <<rows, exec, creating>>
      BY <2>5 DEF AcceptResume, RecordIngress
    <3>2. ~InAnyRow(m)
      BY <3>1 DEF OrderInv, MessagesApart
    <3>3. QED BY <1>0, <3>1, <3>2, OpenOrder
  <2>6. ASSUME NEW c \in Conversations, NEW i \in Interactions,
               NEW by \in {"operator", "participant"}, AcceptReply(m, c, i, by)
        PROVE  OrderInv'
    BY <2>6, QuietTurns, QuietOrder DEF AcceptReply, RecordIngress, poolVars
  <2>7. QED BY <1>2, <2>1, <2>2, <2>3, <2>4, <2>5, <2>6 DEF AcceptMessage
<1>3. ASSUME NEW e \in Responses, NEW c \in Conversations, NEW i \in Interactions,
             NEW by \in {"operator", "participant"}, AcceptResponse(e, c, i, by)
      PROVE  OrderInv'
  BY <1>3, QuietTurns, QuietOrder DEF AcceptResponse, RecordIngress, poolVars
<1>4. ASSUME NEW i \in Interactions, Abort(i) PROVE OrderInv'
  BY <1>4, QuietTurns, QuietOrder DEF Abort, poolVars
<1>5. ASSUME NEW t \in Turns, NEW i \in Interactions, NEW kind, Ask(t, i, kind) PROVE OrderInv'
  BY <1>5, QuietTurns, QuietOrder DEF Ask, poolVars
<1>6. ASSUME Exit \/ Crash PROVE OrderInv'
  <2>1. /\ queue' = <<>> /\ exec' = [t \in Turns |-> None]
        /\ creating' = [m \in Messages |-> None]
        /\ UNCHANGED <<rows, ingress>>
    BY <1>6 DEF Exit, Crash, LoseMemory, storeVars
  <2>2. AllTurns' = {}
    BY <2>1, EmptySeq, LenProperties DEF AllTurns
  <2>3. QED BY <2>1, <2>2, QuietOrder
<1>7. ASSUME Restart PROVE OrderInv'
  BY <1>7, QuietTurns, QuietOrder DEF Restart, poolVars
<1>8. CASE UNCHANGED vars
  BY <1>8, QuietTurns, QuietOrder DEF vars, storeVars, poolVars
<1>9. Stops = {}
  BY DEF NobodyStops
<1>10. ASSUME NEW t \in Turns, EndTurn(t) PROVE OrderInv'
  BY <1>0, <1>10, SucceedOrder, FailOrder DEF EndTurn
<1>11. QED
  BY <1>0, <1>1, <1>2, <1>3, <1>4, <1>5, <1>6, <1>7, <1>8, <1>9, <1>10, PumpOrder DEF Next

LEMMA OrderInit == Init => OrderInv
<1> SUFFICES ASSUME Init PROVE OrderInv
  OBVIOUS
<1>1. \A c \in Conversations : Len(rows[c]) = 0
  BY EmptySeq, LenProperties DEF Init
<1>2. AllTurns = {}
  BY EmptySeq, LenProperties DEF Init, AllTurns
<1>3. DeliveredPrefix
  BY <1>1 DEF DeliveredPrefix, DeliveredUpTo
<1>4. MessagesApart
  BY <1>1, <1>2 DEF Init, MessagesApart, InAnyRow
<1>5. QED BY <1>2, <1>3, <1>4 DEF OrderInv

LEMMA WithoutStops == NobodyStops => (Spec => [](IInv /\ SerialInv /\ OrderInv))
<1> SUFFICES ASSUME NobodyStops PROVE Spec => [](IInv /\ SerialInv /\ OrderInv)
  OBVIOUS
<1>1. Init => IInv /\ SerialInv /\ OrderInv
  BY InitInv, SerialInit, OrderInit
<1>2. IInv /\ SerialInv /\ OrderInv /\ [Next]_vars => (IInv /\ SerialInv /\ OrderInv)'
  BY StepInv, SerialStep, OrderStep
<1>3. QED BY <1>1, <1>2, PTL DEF Spec

\* Without stops execute() attempts no transition that assertTransition() refuses: no
\* promise is rejected that nobody handles, whatever is asked, answered, aborted, failed
\* or lost in a crash.
THEOREM CoordinatorNoUnhandledRejection == NobodyStops => (Spec => []NoUnhandledRejection)
<1> SUFFICES ASSUME NobodyStops PROVE Spec => []NoUnhandledRejection
  OBVIOUS
<1>1. SerialInv => NoUnhandledRejection
  BY DEF SerialInv, NoUnhandledRejection
<1>2. QED BY <1>1, WithoutStops, PTL

\* Without stops a session has one turn at a time, executed or scheduled: never two
\* turns in its one worktree.
THEOREM CoordinatorOneActiveTurn == NobodyStops => (Spec => []OneActiveTurn)
<1> SUFFICES ASSUME NobodyStops PROVE Spec => []OneActiveTurn
  OBVIOUS
<1>1. ASSUME NEW S, \A x, y \in S : x = y PROVE S = {} \/ \E x : S = {x}
  BY <1>1
<1>2. ASSUME NEW c, OneTurn(c) PROVE Cardinality(Executing(c)) + Cardinality(Scheduled(c)) <= 1
  <2>1. Cardinality({}) = 0 /\ \A x : Cardinality({x}) = 1
    BY FS_EmptySet, FS_Singleton
  <2>2. Cardinality(Executing(c)) \in {0, 1} /\ Cardinality(Scheduled(c)) \in {0, 1}
    <3>1. Executing(c) = {} \/ \E x : Executing(c) = {x}
      BY <1>1, <1>2 DEF OneTurn
    <3>2. Scheduled(c) = {} \/ \E x : Scheduled(c) = {x}
      BY <1>1, <1>2 DEF OneTurn
    <3>3. QED BY <2>1, <3>1, <3>2
  <2>3. Cardinality(Executing(c)) = 0 \/ Cardinality(Scheduled(c)) = 0
    BY <1>2, <2>1 DEF OneTurn
  <2>4. QED BY <2>2, <2>3
<1>3. SerialInv => OneActiveTurn
  BY <1>2 DEF SerialInv, SessionInv, OneActiveTurn
<1>4. QED BY <1>3, WithoutStops, PTL

\* Without stops the follow-ups of a session run in the order they came, also after
\* failures, crashes and restarts: when the turn of a row is scheduled or runs, the rows
\* before it are delivered and it is not.
THEOREM CoordinatorFollowUpsInOrder == NobodyStops => (Spec => []FollowUpsInOrder)
<1> SUFFICES ASSUME NobodyStops PROVE Spec => []FollowUpsInOrder
  OBVIOUS
<1>1. OrderInv => FollowUpsInOrder
  BY DEF OrderInv, AllTurns, RunsRow, FollowUpsInOrder
<1>2. QED BY <1>1, WithoutStops, PTL

----------------------------------------------------------------------------
(* Without stops and crashes the coordinator implements SerialConversation. *)

NeverDown == NobodyStops /\ MaxCrashes = 0

\* A queued session has its place in the queue: only a crash takes it away.
SteadyInv == up /\ QueuedHasPlace

LEMMA SteadyKeeps ==
  ASSUME SteadyInv, up' = up, queue' = queue,
         \A c \in Conversations : status'[c] = "queued" => status[c] = "queued"
  PROVE  SteadyInv'
  BY DEF SteadyInv, QueuedHasPlace, Scheduled

LEMMA SteadyPushed ==
  ASSUME TypeOK, SteadyInv, up' = up, NEW turn \in Turn, queue' = Append(queue, turn),
         \A c \in Conversations :
           status'[c] = "queued" => status[c] = "queued" \/ turn.session = c
  PROVE  SteadyInv'
<1>1. \A c \in Conversations : status'[c] = "queued" => Scheduled(c)' # {}
  BY PushedScheduled DEF SteadyInv, QueuedHasPlace
<1>2. QED BY <1>1 DEF SteadyInv, QueuedHasPlace

\* Settling an interaction, and leaving a turn, queue no session.
LEMMA WokenNotQueued == \A s : Woken(s) = "queued" => s = "queued"
  BY DEF Woken

LEMMA SteadySchedule ==
  ASSUME TypeOK, SteadyInv, UNCHANGED processVars, NEW c \in Conversations, NEW m \in Messages,
         Schedule([session |-> c, prompt |-> m, row |-> 0]),
         status' = [status EXCEPT ![c] = "queued"]
  PROVE  SteadyInv'
<1>1. PICK turn : turn = [session |-> c, prompt |-> m, row |-> 0]
  OBVIOUS
<1>2. turn \in Turn /\ turn.session = c /\ queue' = Append(queue, turn) /\ up' = up
  BY <1>1 DEF Turn, Schedule, processVars
<1>3. \A d \in Conversations : status'[d] = "queued" => status[d] = "queued" \/ turn.session = d
  BY <1>2 DEF TypeOK
<1>4. QED BY <1>2, <1>3, SteadyPushed

LEMMA SteadySettle ==
  ASSUME TypeOK, SteadyInv, UNCHANGED <<processVars, poolVars>>, NEW c,
         status' = status \/ status' = [status EXCEPT ![c] = Woken(@)]
  PROVE  SteadyInv'
<1>1. up' = up /\ queue' = queue
  BY DEF processVars, poolVars
<1>2. \A d \in Conversations : status'[d] = "queued" => status[d] = "queued"
  BY WokenNotQueued DEF TypeOK
<1>3. QED BY <1>1, <1>2, SteadyKeeps

LEMMA SteadyPump ==
  ASSUME IInv, SerialInv, SteadyInv, Pump
  PROVE  SteadyInv'
<1>0. TypeOK /\ up' = up
  BY DEF IInv, Pump
<1>1. CASE UNCHANGED <<status, queue>>
  BY <1>0, <1>1, SteadyKeeps
<1>2. CASE ~UNCHANGED <<status, queue>>
  <2>1. queue # <<>> /\ queue' = Tail(queue)
    BY <1>2 DEF Pump
  <2>2. PICK turn \in Turn : turn = Head(queue)
    BY <1>0, <2>1, PumpedQueue
  <2>3. PICK c \in Conversations : c = turn.session
    BY DEF Turn
  <2>4. 1 \in Scheduled(c)
    BY <1>0, <2>1, <2>2, <2>3, PumpedScheduled
  <2>5. status[c] \in {"queued", "running"}
    BY <2>4 DEF SerialInv, SessionInv, StatusFits
  <2>6. status' = [status EXCEPT ![c] = "running"]
    <3>1. IF status[c] # "stopped" /\ MayBecome(status[c], "running")
          THEN StartTurn(turn) ELSE DiscardTurn(turn)
      BY <1>2, <2>2, <2>3 DEF Pump
    <3>2. StartTurn(turn)
      BY <2>5, <3>1 DEF MayBecome, Transitions
    <3>3. QED BY <2>3, <3>2 DEF StartTurn
  <2>7. ASSUME NEW d \in Conversations, status'[d] = "queued" PROVE Scheduled(d)' # {}
    <3>1. d # c /\ status[d] = "queued"
      BY <1>0, <2>6, <2>7 DEF TypeOK
    <3>2. Scheduled(d) # {} /\ 1 \notin Scheduled(d)
      BY <1>0, <2>1, <2>2, <2>3, <3>1, PumpedScheduled DEF SteadyInv, QueuedHasPlace
    <3>3. \A k \in Scheduled(d) : k = 1 \/ k - 1 \in Scheduled(d)'
      BY <1>0, <2>1, PumpedScheduled
    <3>4. QED BY <3>2, <3>3
  <2>8. QED BY <1>0, <2>7 DEF SteadyInv, QueuedHasPlace
<1>3. QED BY <1>1, <1>2

LEMMA SteadyEndTurn ==
  ASSUME IInv, SerialInv, OrderInv, SteadyInv, NEW t \in Turns, EndTurn(t)
  PROVE  SteadyInv'
<1>0. TypeOK /\ up' = up
  BY DEF IInv, EndTurn, TurnSucceeds, TurnFails
<1>1. PICK c \in Conversations : c = exec[t].session /\ t \in Executing(c)
  <2>1. exec[t] # None
    BY DEF EndTurn, TurnSucceeds, TurnFails
  <2>2. QED BY <1>0, <2>1, TurnIsNotNone DEF Turn, Executing
<1>2. status[c] \in {"running", "waiting"}
  BY <1>1 DEF SerialInv, SessionInv, StatusFits
<1>3. status' = status
      \/ \E target \in {"completed", "failed", "interrupted"} :
           status' = [status EXCEPT ![c] = Leave(@, target)]
  BY <1>1 DEF EndTurn, TurnSucceeds, TurnFails, CloseTurn
<1>4. \A d \in Conversations : status'[d] = "queued" => status[d] = "queued"
  BY <1>0, <1>2, <1>3, LeaveAllowed DEF TypeOK
<1>5. CASE queue' = queue
  BY <1>0, <1>4, <1>5, SteadyKeeps
<1>6. CASE queue' # queue
  <2>1. TurnSucceeds(t)
    BY <1>6 DEF EndTurn, TurnFails, CloseTurn
  <2>2. PICK d \in Nat, e \in Conversations :
          /\ rows' = [rows EXCEPT ![e] = MarkDelivered(rows[e], exec[t].row)]
          /\ d + 1 \in 1..Len(rows'[e])
          /\ queue' = Append(queue, [session |-> e, prompt |-> rows'[e][d + 1].event,
                                     row |-> d + 1])
    BY <1>6, <2>1, SucceedShape
  <2>3. rows'[e] \in Seq(FollowUp)
    BY <1>0, <2>2, MarkDeliveredType DEF TypeOK
  <2>4. rows'[e][d + 1] \in FollowUp
    BY <2>2, <2>3, ElementOfSeq
  <2>5. PICK turn : turn = [session |-> e, prompt |-> rows'[e][d + 1].event, row |-> d + 1]
    OBVIOUS
  <2>6. turn \in Turn /\ queue' = Append(queue, turn)
    BY <2>2, <2>4, <2>5 DEF Turn, FollowUp
  <2>7. QED BY <1>0, <1>4, <2>6, SteadyPushed
<1>7. QED BY <1>5, <1>6

LEMMA SteadyStep ==
  ASSUME NeverDown, IInv, SerialInv, OrderInv, SteadyInv, [Next]_vars
  PROVE  SteadyInv'
<1>0. TypeOK /\ up
  BY DEF IInv, SteadyInv
<1>1. ASSUME UNCHANGED <<up, status, queue>> PROVE SteadyInv'
  BY <1>1, SteadyKeeps
<1>2. ASSUME NEW e \in Events, IgnoreEvent(e) PROVE SteadyInv'
  BY <1>1, <1>2 DEF IgnoreEvent, processVars, poolVars
<1>3. ASSUME NEW m \in Messages, AcceptMessage(m) PROVE SteadyInv'
  <2>1. CASE WorktreeReady(m)
    <3>1. PICK c \in Conversations : c = creating[m]
      BY <1>0, <2>1 DEF WorktreeReady, TypeOK
    <3>2. CASE status[c] = "none"
      BY <1>0, <2>1, <3>1, <3>2, SteadySchedule DEF WorktreeReady
    <3>3. CASE status[c] # "none"
      BY <1>1, <2>1, <3>1, <3>3 DEF WorktreeReady, processVars
    <3>4. QED BY <3>2, <3>3
  <2>2. CASE WorktreeFails(m)
    BY <1>1, <2>2 DEF WorktreeFails, processVars, storeVars, poolVars
  <2>3. ASSUME NEW c \in Conversations, AcceptFirst(m, c) \/ AcceptFollowUp(m, c)
        PROVE  SteadyInv'
    BY <1>1, <2>3 DEF AcceptFirst, AcceptFollowUp, processVars, poolVars
  <2>4. ASSUME NEW c \in Conversations, AcceptResume(m, c) PROVE SteadyInv'
    BY <1>0, <2>4, SteadySchedule DEF AcceptResume
  <2>5. ASSUME NEW c \in Conversations, NEW i \in Interactions,
               NEW by \in {"operator", "participant"}, AcceptReply(m, c, i, by)
        PROVE  SteadyInv'
    BY <1>0, <2>5, SteadySettle DEF AcceptReply, ResolveInteraction
  <2>6. QED BY <1>3, <2>1, <2>2, <2>3, <2>4, <2>5 DEF AcceptMessage
<1>4. ASSUME NEW e \in Responses, NEW c \in Conversations, NEW i \in Interactions,
             NEW by \in {"operator", "participant"}, AcceptResponse(e, c, i, by)
      PROVE  SteadyInv'
  BY <1>0, <1>4, SteadySettle DEF AcceptResponse, ResolveInteraction
<1>5. ASSUME NEW i \in Interactions, Abort(i) PROVE SteadyInv'
  <2>1. PICK c : c = ixSession[i]
    OBVIOUS
  <2>2. QED BY <1>0, <1>5, <2>1, SteadySettle DEF Abort
<1>6. ASSUME NEW t \in Turns, NEW i \in Interactions, NEW kind, Ask(t, i, kind) PROVE SteadyInv'
  <2>1. up' = up /\ queue' = queue
    BY <1>6 DEF Ask, processVars, poolVars
  <2>2. status' = status \/ status' = [status EXCEPT ![exec[t].session] = "waiting"]
    BY <1>6 DEF Ask
  <2>3. \A d \in Conversations : status'[d] = "queued" => status[d] = "queued"
    BY <1>0, <2>2 DEF TypeOK
  <2>4. QED BY <2>1, <2>3, SteadyKeeps
<1>7. ~Exit /\ ~Crash /\ ~Restart
  <2>1. ~doomed /\ ~(crashes < MaxCrashes)
    BY <1>0 DEF SerialInv, NeverDown, TypeOK
  <2>2. QED BY <1>0, <2>1 DEF Exit, Crash, Restart
<1>8. CASE UNCHANGED vars
  BY <1>1, <1>8 DEF vars, processVars, storeVars, poolVars
<1>9. Stops = {}
  BY DEF NeverDown, NobodyStops
<1>10. QED
  BY <1>2, <1>3, <1>4, <1>5, <1>6, <1>7, <1>8, <1>9, SteadyPump, SteadyEndTurn DEF Next

\* The turns of a session, among all.
LEMMA TurnsOfIs ==
  /\ \A c : TurnsOf(c) = {turn \in AllTurns : turn.session = c}
  /\ \A c : TurnsOf(c)' = {turn \in AllTurns' : turn.session = c}
  BY DEF TurnsOf, AllTurns, Executing, Scheduled

PromptOf(turns) == IF turns = {} THEN None ELSE (CHOOSE turn \in turns : TRUE).prompt

LEMMA CurrentIs ==
  /\ \A c : CurrentOf(c) = PromptOf(TurnsOf(c))
  /\ \A c : CurrentOf(c)' = PromptOf(TurnsOf(c)')
  BY DEF CurrentOf, PromptOf

LEMMA PromptOfOne == PromptOf({}) = None /\ \A turn : PromptOf({turn}) = turn.prompt
  BY DEF PromptOf

\* A session that has a turn has no other.
LEMMA OnlyTurn ==
  ASSUME NEW c, OneTurn(c)
  PROVE  /\ \A t \in Executing(c) : TurnsOf(c) = {exec[t]}
         /\ \A k \in Scheduled(c) : TurnsOf(c) = {queue[k]}
         /\ Executing(c) = {} /\ Scheduled(c) = {} => TurnsOf(c) = {}
  BY DEF OneTurn, TurnsOf

\* pump() moves a turn from the queue to its execution.
LEMMA TurnsStarted ==
  ASSUME TypeOK, queue # <<>>, queue' = Tail(queue), NEW t \in Turns, exec[t] = None,
         exec' = [exec EXCEPT ![t] = Head(queue)]
  PROVE  AllTurns' = AllTurns
<1>1. AllTurns' \subseteq AllTurns
  BY TurnsPumped
<1>2. \A k \in 1..Len(queue) : queue[k] \in AllTurns'
  <2>1. ASSUME NEW k \in 1..Len(queue), k # 1 PROVE queue[k] \in AllTurns'
    <3>1. k - 1 \in 1..Len(queue') /\ queue'[k - 1] = queue[(k - 1) + 1] /\ (k - 1) + 1 = k
      BY <2>1, PumpedQueue
    <3>2. QED BY <3>1 DEF AllTurns
  <2>2. queue[1] \in AllTurns'
    <3>1. exec'[t] = queue[1] /\ queue[1] \in Turn
      BY PumpedQueue DEF TypeOK
    <3>2. QED BY <3>1, NoTurnAssumption DEF AllTurns
  <2>3. QED BY <2>1, <2>2
<1>3. \A u \in Turns : exec[u] # None => exec[u] \in AllTurns'
  BY DEF TypeOK, AllTurns
<1>4. QED BY <1>1, <1>2, <1>3 DEF AllTurns

\* The turns of the other sessions stay when a turn ends, and the pushed one is there.
LEMMA TurnsStay ==
  ASSUME TypeOK, NEW t \in Turns, exec' = [exec EXCEPT ![t] = None], NEW new \in Turn,
         queue' = queue \/ queue' = Append(queue, new), NEW c, exec[t].session = c
  PROVE  /\ \A turn \in AllTurns : turn.session # c => turn \in AllTurns'
         /\ queue' # queue => new \in AllTurns'
<1>1. \A u \in Turns : exec[u] # None /\ exec[u].session # c => exec'[u] = exec[u]
  BY DEF TypeOK
<1>2. \A k \in 1..Len(queue) : k \in 1..Len(queue') /\ queue'[k] = queue[k]
  BY PushedQueue
<1>3. queue' # queue => Len(queue) + 1 \in 1..Len(queue') /\ queue'[Len(queue) + 1] = new
  BY PushedQueue
<1>4. QED BY <1>1, <1>2, <1>3 DEF AllTurns

BacklogIn(table) ==
  [k \in 1..Cardinality(QueuedFollowUps(table)) |-> table[NthOf(QueuedFollowUps(table), k)].event]

\* The follow-ups after the first d.
After(table, d) == [k \in 1..(Len(table) - d) |-> table[d + k].event]

LEMMA BacklogFrom ==
  /\ \A c : BacklogOf(c) = BacklogIn(rows[c])
  /\ \A c : BacklogOf(c)' = BacklogIn(rows'[c])
  BY DEF BacklogOf, BacklogIn

\* The k-th number of an interval.
LEMMA NthOfInterval ==
  ASSUME NEW d \in Nat, NEW b \in Nat, NEW k \in 1..(b - d)
  PROVE  NthOf((d + 1)..b, k) = d + k
<1> DEFINE S == (d + 1)..b
<1>1. ASSUME NEW n \in S PROVE Cardinality({j \in S : j <= n}) = n - d
  <2>1. {j \in S : j <= n} = (d + 1)..n
    OBVIOUS
  <2>2. Cardinality((d + 1)..n) = IF d + 1 > n THEN 0 ELSE n - (d + 1) + 1
    BY FS_Interval
  <2>3. n \in Nat /\ d + 1 <= n
    OBVIOUS
  <2>4. Cardinality((d + 1)..n) = n - d
    BY <2>2, <2>3
  <2>5. Cardinality({j \in S : j <= n}) = Cardinality((d + 1)..n)
    BY <2>1
  <2>6. QED BY <2>4, <2>5
<1>2. d + k \in S /\ Cardinality({j \in S : j <= d + k}) = k
  <2>1. d + k \in S
    OBVIOUS
  <2>2. QED BY <1>1, <2>1
<1>3. \A n \in S : Cardinality({j \in S : j <= n}) = k => n = d + k
  BY <1>1
<1> HIDE DEF S
<1>4. (CHOOSE n \in S : Cardinality({j \in S : j <= n}) = k) = d + k
  BY <1>2, <1>3
<1>5. QED BY <1>4 DEF NthOf, S

LEMMA BacklogIs ==
  ASSUME NEW table \in Seq(FollowUp), NEW d \in 0..Len(table), DeliveredUpTo(table, d)
  PROVE  BacklogIn(table) = After(table, d)
<1>1. Len(table) \in Nat /\ d \in Nat /\ QueuedFollowUps(table) = (d + 1)..Len(table)
  BY LenProperties, QueuedAfter
<1>2. Cardinality((d + 1)..Len(table)) = Len(table) - d
  <2>1. Cardinality((d + 1)..Len(table)) =
          IF d + 1 > Len(table) THEN 0 ELSE Len(table) - (d + 1) + 1
    <3>1. PICK b \in Nat : b = Len(table)
      BY <1>1
    <3>2. PICK a \in Nat : a = d + 1
      BY <1>1
    <3>3. Cardinality(a..b) = IF a > b THEN 0 ELSE b - a + 1
      BY FS_Interval
    <3>4. QED BY <3>1, <3>2, <3>3
  <2>2. d <= Len(table)
    BY <1>1
  <2>3. QED BY <1>1, <2>1, <2>2
<1>3. \A k \in 1..(Len(table) - d) : NthOf((d + 1)..Len(table), k) = d + k
  BY <1>1, NthOfInterval
<1>4. QED BY <1>1, <1>2, <1>3 DEF BacklogIn, After

LEMMA AfterProperties ==
  ASSUME NEW table \in Seq(FollowUp), NEW d \in 0..Len(table)
  PROVE  /\ After(table, d) \in Seq(Messages) /\ Len(After(table, d)) = Len(table) - d
         /\ d = Len(table) => After(table, d) = <<>>
         /\ d # Len(table) => /\ After(table, d) # <<>>
                              /\ Head(After(table, d)) = table[d + 1].event
                              /\ Tail(After(table, d)) = After(table, d + 1)
<1>1. Len(table) \in Nat /\ d \in Nat /\ \A k \in 1..Len(table) : table[k].event \in Messages
  <2>1. Len(table) \in Nat /\ \A k \in 1..Len(table) : table[k] \in FollowUp
    BY LenProperties, ElementOfSeq
  <2>2. QED BY <2>1 DEF FollowUp
<1> DEFINE n == Len(table) - d
           s == After(table, d)
<1>2. n \in Nat /\ \A k \in 1..n : d + k \in 1..Len(table)
  BY <1>1
<1>3. s \in [1..n -> Messages]
  BY <1>1, <1>2 DEF After
<1>4. s \in Seq(Messages) /\ Len(s) = n
  BY <1>2, <1>3, IsASeq, LenProperties
<1>5. d = Len(table) => s = <<>>
  BY <1>1, <1>4, EmptySeq
<1>6. ASSUME d # Len(table)
      PROVE  s # <<>> /\ Head(s) = table[d + 1].event /\ Tail(s) = After(table, d + 1)
  <2>1. n >= 1 /\ 1 \in 1..n
    BY <1>1, <1>6
  <2>2. s # <<>>
    BY <1>4, <2>1, EmptySeq
  <2>3. s[1] = table[d + 1].event
    BY <2>1 DEF After
  <2>4. /\ Head(s) = s[1] /\ Tail(s) \in Seq(Messages) /\ Len(Tail(s)) = n - 1
        /\ \A k \in 1..Len(Tail(s)) : Tail(s)[k] = s[k + 1]
    BY <1>4, <2>2, HeadTailProperties
  <2>5. After(table, d + 1) \in [1..(n - 1) -> Messages]
    <3>1. Len(table) - (d + 1) = n - 1 /\ \A k \in 1..(n - 1) : (d + 1) + k \in 1..Len(table)
      BY <1>1
    <3>2. QED BY <1>1, <3>1 DEF After
  <2>6. After(table, d + 1) \in Seq(Messages) /\ Len(After(table, d + 1)) = n - 1
    BY <1>2, <2>1, <2>5, IsASeq, LenProperties
  <2>7. \A k \in 1..(n - 1) : Tail(s)[k] = After(table, d + 1)[k]
    <3>1. TAKE k \in 1..(n - 1)
    <3>2. Tail(s)[k] = table[d + (k + 1)].event
      BY <1>2, <2>1, <2>4 DEF After
    <3>3. After(table, d + 1)[k] = table[(d + 1) + k].event
      BY <1>1 DEF After
    <3>4. k \in Int /\ d \in Int /\ d + (k + 1) = (d + 1) + k
      BY <1>1
    <3>5. QED
      <4> HIDE DEF s
      <4>1. QED BY <3>2, <3>3, <3>4
  <2>8. QED BY <2>2, <2>3, <2>4, <2>6, <2>7, SeqEqual
<1>7. QED BY <1>4, <1>5, <1>6

\* A row is appended.
LEMMA AfterAppend ==
  ASSUME NEW table \in Seq(FollowUp), NEW d \in 0..Len(table), NEW row \in FollowUp
  PROVE  After(Append(table, row), d) = Append(After(table, d), row.event)
<1>1. Len(table) \in Nat /\ d \in Nat /\ row.event \in Messages
  BY LenProperties DEF FollowUp
<1>2. PICK long : long = Append(table, row)
  OBVIOUS
<1>3. /\ long \in Seq(FollowUp) /\ Len(long) = Len(table) + 1
      /\ \A k \in 1..Len(table) : long[k] = table[k]
      /\ long[Len(table) + 1] = row
  BY <1>2, AppendProperties
<1>4. PICK s : s = After(table, d)
  OBVIOUS
<1>5. PICK u : u = Append(s, row.event)
  OBVIOUS
<1>6. s \in Seq(Messages) /\ Len(s) = Len(table) - d
  BY <1>4, AfterProperties
<1>7. /\ u \in Seq(Messages) /\ Len(u) = Len(s) + 1
      /\ \A k \in 1..Len(s) : u[k] = s[k]
      /\ u[Len(s) + 1] = row.event
  BY <1>1, <1>5, <1>6, AppendProperties
<1>8. After(long, d) \in Seq(Messages) /\ Len(After(long, d)) = Len(long) - d
  <2>1. d \in 0..Len(long)
    BY <1>1, <1>3
  <2>2. QED BY <1>3, <2>1, AfterProperties
<1>9. \A k \in 1..(Len(long) - d) : After(long, d)[k] = u[k]
  <2>1. TAKE k \in 1..(Len(long) - d)
  <2>2. After(long, d)[k] = long[d + k].event
    BY DEF After
  <2>3. CASE k <= Len(s)
    <3>1. k \in 1..Len(s) /\ d + k \in 1..Len(table)
      BY <1>1, <1>6, <2>3
    <3>2. s[k] = table[d + k].event
      BY <1>4, <1>6, <3>1 DEF After
    <3>3. QED BY <1>3, <1>7, <2>2, <3>1, <3>2
  <2>4. CASE ~(k <= Len(s))
    <3>1. k = Len(s) + 1 /\ d + k = Len(table) + 1
      BY <1>1, <1>3, <1>6, <2>4
    <3>2. QED BY <1>3, <1>7, <2>2, <3>1
  <2>5. QED BY <2>3, <2>4
<1>10. Len(u) = Len(long) - d
  BY <1>1, <1>3, <1>6, <1>7
<1>11. QED BY <1>2, <1>4, <1>5, <1>7, <1>8, <1>9, <1>10, SeqEqual

Currents == [c \in Conversations |-> CurrentOf(c)]
Backlogs == [c \in Conversations |-> BacklogOf(c)]

\* Sessions other than c keep their turns and their rows.
OthersKeep(c) ==
  \A e \in Conversations : e # c => TurnsOf(e)' = TurnsOf(e) /\ rows'[e] = rows[e]

LEMMA MappedStep ==
  ASSUME NEW c \in Conversations, OthersKeep(c)
  PROVE  /\ Currents' = [Currents EXCEPT ![c] = CurrentOf(c)']
         /\ Backlogs' = [Backlogs EXCEPT ![c] = BacklogOf(c)']
         /\ Currents[c] = CurrentOf(c) /\ Backlogs[c] = BacklogOf(c)
         /\ CurrentOf(c)' = CurrentOf(c) => Currents' = Currents
         /\ BacklogOf(c)' = BacklogOf(c) => Backlogs' = Backlogs
<1>1. \A e \in Conversations : e # c => CurrentOf(e)' = CurrentOf(e)
  BY CurrentIs DEF OthersKeep
<1>2. \A e \in Conversations : e # c => BacklogOf(e)' = BacklogOf(e)
  BY BacklogFrom DEF OthersKeep
<1>3. Currents' = [e \in Conversations |-> CurrentOf(e)']
  BY DEF Currents
<1>4. Backlogs' = [e \in Conversations |-> BacklogOf(e)']
  BY DEF Backlogs
<1>5. Currents = [e \in Conversations |-> CurrentOf(e)] /\ Backlogs = [e \in Conversations |-> BacklogOf(e)]
  BY DEF Currents, Backlogs
<1>6. Currents' = [Currents EXCEPT ![c] = CurrentOf(c)']
  BY <1>1, <1>3, <1>5
<1>7. Backlogs' = [Backlogs EXCEPT ![c] = BacklogOf(c)']
  BY <1>2, <1>4, <1>5
<1>8. CurrentOf(c)' = CurrentOf(c) => Currents' = Currents
  BY <1>1, <1>3, <1>5
<1>9. BacklogOf(c)' = BacklogOf(c) => Backlogs' = Backlogs
  BY <1>2, <1>4, <1>5
<1>10. QED BY <1>5, <1>6, <1>7, <1>8, <1>9

\* The actions of the abstract specification, on the mapped variables.
LEMMA BeginMapped ==
  ASSUME NEW c \in Conversations, NEW m \in Messages, OthersKeep(c),
         CurrentOf(c) = None, CurrentOf(c)' = m, BacklogOf(c)' = BacklogOf(c)
  PROVE  Serial!Next
<1>1. Serial!Begin(c, m)
  BY MappedStep DEF Serial!Begin, Currents, Backlogs
<1>2. QED BY <1>1 DEF Serial!Next

LEMMA QueueMapped ==
  ASSUME NEW c \in Conversations, NEW m \in Messages, OthersKeep(c),
         CurrentOf(c) # None, CurrentOf(c)' = CurrentOf(c),
         BacklogOf(c)' = Append(BacklogOf(c), m)
  PROVE  Serial!Next
<1>1. Serial!Queue(c, m)
  BY MappedStep DEF Serial!Queue, Currents, Backlogs
<1>2. QED BY <1>1 DEF Serial!Next

LEMMA AbandonMapped ==
  ASSUME NEW c \in Conversations, OthersKeep(c),
         CurrentOf(c) # None, CurrentOf(c)' = None, BacklogOf(c)' = BacklogOf(c)
  PROVE  Serial!Next
<1>1. Serial!Abandon(c)
  BY MappedStep DEF Serial!Abandon, Currents, Backlogs
<1>2. QED BY <1>1 DEF Serial!Next

BehindOf(c) ==
  IF BacklogOf(c) # <<>> /\ Head(BacklogOf(c)) = CurrentOf(c)
  THEN Tail(BacklogOf(c)) ELSE BacklogOf(c)

LEMMA BehindMapped == \A c \in Conversations : Serial!Behind(c) = BehindOf(c)
  BY DEF Serial!Behind, BehindOf

LEMMA CompleteMapped ==
  ASSUME NEW c \in Conversations, OthersKeep(c), CurrentOf(c) # None, CurrentOf(c)' = None,
         BehindOf(c) = <<>>, BacklogOf(c)' = <<>>
  PROVE  Serial!Next
<1>1. Serial!Complete(c)
  BY MappedStep, BehindMapped DEF Serial!Complete, Currents, Backlogs
<1>2. QED BY <1>1 DEF Serial!Next

LEMMA ContinueMapped ==
  ASSUME NEW c \in Conversations, OthersKeep(c), CurrentOf(c) # None,
         BehindOf(c) # <<>>, BacklogOf(c)' = BehindOf(c), CurrentOf(c)' = Head(BehindOf(c))
  PROVE  Serial!Next
<1>1. Serial!Continue(c)
  BY MappedStep, BehindMapped DEF Serial!Continue, Currents, Backlogs
<1>2. QED BY <1>1 DEF Serial!Next

\* Steps the conversations do not see.
LEMMA QuietMapped ==
  ASSUME AllTurns' = AllTurns, rows' = rows
  PROVE  UNCHANGED Serial!vars
<1>1. \A c : TurnsOf(c)' = TurnsOf(c)
  BY TurnsOfIs
<1>2. \A c : CurrentOf(c)' = CurrentOf(c)
  BY <1>1, CurrentIs
<1>3. \A c : BacklogOf(c)' = BacklogOf(c)
  BY BacklogFrom
<1>4. QED BY <1>2, <1>3 DEF Serial!vars

LEMMA QueuedPrefix ==
  ASSUME TypeOK, OrderInv, NEW c \in Conversations
  PROVE  /\ rows[c] \in Seq(FollowUp) /\ Len(rows[c]) \in Nat
         /\ \E d \in 0..Len(rows[c]) : DeliveredUpTo(rows[c], d) /\ BacklogOf(c) = After(rows[c], d)
<1>1. rows[c] \in Seq(FollowUp) /\ Len(rows[c]) \in Nat
  BY LenProperties DEF TypeOK
<1>2. PICK d \in 0..Len(rows[c]) : DeliveredUpTo(rows[c], d)
  BY DEF OrderInv, DeliveredPrefix
<1>3. BacklogOf(c) = After(rows[c], d)
  BY <1>1, <1>2, BacklogIs, BacklogFrom
<1>4. QED BY <1>1, <1>2, <1>3

\* A message opens a turn: the session had none.
LEMMA OpenMapped ==
  ASSUME TypeOK, SerialInv, NEW c \in Conversations, NEW m \in Messages,
         status[c] \notin {"queued", "running", "waiting"},
         Schedule([session |-> c, prompt |-> m, row |-> 0]), UNCHANGED <<exec, rows>>
  PROVE  Serial!Next
<1>1. PICK turn : turn = [session |-> c, prompt |-> m, row |-> 0]
  OBVIOUS
<1>2. /\ turn \in Turn /\ turn.session = c /\ turn.prompt = m
      /\ queue' = Append(queue, turn)
  BY <1>1 DEF Turn, Schedule
<1>3. AllTurns' = AllTurns \cup {turn}
  BY <1>2, TurnsPushed
<1>4. OneTurn(c) /\ Executing(c) = {} /\ Scheduled(c) = {}
  BY DEF SerialInv, SessionInv, StatusFits
<1>5. TurnsOf(c) = {}
  BY <1>4, OnlyTurn
<1>6. TurnsOf(c)' = {turn}
  BY <1>2, <1>3, <1>5, TurnsOfIs
<1>7. \A e \in Conversations : e # c => TurnsOf(e)' = TurnsOf(e)
  BY <1>2, <1>3, TurnsOfIs
<1>8. OthersKeep(c)
  BY <1>7 DEF OthersKeep
<1>9. CurrentOf(c) = None /\ CurrentOf(c)' = m
  BY <1>2, <1>5, <1>6, CurrentIs, PromptOfOne
<1>10. BacklogOf(c)' = BacklogOf(c)
  BY BacklogFrom
<1>11. QED BY <1>8, <1>9, <1>10, BeginMapped

\* A message for a session that is busy waits.
LEMMA FollowUpMapped ==
  ASSUME IInv, SerialInv, OrderInv, SteadyInv, NEW m \in Messages, NEW c \in Conversations,
         AcceptFollowUp(m, c)
  PROVE  Serial!Next
<1> DEFINE row == [event |-> m, delivered |-> FALSE]
<1>0. TypeOK
  BY DEF IInv
<1>1. /\ status[c] \in {"running", "queued"}
      /\ rows' = [rows EXCEPT ![c] = Append(@, row)]
      /\ UNCHANGED <<queue, exec>>
  BY DEF AcceptFollowUp, EnqueueFollowUp, poolVars
<1>2. row \in FollowUp /\ row.event = m /\ ~row.delivered
  BY DEF FollowUp
<1> HIDE DEF row
<1>3. PICK table \in Seq(FollowUp) : table = rows[c] /\ Len(table) \in Nat
  BY <1>0, QueuedPrefix
<1>4. PICK d \in 0..Len(table) : DeliveredUpTo(table, d) /\ BacklogOf(c) = After(table, d)
  BY <1>0, <1>3, QueuedPrefix
<1>5. PICK long : long = Append(table, row)
  OBVIOUS
<1>6. /\ long \in Seq(FollowUp) /\ Len(long) = Len(table) + 1
      /\ \A k \in 1..Len(table) : long[k] = table[k]
      /\ long[Len(table) + 1] = row
  BY <1>2, <1>5, AppendProperties
<1>7. rows'[c] = long /\ \A e \in Conversations : e # c => rows'[e] = rows[e]
  BY <1>0, <1>1, <1>3, <1>5 DEF TypeOK
<1>8. d \in 0..Len(long) /\ DeliveredUpTo(long, d)
  <2>1. d \in 0..Len(long)
    BY <1>3, <1>6
  <2>2. ASSUME NEW k \in 1..Len(long) PROVE long[k].delivered <=> k <= d
    <3>1. CASE k \in 1..Len(table)
      BY <1>4, <1>6, <3>1 DEF DeliveredUpTo
    <3>2. CASE k \notin 1..Len(table)
      <4>1. k = Len(table) + 1 /\ ~(k <= d)
        BY <1>3, <1>6, <3>2
      <4>2. QED BY <1>2, <1>6, <4>1
    <3>3. QED BY <3>1, <3>2
  <2>3. QED BY <2>1, <2>2 DEF DeliveredUpTo
<1>9. BacklogOf(c)' = Append(BacklogOf(c), m)
  <2>1. BacklogOf(c)' = BacklogIn(long)
    BY <1>7, BacklogFrom
  <2>2. BacklogIn(long) = After(long, d)
    BY <1>6, <1>8, BacklogIs
  <2>3. After(long, d) = Append(After(table, d), m)
    BY <1>2, <1>5, AfterAppend
  <2>4. QED BY <1>4, <2>1, <2>2, <2>3
<1>10. AllTurns' = AllTurns
  BY <1>1, QuietTurns
<1>11. \A e : TurnsOf(e)' = TurnsOf(e)
  BY <1>10, TurnsOfIs
<1>12. OthersKeep(c)
  BY <1>7, <1>11 DEF OthersKeep
<1>13. CurrentOf(c)' = CurrentOf(c)
  BY <1>11, CurrentIs
<1>14. CurrentOf(c) # None
  <2>1. Executing(c) # {} \/ Scheduled(c) # {}
    BY <1>1 DEF SerialInv, SessionInv, StatusFits, SteadyInv, QueuedHasPlace
  <2>2. OneTurn(c)
    BY DEF SerialInv, SessionInv
  <2>3. \E turn : TurnsOf(c) = {turn}
    BY <2>1, <2>2, OnlyTurn
  <2>4. PICK turn : TurnsOf(c) = {turn} /\ turn \in AllTurns
    BY <2>3, TurnsOfIs
  <2>5. turn.prompt \in Messages /\ CurrentOf(c) = turn.prompt
    BY <1>0, <2>4, TurnsTyped, CurrentIs, PromptOfOne DEF Turn
  <2>6. QED BY <2>5, NoneAssumption
<1>15. QED BY <1>9, <1>12, <1>13, <1>14, QueueMapped

\* pump() starts a turn, or does nothing: the conversation does not see it.
LEMMA PumpMapped ==
  ASSUME IInv, SerialInv, Pump
  PROVE  UNCHANGED Serial!vars
<1>0. TypeOK /\ rows' = rows
  BY DEF IInv, Pump
<1>1. CASE UNCHANGED <<queue, exec>>
  BY <1>0, <1>1, QuietTurns, QuietMapped
<1>2. CASE ~UNCHANGED <<queue, exec>>
  <2>1. queue # <<>> /\ queue' = Tail(queue)
    BY <1>2 DEF Pump
  <2>2. PICK turn \in Turn : turn = Head(queue)
    BY <1>0, <2>1, PumpedQueue
  <2>3. PICK c \in Conversations : c = turn.session
    BY DEF Turn
  <2>4. 1 \in Scheduled(c)
    BY <1>0, <2>1, <2>2, <2>3, PumpedScheduled
  <2>5. status[c] \in {"queued", "running"}
    BY <2>4 DEF SerialInv, SessionInv, StatusFits
  <2>6. IF status[c] # "stopped" /\ MayBecome(status[c], "running")
        THEN StartTurn(turn) ELSE DiscardTurn(turn)
    BY <1>2, <2>2, <2>3 DEF Pump
  <2>7. StartTurn(turn)
    BY <2>5, <2>6 DEF MayBecome, Transitions
  <2>8. PICK t \in Turns : exec[t] = None /\ exec' = [exec EXCEPT ![t] = turn]
    BY <2>7 DEF StartTurn
  <2>9. AllTurns' = AllTurns
    BY <1>0, <2>1, <2>2, <2>8, TurnsStarted
  <2>10. QED BY <1>0, <2>9, QuietMapped
<1>3. QED BY <1>1, <1>2

\* What the end of turn t leaves of the turns.
LEMMA EndedTurns ==
  ASSUME TypeOK, NEW t \in Turns, NEW c \in Conversations, exec[t] \in Turn, exec[t].session = c,
         OneTurn(c), Executing(c) = {t}, Scheduled(c) = {},
         exec' = [exec EXCEPT ![t] = None], NEW new \in Turn, new.session = c,
         queue' = queue \/ queue' = Append(queue, new)
  PROVE  /\ \A e \in Conversations : e # c => TurnsOf(e)' = TurnsOf(e)
         /\ CurrentOf(c) = exec[t].prompt /\ CurrentOf(c) # None
         /\ queue' = queue => CurrentOf(c)' = None
         /\ queue' # queue => CurrentOf(c)' = new.prompt
<1>0. exec[t] # None
  BY NoTurnAssumption
<1>1. /\ \A turn \in AllTurns' : (turn \in AllTurns /\ turn.session # c) \/ turn = new
      /\ queue' = queue => \A turn \in AllTurns' : turn \in AllTurns /\ turn.session # c
  BY <1>0, TurnsLeft
<1>2. /\ \A turn \in AllTurns : turn.session # c => turn \in AllTurns'
      /\ queue' # queue => new \in AllTurns'
  BY TurnsStay
<1>3. \A e \in Conversations : e # c => TurnsOf(e)' = TurnsOf(e)
  BY <1>1, <1>2, TurnsOfIs
<1>4. TurnsOf(c) = {exec[t]}
  BY OnlyTurn
<1>5. CurrentOf(c) = exec[t].prompt /\ exec[t].prompt \in Messages
  BY <1>4, CurrentIs, PromptOfOne DEF Turn
<1>6. queue' = queue => TurnsOf(c)' = {}
  BY <1>1, TurnsOfIs
<1>7. queue' # queue => TurnsOf(c)' = {new}
  BY <1>1, <1>2, TurnsOfIs
<1>8. QED BY <1>3, <1>5, <1>6, <1>7, CurrentIs, PromptOfOne, NoneAssumption

LEMMA FailMapped ==
  ASSUME IInv, SerialInv, NEW t \in Turns, NEW target, TurnFails(t, target)
  PROVE  Serial!Next
<1>0. TypeOK
  BY DEF IInv
<1>1. /\ exec[t] # None /\ exec' = [exec EXCEPT ![t] = None]
      /\ UNCHANGED <<queue, rows>>
  BY DEF TurnFails, LeaveTurn, CloseTurn
<1>2. exec[t] \in Turn
  BY <1>0, <1>1, TurnIsNotNone
<1>3. PICK c \in Conversations : c = exec[t].session
  BY <1>2 DEF Turn
<1>4. t \in Executing(c) /\ OneTurn(c)
  BY <1>1, <1>3 DEF Executing, SerialInv, SessionInv
<1>5. Executing(c) = {t} /\ Scheduled(c) = {}
  BY <1>4 DEF OneTurn
<1>6. /\ \A e \in Conversations : e # c => TurnsOf(e)' = TurnsOf(e)
      /\ CurrentOf(c) # None /\ CurrentOf(c)' = None
  BY <1>0, <1>1, <1>2, <1>3, <1>4, <1>5, EndedTurns
<1>7. OthersKeep(c) /\ BacklogOf(c)' = BacklogOf(c)
  BY <1>1, <1>6, BacklogFrom DEF OthersKeep
<1>8. QED BY <1>6, <1>7, AbandonMapped

\* The backlog when a turn succeeds: it moves on when the turn ran its head.
LEMMA SucceedBacklog ==
  ASSUME TypeOK, OrderInv, NEW c \in Conversations, NEW d \in Nat, NEW turn \in AllTurns,
         turn.session = c, CurrentOf(c) = turn.prompt,
         rows'[c] \in Seq(FollowUp), Len(rows'[c]) = Len(rows[c]),
         \A k \in 1..Len(rows[c]) : rows'[c][k].event = rows[c][k].event,
         d \in 0..Len(rows'[c]), DeliveredUpTo(rows'[c], d),
         turn.row # 0 => turn.row = d /\ DeliveredUpTo(rows[c], d - 1)
                         /\ rows[c][d].event = turn.prompt,
         turn.row = 0 => rows'[c] = rows[c] /\ DeliveredUpTo(rows[c], d)
  PROVE  BacklogOf(c)' = After(rows'[c], d) /\ BehindOf(c) = After(rows'[c], d)
<1>1. rows[c] \in Seq(FollowUp) /\ Len(rows[c]) \in Nat
  BY QueuedPrefix
<1>2. BacklogOf(c)' = After(rows'[c], d)
  BY BacklogIs, BacklogFrom
<1>3. CASE turn.row = 0
  <2>1. BacklogOf(c) = After(rows[c], d)
    BY <1>1, <1>3, BacklogIs, BacklogFrom
  <2>2. After(rows[c], d) # <<>> =>
          /\ d + 1 \in 1..Len(rows[c])
          /\ Head(After(rows[c], d)) = rows[c][d + 1].event
    <3>1. d \in 0..Len(rows[c])
      BY <1>3
    <3>2. d # Len(rows[c]) => d + 1 \in 1..Len(rows[c])
      BY <1>1, <3>1
    <3>3. QED BY <1>1, <3>1, <3>2, AfterProperties
  <2>3. ~InAnyRow(turn.prompt)
    BY <1>3 DEF OrderInv, MessagesApart
  <2>4. After(rows[c], d) # <<>> => Head(After(rows[c], d)) # turn.prompt
    BY <2>2, <2>3 DEF InAnyRow
  <2>5. BehindOf(c) = After(rows[c], d)
    BY <2>1, <2>4 DEF BehindOf
  <2>6. QED BY <1>2, <1>3, <2>5
<1>4. CASE turn.row # 0
  <2>1. d # 0 /\ d \in 1..Len(rows[c])
    BY <1>1, <1>4
  <2>2. PICK b \in Nat : b = d - 1 /\ b \in 0..Len(rows[c]) /\ b # Len(rows[c]) /\ b + 1 = d
    BY <1>1, <2>1
  <2>3. BacklogOf(c) = After(rows[c], b)
    BY <1>1, <1>4, <2>2, BacklogIs, BacklogFrom
  <2>4. /\ After(rows[c], b) # <<>> /\ Head(After(rows[c], b)) = turn.prompt
        /\ Tail(After(rows[c], b)) = After(rows[c], d)
    BY <1>1, <1>4, <2>2, AfterProperties
  <2>5. BehindOf(c) = After(rows[c], d)
    BY <2>3, <2>4 DEF BehindOf
  <2>6. After(rows'[c], d) = After(rows[c], d)
    <3>1. \A k \in 1..(Len(rows[c]) - d) : rows'[c][d + k].event = rows[c][d + k].event
      BY <1>1, <2>1
    <3>2. QED BY <3>1 DEF After
  <2>7. QED BY <1>2, <2>5, <2>6
<1>5. QED BY <1>3, <1>4

LEMMA SucceedMapped ==
  ASSUME IInv, SerialInv, OrderInv, NEW t \in Turns, TurnSucceeds(t)
  PROVE  Serial!Next
<1>0. TypeOK
  BY DEF IInv
<1>1. PICK c \in Conversations, d \in Nat :
        /\ exec[t] \in Turn /\ exec[t] \in AllTurns /\ exec[t].session = c
        /\ Executing(c) = {t} /\ Scheduled(c) = {}
        /\ exec' = [exec EXCEPT ![t] = None]
        /\ rows' = [rows EXCEPT ![c] = MarkDelivered(rows[c], exec[t].row)]
        /\ d \in 0..Len(rows'[c]) /\ DeliveredUpTo(rows'[c], d)
        /\ exec[t].row # 0 => exec[t].row = d /\ DeliveredUpTo(rows[c], d - 1)
                              /\ rows[c][d].event = exec[t].prompt
        /\ exec[t].row = 0 => rows'[c] = rows[c] /\ DeliveredUpTo(rows[c], d)
        /\ \/ d = Len(rows'[c]) /\ queue' = queue
           \/ /\ d + 1 \in 1..Len(rows'[c])
              /\ queue' = Append(queue, [session |-> c, prompt |-> rows'[c][d + 1].event,
                                         row |-> d + 1])
  BY SucceedShape
<1>2. /\ rows[c] \in Seq(FollowUp) /\ rows'[c] = MarkDelivered(rows[c], exec[t].row)
      /\ \A e \in Conversations : e # c => rows'[e] = rows[e]
  BY <1>0, <1>1 DEF TypeOK
<1>3. /\ rows'[c] \in Seq(FollowUp) /\ Len(rows'[c]) = Len(rows[c]) /\ Len(rows[c]) \in Nat
      /\ \A k \in 1..Len(rows[c]) : rows'[c][k].event = rows[c][k].event
  BY <1>2, MarkDeliveredType, LenProperties
<1>4. OneTurn(c)
  BY DEF SerialInv, SessionInv
<1>5. ASSUME NEW new \in Turn, new.session = c, queue' = queue \/ queue' = Append(queue, new)
      PROVE  /\ \A e \in Conversations : e # c => TurnsOf(e)' = TurnsOf(e)
             /\ CurrentOf(c) = exec[t].prompt /\ CurrentOf(c) # None
             /\ queue' = queue => CurrentOf(c)' = None
             /\ queue' # queue => CurrentOf(c)' = new.prompt
  <2> HIDE DEF TurnSucceeds
  <2>1. /\ exec[t] \in Turn /\ exec[t].session = c /\ exec' = [exec EXCEPT ![t] = None]
        /\ Executing(c) = {t} /\ Scheduled(c) = {}
    BY <1>1
  <2>2. QED BY <1>0, <1>4, <1>5, <2>1, EndedTurns
<1>6. CurrentOf(c) = exec[t].prompt => BacklogOf(c)' = After(rows'[c], d) /\ BehindOf(c) = After(rows'[c], d)
  <2>1. PICK turn \in AllTurns : turn = exec[t]
    BY <1>1
  <2>2. /\ turn.row # 0 => turn.row = d /\ DeliveredUpTo(rows[c], d - 1)
                           /\ rows[c][d].event = turn.prompt
        /\ turn.row = 0 => rows'[c] = rows[c] /\ DeliveredUpTo(rows[c], d)
        /\ turn.session = c /\ d \in 0..Len(rows'[c]) /\ DeliveredUpTo(rows'[c], d)
    BY <1>1, <2>1
  <2>3. QED BY <1>0, <1>3, <2>1, <2>2, SucceedBacklog
<1>7. CASE d = Len(rows'[c]) /\ queue' = queue
  <2>1. /\ \A e \in Conversations : e # c => TurnsOf(e)' = TurnsOf(e)
        /\ CurrentOf(c) = exec[t].prompt /\ CurrentOf(c) # None /\ CurrentOf(c)' = None
    BY <1>1, <1>5, <1>7
  <2>2. OthersKeep(c)
    BY <1>2, <2>1 DEF OthersKeep
  <2>3. After(rows'[c], d) = <<>>
    BY <1>1, <1>3, <1>7, AfterProperties
  <2>4. QED BY <1>6, <2>1, <2>2, <2>3, CompleteMapped
<1>8. CASE /\ d + 1 \in 1..Len(rows'[c])
           /\ queue' = Append(queue, [session |-> c, prompt |-> rows'[c][d + 1].event,
                                      row |-> d + 1])
  <2>1. PICK new : new = [session |-> c, prompt |-> rows'[c][d + 1].event, row |-> d + 1]
    OBVIOUS
  <2>2. /\ new.session = c /\ new.prompt = rows'[c][d + 1].event
        /\ queue' = Append(queue, new)
    BY <1>8, <2>1
  <2>3. new \in Turn
    <3>1. rows'[c][d + 1] \in FollowUp
      BY <1>3, <1>8, ElementOfSeq
    <3>2. QED BY <2>1, <3>1 DEF Turn, FollowUp
  <2>4. queue' # queue
    <3>1. Len(queue') = Len(queue) + 1 /\ Len(queue) \in Nat
      BY <1>0, <2>2, <2>3, PushedQueue
    <3>2. QED BY <3>1
  <2>5. /\ \A e \in Conversations : e # c => TurnsOf(e)' = TurnsOf(e)
        /\ CurrentOf(c) = exec[t].prompt /\ CurrentOf(c) # None /\ CurrentOf(c)' = new.prompt
    BY <1>5, <2>2, <2>3, <2>4
  <2>6. OthersKeep(c)
    BY <1>2, <2>5 DEF OthersKeep
  <2>7. d # Len(rows'[c])
    BY <1>3, <1>8
  <2>8. After(rows'[c], d) # <<>> /\ Head(After(rows'[c], d)) = new.prompt
    BY <1>1, <1>3, <2>2, <2>7, AfterProperties
  <2>9. QED BY <1>6, <2>5, <2>6, <2>8, ContinueMapped
<1>9. QED BY <1>1, <1>7, <1>8

LEMMA StepMapped ==
  ASSUME NeverDown, IInv, SerialInv, OrderInv, SteadyInv, [Next]_vars
  PROVE  [Serial!Next]_Serial!vars
<1>0. TypeOK /\ up
  BY DEF IInv, SteadyInv
<1>1. ASSUME UNCHANGED <<rows, queue, exec>> PROVE UNCHANGED Serial!vars
  BY <1>1, QuietTurns, QuietMapped
<1>2. ASSUME NEW e \in Events, IgnoreEvent(e) PROVE UNCHANGED Serial!vars
  BY <1>1, <1>2 DEF IgnoreEvent, poolVars
<1>3. ASSUME NEW m \in Messages, AcceptMessage(m) PROVE [Serial!Next]_Serial!vars
  <2>1. CASE WorktreeReady(m)
    <3>1. PICK c \in Conversations : c = creating[m]
      BY <1>0, <2>1 DEF WorktreeReady, TypeOK
    <3>2. CASE status[c] = "none"
      BY <1>0, <2>1, <3>1, <3>2, OpenMapped DEF WorktreeReady
    <3>3. CASE status[c] # "none"
      BY <1>1, <2>1, <3>1, <3>3 DEF WorktreeReady
    <3>4. QED BY <3>2, <3>3
  <2>2. CASE WorktreeFails(m)
    BY <1>1, <2>2 DEF WorktreeFails, storeVars, poolVars
  <2>3. ASSUME NEW c \in Conversations, AcceptFirst(m, c) PROVE UNCHANGED Serial!vars
    BY <1>1, <2>3 DEF AcceptFirst, poolVars
  <2>4. ASSUME NEW c \in Conversations, AcceptFollowUp(m, c) PROVE Serial!Next
    BY <2>4, FollowUpMapped
  <2>5. ASSUME NEW c \in Conversations, AcceptResume(m, c) PROVE Serial!Next
    BY <1>0, <2>5, OpenMapped DEF AcceptResume
  <2>6. ASSUME NEW c \in Conversations, NEW i \in Interactions,
               NEW by \in {"operator", "participant"}, AcceptReply(m, c, i, by)
        PROVE  UNCHANGED Serial!vars
    BY <1>1, <2>6 DEF AcceptReply, poolVars
  <2>7. QED BY <1>3, <2>1, <2>2, <2>3, <2>4, <2>5, <2>6 DEF AcceptMessage
<1>4. ASSUME NEW e \in Responses, NEW c \in Conversations, NEW i \in Interactions,
             NEW by \in {"operator", "participant"}, AcceptResponse(e, c, i, by)
      PROVE  UNCHANGED Serial!vars
  BY <1>1, <1>4 DEF AcceptResponse, poolVars
<1>5. ASSUME NEW i \in Interactions, Abort(i) PROVE UNCHANGED Serial!vars
  BY <1>1, <1>5 DEF Abort, poolVars
<1>6. ASSUME NEW t \in Turns, NEW i \in Interactions, NEW kind, Ask(t, i, kind)
      PROVE  UNCHANGED Serial!vars
  BY <1>1, <1>6 DEF Ask, poolVars
<1>7. ~Exit /\ ~Crash /\ ~Restart
  <2>1. ~doomed /\ ~(crashes < MaxCrashes)
    BY <1>0 DEF SerialInv, NeverDown, TypeOK
  <2>2. QED BY <1>0, <2>1 DEF Exit, Crash, Restart
<1>8. ASSUME NEW t \in Turns, EndTurn(t) PROVE Serial!Next
  BY <1>8, SucceedMapped, FailMapped DEF EndTurn
<1>9. CASE UNCHANGED vars
  BY <1>1, <1>9 DEF vars, storeVars, poolVars
<1>10. Stops = {}
  BY DEF NeverDown, NobodyStops
<1>11. QED
  BY <1>2, <1>3, <1>4, <1>5, <1>6, <1>7, <1>8, <1>9, <1>10, PumpMapped DEF Next

LEMMA InitMapped == Init => Serial!Init
<1> SUFFICES ASSUME Init PROVE Serial!Init
  OBVIOUS
<1>0. TypeOK
  BY InitInv DEF IInv
<1>1. AllTurns = {}
  BY EmptySeq, LenProperties DEF Init, AllTurns
<1>2. \A c : CurrentOf(c) = None
  BY <1>1, TurnsOfIs, CurrentIs, PromptOfOne
<1>3. ASSUME NEW c \in Conversations PROVE BacklogOf(c) = <<>>
  <2>1. rows[c] = <<>> /\ rows[c] \in Seq(FollowUp) /\ Len(rows[c]) = 0
    BY <1>0, <1>3, EmptySeq, LenProperties DEF Init, TypeOK
  <2>2. PICK d \in 0..Len(rows[c]) : BacklogOf(c) = After(rows[c], d)
    BY <1>0, OrderInit, QueuedPrefix
  <2>3. d = Len(rows[c])
    BY <2>1
  <2>4. QED BY <2>1, <2>2, <2>3, AfterProperties
<1>4. QED BY <1>2, <1>3 DEF Serial!Init

\* Without stops and crashes the coordinator is a serial conversation: the pool, the
\* queue, the interactions and the tables show a conversation nothing but one message
\* that is worked on and a backlog in the order of arrival, of which none is skipped and
\* the head leaves only when it was worked on.
THEOREM CoordinatorImplementsSerial == NeverDown => (Spec => ImplementsSerial)
<1> SUFFICES ASSUME NeverDown PROVE Spec => ImplementsSerial
  OBVIOUS
<1>1. Init => IInv /\ SerialInv /\ OrderInv /\ SteadyInv
  <2>1. Init => SteadyInv
    BY DEF Init, SteadyInv, QueuedHasPlace
  <2>2. QED BY <2>1, InitInv, SerialInit, OrderInit
<1>2. IInv /\ SerialInv /\ OrderInv /\ SteadyInv /\ [Next]_vars
        => (IInv /\ SerialInv /\ OrderInv /\ SteadyInv)'
  BY StepInv, SerialStep, OrderStep, SteadyStep DEF NeverDown
<1>3. IInv /\ SerialInv /\ OrderInv /\ SteadyInv /\ [Next]_vars => [Serial!Next]_Serial!vars
  BY StepMapped
<1>4. QED BY <1>1, <1>2, <1>3, InitMapped, PTL DEF Spec, ImplementsSerial, Serial!Spec

----------------------------------------------------------------------------
(* With stops and crashes: a session that runs or waits is not stuck. *)

HasTurn(c) == Executing(c) # {} \/ Scheduled(c) # {}

\* Steps that take no turn away and make no session active.
LEMMA TurnsKeepActive ==
  ASSUME ActiveHasTurn, up' => up,
         \A c \in Conversations : HasTurn(c) => HasTurn(c)',
         \A c \in Conversations :
           status'[c] \in {"running", "waiting"} => status[c] \in {"running", "waiting"}
  PROVE  ActiveHasTurn'
  BY DEF ActiveHasTurn, HasTurn

LEMMA PoolKeepsActive ==
  ASSUME TypeOK, ActiveHasTurn, up' = up, exec' = exec,
         queue' = queue \/ \E turn \in Turn : queue' = Append(queue, turn),
         NEW c, \/ status' = status
                \/ \E s : status' = [status EXCEPT ![c] = s]
                          /\ s \notin {"running", "waiting"}
                \/ status' = [status EXCEPT ![c] = Woken(@)]
  PROVE  ActiveHasTurn'
<1>1. ASSUME NEW d \in Conversations, HasTurn(d) PROVE HasTurn(d)'
  <2>1. Executing(d)' = Executing(d)
    BY DEF Executing
  <2>2. Scheduled(d) \subseteq Scheduled(d)'
    <3>1. CASE queue' = queue
      BY <3>1 DEF Scheduled
    <3>2. CASE \E turn \in Turn : queue' = Append(queue, turn)
      BY <3>2, PushedScheduled
    <3>3. QED BY <3>1, <3>2
  <2>3. QED BY <1>1, <2>1, <2>2 DEF HasTurn
<1>2. \A d \in Conversations :
        status'[d] \in {"running", "waiting"} => status[d] \in {"running", "waiting"}
  BY DEF TypeOK, Woken
<1>3. QED BY <1>1, <1>2, TurnsKeepActive

LEMMA ScheduleActive ==
  ASSUME TypeOK, ActiveHasTurn, UNCHANGED processVars, exec' = exec,
         NEW c \in Conversations, NEW m \in Messages,
         Schedule([session |-> c, prompt |-> m, row |-> 0]),
         status' = [status EXCEPT ![c] = "queued"]
  PROVE  ActiveHasTurn'
<1>1. PICK turn : turn = [session |-> c, prompt |-> m, row |-> 0]
  OBVIOUS
<1>2. turn \in Turn /\ queue' = Append(queue, turn) /\ up' = up
  BY <1>1 DEF Turn, Schedule, processVars
<1>3. \E s : status' = [status EXCEPT ![c] = s] /\ s \notin {"running", "waiting"}
  <2>1. PICK s : s = "queued"
    OBVIOUS
  <2>2. status' = [status EXCEPT ![c] = s]
    BY <2>1
  <2>3. s \notin {"running", "waiting"}
    BY <2>1
  <2>4. QED BY <2>2, <2>3
<1>4. QED
  <2> HIDE DEF Schedule
  <2>1. queue' = queue \/ \E other \in Turn : queue' = Append(queue, other)
    BY <1>2
  <2>2. QED BY <1>2, <1>3, <2>1, PoolKeepsActive

LEMMA FinishStopActive ==
  ASSUME TypeOK, ActiveHasTurn, UNCHANGED <<processVars, poolVars>>, NEW c, FinishStop(c)
  PROVE  ActiveHasTurn'
<1>1. up' = up /\ exec' = exec /\ queue' = queue
  BY DEF processVars, poolVars
<1>2. status' = status \/ status' = [status EXCEPT ![c] = "stopped"]
  BY DEF FinishStop, Woken
<1>3. QED BY <1>1, <1>2, PoolKeepsActive

LEMMA PumpActive ==
  ASSUME TypeOK, ActiveHasTurn, Pump
  PROVE  ActiveHasTurn'
<1>0. up' = up
  BY DEF Pump
<1>1. CASE UNCHANGED <<status, queue, exec>>
  BY <1>0, <1>1, PoolKeepsActive
<1>2. CASE ~UNCHANGED <<status, queue, exec>>
  <2>1. queue # <<>> /\ queue' = Tail(queue)
    BY <1>2 DEF Pump
  <2>2. PICK turn \in Turn : turn = Head(queue)
    BY <2>1, PumpedQueue
  <2>3. PICK c \in Conversations : c = turn.session
    BY DEF Turn
  <2>4. IF status[c] # "stopped" /\ MayBecome(status[c], "running")
        THEN StartTurn(turn) ELSE DiscardTurn(turn)
    BY <1>2, <2>2, <2>3 DEF Pump
  <2>5. ASSUME NEW d \in Conversations, d # c, HasTurn(d), Executing(d) \subseteq Executing(d)'
        PROVE  HasTurn(d)'
    <3>1. 1 \notin Scheduled(d)
      BY <2>1, <2>2, <2>3, <2>5, PumpedScheduled
    <3>2. \A k \in Scheduled(d) : k = 1 \/ k - 1 \in Scheduled(d)'
      BY <2>1, PumpedScheduled
    <3>3. QED BY <2>5, <3>1, <3>2 DEF HasTurn
  <2>6. CASE StartTurn(turn)
    <3>1. PICK t \in Turns : exec[t] = None /\ exec' = [exec EXCEPT ![t] = turn]
      BY <2>6 DEF StartTurn
    <3>2. \A d \in Conversations : d # c => status'[d] = status[d]
      BY <2>3, <2>6 DEF StartTurn, TypeOK
    <3>3. \A d : Executing(d) \subseteq Executing(d)'
      BY <3>1, StartedExecuting
    <3>4. HasTurn(c)'
      BY <2>3, <3>1, StartedExecuting DEF HasTurn
    <3>5. QED BY <1>0, <2>5, <3>2, <3>3, <3>4 DEF ActiveHasTurn, HasTurn
  <2>7. CASE DiscardTurn(turn) /\ status[c] \notin {"running", "waiting"}
    <3>1. status' = status /\ exec' = exec
      BY <2>7 DEF DiscardTurn
    <3>2. \A d : Executing(d)' = Executing(d)
      BY <3>1 DEF Executing
    <3>3. QED BY <1>0, <2>5, <2>7, <3>1, <3>2 DEF ActiveHasTurn, HasTurn
  <2>8. QED BY <2>4, <2>6, <2>7 DEF MayBecome, Transitions
<1>3. QED BY <1>1, <1>2

LEMMA LeaveEnds ==
  ASSUME NEW s \in {"running", "waiting"}, NEW target \in {"completed", "failed", "interrupted"}
  PROVE  Leave(s, target) \notin {"running", "waiting"}
  BY LeaveAllowed

LEMMA EndTurnActive ==
  ASSUME TypeOK, ActiveHasTurn, NEW t \in Turns, EndTurn(t)
  PROVE  ActiveHasTurn'
<1>1. exec[t] # None /\ exec' = [exec EXCEPT ![t] = None] /\ up' = up
  BY DEF EndTurn, TurnSucceeds, TurnFails, LeaveTurn
<1>2. PICK c \in Conversations : c = exec[t].session
  BY <1>1, TurnIsNotNone DEF Turn
<1>3. \A d : d # c => Executing(d)' = Executing(d)
  <2>1. \A d : d # c => t \notin Executing(d)
    BY <1>2 DEF Executing
  <2>2. \A d : Executing(d)' = Executing(d) \ {t}
    BY <1>1, LeftExecuting
  <2>3. QED BY <2>1, <2>2
<1>4. \/ /\ \E target \in {"completed", "failed", "interrupted"} : CloseTurn(c, target)
         /\ queue' = queue
      \/ status[c] = "stopped" /\ status' = status /\ queue' = queue
      \/ /\ \E turn \in Turn : turn.session = c /\ queue' = Append(queue, turn)
         /\ status' = status
  <2>1. CASE TurnFails(t, "failed") \/ TurnFails(t, "interrupted")
    BY <1>2, <2>1 DEF TurnFails, CloseTurn
  <2>2. CASE TurnSucceeds(t)
    <3>1. PICK table : table = MarkDelivered(rows[c], exec[t].row)
      OBVIOUS
    <3>2. \/ status[c] = "stopped" /\ status' = status /\ queue' = queue
          \/ CloseTurn(c, "completed")
          \/ /\ \E n \in FirstOf(QueuedFollowUps(table)) :
                  queue' = Append(queue, [session |-> c, prompt |-> table[n].event, row |-> n])
             /\ UNCHANGED <<status, doomed>>
      BY <1>2, <2>2, <3>1 DEF TurnSucceeds
    <3>3. table \in Seq(FollowUp)
      BY <1>2, <3>1, MarkDeliveredType DEF TypeOK
    <3>4. \A n \in FirstOf(QueuedFollowUps(table)) :
            [session |-> c, prompt |-> table[n].event, row |-> n] \in Turn
      <4>1. TAKE n \in FirstOf(QueuedFollowUps(table))
      <4>2. n \in 1..Len(table) /\ Len(table) \in Nat
        BY <3>3, LenProperties DEF FirstOf, QueuedFollowUps
      <4>3. n \in Nat /\ table[n] \in FollowUp
        BY <3>3, <4>2, ElementOfSeq
      <4>4. QED BY <4>3 DEF Turn, FollowUp
    <3>5. QED BY <3>2, <3>4 DEF CloseTurn
  <2>3. QED BY <2>1, <2>2 DEF EndTurn
<1>5. CASE queue' = queue
  <2>1. \A d : Scheduled(d)' = Scheduled(d)
    BY <1>5 DEF Scheduled
  <2>2. \A d \in Conversations : d # c => status'[d] = status[d]
    BY <1>4 DEF CloseTurn, TypeOK
  <2>3. status'[c] \notin {"running", "waiting"}
        \/ (status[c] \notin {"running", "waiting"} /\ status'[c] = status[c])
        \/ \E turn \in Turn : turn.session = c /\ queue' = Append(queue, turn)
    <3>1. CASE \E target \in {"completed", "failed", "interrupted"} : CloseTurn(c, target)
      <4>1. PICK target \in {"completed", "failed", "interrupted"} : CloseTurn(c, target)
        BY <3>1
      <4>2. status'[c] = Leave(status[c], target)
        BY <4>1 DEF CloseTurn, TypeOK
      <4>3. CASE status[c] \in {"running", "waiting"}
        BY <4>2, <4>3, LeaveEnds
      <4>4. CASE status[c] \notin {"running", "waiting"}
        BY <4>2, <4>4 DEF Leave
      <4>5. QED BY <4>3, <4>4
    <3>2. QED BY <1>4, <3>1
  <2>4. CASE \E turn \in Turn : turn.session = c /\ queue' = Append(queue, turn)
    <3>1. HasTurn(c)'
      BY <2>4, PushedScheduled DEF HasTurn
    <3>2. QED BY <1>1, <1>3, <2>1, <2>2, <3>1 DEF ActiveHasTurn, HasTurn
  <2>5. CASE status'[c] \notin {"running", "waiting"}
    BY <1>1, <1>3, <2>1, <2>2, <2>5 DEF ActiveHasTurn
  <2>6. QED BY <2>3, <2>4, <2>5
<1>6. CASE queue' # queue
  <2>1. PICK turn \in Turn : turn.session = c /\ queue' = Append(queue, turn)
    BY <1>4, <1>6
  <2>2. HasTurn(c)' /\ \A d : d # c => Scheduled(d)' = Scheduled(d)
    BY <2>1, PushedScheduled DEF HasTurn
  <2>3. status' = status
    BY <1>4, <1>6
  <2>4. QED BY <1>1, <1>3, <2>2, <2>3 DEF ActiveHasTurn, HasTurn
<1>7. QED BY <1>5, <1>6

LEMMA ActiveStep ==
  ASSUME TypeOK, ActiveHasTurn, [Next]_vars
  PROVE  ActiveHasTurn'
<1>1. ASSUME UNCHANGED <<up, status, queue, exec>> PROVE ActiveHasTurn'
  BY <1>1, PoolKeepsActive
<1>2. ASSUME NEW e \in Events, IgnoreEvent(e) PROVE ActiveHasTurn'
  BY <1>1, <1>2 DEF IgnoreEvent, processVars, poolVars
<1>3. ASSUME NEW m \in Messages, AcceptMessage(m) PROVE ActiveHasTurn'
  <2>1. CASE WorktreeReady(m)
    <3>1. PICK c \in Conversations : c = creating[m]
      BY <2>1 DEF WorktreeReady, TypeOK
    <3>2. CASE status[c] = "none"
      BY <2>1, <3>1, <3>2, ScheduleActive DEF WorktreeReady
    <3>3. CASE status[c] # "none"
      BY <1>1, <2>1, <3>1, <3>3 DEF WorktreeReady, processVars
    <3>4. QED BY <3>2, <3>3
  <2>2. CASE WorktreeFails(m)
    BY <1>1, <2>2 DEF WorktreeFails, processVars, storeVars, poolVars
  <2>3. ASSUME NEW c \in Conversations, AcceptFirst(m, c) \/ AcceptFollowUp(m, c)
        PROVE  ActiveHasTurn'
    BY <1>1, <2>3 DEF AcceptFirst, AcceptFollowUp, processVars, poolVars
  <2>4. ASSUME NEW c \in Conversations, AcceptResume(m, c) PROVE ActiveHasTurn'
    BY <2>4, ScheduleActive DEF AcceptResume
  <2>5. ASSUME NEW c \in Conversations, NEW i \in Interactions,
               NEW by \in {"operator", "participant"}, AcceptReply(m, c, i, by)
        PROVE  ActiveHasTurn'
    BY <2>5, PoolKeepsActive DEF AcceptReply, ResolveInteraction, processVars, poolVars
  <2>6. QED BY <1>3, <2>1, <2>2, <2>3, <2>4, <2>5 DEF AcceptMessage
<1>4. ASSUME NEW e \in Responses, NEW c \in Conversations, NEW i \in Interactions,
             NEW by \in {"operator", "participant"}, AcceptResponse(e, c, i, by)
      PROVE  ActiveHasTurn'
  BY <1>4, PoolKeepsActive DEF AcceptResponse, ResolveInteraction, processVars, poolVars
<1>5. ASSUME NEW i \in Interactions, Abort(i) PROVE ActiveHasTurn'
  <2>1. PICK c : c = ixSession[i]
    OBVIOUS
  <2>2. QED BY <1>5, <2>1, PoolKeepsActive DEF Abort, processVars, poolVars
<1>6. ASSUME NEW t \in Turns, NEW i \in Interactions, NEW kind, Ask(t, i, kind)
      PROVE  ActiveHasTurn'
  <2>1. up' = up /\ queue' = queue /\ exec' = exec /\ exec[t] # None
    BY <1>6 DEF Ask, processVars, poolVars
  <2>2. PICK c \in Conversations : c = exec[t].session
    BY <2>1, TurnIsNotNone DEF Turn
  <2>3. \A d \in Conversations : d # c => status'[d] = status[d]
    BY <1>6, <2>2 DEF Ask, TypeOK
  <2>4. \A d : Executing(d)' = Executing(d) /\ Scheduled(d)' = Scheduled(d)
    BY <2>1 DEF Executing, Scheduled
  <2>5. t \in Executing(c)
    BY <2>1, <2>2 DEF Executing
  <2>6. QED BY <2>1, <2>3, <2>4, <2>5 DEF ActiveHasTurn
<1>7. ASSUME NEW e \in Stops, Interrupted(e) PROVE ActiveHasTurn'
  <2>1. PICK c : c = stopping[e]
    OBVIOUS
  <2>2. QED BY <1>7, <2>1, FinishStopActive DEF Interrupted
<1>8. ASSUME NEW e \in Stops, InterruptFails(e) PROVE ActiveHasTurn'
  BY <1>1, <1>8 DEF InterruptFails, processVars, storeVars, poolVars
<1>9. ASSUME NEW e \in Stops, NEW c \in Conversations, AcceptStop(e, c) PROVE ActiveHasTurn'
  <2>1. CASE active[c] = None
    BY <1>9, <2>1, FinishStopActive DEF AcceptStop
  <2>2. CASE active[c] # None
    BY <1>1, <1>9, <2>2 DEF AcceptStop, processVars, poolVars
  <2>3. QED BY <2>1, <2>2
<1>10. ASSUME Exit \/ Crash PROVE ActiveHasTurn'
  BY <1>10 DEF Exit, Crash, LoseMemory, ActiveHasTurn
<1>11. ASSUME Restart PROVE ActiveHasTurn'
  BY <1>11 DEF Restart, ActiveHasTurn
<1>12. CASE UNCHANGED vars
  BY <1>1, <1>12 DEF vars, processVars, storeVars, poolVars
<1>13. QED
  BY <1>2, <1>3, <1>4, <1>5, <1>6, <1>7, <1>8, <1>9, <1>10, <1>11, <1>12,
     PumpActive, EndTurnActive DEF Next

\* A session that runs or waits has a turn that is executed or scheduled, whatever is
\* stopped, resumed, aborted or lost: also when a stop has left two turns of it about,
\* the end of the one leaves the session in no status that only the other would end.
THEOREM CoordinatorActiveHasTurn == Spec => []ActiveHasTurn
<1>1. Init => ActiveHasTurn
  BY DEF Init, ActiveHasTurn
<1>2. TypeOK /\ ActiveHasTurn /\ [Next]_vars => ActiveHasTurn'
  BY ActiveStep
<1>3. QED BY <1>1, <1>2, CoordinatorTypeOK, PTL DEF Spec
=============================================================================
