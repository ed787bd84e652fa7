------------------------------ MODULE Coordinator ------------------------------
(***************************************************************************)
(* SessionCoordinator (apps/cli/src/engine/coordinator.ts) with the parts  *)
(* of the local store it drives (apps/cli/src/store/store.ts: sessions,    *)
(* interactions, followups, ingress_events) and the transition table of    *)
(* model.ts: channel commands arrive, sessions are created, queued, run,   *)
(* ask questions, are stopped, and the daemon crashes and recovers.        *)
(*                                                                         *)
(* The daemon is one JavaScript thread. An action is one task with the     *)
(* promise reactions it triggers; pump() runs as a reaction of its own     *)
(* ("pumping") and no other task runs before it ends. An await is the      *)
(* border between two actions: the worktree of a new session, the          *)
(* interrupt() of a stop, the events of a runtime turn.                    *)
(*                                                                         *)
(* A conversation has at most one session row (UNIQUE), so the session is  *)
(* named by its conversation. Retention is not part of this module: a      *)
(* session neither expires nor is retired here. Deliveries are an output   *)
(* nothing here reads. The runtime is the environment: it asks, answers    *)
(* and ends as its contract (runtimes/contract.ts) allows.                 *)
(*                                                                         *)
(* A definition that no action uses is a defective variant of the one that *)
(* follows it, named for its defect. The mutation runs put it in that      *)
(* one's place to see a property fail.                                     *)
(***************************************************************************)
EXTENDS Naturals, Sequences, FiniteSets

CONSTANTS
  Conversations,   \* remote conversations of one Binding
  Messages,        \* event ids of message commands
  Stops,           \* event ids of stop commands
  Responses,       \* event ids of interaction_response commands
  Turns,           \* identities for the executions of execute()
  Interactions,    \* interaction ids
  None,            \* undefined
  Concurrency,     \* the coordinator's concurrency option
  MaxOutstanding,  \* interactions a runtime turn has open at once
  MaxCrashes       \* bound: daemon crashes in a behaviour

Events == Messages \cup Stops \cup Responses

ASSUME ConcurrencyAssumption == Concurrency \in Nat \ {0}
ASSUME BoundsAssumption == MaxOutstanding \in Nat /\ MaxCrashes \in Nat
ASSUME TurnsAssumption == IsFiniteSet(Turns)
ASSUME NoneAssumption == None \notin Conversations \cup Turns \cup Messages

VARIABLES
  up,          \* the daemon process runs
  doomed,      \* a promise was rejected and nobody handles it: the process exits
  crashes,     \* how often the daemon went down
  ingress,     \* store: ingress_events
  status,      \* store: sessions.status, "none" without a row
  rows,        \* store: followups of a session, by sequence number
  ixStatus,    \* store: interactions.status
  ixSession,   \* store: interactions.session_id
  ixKind,      \* store: interactions.kind, as far as authorization reads it
  ixBy,        \* who settled the interaction
  queue,       \* SessionCoordinator.queue
  running,     \* SessionCoordinator.running
  pumping,     \* a pump() is due
  exec,        \* the turns that are being executed
  active,      \* SessionCoordinator.activeTurns
  live,        \* SessionCoordinator.pendingInteractions (its keys)
  asker,       \* the turn whose runtime waits for an interaction
  creating,    \* createAndSchedule() calls that await their worktree
  stopping     \* stop() calls that await interrupt()

storeVars == <<ingress, status, rows, ixStatus, ixSession, ixKind, ixBy>>
ixVars == <<ixStatus, ixSession, ixKind, ixBy, live, asker>>
poolVars == <<queue, running, pumping, exec, active>>
processVars == <<up, doomed, crashes>>
vars == <<processVars, storeVars, poolVars, live, asker, creating, stopping>>

Statuses ==
  {"queued", "running", "waiting", "completed", "interrupted", "failed", "stopped"}

\* A ScheduledTurn: its session, its prompt and the follow-up it runs (0: none).
Turn == [session : Conversations, prompt : Messages, row : Nat]
FollowUp == [event : Messages, delivered : BOOLEAN]

ASSUME NoTurnAssumption == None \notin Turn

TypeOK ==
  /\ up \in BOOLEAN /\ doomed \in BOOLEAN /\ crashes \in 0..MaxCrashes
  /\ ingress \subseteq Events
  /\ status \in [Conversations -> Statuses \cup {"none"}]
  /\ rows \in [Conversations -> Seq(FollowUp)]
  /\ ixStatus \in [Interactions -> {"unused", "pending", "settled", "cancelled"}]
  /\ ixSession \in [Interactions -> Conversations \cup {None}]
  /\ ixKind \in [Interactions -> {"permission", "other"}]
  /\ ixBy \in [Interactions -> {"nobody", "operator", "participant"}]
  /\ queue \in Seq(Turn)
  /\ running \in Nat
  /\ pumping \in BOOLEAN
  /\ exec \in [Turns -> Turn \cup {None}]
  /\ active \in [Conversations -> Turns \cup {None}]
  /\ live \subseteq Interactions
  /\ asker \in [Interactions -> Turns \cup {None}]
  /\ creating \in [Messages -> Conversations \cup {None}]
  /\ stopping \in [Stops -> Conversations \cup {None}]

Init ==
  /\ up = TRUE /\ doomed = FALSE /\ crashes = 0
  /\ ingress = {}
  /\ status = [c \in Conversations |-> "none"]
  /\ rows = [c \in Conversations |-> <<>>]
  /\ ixStatus = [i \in Interactions |-> "unused"]
  /\ ixSession = [i \in Interactions |-> None]
  /\ ixKind = [i \in Interactions |-> "other"]
  /\ ixBy = [i \in Interactions |-> "nobody"]
  /\ queue = <<>>
  /\ running = 0
  /\ pumping = FALSE
  /\ exec = [t \in Turns |-> None]
  /\ active = [c \in Conversations |-> None]
  /\ live = {}
  /\ asker = [i \in Interactions |-> None]
  /\ creating = [m \in Messages |-> None]
  /\ stopping = [e \in Stops |-> None]

----------------------------------------------------------------------------
(* Operators *)

\* model.ts: the transitions canTransition() allows.
Transitions ==
  ({"queued"} \X {"running", "failed", "stopped"})
    \cup ({"running"} \X {"waiting", "completed", "interrupted", "failed", "stopped"})
    \cup ({"waiting"} \X {"running", "interrupted", "failed", "stopped"})
    \cup ({"completed", "stopped"} \X {"queued"})
    \cup ({"interrupted"} \X {"queued", "failed", "stopped"})

\* transitionSession() succeeds: the status stays, or the table allows the step.
MayBecomeAnything(from, to) == TRUE

MayBecomeStrictly(from, to) == <<from, to>> \in Transitions

MayBecome(from, to) == from = to \/ <<from, to>> \in Transitions

\* No other task runs before the reactions of the last one have run.
Task == up /\ ~doomed /\ ~pumping

\* recordIngress(): INSERT OR IGNORE tells whether the event is new.
RecordIngressAlways(e) == ingress' = ingress \cup {e}

RecordIngress(e) ==
  /\ e \notin ingress
  /\ ingress' = ingress \cup {e}

\* pump() is called: it is due, and runs before any other task.
ForgetPump == UNCHANGED pumping

RequestPump == pumping' = TRUE

\* schedule(): push and pump.
ScheduleIfFree(turn) ==
  /\ queue' = IF running < Concurrency THEN Append(queue, turn) ELSE queue
  /\ RequestPump

Schedule(turn) ==
  /\ queue' = Append(queue, turn)
  /\ RequestPump

\* enqueueFollowUp(): the row gets the next sequence number of its session.
EnqueueFollowUp(c, m) ==
  rows' = [rows EXCEPT ![c] = Append(@, [event |-> m, delivered |-> FALSE])]

\* markFollowUpDelivered() for row n; the turn of no follow-up has row 0.
MarkAllDelivered(table, n) == [k \in 1..Len(table) |-> [table[k] EXCEPT !.delivered = TRUE]]

MarkDelivered(table, n) ==
  [k \in 1..Len(table) |-> [table[k] EXCEPT !.delivered = @ \/ k = n]]

\* listQueuedFollowUps(): the sequence numbers that are still queued.
QueuedFollowUps(table) == {n \in 1..Len(table) : ~table[n].delivered}

LatestOf(ns) == {n \in ns : \A k \in ns : k <= n}

\* The first of them, in the order of their sequence numbers.
FirstOf(ns) == {n \in ns : \A k \in ns : n <= k}

\* promise.finally() of requestInteraction(): a session that waits runs again.
WokenAlways(s) == "running"

WokenNever(s) == s

Woken(s) == IF s = "waiting" THEN "running" ELSE s

\* The interactions of turn t its runtime still waits for.
OutstandingOf(t) == {i \in Interactions : asker[i] = t}

\* pendingInteractions of session c.
LiveOf(c) == {i \in live : ixSession[i] = c}

SettleKeepingLive(is, how, by) ==
  /\ ixStatus' = [i \in Interactions |-> IF i \in is THEN how ELSE ixStatus[i]]
  /\ ixBy' = [i \in Interactions |-> IF i \in is THEN by ELSE ixBy[i]]
  /\ UNCHANGED <<ixSession, ixKind, live, asker>>

\* The interactions in `is` are settled in the store and leave the map.
SettleInteractions(is, how, by) ==
  /\ ixStatus' = [i \in Interactions |-> IF i \in is THEN how ELSE ixStatus[i]]
  /\ ixBy' = [i \in Interactions |-> IF i \in is THEN by ELSE ixBy[i]]
  /\ live' = live \ is
  /\ asker' = [i \in Interactions |-> IF i \in is THEN None ELSE asker[i]]
  /\ UNCHANGED <<ixSession, ixKind>>

----------------------------------------------------------------------------
(* accept() *)

\* A recorded event that changes nothing else: no Binding, a stranger, a message that
\* may not open a session, no pending interaction, a permission answered by somebody
\* who is not the operator, a failed session, or a partial or unreadable reply.
IgnoreEvent(e) ==
  /\ Task
  /\ RecordIngress(e)
  /\ UNCHANGED <<processVars, status, rows, ixVars, poolVars, creating, stopping>>

\* createAndSchedule() up to the await of the worktree.
AcceptFirst(m, c) ==
  /\ Task
  /\ RecordIngress(m)
  /\ status[c] = "none"
  /\ creating' = [creating EXCEPT ![m] = c]
  /\ UNCHANGED <<processVars, status, rows, ixVars, poolVars, stopping>>

\* The worktree exists. The row of a conversation is UNIQUE: a second one is refused,
\* the sender is told and the prompt is dropped.
WorktreeReady(m) ==
  /\ Task
  /\ creating[m] # None
  /\ creating' = [creating EXCEPT ![m] = None]
  /\ LET c == creating[m] IN
     IF status[c] = "none"
     THEN /\ status' = [status EXCEPT ![c] = "queued"]
          /\ Schedule([session |-> c, prompt |-> m, row |-> 0])
     ELSE UNCHANGED <<status, queue, pumping>>
  /\ UNCHANGED <<processVars, ingress, rows, ixVars, running, exec, active, stopping>>

WorktreeFails(m) ==
  /\ Task
  /\ creating[m] # None
  /\ creating' = [creating EXCEPT ![m] = None]
  /\ UNCHANGED <<processVars, storeVars, poolVars, live, asker, stopping>>

\* resolveInteraction() with a reply the runtime reads as a decision of user `by`.
\* The store has the last word; the runtime hears of it if the interaction is live.
ResolveInteraction(c, i, by) ==
  /\ ixSession[i] = c
  /\ ixStatus[i] = "pending"
  /\ SettleInteractions({i}, "settled", by)
  /\ status' = IF i \in live THEN [status EXCEPT ![c] = Woken(@)] ELSE status

\* Only the operator answers a permission request.
MayAnswerAnything(i, by) == by \in {"operator", "participant"}

MayAnswer(i, by) ==
  by = "operator" \/ (by = "participant" /\ ixKind[i] # "permission")

\* A message to a waiting session answers its pending interaction. It takes the one
\* created first; creation order is left open, so any pending one may be meant.
AcceptReply(m, c, i, by) ==
  /\ Task
  /\ RecordIngress(m)
  /\ status[c] = "waiting"
  /\ MayAnswer(i, by)
  /\ ResolveInteraction(c, i, by)
  /\ UNCHANGED <<processVars, rows, poolVars, creating, stopping>>

AcceptFollowUp(m, c) ==
  /\ Task
  /\ RecordIngress(m)
  /\ status[c] \in {"running", "queued"}
  /\ EnqueueFollowUp(c, m)
  /\ UNCHANGED <<processVars, status, ixVars, poolVars, creating, stopping>>

AcceptResumeQueued(m, c) ==
  /\ Task
  /\ RecordIngress(m)
  /\ status[c] \in {"queued", "completed", "interrupted", "stopped"}
  /\ status' = [status EXCEPT ![c] = "queued"]
  /\ Schedule([session |-> c, prompt |-> m, row |-> 0])
  /\ UNCHANGED <<processVars, rows, ixVars, running, exec, active, creating, stopping>>

AcceptResume(m, c) ==
  /\ Task
  /\ RecordIngress(m)
  /\ status[c] \in {"completed", "interrupted", "stopped"}
  /\ status' = [status EXCEPT ![c] = "queued"]
  /\ Schedule([session |-> c, prompt |-> m, row |-> 0])
  /\ UNCHANGED <<processVars, rows, ixVars, running, exec, active, creating, stopping>>

\* interaction_response: the interaction is named, the session may be in any state.
AcceptResponse(e, c, i, by) ==
  /\ Task
  /\ RecordIngress(e)
  /\ MayAnswer(i, by)
  /\ ResolveInteraction(c, i, by)
  /\ UNCHANGED <<processVars, rows, poolVars, creating, stopping>>

\* The rest of stop(). The transition is skipped when the session is stopped already;
\* it throws from completed and failed, and the interactions stay as they are.
FinishStop(c) ==
  IF MayBecome(status[c], "stopped")
  THEN /\ SettleInteractions(LiveOf(c), "cancelled", "nobody")
       /\ status' = [status EXCEPT ![c] =
                       IF LiveOf(c) = {} THEN "stopped" ELSE Woken("stopped")]
  ELSE UNCHANGED <<status, ixVars>>

\* stop(): the running turn is interrupted first, which is awaited.
AcceptStop(e, c) ==
  /\ Task
  /\ RecordIngress(e)
  /\ status[c] # "none"
  /\ IF active[c] = None
     THEN FinishStop(c) /\ UNCHANGED stopping
     ELSE /\ stopping' = [stopping EXCEPT ![e] = c]
          /\ UNCHANGED <<status, ixVars>>
  /\ UNCHANGED <<processVars, rows, poolVars, creating>>

Interrupted(e) ==
  /\ Task
  /\ stopping[e] # None
  /\ FinishStop(stopping[e])
  /\ stopping' = [stopping EXCEPT ![e] = None]
  /\ UNCHANGED <<processVars, ingress, rows, poolVars, creating>>

InterruptFails(e) ==
  /\ Task
  /\ stopping[e] # None
  /\ stopping' = [stopping EXCEPT ![e] = None]
  /\ UNCHANGED <<processVars, storeVars, poolVars, live, asker, creating>>

----------------------------------------------------------------------------
(* pump() and execute() *)

PoolIsFullLate == running > Concurrency

PoolIsFull == running >= Concurrency

\* execute() up to the first await: the session runs and activeTurns names the turn.
StartTurn(turn) ==
  /\ status' = [status EXCEPT ![turn.session] = "running"]
  /\ running' = running + 1
  /\ \E t \in Turns :
       /\ exec[t] = None
       /\ exec' = [exec EXCEPT ![t] = turn]
       /\ active' = [active EXCEPT ![turn.session] = t]
  /\ UNCHANGED doomed

\* execute() returns at once for a stopped session, and rejects when the session may
\* not run; its slot was taken and is free again.
DiscardReleasingTwice(turn) ==
  /\ running' = running - 1
  /\ doomed' = (doomed \/ status[turn.session] # "stopped")
  /\ UNCHANGED <<status, exec, active>>

DiscardTurn(turn) ==
  /\ doomed' = (doomed \/ status[turn.session] # "stopped")
  /\ UNCHANGED <<status, running, exec, active>>

\* One pass of pump()'s loop.
Pump ==
  /\ up /\ pumping
  /\ IF queue = <<>> \/ PoolIsFull
     THEN /\ pumping' = FALSE
          /\ UNCHANGED <<doomed, status, queue, running, exec, active>>
     ELSE LET turn == Head(queue)
              s == status[turn.session]
          IN  /\ queue' = Tail(queue)
              /\ IF s # "stopped" /\ MayBecome(s, "running")
                 THEN StartTurn(turn) ELSE DiscardTurn(turn)
              /\ UNCHANGED pumping
  /\ UNCHANGED <<up, crashes, ingress, rows, ixVars, creating, stopping>>

\* requestInteraction() of turn t. The row is written before the transition; when that
\* throws the runtime hears of it and the row stays pending.
Ask(t, i, kind) ==
  /\ Task
  /\ exec[t] # None
  /\ Cardinality(OutstandingOf(t)) < MaxOutstanding
  /\ ixStatus[i] = "unused"
  /\ ixStatus' = [ixStatus EXCEPT ![i] = "pending"]
  /\ ixSession' = [ixSession EXCEPT ![i] = exec[t].session]
  /\ ixKind' = [ixKind EXCEPT ![i] = kind]
  /\ LET c == exec[t].session IN
     IF MayBecome(status[c], "waiting")
     THEN /\ status' = [status EXCEPT ![c] = "waiting"]
          /\ live' = live \cup {i}
          /\ asker' = [asker EXCEPT ![i] = t]
     ELSE UNCHANGED <<status, live, asker>>
  /\ UNCHANGED <<processVars, ingress, rows, ixBy, poolVars, creating, stopping>>

\* The runtime's AbortSignal, also after its turn ended.
Abort(i) ==
  /\ Task
  /\ i \in live
  /\ SettleInteractions({i}, "cancelled", "nobody")
  /\ status' = [status EXCEPT ![ixSession[i]] = Woken(@)]
  /\ UNCHANGED <<processVars, ingress, rows, poolVars, creating, stopping>>

\* Where execute() leaves a session with status s that it wants to move to `target`:
\* a transition that throws ends in catch, which tries "interrupted".
Leave(s, target) ==
  IF s = "stopped" THEN s
  ELSE IF MayBecome(s, target) THEN target
  ELSE IF MayBecome(s, "interrupted") THEN "interrupted" ELSE s

\* The transition in catch throws too, and nobody handles the rejected execute().
Rejects(s, target) ==
  /\ s # "stopped"
  /\ ~MayBecome(s, target)
  /\ ~MayBecome(s, "interrupted")

\* execute() ends without another turn of its session: `target` is what it wants.
CloseTurn(c, target) ==
  /\ status' = [status EXCEPT ![c] = Leave(@, target)]
  /\ doomed' = (doomed \/ Rejects(status[c], target))
  /\ UNCHANGED queue

\* The finally blocks of execute() and pump(): whatever turn activeTurns holds for the
\* session is forgotten, a slot is free and pump() is due. Interactions stay.
LeaveTurn(t) ==
  /\ exec' = [exec EXCEPT ![t] = None]
  /\ active' = [active EXCEPT ![exec[t].session] = None]
  /\ running' = running - 1
  /\ RequestPump
  /\ asker' = [i \in Interactions |-> IF asker[i] = t THEN None ELSE asker[i]]

\* The events end without an error: the follow-up of the turn is delivered and the
\* next one is scheduled, or the session is complete.
TurnSucceeds(t) ==
  /\ Task
  /\ exec[t] # None
  /\ OutstandingOf(t) = {}
  /\ LET c == exec[t].session
         table == MarkDelivered(rows[c], exec[t].row)
     IN  IF status[c] = "stopped"
         THEN UNCHANGED <<status, doomed, queue, rows>>
         ELSE /\ rows' = [rows EXCEPT ![c] = table]
              /\ IF QueuedFollowUps(table) = {}
                 THEN CloseTurn(c, "completed")
                 ELSE /\ \E n \in FirstOf(QueuedFollowUps(table)) :
                           queue' = Append(queue, [session |-> c, prompt |-> table[n].event, row |-> n])
                      /\ UNCHANGED <<status, doomed>>
  /\ LeaveTurn(t)
  /\ UNCHANGED <<up, crashes, ingress, ixStatus, ixSession, ixKind, ixBy, live, creating, stopping>>

\* The events end after an error event ("failed"), or the iterator throws ("interrupted").
TurnFails(t, target) ==
  /\ Task
  /\ exec[t] # None
  /\ CloseTurn(exec[t].session, target)
  /\ LeaveTurn(t)
  /\ UNCHANGED <<up, crashes, ingress, rows, ixStatus, ixSession, ixKind, ixBy, live, creating, stopping>>

----------------------------------------------------------------------------
(* The daemon process *)

\* Everything in memory is gone.
LoseMemory ==
  /\ up' = FALSE
  /\ doomed' = FALSE
  /\ queue' = <<>>
  /\ running' = 0
  /\ pumping' = FALSE
  /\ exec' = [t \in Turns |-> None]
  /\ active' = [c \in Conversations |-> None]
  /\ live' = {}
  /\ asker' = [i \in Interactions |-> None]
  /\ creating' = [m \in Messages |-> None]
  /\ stopping' = [e \in Stops |-> None]
  /\ UNCHANGED storeVars

\* Bun ends the process when a rejection is unhandled; pump() handles none.
Exit ==
  /\ up /\ doomed /\ ~pumping
  /\ LoseMemory
  /\ UNCHANGED crashes

\* The process is killed, the machine goes down, or the daemon is told to stop.
Crash ==
  /\ up
  /\ crashes < MaxCrashes
  /\ crashes' = crashes + 1
  /\ LoseMemory

\* recoverAfterCrash(), before the daemon accepts anything.
Restart ==
  LET lost == {c \in Conversations : status[c] \in {"running", "waiting"}}
  IN  /\ ~up
      /\ up' = TRUE
      /\ status' = [c \in Conversations |-> IF c \in lost THEN "interrupted" ELSE status[c]]
      /\ ixStatus' = [i \in Interactions |->
                        IF ixStatus[i] = "pending" /\ ixSession[i] \in lost
                        THEN "cancelled" ELSE ixStatus[i]]
      /\ UNCHANGED <<doomed, crashes, ingress, rows, ixSession, ixKind, ixBy, live, asker>>
      /\ UNCHANGED <<poolVars, creating, stopping>>

AcceptMessage(m) ==
  \/ WorktreeReady(m) \/ WorktreeFails(m)
  \/ \E c \in Conversations :
       \/ AcceptFirst(m, c) \/ AcceptFollowUp(m, c) \/ AcceptResume(m, c)
       \/ \E i \in Interactions, by \in {"operator", "participant"} : AcceptReply(m, c, i, by)

EndTurn(t) == TurnSucceeds(t) \/ TurnFails(t, "failed") \/ TurnFails(t, "interrupted")

Next ==
  \/ \E e \in Events : IgnoreEvent(e)
  \/ \E m \in Messages : AcceptMessage(m)
  \/ \E e \in Stops :
       \/ Interrupted(e) \/ InterruptFails(e)
       \/ \E c \in Conversations : AcceptStop(e, c)
  \/ \E e \in Responses, c \in Conversations, i \in Interactions, by \in {"operator", "participant"} :
       AcceptResponse(e, c, i, by)
  \/ Pump
  \/ \E t \in Turns :
       \/ EndTurn(t)
       \/ \E i \in Interactions, kind \in {"permission", "other"} : Ask(t, i, kind)
  \/ \E i \in Interactions : Abort(i)
  \/ Exit \/ Crash \/ Restart

\* Promise reactions run, and the runtime ends its turns.
Fairness == WF_vars(Pump) /\ \A t \in Turns : WF_vars(EndTurn(t))

Spec == Init /\ [][Next]_vars /\ Fairness

----------------------------------------------------------------------------
(* Properties *)

Executing(c) == {t \in Turns : exec[t] # None /\ exec[t].session = c}
Scheduled(c) == {k \in 1..Len(queue) : queue[k].session = c}

\* The pool: `running` counts the turns being executed and never passes the option.
PoolIsCounted ==
  running = Cardinality({t \in Turns : exec[t] # None}) /\ running <= Concurrency

\* No slot idles: between tasks, a turn is queued only while every slot is taken.
WorkConserving == Task => queue = <<>> \/ running = Concurrency

\* The map and the store agree: the runtime waits only for interactions the store has
\* pending, so settling one never throws, whichever of reply, response, stop and
\* abort comes first.
LiveIsPending ==
  /\ \A i \in live : ixStatus[i] = "pending" /\ ixSession[i] # None
  /\ \A i \in Interactions : asker[i] # None => i \in live

\* A session waits only for an interaction somebody can still answer or abort.
WaitingIsAnswerable ==
  up => \A c \in Conversations : status[c] = "waiting" => LiveOf(c) # {}

\* A session that runs or waits has a turn that is executed or scheduled, so it is not
\* stuck however stops, aborts and late answers met.
ActiveHasTurn ==
  up => \A c \in Conversations :
    status[c] \in {"running", "waiting"} => Executing(c) # {} \/ Scheduled(c) # {}

\* What holds message m: a worktree in progress, the queue, a turn or a follow-up row.
Holds(m) ==
  \/ creating[m] # None
  \/ \E k \in 1..Len(queue) : queue[k].prompt = m
  \/ \E t \in Turns : exec[t] # None /\ exec[t].prompt = m
  \/ \E c \in Conversations : \E k \in QueuedFollowUps(rows[c]) : rows[c][k].event = m

\* A redelivered event is not handled again: a message that was recorded and is held
\* nowhere stays out, in spite of retries by the provider, crashes and recovery.
EventUsedOnce ==
  [][\A m \in Messages : m \in ingress /\ ~Holds(m) => ~Holds(m)']_vars

\* A stopped session stays stopped, whatever its old turn and the settled interactions
\* still do, until a new message arrives; and no turn of it starts.
StopSticks ==
  [][\A c \in Conversations : status[c] = "stopped" =>
       /\ status'[c] # "stopped" =>
            status'[c] = "queued" /\ \E m \in Messages : m \in ingress' \ ingress
       /\ \A t \in Turns : exec'[t] # None /\ exec'[t] # exec[t] => exec'[t].session # c]_vars

\* A permission is settled by the operator, by message or by response, or by nobody.
PermissionByOperator ==
  \A i \in Interactions : ixKind[i] = "permission" => ixBy[i] \in {"operator", "nobody"}

\* A session has one turn at a time: one is executed or scheduled, never two. (Not so
\* once a stop is involved.)
OneActiveTurn ==
  \A c \in Conversations : Cardinality(Executing(c)) + Cardinality(Scheduled(c)) <= 1

\* Two turns of a session are never executed at once, in its one worktree: what arrives
\* while a turn is active waits until it completes. (Not so once a stop is involved.)
OneExecutingTurn == \A c \in Conversations : Cardinality(Executing(c)) <= 1

\* execute() attempts no transition that assertTransition() refuses, so no promise is
\* rejected that nobody handles. (Not so once a stop is involved.)
NoUnhandledRejection == ~doomed

\* A queued session has its place in the queue. (Not so after a restart.)
QueuedHasPlace ==
  up => \A c \in Conversations : status[c] = "queued" => Scheduled(c) # {}

\* Follow-ups run in the order they came: when the turn of row n is scheduled or runs,
\* the rows before n are delivered and n is not.
FollowUpsInOrder ==
  \A turn \in {queue[k] : k \in 1..Len(queue)} \cup ({exec[t] : t \in Turns} \ {None}) :
    turn.row # 0 =>
      \A k \in 1..turn.row : rows[turn.session][k].delivered <=> k < turn.row

\* Without stops and crashes the coordinator implements the serial conversation: the
\* work of a session is its turn, executed or scheduled; its backlog is its queued rows.
TurnsOf(c) == {exec[t] : t \in Executing(c)} \cup {queue[k] : k \in Scheduled(c)}

CurrentOf(c) ==
  IF TurnsOf(c) = {} THEN None ELSE (CHOOSE turn \in TurnsOf(c) : TRUE).prompt

\* The k-th of the sequence numbers in ns.
NthOf(ns, k) == CHOOSE n \in ns : Cardinality({j \in ns : j <= n}) = k

BacklogOf(c) ==
  LET waiting == QueuedFollowUps(rows[c])
  IN  [k \in 1..Cardinality(waiting) |-> rows[c][NthOf(waiting, k)].event]

Serial == INSTANCE SerialConversation
            WITH current <- [c \in Conversations |-> CurrentOf(c)],
                 backlog <- [c \in Conversations |-> BacklogOf(c)]
ImplementsSerial == Serial!Spec

\* The queue moves: a queued session leaves that state.
QueuedRuns == \A c \in Conversations : status[c] = "queued" ~> status[c] # "queued"
=============================================================================
