-------------------------------- MODULE Deliveries --------------------------------
(***************************************************************************)
(* DeliveryWorker (apps/cli/src/engine/deliveries.ts), the deliveries      *)
(* table it works on (apps/cli/src/store/store.ts) and the timer that      *)
(* drains it (apps/cli/src/daemon.ts).                                     *)
(*                                                                         *)
(* Nothing keeps two daemons from sharing a store (the background service  *)
(* and `agentchannels daemon` in a terminal), so the workers are a set.    *)
(* A worker claims rows in one transaction and keeps a copy of each while  *)
(* it delivers them one after another; an await on the provider is the     *)
(* border between two actions.                                             *)
(*                                                                         *)
(* A row is named by its place in the table. Wall-clock time is            *)
(* abstracted: rows fall due in the order of their places while they are   *)
(* pending (of two that share a millisecond the index yields the earlier   *)
(* rowid first), and a retry falls due some time after it was written.     *)
(* Every caller of enqueueDelivery() names a Binding, so the branches for  *)
(* a row without one are left out.                                         *)
(*                                                                         *)
(* A definition that no action uses is a defective variant of the one that *)
(* follows it, named for its defect. The mutation runs put it in that      *)
(* one's place to see a property fail.                                     *)
(***************************************************************************)
EXTENDS Naturals, Sequences, FiniteSets

CONSTANTS
  Workers,      \* daemons that share the store
  Sessions,     \* sessions the deliveries belong to
  None,         \* NULL
  MaxAttempts,  \* DeliveryWorkerOptions.maxAttempts
  Limit,        \* rows a drain claims at most
  MaxMessages,  \* bound: messages the coordinator enqueues
  MaxCrashes,   \* bound: daemons that go down in a behaviour
  MaxFaults,    \* bound: exceptions that end a drain() in a behaviour
  MaxRetired    \* bound: sessions that are retired in a behaviour

ASSUME AttemptsAssumption == MaxAttempts \in Nat \ {0} /\ Limit \in Nat \ {0}
ASSUME BoundsAssumption ==
  MaxMessages \in Nat /\ MaxCrashes \in Nat /\ MaxFaults \in Nat /\ MaxRetired \in Nat
ASSUME NoneAssumption == None \notin Sessions \cup Nat
ASSUME WorkersAssumption == IsFiniteSet(Workers)

VARIABLES
  rows,       \* the deliveries table in the order of its rowids
  due,        \* the retries whose next_attempt_at has come
  retired,    \* sessions whose row was deleted
  up,         \* the daemon of a worker runs
  starts,     \* how often a daemon started
  crashes,    \* how often a daemon went down
  faults,     \* how often an exception ended a drain()
  batch,      \* the claimed rows drain() has not dealt with yet
  taken,      \* the provider took the first of them, its answer is on the way
  failing,    \* the first of them was marked failed, and is not announced yet
  posted      \* how often the provider took a row

workerVars == <<up, starts, crashes, faults, batch, taken, failing>>
vars == <<rows, due, retired, workerVars, posted>>

Ids == DOMAIN rows

\* A row: its status, attempts, session_id and metadata.deliveryFallbackFor.
Delivery ==
  [status : {"pending", "sending", "retrying", "delivered", "failed"},
   attempts : Nat,
   session : Sessions \cup {None},
   fallbackFor : Nat \cup {None}]

\* The copy of a row that claimDueDeliveries() returns.
Claim == [id : Nat, attempts : Nat, session : Sessions \cup {None}]

TypeOK ==
  /\ rows \in Seq(Delivery)
  /\ due \subseteq Ids
  /\ retired \subseteq Sessions
  /\ up \in [Workers -> BOOLEAN]
  /\ starts \in Nat /\ crashes \in 0..MaxCrashes /\ faults \in 0..MaxFaults
  /\ batch \in [Workers -> Seq(Claim)]
  /\ taken \in [Workers -> BOOLEAN] /\ failing \in [Workers -> BOOLEAN]
  /\ posted \in [Ids -> Nat]

\* An empty store whose daemons are down.
Init ==
  /\ rows = <<>> /\ due = {} /\ posted = <<>>
  /\ retired = {}
  /\ up = [w \in Workers |-> FALSE]
  /\ starts = 0 /\ crashes = 0 /\ faults = 0
  /\ batch = [w \in Workers |-> <<>>]
  /\ taken = [w \in Workers |-> FALSE] /\ failing = [w \in Workers |-> FALSE]

----------------------------------------------------------------------------
(* The deliveries table *)

\* enqueueDelivery(): a row that is due at once.
EnqueueAsQueued(table, s, origin) ==
  /\ rows' = Append(table,
       [status |-> "queued", attempts |-> 0, session |-> s, fallbackFor |-> origin])
  /\ posted' = Append(posted, 0)

EnqueueDelivery(table, s, origin) ==
  /\ rows' = Append(table,
       [status |-> "pending", attempts |-> 0, session |-> s, fallbackFor |-> origin])
  /\ posted' = Append(posted, 0)

Pending == {d \in Ids : rows[d].status = "pending"}
Retries == {d \in Ids : rows[d].status = "retrying" /\ d \in due}

\* ORDER BY next_attempt_at, created_at: of two pending rows the older is first. Where a
\* retry stands among the others depends on the clock, and is left open.
PrecedesAlways(d, e) == TRUE

Precedes(d, e) == d \in Pending /\ e \in Pending => d < e

\* The rows a claim may return, in order; LIMIT passes over none that comes before them.
Claims ==
  LET fits(ds) == \A k, l \in 1..Len(ds) : k < l => ds[k] # ds[l] /\ Precedes(ds[k], ds[l])
      left(ds) == (Pending \cup Retries) \ {ds[k] : k \in 1..Len(ds)}
  IN  {ds \in UNION {[1..n -> Pending \cup Retries] : n \in 1..Limit} :
         /\ fits(ds)
         /\ left(ds) # {} => Len(ds) = Limit
         /\ \A e \in left(ds), k \in 1..Len(ds) : Precedes(ds[k], e)}

\* claimDueDeliveries(): one transaction; an attempt is charged with the claim.
ChargeLater(row) == [row EXCEPT !.status = "sending"]

Charge(row) == [row EXCEPT !.status = "sending", !.attempts = row.attempts + 1]

ClaimDueDeliveries(w) ==
  \E ds \in Claims :
    LET claimed == {ds[k] : k \in 1..Len(ds)}
    IN  /\ rows' = [d \in Ids |-> IF d \in claimed THEN Charge(rows[d]) ELSE rows[d]]
        /\ batch' = [batch EXCEPT ![w] =
             [k \in 1..Len(ds) |->
                [id |-> ds[k], attempts |-> rows[ds[k]].attempts + 1,
                 session |-> rows[ds[k]].session]]]

\* markDeliveryDelivered(), markDeliveryFailed() and markDeliveryRetry(): an UPDATE that
\* changes the row only while its status is one of `from`.
MarkRegardless(d, from, to) == [rows EXCEPT ![d].status = to]

Mark(d, from, to) ==
  [rows EXCEPT ![d].status = IF @ \in from THEN to ELSE @]

Open == {"pending", "sending", "retrying"}

----------------------------------------------------------------------------
(* drain() *)

\* A worker goes on with the rest of its batch.
ContinueWith(w, rest) ==
  /\ batch' = [batch EXCEPT ![w] = rest]
  /\ taken' = [taken EXCEPT ![w] = FALSE]
  /\ failing' = [failing EXCEPT ![w] = FALSE]

\* The row a worker is at is dealt with.
Pop(w) == ContinueWith(w, Tail(batch[w]))

\* An exception leaves the loop: the rows that are left stay as they are.
EndDrain(w) == ContinueWith(w, <<>>)

\* The timer of the daemon; no drain starts before the last one ended.
Drain(w) ==
  /\ up[w]
  /\ batch[w] = <<>>
  /\ ClaimDueDeliveries(w)
  /\ UNCHANGED <<due, retired, up, starts, crashes, faults, taken, failing, posted>>

\* A worker is in the loop of drain(), at the first row of its batch; it is about to
\* deliver it, or waits for the provider, unless it has given it up.
InLoop(w) == up[w] /\ batch[w] # <<>>
IsDelivering(w) == InLoop(w) /\ ~failing[w]

\* connector.deliver(): the provider takes the message, whatever becomes of its answer.
\* (That Binding, connector, credentials or provider fail is AttemptFails or
\* DeliveryFails, with the message taken or not.)
Deliver(w) ==
  /\ IsDelivering(w)
  /\ ~taken[w]
  /\ taken' = [taken EXCEPT ![w] = TRUE]
  /\ posted' = [posted EXCEPT ![Head(batch[w]).id] = @ + 1]
  /\ UNCHANGED <<rows, due, retired, up, starts, crashes, faults, batch, failing>>

Delivered(w) ==
  /\ IsDelivering(w)
  /\ taken[w]
  /\ rows' = Mark(Head(batch[w]).id, Open, "delivered")
  /\ Pop(w)
  /\ UNCHANGED <<due, retired, up, starts, crashes, faults, posted>>

\* The attempts of the claimed copy are used up.
IsExhausted(claim) == claim.attempts >= MaxAttempts

\* The catch block with attempts left: the row falls due again after a backoff.
AttemptFails(w) ==
  LET claim == Head(batch[w])
  IN  /\ IsDelivering(w)
      /\ ~IsExhausted(claim)
      /\ rows' = Mark(claim.id, {"sending"}, "retrying")
      /\ due' = IF rows[claim.id].status = "sending" THEN due \ {claim.id} ELSE due
      /\ Pop(w)
      /\ UNCHANGED <<retired, up, starts, crashes, faults, posted>>

\* The catch block with none left: the row has failed. The announcement is another
\* statement, after the callback onPermanentFailure().
DeliveryFails(w) ==
  LET claim == Head(batch[w])
  IN  /\ IsDelivering(w)
      /\ IsExhausted(claim)
      /\ rows' = Mark(claim.id, Open, "failed")
      /\ failing' = [failing EXCEPT ![w] = TRUE]
      /\ UNCHANGED <<due, retired, up, starts, crashes, faults, batch, taken, posted>>

\* announceFailure() sends an error message, but not for an error message that is
\* itself the announcement of a failure.
AnnouncesOfSessions(claim) == rows[claim.id].fallbackFor = None /\ claim.session # None

Announces(claim) == rows[claim.id].fallbackFor = None

\* When the session of the claimed copy is gone, the foreign key refuses the announcement.
AnnounceFailure(w) ==
  LET claim == Head(batch[w])
  IN  /\ InLoop(w) /\ failing[w]
      /\ \/ ~Announces(claim) /\ Pop(w) /\ UNCHANGED <<rows, posted>>
         \/ /\ Announces(claim) /\ claim.session \notin retired
            /\ EnqueueDelivery(rows, claim.session, claim.id)
            /\ Pop(w)
         \/ /\ Announces(claim) /\ claim.session \in retired
            /\ EndDrain(w)
            /\ UNCHANGED <<rows, posted>>
      /\ UNCHANGED <<due, retired, up, starts, crashes, faults>>

\* A statement or the callback of the catch block throws (the store is locked too long, the
\* disk is full): nothing catches it within drain().
Throw(w) ==
  /\ InLoop(w)
  /\ faults < MaxFaults
  /\ faults' = faults + 1
  /\ EndDrain(w)
  /\ UNCHANGED <<rows, due, retired, up, starts, crashes, posted>>

----------------------------------------------------------------------------
(* The daemons and what goes on beside them *)

\* SessionCoordinator enqueues a message, of a session or before there is one.
Enqueue(s) ==
  /\ \E w \in Workers : up[w] /\ ~failing[w]
  /\ s \notin retired
  /\ Cardinality({d \in Ids : rows[d].fallbackFor = None}) < MaxMessages
  /\ EnqueueDelivery(rows, s, None)
  /\ UNCHANGED <<due, retired, workerVars>>

\* next_attempt_at of a retry comes.
FallsDue(d) ==
  /\ d \in Ids \ due
  /\ rows[d].status = "retrying"
  /\ due' = due \cup {d}
  /\ UNCHANGED <<rows, retired, workerVars, posted>>

\* The retention cleaner or `sessions retire` deletes a session that is not active; its
\* deliveries stay (ON DELETE SET NULL).
Retire(s) ==
  /\ s \notin retired
  /\ Cardinality(retired) < MaxRetired
  /\ retired' = retired \cup {s}
  /\ rows' = [d \in Ids |-> [rows[d] EXCEPT !.session = IF @ = s THEN None ELSE @]]
  /\ UNCHANGED <<due, workerVars, posted>>

\* A daemon stops or dies; what it was sending stays "sending".
Crash(w) ==
  /\ up[w]
  /\ crashes < MaxCrashes
  /\ crashes' = crashes + 1
  /\ up' = [up EXCEPT ![w] = FALSE]
  /\ EndDrain(w)
  /\ UNCHANGED <<rows, due, retired, starts, faults, posted>>

\* recoverSendingDeliveries(): every row that is being sent is retried at once.
RecoverNothing == UNCHANGED <<rows, due>>

RecoverSendingDeliveries ==
  LET sending == {d \in Ids : rows[d].status = "sending"}
  IN  /\ rows' = [d \in Ids |->
           IF d \in sending THEN [rows[d] EXCEPT !.status = "retrying"] ELSE rows[d]]
      /\ due' = due \cup sending

\* recoverAfterCrash(), before the timers of the daemon are set.
Start(w) ==
  /\ ~up[w]
  /\ up' = [up EXCEPT ![w] = TRUE]
  /\ starts' = starts + 1
  /\ RecoverSendingDeliveries
  /\ UNCHANGED <<retired, crashes, faults, batch, taken, failing, posted>>

Settle(w) == Delivered(w) \/ AttemptFails(w) \/ DeliveryFails(w) \/ AnnounceFailure(w)

Next ==
  \/ \E s \in Sessions \cup {None} : Enqueue(s)
  \/ \E w \in Workers : Drain(w) \/ Deliver(w) \/ Settle(w) \/ Throw(w) \/ Crash(w) \/ Start(w)
  \/ \E d \in Ids : FallsDue(d)
  \/ \E s \in Sessions : Retire(s)

\* The timer fires, a call to a provider ends, a retry falls due, and a daemon that went
\* down is started again (systemd and launchd do; a terminal's user does).
Fairness ==
  /\ \A w \in Workers : WF_vars(Drain(w)) /\ WF_vars(Settle(w)) /\ WF_vars(Start(w))
  /\ WF_vars(\E d \in Ids : FallsDue(d))

Spec == Init /\ [][Next]_vars /\ Fairness

----------------------------------------------------------------------------
(* Properties *)

\* Nothing but daemons that go down took rows out of the hands of a worker.
Undisturbed == retired = {} /\ faults = 0

\* No row is stranded: what the table calls "sending" is in the hands of a worker, unless
\* a daemon is down, whose start will recover it. (An exception that ends drain() strands
\* rows, that of a retired session among them, see FailureSurfaced.)
SendingIsHeld ==
  (\A w \in Workers : up[w]) /\ Undisturbed =>
    \A d \in Ids : rows[d].status = "sending" =>
      \E w \in Workers : \E k \in 1..Len(batch[w]) : batch[w][k].id = d

\* A delivered or failed row stays as it is, whatever a second daemon that holds an older
\* copy of it still reports.
SettledIsFinal ==
  [][\A d \in Ids : rows[d].status \in {"delivered", "failed"} =>
       rows'[d].status = rows[d].status]_vars

\* A message is repeated only within bounds: every time the provider took it was charged
\* as an attempt before, and only a daemon's start grants one beyond maxAttempts.
AttemptsBounded ==
  \A d \in Ids :
    /\ posted[d] <= rows[d].attempts
    /\ rows[d].attempts > 0 => rows[d].attempts < MaxAttempts + starts

\* First attempts come in the order of creation: a message is not tried before an older
\* one was, whatever retries, limits and restarts do to the claims.
FirstAttemptsInOrder ==
  \A d, e \in Ids : d < e /\ rows[e].attempts > 0 => rows[d].attempts > 0

IsAnnounced(d) == \E f \in Ids : rows[f].fallbackFor = d

\* Messages that failed for good, of which no row says so and no worker is about to.
Unannounced ==
  {d \in Ids : /\ rows[d].status = "failed" /\ rows[d].fallbackFor = None /\ ~IsAnnounced(d)
               /\ ~\E w \in Workers : failing[w] /\ Head(batch[w]).id = d}

\* A message that failed for good is followed by an error message that says so. (Not so
\* when the daemon goes down between the two statements, when one of them throws, or when
\* the session was retired since the claim.)
FailureSurfaced == Unannounced = {}

\* Each crash and each exception costs one announcement at most, whichever daemon it hits
\* and however many hold copies of one row; and no error message that announces a failure
\* is announced itself. (A session that is retired costs that of each of its rows.)
FailureSurfacedUnlessLost ==
  /\ retired = {} => Cardinality(Unannounced) <= crashes + faults
  /\ \A f \in Ids : rows[f].fallbackFor # None => ~IsAnnounced(f)

\* Every message is delivered or given up, through failures and crashes. (Not so once a
\* session was retired or an exception ended a drain(): what that leaves "sending" waits
\* for the next start of a daemon.)
DeliveryEnds ==
  \A d \in 1..MaxMessages :
    d \in Ids ~> ~Undisturbed \/ (d \in Ids /\ rows[d].status \in {"delivered", "failed"})
=============================================================================
