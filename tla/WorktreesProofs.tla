----------------------------- MODULE WorktreesProofs -----------------------------
(***************************************************************************)
(* Proofs about Worktrees, for any Sessions, conversations, retention and  *)
(* clock, however many processes are killed: when operators retire failed  *)
(* Sessions only, a Session in use has its worktree, and what is removed   *)
(* is in no turn.                                                          *)
(*                                                                         *)
(* The first is not inductive as it stands: that a Session is not in use   *)
(* was looked at several awaits before its worktree goes. What makes it    *)
(* last is that a Session past its retention is not found by accept(), and *)
(* that a failed one is not resumed.                                       *)
(***************************************************************************)
EXTENDS Worktrees, TLAPS

----------------------------------------------------------------------------
(* The inductive invariant *)

\* A turn is of a running Session, or of one that was stopped and is still retained.
TurnsAreKept ==
  \A s \in turns :
    /\ row[s] # None
    /\ \/ row[s].status = "running"
       \/ row[s].status = "stopped" /\ ~HasExpired(s, now)

\* What is scheduled waits for its turn, or was stopped or retired meanwhile.
QueueIsIdle ==
  \A s \in queue : s \notin turns /\ (row[s] # None => row[s].status \in {"queued", "stopped"})

\* A daemon that is not up has nothing in memory.
DownIsIdle ==
  daemon # "up" => turns = {} /\ queue = {} /\ \A s \in Sessions : creating[s] = None

\* A row comes after its worktree, and while a worktree is made there is none.
RowHasTree ==
  \A s \in Sessions :
    /\ row[s] # None => tree[s] # "unused"
    /\ creating[s] # None => row[s] = None

\* What the processes that remove worktrees have on their lists can never be used again.
Spent(p, s, at) ==
  /\ tree[s] # "unused" /\ creating[s] = None
  /\ row[s] # None =>
       IF p = "retire" THEN row[s].status = "failed"
       ELSE row[s].status \notin Live /\ HasExpired(s, at)

ListsAreSpent ==
  \A p \in Processes : proc[p] # Idle =>
    /\ proc[p].at <= now
    /\ \A s \in {proc[p].session} \cup proc[p].todo : Spent(p, s, proc[p].at)

IInv ==
  /\ TypeOK
  /\ TurnsAreKept /\ QueueIsIdle /\ DownIsIdle /\ RowHasTree /\ ListsAreSpent
  /\ HasWorktree

RetiresFailed == Retirable \subseteq {"failed"}

----------------------------------------------------------------------------
(* Types *)

LEMMA IdleIsIdle == Idle.pc = "idle" /\ Idle \notin Busy
BY DEF Idle, Busy

LEMMA NoneIsNothing ==
  /\ None \notin Sessions /\ None \notin Conversations /\ None \notin Nat /\ None \notin Row
BY NoneAssumption

\* What TransitionSession does.
LEMMA Transition ==
  ASSUME TypeOK, NEW s \in Sessions, row[s] # None, NEW next \in Live \cup Settled,
         TransitionSession(s, next)
  PROVE  \E r \in Row :
           /\ row' = [row EXCEPT ![s] = r]
           /\ r.conversation = row[s].conversation /\ r.status = next
           /\ r.expires = IF next \in {"completed", "failed", "stopped"}
                          THEN now + RetentionMs ELSE row[s].expires
<1>1. row[s] \in Row /\ now \in Nat /\ RetentionMs \in Nat
  BY RetentionAssumption, BoundsAssumption DEF TypeOK
<1>2. PICK e : e = IF next \in {"completed", "failed", "stopped"}
                   THEN now + RetentionMs ELSE row[s].expires
  OBVIOUS
<1>3. e \in Nat \cup {None}
  BY <1>1, <1>2 DEF Row
<1> DEFINE r == [row[s] EXCEPT !.status = next, !.expires = e]
<1>4. /\ r \in Row /\ r.conversation = row[s].conversation
      /\ r.status = next /\ r.expires = e
  BY ONLY <1>1, <1>3, next \in Live \cup Settled DEF Row
<1>5. row' = [row EXCEPT ![s] = r]
  BY <1>2 DEF TransitionSession
<1> HIDE DEF r
<1>6. QED BY <1>2, <1>4, <1>5

\* What Advance does.
LEMMA Advanced ==
  ASSUME TypeOK, NEW p \in Processes, proc[p] # Idle,
         NEW pc \in {"check", "status", "remove", "settle"}, Advance(p, pc)
  PROVE  \E q \in Busy :
           /\ proc' = [proc EXCEPT ![p] = q]
           /\ q.pc = pc /\ q.session = proc[p].session
           /\ q.todo = proc[p].todo /\ q.at = proc[p].at
<1>1. proc[p] \in Busy
  BY DEF TypeOK
<1> DEFINE q == [proc[p] EXCEPT !.pc = pc]
<1>2. /\ q \in Busy /\ q.pc = pc /\ q.session = proc[p].session
      /\ q.todo = proc[p].todo /\ q.at = proc[p].at
  BY ONLY <1>1, pc \in {"check", "status", "remove", "settle"} DEF Busy
<1>3. proc' = [proc EXCEPT ![p] = q]
  BY DEF Advance
<1> HIDE DEF q
<1>4. QED BY <1>2, <1>3

----------------------------------------------------------------------------
(* It holds initially *)

LEMMA InitInv == Init => IInv
<1> SUFFICES ASSUME Init PROVE IInv
  OBVIOUS
<1>1. TypeOK
  BY BoundsAssumption DEF Init, TypeOK
<1>2. TurnsAreKept /\ QueueIsIdle /\ DownIsIdle /\ RowHasTree /\ ListsAreSpent
  BY DEF Init, TurnsAreKept, QueueIsIdle, DownIsIdle, RowHasTree, ListsAreSpent
<1>3. HasWorktree
  BY DEF Init, HasWorktree, InUse, Rows
<1>4. QED BY <1>1, <1>2, <1>3 DEF IInv

----------------------------------------------------------------------------
(* Steps of the daemon *)

LEMMA StartSessionInv ==
  ASSUME IInv, NEW c \in Conversations, NEW s \in Sessions, StartSession(c, s)
  PROVE  IInv'
<1>1. /\ creating' = [creating EXCEPT ![s] = c] /\ tree[s] = "unused"
      /\ UNCHANGED <<now, row, tree, daemon, queue, turns, proc, crashes>>
  BY DEF StartSession
<1>2. TypeOK'
  BY <1>1 DEF IInv, TypeOK
<1>3. row[s] = None
  BY <1>1 DEF IInv, RowHasTree
<1>4. RowHasTree'
  BY <1>1, <1>3 DEF IInv, TypeOK, RowHasTree
<1>5. ListsAreSpent'
  <2>1. ASSUME NEW p \in Processes, NEW t \in Sessions, Spent(p, t, proc[p].at)
        PROVE  Spent(p, t, proc[p].at)'
    BY <1>1, <2>1 DEF IInv, TypeOK, Spent, HasExpired
  <2>2. QED BY <1>1, <2>1 DEF IInv, TypeOK, ListsAreSpent, Busy
<1>6. TurnsAreKept' /\ QueueIsIdle' /\ DownIsIdle' /\ HasWorktree'
  BY <1>1 DEF StartSession, IInv, TurnsAreKept, QueueIsIdle, DownIsIdle, HasExpired, HasWorktree, InUse, Rows, Found
<1>7. QED BY <1>2, <1>4, <1>5, <1>6 DEF IInv

LEMMA AddWorktreeInv ==
  ASSUME IInv, NEW s \in Sessions, AddWorktree(s) \/ AddWorktreeFails(s)
  PROVE  IInv'
<1>1. /\ creating[s] # None /\ tree[s] = "unused"
      /\ UNCHANGED <<now, row, daemon, queue, turns, proc, crashes>>
  BY DEF AddWorktree, AddWorktreeFails, memory
<1>2. PICK left \in {"clean", "gone"} : tree' = [tree EXCEPT ![s] = left]
  BY DEF AddWorktree, AddWorktreeFails
<1>3. creating' = creating \/ creating' = [creating EXCEPT ![s] = None]
  BY DEF AddWorktree, AddWorktreeFails, memory
<1>4. row[s] = None /\ s \notin turns
  BY <1>1 DEF IInv, RowHasTree, TurnsAreKept
<1>5. TypeOK'
  BY <1>1, <1>2, <1>3 DEF IInv, TypeOK
<1>6. RowHasTree'
  BY <1>1, <1>2, <1>3, <1>4 DEF IInv, TypeOK, RowHasTree
<1>7. ListsAreSpent'
  <2>1. ASSUME NEW p \in Processes, NEW t \in Sessions, Spent(p, t, proc[p].at)
        PROVE  Spent(p, t, proc[p].at)'
    BY <1>1, <1>2, <1>3, <2>1 DEF IInv, TypeOK, Spent, HasExpired
  <2>2. QED BY <1>1, <2>1 DEF IInv, TypeOK, ListsAreSpent, Busy
<1>8. TurnsAreKept' /\ QueueIsIdle' /\ DownIsIdle'
  BY <1>1, <1>3 DEF IInv, TypeOK, TurnsAreKept, QueueIsIdle, DownIsIdle, HasExpired
<1>9. HasWorktree'
  BY <1>1, <1>2, <1>4 DEF IInv, TypeOK, HasWorktree, InUse, Rows, Found, HasExpired
<1>10. QED BY <1>5, <1>6, <1>7, <1>8, <1>9 DEF IInv

LEMMA WorkInv ==
  ASSUME IInv, NEW s \in Sessions, Work(s)
  PROVE  IInv'
<1>1. /\ tree[s] \in {"clean", "dirty"}
      /\ UNCHANGED <<now, row, daemon, creating, queue, turns, proc, crashes>>
  BY DEF Work, memory
<1>2. PICK work \in {"clean", "dirty"} : tree' = [tree EXCEPT ![s] = work]
  BY DEF Work
<1>3. TypeOK' /\ RowHasTree'
  BY <1>1, <1>2 DEF IInv, TypeOK, RowHasTree
<1>4. ListsAreSpent'
  <2>1. ASSUME NEW p \in Processes, NEW t \in Sessions, Spent(p, t, proc[p].at)
        PROVE  Spent(p, t, proc[p].at)'
    BY <1>1, <1>2, <2>1 DEF IInv, TypeOK, Spent, HasExpired
  <2>2. QED BY <1>1, <2>1 DEF IInv, TypeOK, ListsAreSpent, Busy
<1>5. TurnsAreKept' /\ QueueIsIdle' /\ DownIsIdle'
  BY <1>1 DEF IInv, TurnsAreKept, QueueIsIdle, DownIsIdle, HasExpired
<1>6. HasWorktree'
  BY <1>1, <1>2 DEF IInv, TypeOK, HasWorktree, InUse, Rows, Found, HasExpired
<1>7. QED BY <1>3, <1>4, <1>5, <1>6 DEF IInv

\* A Session that is live or can be resumed moves on.
LEMMA RowMoves ==
  ASSUME IInv, NEW s \in Sessions, row[s] # None,
         row[s].status \in Live \/ (row[s].status # "failed" /\ ~HasExpired(s, now)),
         NEW r \in Row, row' = [row EXCEPT ![s] = r],
         queue' \subseteq queue \cup {s}, turns' \subseteq turns \cup {s},
         UNCHANGED <<now, tree, daemon, creating, proc, crashes>>,
         TurnsAreKept', QueueIsIdle', DownIsIdle'
  PROVE  IInv'
<1>1. TypeOK'
  BY DEF IInv, TypeOK
<1>2. RowHasTree'
  BY DEF IInv, TypeOK, RowHasTree
<1>3. ListsAreSpent'
  <2>1. ASSUME NEW p \in Processes, proc[p] # Idle, NEW t \in Sessions,
               t \in {proc[p].session} \cup proc[p].todo
        PROVE  Spent(p, t, proc[p].at)'
    <3>1. Spent(p, t, proc[p].at) /\ proc[p].at <= now /\ proc[p].at \in Nat /\ now \in Nat
      BY <2>1 DEF IInv, ListsAreSpent, TypeOK, Busy
    <3>2. t # s
      BY <3>1 DEF IInv, TypeOK, Spent, HasExpired, Live, Row
    <3>3. QED BY <3>1, <3>2 DEF IInv, TypeOK, Spent, HasExpired
  <2>2. QED BY <2>1 DEF IInv, TypeOK, ListsAreSpent, Busy
<1>4. HasWorktree'
  <2>1. tree[s] \in {"clean", "dirty"}
    BY DEF IInv, HasWorktree, InUse, Rows, Found
  <2>2. QED BY <2>1 DEF IInv, TypeOK, HasWorktree, InUse, Rows, Found, HasExpired
<1>5. QED BY <1>1, <1>2, <1>3, <1>4 DEF IInv

LEMMA ResumeSessionInv ==
  ASSUME IInv, NEW c \in Conversations, NEW s \in Sessions, ResumeSession(c, s)
  PROVE  IInv'
<1>1. /\ s \notin turns /\ row[s] # None
      /\ row[s].status # "failed" /\ ~HasExpired(s, now)
      /\ queue' = queue \cup {s} /\ TransitionSession(s, "queued")
      /\ UNCHANGED <<now, tree, daemon, creating, turns, proc, crashes>>
  BY DEF ResumeSession, Found, Rows
<1>2. PICK r \in Row : row' = [row EXCEPT ![s] = r] /\ r.status = "queued"
  BY <1>1, Transition DEF IInv, Live
<1>3. TurnsAreKept' /\ QueueIsIdle' /\ DownIsIdle'
  BY <1>1, <1>2
     DEF ResumeSession, IInv, TypeOK, TurnsAreKept, QueueIsIdle, DownIsIdle, HasExpired
<1>4. QED BY <1>1, <1>2, <1>3, RowMoves

LEMMA ExecuteInv ==
  ASSUME IInv, NEW s \in Sessions, Execute(s)
  PROVE  IInv'
<1>1. /\ s \in queue /\ s \notin turns /\ queue' = queue \ {s}
      /\ UNCHANGED <<now, tree, daemon, creating, proc, crashes>>
  BY DEF Execute
<1>2. CASE UNCHANGED <<row, turns>>
  <2>1. TypeOK' /\ TurnsAreKept' /\ QueueIsIdle' /\ DownIsIdle' /\ RowHasTree'
    BY <1>1, <1>2 DEF IInv, TypeOK, TurnsAreKept, QueueIsIdle, DownIsIdle, RowHasTree, HasExpired
  <2>2. ListsAreSpent' /\ HasWorktree'
    BY <1>1, <1>2
       DEF IInv, ListsAreSpent, Spent, HasExpired, HasWorktree, InUse, Rows, Found
  <2>3. QED BY <2>1, <2>2 DEF IInv
<1>3. CASE /\ row[s] # None /\ row[s].status # "stopped"
           /\ TransitionSession(s, "running") /\ turns' = turns \cup {s}
  <2>1. row[s].status \in Live
    BY <1>1, <1>3 DEF IInv, QueueIsIdle, Live
  <2>2. PICK r \in Row : row' = [row EXCEPT ![s] = r] /\ r.status = "running"
    BY <1>3, Transition DEF IInv, Live
  <2>3. TurnsAreKept' /\ QueueIsIdle' /\ DownIsIdle'
    BY <1>1, <1>3, <2>2, NoneIsNothing
       DEF IInv, TypeOK, TurnsAreKept, QueueIsIdle, DownIsIdle, HasExpired
  <2>4. QED BY <1>1, <1>3, <2>1, <2>2, <2>3, RowMoves
<1>4. QED BY <1>2, <1>3 DEF Execute

LEMMA EndTurnInv ==
  ASSUME IInv, NEW s \in Sessions, EndTurn(s)
  PROVE  IInv'
<1>1. /\ s \in turns /\ turns' = turns \ {s}
      /\ UNCHANGED <<now, tree, daemon, creating, queue, proc, crashes>>
  BY DEF EndTurn
<1>2. CASE UNCHANGED row
  <2>1. TypeOK' /\ TurnsAreKept' /\ QueueIsIdle' /\ DownIsIdle' /\ RowHasTree'
    BY <1>1, <1>2 DEF IInv, TypeOK, TurnsAreKept, QueueIsIdle, DownIsIdle, RowHasTree, HasExpired
  <2>2. ListsAreSpent' /\ HasWorktree'
    BY <1>1, <1>2
       DEF IInv, ListsAreSpent, Spent, HasExpired, HasWorktree, InUse, Rows, Found
  <2>3. QED BY <2>1, <2>2 DEF IInv
<1>3. CASE /\ row[s] # None /\ row[s].status # "stopped"
           /\ \E outcome \in {"completed", "failed", "interrupted"} :
                TransitionSession(s, outcome)
  <2>1. row[s].status \in Live /\ s \notin queue
    BY <1>1, <1>3 DEF IInv, TurnsAreKept, QueueIsIdle, DownIsIdle, Live
  <2>2. PICK r \in Row : row' = [row EXCEPT ![s] = r]
    BY <1>3, Transition DEF IInv, Settled
  <2>3. TurnsAreKept' /\ QueueIsIdle' /\ DownIsIdle'
    BY <1>1, <2>1, <2>2 DEF IInv, TypeOK, TurnsAreKept, QueueIsIdle, DownIsIdle, HasExpired
  <2>4. QED BY <1>1, <1>3, <2>1, <2>2, <2>3, RowMoves
<1>4. QED BY <1>2, <1>3 DEF EndTurn

LEMMA StopInv ==
  ASSUME IInv, NEW c \in Conversations, NEW s \in Sessions, Stop(c, s)
  PROVE  IInv'
<1>1. /\ row[s] # None /\ row[s].status \in Live /\ TransitionSession(s, "stopped")
      /\ UNCHANGED <<now, tree, daemon, creating, queue, turns, proc, crashes>>
  BY DEF Stop, Found, Rows, memory
<1>2. PICK r \in Row : /\ row' = [row EXCEPT ![s] = r]
                       /\ r.status = "stopped" /\ r.expires = now + RetentionMs
  BY <1>1, Transition DEF IInv, Settled
<1>3. r # None /\ now \in Nat /\ RetentionMs \in Nat \ {0} /\ None \notin Nat
  BY NoneIsNothing, RetentionAssumption, BoundsAssumption DEF IInv, TypeOK
<1>4. TurnsAreKept'
  <2>1. ~HasExpired(s, now)'
    BY <1>1, <1>2, <1>3 DEF IInv, TypeOK, HasExpired
  <2>2. QED BY <1>1, <1>2, <1>3, <2>1 DEF IInv, TypeOK, TurnsAreKept, HasExpired
<1>5. QueueIsIdle' /\ DownIsIdle'
  BY <1>1, <1>2 DEF IInv, TypeOK, QueueIsIdle, DownIsIdle
<1>6. QED BY <1>1, <1>2, <1>4, <1>5, RowMoves

LEMMA CreateSessionInv ==
  ASSUME IInv, NEW s \in Sessions, CreateSession(s)
  PROVE  IInv'
<1>1. /\ creating[s] \in Conversations /\ creating[s] # None /\ tree[s] = "clean"
      /\ row[s] = None /\ creating' = [creating EXCEPT ![s] = None]
      /\ UNCHANGED <<now, tree, daemon, turns, proc, crashes>>
  BY DEF CreateSession, IInv, TypeOK, RowHasTree
<1>2. s \notin turns
  BY <1>1 DEF IInv, TurnsAreKept
<1>3. ASSUME NEW p \in Processes, proc[p] # Idle, NEW t \in Sessions,
             t \in {proc[p].session} \cup proc[p].todo
      PROVE  t # s /\ Spent(p, t, proc[p].at)
  BY <1>1, <1>3 DEF IInv, ListsAreSpent, Spent
<1>4. CASE UNCHANGED <<row, queue>>
  <2>1. TypeOK' /\ TurnsAreKept' /\ QueueIsIdle' /\ DownIsIdle' /\ RowHasTree'
    BY <1>1, <1>4 DEF IInv, TypeOK, TurnsAreKept, QueueIsIdle, DownIsIdle, RowHasTree, HasExpired
  <2>2. ListsAreSpent'
    BY <1>1, <1>4 DEF IInv, TypeOK, ListsAreSpent, Spent, HasExpired, Busy
  <2>3. HasWorktree'
    BY <1>1, <1>4 DEF IInv, HasWorktree, InUse, Rows, Found, HasExpired
  <2>4. QED BY <2>1, <2>2, <2>3 DEF IInv
<1>5. CASE /\ queue' = queue \cup {s}
           /\ row' = [row EXCEPT ![s] = [conversation |-> creating[s],
                                         status |-> "queued", expires |-> None]]
  <2> DEFINE r == [conversation |-> creating[s], status |-> "queued", expires |-> None]
  <2>1. r \in Row /\ r.status = "queued" /\ row' = [row EXCEPT ![s] = r]
    BY <1>1, <1>5 DEF Row, Live
  <2> HIDE DEF r
  <2>2. TypeOK'
    BY <1>1, <1>5, <2>1 DEF IInv, TypeOK
  <2>3. TurnsAreKept' /\ QueueIsIdle' /\ DownIsIdle' /\ RowHasTree'
    BY <1>1, <1>2, <1>5, <2>1
       DEF IInv, TypeOK, TurnsAreKept, QueueIsIdle, DownIsIdle, RowHasTree, HasExpired
  <2>4. ListsAreSpent'
    <3>1. ASSUME NEW p \in Processes, proc[p] # Idle, NEW t \in Sessions,
                 t \in {proc[p].session} \cup proc[p].todo
          PROVE  Spent(p, t, proc[p].at)'
      BY <1>1, <1>3, <2>1, <3>1 DEF IInv, TypeOK, Spent, HasExpired
    <3>2. QED BY <1>1, <3>1 DEF IInv, TypeOK, ListsAreSpent, Busy
  <2>5. HasWorktree'
    BY <1>1, <2>1 DEF IInv, TypeOK, HasWorktree, InUse, Rows, Found, HasExpired
  <2>6. QED BY <2>2, <2>3, <2>4, <2>5 DEF IInv
<1>6. QED BY <1>4, <1>5 DEF CreateSession

----------------------------------------------------------------------------
(* Starts, crashes and the clock *)

\* recoverInterrupted() marks a row.
LEMMA Interrupted ==
  ASSUME NEW r \in Row
  PROVE  LET i == [r EXCEPT !.status = "interrupted"]
         IN  /\ i \in Row /\ i.status = "interrupted"
             /\ i.expires = r.expires /\ i.conversation = r.conversation
BY DEF Row, Live, Settled

LEMMA StartDaemonInv ==
  ASSUME IInv, StartDaemon
  PROVE  IInv'
<1>1. /\ turns = {} /\ queue = {} /\ daemon' = "starting"
      /\ \A s \in Sessions : creating[s] = None
      /\ UNCHANGED <<now, tree, creating, queue, turns, proc, crashes>>
  BY DEF StartDaemon, IInv, DownIsIdle, memory
<1>2. /\ row' \in [Sessions -> Row \cup {None}]
      /\ \A s \in Sessions :
           \/ row'[s] = row[s]
           \/ /\ row[s] \in Row /\ row[s] # None /\ row[s].status = "running"
              /\ row'[s] \in Row /\ row'[s].status = "interrupted"
  <2> DEFINE R(s) == IF s \in {t \in Rows : row[t].status = "running"}
                     THEN [row[s] EXCEPT !.status = "interrupted"] ELSE row[s]
  <2>1. row' = [s \in Sessions |-> R(s)]
    BY DEF StartDaemon
  <2>2. ASSUME NEW s \in Sessions
        PROVE  /\ R(s) \in Row \cup {None}
               /\ \/ R(s) = row[s]
                  \/ /\ row[s] \in Row /\ row[s] # None /\ row[s].status = "running"
                     /\ R(s) \in Row /\ R(s).status = "interrupted"
    <3>1. row[s] \in Row \cup {None}
      BY DEF IInv, TypeOK
    <3>2. CASE s \in {t \in Rows : row[t].status = "running"}
      <4>1. row[s] \in Row /\ row[s] # None /\ row[s].status = "running"
        BY <3>1, <3>2 DEF Rows
      <4>2. R(s) = [row[s] EXCEPT !.status = "interrupted"]
        BY <3>2
      <4>3. R(s) \in Row /\ R(s).status = "interrupted"
        BY <4>1, <4>2, Interrupted
      <4>4. QED BY <4>1, <4>3
    <3>3. CASE s \notin {t \in Rows : row[t].status = "running"}
      BY <3>1, <3>3
    <3>4. QED BY <3>2, <3>3
  <2> HIDE DEF R
  <2>3. QED BY <2>1, <2>2
<1>3. TypeOK'
  BY <1>1, <1>2 DEF IInv, TypeOK
<1>4. TurnsAreKept' /\ QueueIsIdle' /\ DownIsIdle' /\ RowHasTree'
  BY <1>1, <1>2 DEF IInv, TypeOK, TurnsAreKept, QueueIsIdle, DownIsIdle, RowHasTree
<1>5. ListsAreSpent'
  <2>1. ASSUME NEW p \in Processes, NEW s \in Sessions, Spent(p, s, proc[p].at)
        PROVE  Spent(p, s, proc[p].at)'
    <3>1. row'[s] = row[s]
      BY <1>2, <2>1 DEF Spent, Live
    <3>2. QED BY <1>1, <2>1, <3>1 DEF Spent, HasExpired
  <2>2. QED BY <1>1, <2>1 DEF IInv, TypeOK, ListsAreSpent, Busy
<1>6. HasWorktree'
  <2>1. ASSUME NEW s \in Sessions, InUse(s)'
        PROVE  InUse(s)
    BY <1>1, <1>2, <2>1 DEF InUse, Rows, Found, HasExpired, Live
  <2>2. QED BY <1>1, <2>1 DEF IInv, HasWorktree
<1>7. QED BY <1>3, <1>4, <1>5, <1>6 DEF IInv

LEMMA TickInv ==
  ASSUME IInv, Tick
  PROVE  IInv'
<1>1. /\ now' = now + 1 /\ now \in Nat /\ now < MaxTime /\ MaxTime \in Nat
      /\ UNCHANGED <<row, tree, daemon, creating, queue, turns, proc, crashes>>
  BY BoundsAssumption DEF Tick, memory, IInv, TypeOK
<1>2. TypeOK'
  BY <1>1 DEF IInv, TypeOK
<1>3. ASSUME NEW s \in Sessions, NEW at \in Nat, row[s] # None
      PROVE  HasExpired(s, at)' <=> HasExpired(s, at)
  BY <1>1 DEF HasExpired
<1>4. ASSUME NEW s \in Sessions, row[s] # None, HasExpired(s, now)
      PROVE  HasExpired(s, now)'
  BY <1>1, <1>4 DEF IInv, TypeOK, HasExpired, Row
<1>5. TurnsAreKept'
  BY <1>1 DEF Tick, IInv, TypeOK, TurnsAreKept, HasExpired, Rows
<1>6. QueueIsIdle' /\ DownIsIdle' /\ RowHasTree'
  BY <1>1 DEF IInv, QueueIsIdle, DownIsIdle, RowHasTree
<1>7. ListsAreSpent'
  BY <1>1 DEF IInv, TypeOK, ListsAreSpent, Spent, HasExpired, Busy
<1>8. HasWorktree'
  <2>1. ASSUME NEW s \in Sessions, InUse(s)'
        PROVE  InUse(s)
    BY <1>1, <1>4, <2>1 DEF InUse, Rows, Found, HasExpired
  <2>2. QED BY <1>1, <2>1 DEF IInv, HasWorktree
<1>9. QED BY <1>2, <1>5, <1>6, <1>7, <1>8 DEF IInv

----------------------------------------------------------------------------
(* Steps of the processes that remove worktrees *)

\* What is on a list is not in use.
LEMMA SpentIsNotInUse ==
  ASSUME IInv, NEW p \in Processes, NEW s \in Sessions, NEW at \in Nat, at <= now,
         Spent(p, s, at)
  PROVE  s \notin turns /\ ~InUse(s)
<1>1. now \in Nat /\ row[s] \in Row \cup {None}
  BY BoundsAssumption DEF IInv, TypeOK
<1>2. CASE row[s] = None
  BY <1>2 DEF IInv, TurnsAreKept, InUse, Rows
<1>3. CASE row[s] # None /\ p = "retire"
  BY <1>3 DEF Spent, IInv, TurnsAreKept, InUse, Live
<1>4. CASE row[s] # None /\ p # "retire"
  <2>1. row[s].status \notin Live /\ HasExpired(s, now)
    BY <1>1, <1>4 DEF Spent, HasExpired, Row
  <2>2. QED BY <2>1 DEF IInv, TurnsAreKept, InUse, Found, Live
<1>5. QED BY <1>2, <1>3, <1>4

\* A process goes on, and may have removed the worktree or the row it was at.
LEMMA Removes ==
  ASSUME IInv, NEW p \in Processes, NEW q \in Busy \cup {Idle},
         proc' = [proc EXCEPT ![p] = q],
         q # Idle => /\ q.at <= now
                     /\ \A s \in {q.session} \cup q.todo : Spent(p, s, q.at),
         daemon' \in {"down", "starting", "up"}, daemon' = "up" \/ daemon # "up",
         crashes' \in 0..MaxCrashes,
         UNCHANGED <<now, creating, queue, turns>>,
         NEW s \in Sessions,
         \/ UNCHANGED <<row, tree>>
         \/ /\ s \notin turns /\ ~InUse(s) /\ tree[s] # "unused"
            /\ row' \in {row, [row EXCEPT ![s] = None]}
            /\ tree' \in {tree, [tree EXCEPT ![s] = "gone"]}
  PROVE  IInv'
<1>1. TypeOK'
  BY DEF IInv, TypeOK
<1>2. TurnsAreKept' /\ QueueIsIdle' /\ DownIsIdle' /\ RowHasTree'
  BY DEF IInv, TypeOK, TurnsAreKept, QueueIsIdle, DownIsIdle, RowHasTree, HasExpired
<1>3. ListsAreSpent'
  <2>1. ASSUME NEW r \in Processes, NEW t \in Sessions, NEW at, Spent(r, t, at)
        PROVE  /\ tree'[t] # "unused" /\ creating'[t] = None
               /\ row'[t] # None =>
                    IF r = "retire" THEN row'[t].status = "failed"
                    ELSE row'[t].status \notin Live
                         /\ row'[t].expires # None /\ row'[t].expires <= at
    BY <2>1 DEF IInv, TypeOK, Spent, HasExpired
  <2>2. ASSUME NEW r \in Processes, proc'[r] # Idle, NEW t \in {proc'[r].session} \cup proc'[r].todo
        PROVE  proc'[r].at <= now /\ t \in Sessions /\ Spent(r, t, proc'[r].at)
    BY <2>2 DEF IInv, TypeOK, ListsAreSpent, Busy
  <2>3. QED BY <2>1, <2>2 DEF ListsAreSpent, Spent, HasExpired
<1>4. HasWorktree'
  BY DEF IInv, TypeOK, HasWorktree, InUse, Rows, Found, HasExpired
<1>5. QED BY <1>1, <1>2, <1>3, <1>4 DEF IInv

\* Where a process may go without endangering what is in use.
MovesOn(p) ==
  /\ \E q \in Busy \cup {Idle} :
       /\ proc' = [proc EXCEPT ![p] = q]
       /\ q # Idle => /\ q.at <= now
                      /\ \A s \in {q.session} \cup q.todo : Spent(p, s, q.at)
  /\ daemon' \in {"down", "starting", "up"}
  /\ daemon' = "up" \/ daemon # "up"

LEMMA FailMovesOn ==
  ASSUME IInv, NEW p \in Processes, Fail(p)
  PROVE  MovesOn(p)
BY DEF Fail, MovesOn, IInv, TypeOK

LEMMA ContinueMovesOn ==
  ASSUME IInv, NEW p \in Processes, NEW rest \in SUBSET Sessions, NEW at \in Nat, at <= now,
         \A s \in rest : Spent(p, s, at), Continue(p, rest, at)
  PROVE  MovesOn(p)
<1>1. daemon' \in {"down", "starting", "up"} /\ (daemon' = "up" \/ daemon # "up")
  BY DEF Continue, IInv, TypeOK
<1>2. CASE rest = {}
  BY <1>1, <1>2 DEF Continue, MovesOn
<1>3. CASE rest # {}
  <2>1. PICK s \in rest :
          proc' = [proc EXCEPT ![p] =
                     [pc |-> "check", session |-> s, todo |-> rest \ {s}, at |-> at]]
    BY <1>3 DEF Continue
  <2> DEFINE q == [pc |-> "check", session |-> s, todo |-> rest \ {s}, at |-> at]
  <2>2. q \in Busy /\ q.at = at /\ {q.session} \cup q.todo = rest
    BY DEF Busy
  <2>3. proc' = [proc EXCEPT ![p] = q]
    BY <2>1
  <2> HIDE DEF q
  <2>4. QED BY <1>1, <2>2, <2>3 DEF MovesOn
<1>4. QED BY <1>2, <1>3

LEMMA AdvanceMovesOn ==
  ASSUME IInv, NEW p \in Processes, proc[p] # Idle,
         NEW pc \in {"check", "status", "remove", "settle"}, Advance(p, pc)
  PROVE  MovesOn(p)
<1>1. PICK q \in Busy : /\ proc' = [proc EXCEPT ![p] = q]
                        /\ q.session = proc[p].session
                        /\ q.todo = proc[p].todo /\ q.at = proc[p].at
  BY Advanced DEF IInv
<1>2. daemon' = daemon
  BY DEF Advance
<1>3. q.at <= now /\ \A s \in {q.session} \cup q.todo : Spent(p, s, q.at)
  BY <1>1 DEF IInv, ListsAreSpent
<1>4. QED BY <1>1, <1>2, <1>3 DEF MovesOn, IInv, TypeOK

\* What a process that is busy is at.
LEMMA BusyProcess ==
  ASSUME IInv, NEW p \in Processes, proc[p] # Idle
  PROVE  LET s == proc[p].session
         IN  /\ proc[p] \in Busy /\ s \in Sessions /\ proc[p].todo \in SUBSET Sessions
             /\ proc[p].at \in Nat /\ proc[p].at <= now
             /\ Spent(p, s, proc[p].at) /\ s \notin turns /\ ~InUse(s) /\ tree[s] # "unused"
             /\ \A t \in proc[p].todo : Spent(p, t, proc[p].at)
<1>1. proc[p] \in Busy
  BY DEF IInv, TypeOK
<1>2. proc[p].session \in Sessions /\ proc[p].at \in Nat /\ proc[p].todo \in SUBSET Sessions
  BY <1>1 DEF Busy
<1>3. /\ proc[p].at <= now
      /\ \A s \in {proc[p].session} \cup proc[p].todo : Spent(p, s, proc[p].at)
  BY DEF IInv, ListsAreSpent
<1>4. QED BY <1>1, <1>2, <1>3, SpentIsNotInUse DEF Spent

\* The worktree and the row of the Session that a process is at may go.
LEMMA RemovalInv ==
  ASSUME IInv, NEW p \in Processes, MovesOn(p),
         crashes' \in 0..MaxCrashes, UNCHANGED <<now, creating, queue, turns>>,
         \/ UNCHANGED <<row, tree>>
         \/ /\ proc[p] # Idle
            /\ row' \in {row, [row EXCEPT ![proc[p].session] = None]}
            /\ tree' \in {tree, [tree EXCEPT ![proc[p].session] = "gone"]}
  PROVE  IInv'
<1>1. PICK q \in Busy \cup {Idle} :
        /\ proc' = [proc EXCEPT ![p] = q]
        /\ q # Idle => /\ q.at <= now
                       /\ \A s \in {q.session} \cup q.todo : Spent(p, s, q.at)
  BY DEF MovesOn
<1>2. daemon' \in {"down", "starting", "up"} /\ (daemon' = "up" \/ daemon # "up")
  BY DEF MovesOn
<1>3. CASE UNCHANGED <<row, tree>>
  <2>1. CASE Sessions # {}
    BY <1>1, <1>2, <1>3, <2>1, Removes
  <2>2. CASE Sessions = {}
    <3>1. TypeOK'
      BY <1>1, <1>2, <1>3 DEF IInv, TypeOK
    <3>2. TurnsAreKept' /\ QueueIsIdle' /\ DownIsIdle' /\ RowHasTree' /\ HasWorktree'
      BY <1>1, <2>2, <3>1 DEF IInv, TypeOK, TurnsAreKept, QueueIsIdle, DownIsIdle, RowHasTree, HasWorktree
    <3>3. ListsAreSpent'
      BY <1>1, <2>2, <3>1 DEF TypeOK, ListsAreSpent, Busy
    <3>4. QED BY <3>1, <3>2, <3>3 DEF IInv
  <2>3. QED BY <2>1, <2>2
<1>4. CASE /\ proc[p] # Idle
           /\ row' \in {row, [row EXCEPT ![proc[p].session] = None]}
           /\ tree' \in {tree, [tree EXCEPT ![proc[p].session] = "gone"]}
  BY <1>1, <1>2, <1>4, BusyProcess, Removes
<1>5. QED BY <1>3, <1>4

\* What a sweep reads is spent.
LEMMA ListedIsSpent ==
  ASSUME IInv, NEW p \in Sweepers
  PROVE  /\ ListExpiredSessions(now) \in SUBSET Sessions /\ now \in Nat /\ p \in Processes
         /\ \A s \in ListExpiredSessions(now) : Spent(p, s, now)
BY BoundsAssumption
   DEF IInv, TypeOK, RowHasTree, ListExpiredSessions, Rows, Spent, Sweepers, Processes

LEMMA SweepInv ==
  ASSUME IInv, SweepByTimer \/ SessionsPrune \/ SweepAtStart
  PROVE  IInv'
<1>1. PICK p \in Sweepers : Continue(p, ListExpiredSessions(now), now)
  BY DEF SweepByTimer, SessionsPrune, SweepAtStart, Sweep, Sweepers
<1>2. UNCHANGED <<now, row, tree, creating, queue, turns, crashes>>
  BY DEF SweepByTimer, SessionsPrune, SweepAtStart, memory
<1>3. MovesOn(p) /\ p \in Processes
  BY <1>1, ListedIsSpent, ContinueMovesOn
<1>4. crashes' \in 0..MaxCrashes
  BY <1>2 DEF IInv, TypeOK
<1>5. QED BY <1>2, <1>3, <1>4, RemovalInv

LEMMA SessionsRetireInv ==
  ASSUME IInv, RetiresFailed, NEW s \in Sessions, SessionsRetire(s)
  PROVE  IInv'
<1> DEFINE q == [pc |-> "check", session |-> s, todo |-> {}, at |-> now]
<1>1. /\ row[s] # None /\ row[s].status = "failed"
      /\ proc' = [proc EXCEPT !["retire"] = q]
      /\ UNCHANGED <<now, row, tree, daemon, creating, queue, turns, crashes>>
  BY DEF SessionsRetire, RetiresFailed, Rows, memory
<1>2. now \in Nat /\ "retire" \in Processes
  BY BoundsAssumption DEF IInv, TypeOK, Processes
<1>3. q \in Busy /\ q.at <= now /\ {q.session} \cup q.todo = {s}
  BY <1>2 DEF Busy
<1>4. Spent("retire", s, now)
  BY <1>1 DEF IInv, RowHasTree, Spent
<1>5. q.at = now
  OBVIOUS
<1> HIDE DEF q
<1>6. MovesOn("retire")
  BY <1>1, <1>3, <1>4, <1>5 DEF MovesOn, IInv, TypeOK
<1>7. crashes' \in 0..MaxCrashes
  BY <1>1 DEF IInv, TypeOK
<1>8. QED BY <1>1, <1>2, <1>6, <1>7, RemovalInv

LEMMA RemovalStepInv ==
  ASSUME IInv, NEW p \in Processes, RemovalStep(p)
  PROVE  IInv'
<1>1. /\ proc[p] # Idle /\ crashes' \in 0..MaxCrashes
      /\ UNCHANGED <<now, creating, queue, turns>>
  BY DEF RemovalStep, CheckOwned, CheckClean, RemoveWorktree, RetireSession, At, memory,
         IInv, TypeOK
<1>2. CASE CheckOwned(p)
  <2>1. MovesOn(p)
    BY <1>1, <1>2, AdvanceMovesOn, FailMovesOn DEF CheckOwned
  <2>2. QED BY <1>1, <1>2, <2>1, RemovalInv DEF CheckOwned
<1>3. CASE CheckClean(p)
  <2>1. Advance(p, "remove") \/ Fail(p) \/ Continue(p, proc[p].todo, proc[p].at)
    BY <1>3 DEF CheckClean
  <2>2. MovesOn(p)
    BY <1>1, <2>1, AdvanceMovesOn, FailMovesOn, ContinueMovesOn, BusyProcess
  <2>3. QED BY <1>1, <1>3, <2>2, RemovalInv DEF CheckClean
<1>4. CASE RemoveWorktree(p)
  <2>1. MovesOn(p)
    BY <1>1, <1>4, AdvanceMovesOn, FailMovesOn DEF RemoveWorktree
  <2>2. row' = row /\ tree' \in {tree, [tree EXCEPT ![proc[p].session] = "gone"]}
    BY <1>4 DEF RemoveWorktree
  <2>3. QED BY <1>1, <2>1, <2>2, RemovalInv
<1>5. CASE RetireSession(p)
  <2>1. Fail(p) \/ Continue(p, proc[p].todo, proc[p].at)
    BY <1>5 DEF RetireSession
  <2>2. MovesOn(p)
    BY <1>1, <2>1, FailMovesOn, ContinueMovesOn, BusyProcess
  <2>3. tree' = tree /\ row' \in {row, [row EXCEPT ![proc[p].session] = None]}
    BY <1>5 DEF RetireSession, DeleteRow
  <2>4. QED BY <1>1, <2>2, <2>3, RemovalInv
<1>6. QED BY <1>2, <1>3, <1>4, <1>5 DEF RemovalStep

LEMMA RetireSessionNowInv ==
  ASSUME IInv, RetireSessionNow
  PROVE  IInv'
<1>1. /\ proc["retire"] # Idle /\ "retire" \in Processes /\ Fail("retire") /\ tree' = tree
      /\ row' \in {row, [row EXCEPT ![proc["retire"].session] = None]}
      /\ UNCHANGED <<now, creating, queue, turns, crashes>>
  BY DEF RetireSessionNow, At, Processes, DeleteRow, memory
<1>2. MovesOn("retire") /\ crashes' \in 0..MaxCrashes
  BY <1>1, FailMovesOn DEF IInv, TypeOK
<1>3. QED BY <1>1, <1>2, RemovalInv

LEMMA KillCommandInv ==
  ASSUME IInv, NEW p \in Processes, KillCommand(p)
  PROVE  IInv'
<1>1. /\ proc' = [proc EXCEPT ![p] = Idle]
      /\ UNCHANGED <<now, row, tree, daemon, creating, queue, turns>>
  BY DEF KillCommand, memory
<1>2. MovesOn(p)
  BY <1>1 DEF MovesOn, IInv, TypeOK
<1>3. crashes' \in 0..MaxCrashes
  BY BoundsAssumption DEF KillCommand, IInv, TypeOK
<1>4. QED BY <1>1, <1>2, <1>3, RemovalInv

LEMMA CrashDaemonInv ==
  ASSUME IInv, CrashDaemon
  PROVE  IInv'
<1>1. /\ proc' = [proc EXCEPT !["daemon"] = Idle] /\ daemon' = "down"
      /\ creating' = [s \in Sessions |-> None] /\ queue' = {} /\ turns' = {}
      /\ crashes' \in 0..MaxCrashes /\ UNCHANGED <<now, row, tree>>
  BY BoundsAssumption DEF CrashDaemon, IInv, TypeOK
<1>2. TypeOK'
  BY <1>1 DEF IInv, TypeOK
<1>3. TurnsAreKept' /\ QueueIsIdle' /\ DownIsIdle' /\ RowHasTree'
  BY <1>1 DEF IInv, TurnsAreKept, QueueIsIdle, DownIsIdle, RowHasTree
<1>4. ListsAreSpent'
  <2>1. ASSUME NEW p \in Processes, proc'[p] # Idle
        PROVE  proc'[p] = proc[p] /\ proc[p] # Idle
    BY <1>1, <2>1 DEF IInv, TypeOK
  <2>2. ASSUME NEW p \in Processes, proc[p] # Idle, NEW s \in {proc[p].session} \cup proc[p].todo
        PROVE  proc[p].at <= now /\ Spent(p, s, proc[p].at) /\ s \in Sessions
    BY <2>2, BusyProcess DEF IInv, ListsAreSpent
  <2>3. QED BY <1>1, <2>1, <2>2 DEF ListsAreSpent, Spent, HasExpired
<1>5. HasWorktree'
  BY <1>1 DEF IInv, HasWorktree, InUse, Rows, Found, HasExpired
<1>6. QED BY <1>2, <1>3, <1>4, <1>5 DEF IInv

LEMMA StutterInv ==
  ASSUME IInv, UNCHANGED vars
  PROVE  IInv'
<1>1. UNCHANGED <<now, row, tree, daemon, creating, queue, turns, proc, crashes>>
  BY DEF vars, memory
<1>2. TypeOK' /\ TurnsAreKept' /\ QueueIsIdle' /\ DownIsIdle' /\ RowHasTree'
  BY <1>1 DEF IInv, TypeOK, TurnsAreKept, QueueIsIdle, DownIsIdle, RowHasTree, HasExpired
<1>3. ListsAreSpent' /\ HasWorktree'
  BY <1>1 DEF IInv, ListsAreSpent, Spent, HasExpired, HasWorktree, InUse, Rows, Found
<1>4. QED BY <1>2, <1>3 DEF IInv

LEMMA StepInv == RetiresFailed /\ IInv /\ [Next]_vars => IInv'
<1> SUFFICES ASSUME RetiresFailed, IInv, [Next]_vars PROVE IInv'
  OBVIOUS
<1>1. CASE UNCHANGED vars
  BY <1>1, StutterInv
<1>2. CASE Next
  BY <1>2, StartSessionInv, ResumeSessionInv, StopInv, AddWorktreeInv, CreateSessionInv,
     ExecuteInv, WorkInv, EndTurnInv, SessionsRetireInv, RemovalStepInv, KillCommandInv,
     RetireSessionNowInv, SweepInv, StartDaemonInv, CrashDaemonInv, TickInv DEF Next
<1>3. QED BY <1>1, <1>2

\* A Session in use keeps its worktree, and what a sweep holds stays out of use, as long as
\* operators retire failed Sessions only.
THEOREM WorktreesInvariant == RetiresFailed => (Spec => []IInv)
<1> SUFFICES ASSUME RetiresFailed PROVE Spec => []IInv
  OBVIOUS
<1>1. IInv /\ [Next]_vars => IInv'
  BY StepInv
<1>2. QED BY InitInv, <1>1, PTL DEF Spec

----------------------------------------------------------------------------
(* What follows *)

\* A Session that runs, is about to, or would be resumed by the next message has its
\* worktree, for any retention, however the sweeps of the daemon, `sessions prune` and
\* `sessions retire` of failed Sessions, messages, crashes and the clock fall together.
THEOREM WorktreesHasWorktree == RetiresFailed => (Spec => []HasWorktree)
<1> SUFFICES ASSUME RetiresFailed PROVE Spec => []HasWorktree
  OBVIOUS
<1>1. IInv => HasWorktree
  BY DEF IInv
<1>2. QED BY WorktreesInvariant, <1>1, PTL

\* No process removes the worktree of a turn, or will, however long its list is and
\* whatever is resumed, stopped, killed or expires while it goes through it.
THEOREM WorktreesRemovalExcludesTurns == RetiresFailed => (Spec => []RemovalExcludesTurns)
<1> SUFFICES ASSUME RetiresFailed PROVE Spec => []RemovalExcludesTurns
  OBVIOUS
<1>1. IInv => RemovalExcludesTurns
  <2> SUFFICES ASSUME IInv, NEW p \in Processes, proc[p] # Idle,
                      NEW s \in {proc[p].session} \cup proc[p].todo, s \in turns
               PROVE  FALSE
    BY DEF RemovalExcludesTurns
  <2>1. Spent(p, s, proc[p].at) /\ proc[p].at <= now
    BY DEF IInv, ListsAreSpent
  <2>2. /\ s \in Sessions /\ row[s] \in Row
        /\ row[s].status = "running" \/ (row[s].status = "stopped" /\ ~HasExpired(s, now))
    BY DEF IInv, TypeOK, TurnsAreKept
  <2>3. proc[p].at \in Nat /\ now \in Nat
    BY BoundsAssumption DEF IInv, TypeOK, Busy
  <2>4. QED BY <2>1, <2>2, <2>3, NoneAssumption DEF Spent, HasExpired, Row, Live
<1>2. QED BY WorktreesInvariant, <1>1, PTL
=============================================================================
