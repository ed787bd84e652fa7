-------------------------------- MODULE Worktrees --------------------------------
(***************************************************************************)
(* The worktrees of Sessions and their retention: WorktreeManager          *)
(* (apps/cli/src/engine/worktrees.ts), SessionRetentionCleaner             *)
(* (engine/retention.ts), `sessions prune` and `sessions retire`           *)
(* (cli/program.ts), the daemon's sweeps (daemon.ts) and the sessions      *)
(* table (store/store.ts).                                                 *)
(*                                                                         *)
(* Three processes remove worktrees: the daemon, at its start and on a     *)
(* timer, and the two commands. Each makes its own WorktreeManager, so     *)
(* none finds a path among the ownedPaths of another, and every git        *)
(* command is awaited: one action per git command, and the synchronous     *)
(* code after it. A crash may fall between any two.                        *)
(*                                                                         *)
(* One Binding and its Agent are enough: rows of another are never mixed.  *)
(* `waiting` is taken together with `running`. A Session id is never used  *)
(* twice. What a turn does is left to the coordinator's own module: here   *)
(* it makes its worktree dirty, may clean it up (commit), and ends. Others *)
(* may do the same to a worktree at any time.                              *)
(*                                                                         *)
(* A definition that no action uses is a defective variant of the one that *)
(* follows it, named for its defect. The mutation runs put it in that      *)
(* one's place to see a property fail.                                     *)
(***************************************************************************)
EXTENDS Naturals, FiniteSets

CONSTANTS
  Sessions,       \* Session ids
  Conversations,  \* remote conversations
  None,           \* no row, no conversation, NULL
  RetentionMs,    \* PersistenceOptions.sessionRetentionMs
  Retirable,      \* statuses of the Sessions that operators retire
  MaxTime,        \* bound: the clock
  MaxCrashes      \* bound: processes that are killed in a behaviour

Live == {"queued", "running"}
Settled == {"completed", "interrupted", "failed", "stopped"}

ASSUME RetentionAssumption == RetentionMs \in Nat \ {0}
ASSUME RetirableAssumption == Retirable \subseteq Live \cup Settled
ASSUME BoundsAssumption == MaxTime \in Nat /\ MaxCrashes \in Nat

VARIABLES
  now,       \* the clock
  row,       \* the sessions table
  tree,      \* the directory of a Session's worktree and git's record of it
  daemon,    \* "down", "starting" (before relay.run()) or "up"
  creating,  \* the conversation createAndSchedule() makes a worktree for
  queue,     \* Sessions scheduled in memory
  turns,     \* Sessions whose runtime runs
  proc,      \* what a process that removes worktrees is at
  crashes    \* how often a process was killed

memory == <<creating, queue, turns>>
vars == <<now, row, tree, daemon, memory, proc, crashes>>

Sweepers == {"daemon", "prune"}
Processes == Sweepers \cup {"retire"}

Row == [conversation : Conversations, status : Live \cup Settled,
        expires : Nat \cup {None}]

ASSUME NoneAssumption == None \notin Sessions \cup Conversations \cup Nat \cup Row

\* remove() of one worktree, after another of `todo`, for the sweep that began `at`.
Idle == [pc |-> "idle", session |-> None, todo |-> {}, at |-> 0]
Busy == [pc : {"check", "status", "remove", "settle"}, session : Sessions,
         todo : SUBSET Sessions, at : Nat]

TypeOK ==
  /\ now \in 0..MaxTime
  /\ row \in [Sessions -> Row \cup {None}]
  /\ tree \in [Sessions -> {"unused", "clean", "dirty", "gone"}]
  /\ daemon \in {"down", "starting", "up"}
  /\ creating \in [Sessions -> Conversations \cup {None}]
  /\ queue \subseteq Sessions /\ turns \subseteq Sessions
  /\ proc \in [Processes -> Busy \cup {Idle}]
  /\ crashes \in 0..MaxCrashes

Init ==
  /\ now = 0
  /\ row = [s \in Sessions |-> None]
  /\ tree = [s \in Sessions |-> "unused"]
  /\ daemon = "down"
  /\ creating = [s \in Sessions |-> None] /\ queue = {} /\ turns = {}
  /\ proc = [p \in Processes |-> Idle]
  /\ crashes = 0

----------------------------------------------------------------------------
(* The sessions table *)

Rows == {s \in Sessions : row[s] # None}
HasExpired(s, at) == row[s].expires # None /\ row[s].expires <= at

\* getSessionByRemoteConversation(): a Session past its retention is not found.
FoundThoughExpired(c) == {s \in Rows : row[s].conversation = c}

Found(c) == {s \in Rows : row[s].conversation = c /\ ~HasExpired(s, now)}

\* listExpiredSessions(): those that are not live.
ListExpiredThoughLive(at) == {s \in Rows : HasExpired(s, at)}

ListExpiredSessions(at) == {s \in Rows : HasExpired(s, at) /\ row[s].status \notin Live}

\* transitionSession(): a Session that comes to its end is retained from then on; one
\* that is resumed keeps the time it had.
TransitionSession(s, next) ==
  row' = [row EXCEPT ![s] =
           [@ EXCEPT !.status = next,
                     !.expires = IF next \in {"completed", "failed", "stopped"}
                                 THEN now + RetentionMs ELSE row[s].expires]]

DeleteRow(s) == row' = [row EXCEPT ![s] = None]

----------------------------------------------------------------------------
(* The daemon: messages and turns *)

\* accept() of a message that finds no Session: a worktree is made for a new one.
StartSession(c, s) ==
  /\ daemon = "up" /\ Found(c) = {}
  /\ tree[s] = "unused" /\ creating[s] = None
  /\ creating' = [creating EXCEPT ![s] = c]
  /\ UNCHANGED <<now, row, tree, daemon, queue, turns, proc, crashes>>

\* create(): `git worktree add` checks HEAD out.
AddWorktree(s) ==
  /\ creating[s] # None /\ tree[s] = "unused"
  /\ tree' = [tree EXCEPT ![s] = "clean"]
  /\ UNCHANGED <<now, row, daemon, memory, proc, crashes>>

\* create() when git fails: what it left is removed, or stays if that fails too.
AddWorktreeFails(s) ==
  /\ creating[s] # None /\ tree[s] = "unused"
  /\ creating' = [creating EXCEPT ![s] = None]
  /\ \E left \in {"gone", "clean"} : tree' = [tree EXCEPT ![s] = left]
  /\ UNCHANGED <<now, row, daemon, queue, turns, proc, crashes>>

\* createSession() and schedule(). A second row for the conversation violates the UNIQUE
\* constraint, also when the first is past its retention: the new worktree stays behind.
CreateSession(s) ==
  LET c == creating[s]
  IN  /\ c # None /\ tree[s] = "clean"
      /\ creating' = [creating EXCEPT ![s] = None]
      /\ IF \E r \in Rows : row[r].conversation = c
         THEN UNCHANGED <<row, queue>>
         ELSE /\ row' = [row EXCEPT ![s] =
                           [conversation |-> c, status |-> "queued", expires |-> None]]
              /\ queue' = queue \cup {s}
      /\ UNCHANGED <<now, tree, daemon, turns, proc, crashes>>

\* accept() of a message that resumes a Session; a failed one is rejected. (One whose old
\* turn still ends is the matter of the coordinator's module.)
ResumeSession(c, s) ==
  /\ daemon = "up" /\ s \in Found(c) /\ s \notin turns
  /\ row[s].status \in Settled \ {"failed"}
  /\ TransitionSession(s, "queued")
  /\ queue' = queue \cup {s}
  /\ UNCHANGED <<now, tree, daemon, creating, turns, proc, crashes>>

\* execute() begins, unless the Session is gone or stopped.
Execute(s) ==
  /\ s \in queue /\ s \notin turns
  /\ queue' = queue \ {s}
  /\ IF row[s] = None \/ row[s].status = "stopped"
     THEN UNCHANGED <<row, turns>>
     ELSE TransitionSession(s, "running") /\ turns' = turns \cup {s}
  /\ UNCHANGED <<now, tree, daemon, creating, proc, crashes>>

\* The runtime, a process it left behind or a person writes into a worktree, or commits.
Work(s) ==
  /\ tree[s] \in {"clean", "dirty"}
  /\ \E work \in {"clean", "dirty"} : tree' = [tree EXCEPT ![s] = work]
  /\ UNCHANGED <<now, row, daemon, memory, proc, crashes>>

\* execute() ends: the Session takes its outcome, unless it was stopped or is gone.
EndTurn(s) ==
  /\ s \in turns
  /\ turns' = turns \ {s}
  /\ IF row[s] = None \/ row[s].status = "stopped"
     THEN UNCHANGED row
     ELSE \E outcome \in {"completed", "failed", "interrupted"} : TransitionSession(s, outcome)
  /\ UNCHANGED <<now, tree, daemon, creating, queue, proc, crashes>>

\* stop(): the turn ends some time later.
Stop(c, s) ==
  /\ daemon = "up" /\ s \in Found(c) /\ row[s].status \in Live
  /\ TransitionSession(s, "stopped")
  /\ UNCHANGED <<now, tree, daemon, memory, proc, crashes>>

----------------------------------------------------------------------------
(* Removing worktrees *)

\* The process goes on to the first of the Sessions it has left (ORDER BY
\* retention_expires_at), or is done; startDaemon() then opens the Relay connection.
Continue(p, rest, at) ==
  /\ IF rest = {} THEN proc' = [proc EXCEPT ![p] = Idle]
     ELSE \E s \in rest :
            /\ \A r \in rest \cap Rows : s \in Rows => row[s].expires <= row[r].expires
            /\ proc' = [proc EXCEPT ![p] =
                 [pc |-> "check", session |-> s, todo |-> rest \ {s}, at |-> at]]
  /\ daemon' = IF p = "daemon" /\ daemon = "starting" /\ rest = {} THEN "up" ELSE daemon

FailKeepingPlace(p) ==
  /\ proc' = [proc EXCEPT ![p].pc = "idle"]
  /\ daemon' = IF p = "daemon" /\ daemon = "starting" THEN "down" ELSE daemon

\* An error ends the sweep or the command; startDaemon() does not survive its first one.
Fail(p) ==
  /\ proc' = [proc EXCEPT ![p] = Idle]
  /\ daemon' = IF p = "daemon" /\ daemon = "starting" THEN "down" ELSE daemon

At(p, pc) == proc[p] # Idle /\ proc[p].pc = pc
Advance(p, pc) == proc' = [proc EXCEPT ![p].pc = pc] /\ UNCHANGED daemon

\* clean(): the list is read once.
Sweep(p) ==
  /\ proc[p] = Idle
  /\ ListExpiredSessions(now) # {}
  /\ Continue(p, ListExpiredSessions(now), now)

SweepByTimer == daemon = "up" /\ Sweep("daemon") /\ UNCHANGED <<now, row, tree, memory, crashes>>
SessionsPrune == Sweep("prune") /\ UNCHANGED <<now, row, tree, memory, crashes>>

\* `sessions retire`: the Session is read; its status is not looked at.
SessionsRetire(s) ==
  /\ proc["retire"] = Idle
  /\ s \in Rows /\ row[s].status \in Retirable
  /\ proc' = [proc EXCEPT !["retire"] =
               [pc |-> "check", session |-> s, todo |-> {}, at |-> now]]
  /\ UNCHANGED <<now, row, tree, daemon, memory, crashes>>

\* remove(): `git worktree list` must name the path.
CheckOwned(p) ==
  /\ At(p, "check")
  /\ IF tree[proc[p].session] \in {"clean", "dirty"} THEN Advance(p, "status") ELSE Fail(p)
  /\ UNCHANGED <<now, row, tree, memory, crashes>>

CheckCleanEndingAtDirty(p) ==
  LET at == tree[proc[p].session]
  IN  /\ At(p, "status")
      /\ \/ at = "clean" /\ Advance(p, "remove")
         \/ at = "dirty" /\ p \in Sweepers /\ Continue(p, {}, proc[p].at)
         \/ at = "dirty" /\ p \notin Sweepers /\ Fail(p)
         \/ at = "gone" /\ Fail(p)
      /\ UNCHANGED <<now, row, tree, memory, crashes>>

\* remove(): `git status` tells whether it is clean. A dirty one is preserved: the sweep
\* goes on, the command fails.
CheckClean(p) ==
  LET at == tree[proc[p].session]
  IN  /\ At(p, "status")
      /\ \/ at = "clean" /\ Advance(p, "remove")
         \/ at = "dirty" /\ p \in Sweepers /\ Continue(p, proc[p].todo, proc[p].at)
         \/ at = "dirty" /\ p \notin Sweepers /\ Fail(p)
         \/ at = "gone" /\ Fail(p)
      /\ UNCHANGED <<now, row, tree, memory, crashes>>

\* remove(): `git worktree remove`, which refuses one that became dirty meanwhile. (Ignored
\* files count for the status, not for git's refusal; here they are left out.)
RemoveWorktree(p) ==
  /\ At(p, "remove")
  /\ IF tree[proc[p].session] = "clean"
     THEN tree' = [tree EXCEPT ![proc[p].session] = "gone"] /\ Advance(p, "settle")
     ELSE UNCHANGED tree /\ Fail(p)
  /\ UNCHANGED <<now, row, memory, crashes>>

\* retireSession(): a live Session, or one that is still retained, is an error.
RetireSession(p) ==
  LET s == proc[p].session
  IN  /\ p \in Sweepers /\ At(p, "settle")
      /\ IF s \in Rows /\ (row[s].status \in Live \/ ~HasExpired(s, proc[p].at))
         THEN Fail(p) /\ UNCHANGED row
         ELSE Continue(p, proc[p].todo, proc[p].at) /\ DeleteRow(s)
      /\ UNCHANGED <<now, tree, memory, crashes>>

\* retireSessionNow(): only a live Session is an error.
RetireSessionNow ==
  LET s == proc["retire"].session
  IN  /\ At("retire", "settle")
      /\ IF s \in Rows /\ row[s].status \in Live THEN UNCHANGED row ELSE DeleteRow(s)
      /\ Fail("retire")
      /\ UNCHANGED <<now, tree, memory, crashes>>

RemovalStep(p) ==
  CheckOwned(p) \/ CheckClean(p) \/ RemoveWorktree(p) \/ RetireSession(p)

----------------------------------------------------------------------------
(* Starts, crashes and the clock *)

\* startDaemon(): recoverInterrupted(), then a sweep that is awaited.
StartDaemon ==
  LET lost == {s \in Rows : row[s].status = "running"}
  IN  /\ daemon = "down"
      /\ row' = [s \in Sessions |->
                   IF s \in lost THEN [row[s] EXCEPT !.status = "interrupted"] ELSE row[s]]
      /\ daemon' = "starting"
      /\ UNCHANGED <<now, tree, memory, proc, crashes>>

SweepAtStart ==
  /\ daemon = "starting" /\ proc["daemon"] = Idle
  /\ Continue("daemon", ListExpiredSessions(now), now)
  /\ UNCHANGED <<now, row, tree, memory, crashes>>

CrashDaemon ==
  /\ daemon # "down" /\ crashes < MaxCrashes
  /\ crashes' = crashes + 1
  /\ daemon' = "down"
  /\ creating' = [s \in Sessions |-> None] /\ queue' = {} /\ turns' = {}
  /\ proc' = [proc EXCEPT !["daemon"] = Idle]
  /\ UNCHANGED <<now, row, tree>>

KillCommand(p) ==
  /\ p # "daemon" /\ proc[p] # Idle /\ crashes < MaxCrashes
  /\ crashes' = crashes + 1
  /\ proc' = [proc EXCEPT ![p] = Idle]
  /\ UNCHANGED <<now, row, tree, daemon, memory>>

\* Retention is thirty days: the interrupted turn of a stopped Session ends before.
Tick ==
  /\ now < MaxTime
  /\ \A s \in turns \cap Rows : row[s].status = "stopped" => ~HasExpired(s, now + 1)
  /\ now' = now + 1
  /\ UNCHANGED <<row, tree, daemon, memory, proc, crashes>>

Next ==
  \/ \E s \in Sessions :
       \/ \E c \in Conversations : StartSession(c, s) \/ ResumeSession(c, s) \/ Stop(c, s)
       \/ AddWorktree(s) \/ AddWorktreeFails(s) \/ CreateSession(s)
       \/ Execute(s) \/ Work(s) \/ EndTurn(s)
       \/ SessionsRetire(s)
  \/ \E p \in Processes : RemovalStep(p) \/ KillCommand(p)
  \/ RetireSessionNow
  \/ SweepByTimer \/ SessionsPrune
  \/ StartDaemon \/ SweepAtStart \/ CrashDaemon
  \/ Tick

\* The service manager starts the daemon again, its timers fire, and git answers.
Fairness ==
  /\ WF_vars(StartDaemon) /\ WF_vars(SweepAtStart) /\ WF_vars(SweepByTimer)
  /\ WF_vars(RemovalStep("daemon"))

Spec == Init /\ [][Next]_vars /\ Fairness

----------------------------------------------------------------------------
(* Properties *)

\* A Session that runs, is about to, or would be resumed by the next message has its
\* worktree, however sweeps, commands, messages and crashes fall together: the retention
\* that hides a Session from accept() is what lets a sweep work over several awaits.
\* (Not so when operators retire Sessions that are live or can be resumed.)
InUse(s) ==
  \/ s \in turns
  \/ s \in Rows /\ row[s].status \in Live
  \/ s \in Rows /\ row[s].status # "failed" /\ s \in Found(row[s].conversation)

HasWorktree == \A s \in Sessions : InUse(s) => tree[s] \in {"clean", "dirty"}

\* A Session that is refused retirement because it is live keeps its worktree. (Not so
\* when operators retire live Sessions: the worktree goes before the status is read.)
LiveHasWorktree ==
  \A s \in Rows : row[s].status \in Live => tree[s] \in {"clean", "dirty"}

\* What a sweep or a command removes, or has on its list, is in no turn: the list is read
\* once, and while it is worked through, one git command after another, messages resume
\* Sessions and turns begin. Git would not save a turn's work by itself: it removes ignored
\* files together with a worktree. (Not so when operators retire live Sessions.)
RemovalExcludesTurns ==
  \A p \in Processes :
    proc[p] # Idle => ({proc[p].session} \cup proc[p].todo) \cap turns = {}

\* Retention comes to its end: a Session with a clean worktree does not stay expired for
\* ever, unless the sweeps stumble time and again: over a worktree that is gone, of a
\* Session that is still in the table, or over one that became dirty after it was looked at.
Stumbles ==
  \/ \E s \in Rows : tree[s] = "gone"
  \/ \E p \in Sweepers : At(p, "remove") /\ tree[proc[p].session] = "dirty"

ExpiredIsRetired ==
  \A s \in Sessions :
    []<>(~(s \in ListExpiredSessions(now) /\ tree[s] = "clean") \/ Stumbles)
=============================================================================
