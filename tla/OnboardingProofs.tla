---------------------------- MODULE OnboardingProofs ----------------------------
(***************************************************************************)
(* Theorems about Onboarding, for any number of processes, ids, connectors *)
(* and workspaces.                                                         *)
(***************************************************************************)
EXTENDS Onboarding, TLAPS

----------------------------------------------------------------------------
(* The invariant of types *)

IdentityPcs == {"get_metadata", "get_key", "set_key", "set_metadata", "clean", "enroll"}
InitPcs == {"setup", "artifact", "wait", "get_stored"}
SetupPcs == InitPcs \cup {"verify", "store", "operator", "rollback"}

\* What a command holds at each of its steps, read off the code of its function.
ProcessFits(p) ==
  LET c == cli[p]
  IN  /\ c.pc = "idle" => c = Idle
      /\ c.pc # "idle" => c.command \in CommandsOf[p]
      /\ c.pc \in IdentityPcs => c.command \in {"init", "use"} /\ c.todo \subseteq Setup
      /\ c.pc \in {"set_key", "set_metadata", "clean", "enroll"} => c.id \in 1..MaxIdentities
      /\ c.pc \in InitPcs => c.command = "init"
      /\ c.pc \in SetupPcs =>
           c.command \in {"init", "complete"} /\ c.setup \in Setup /\ c.todo \subseteq Setup
      /\ c.pc = "store" => c.entered \in Workspaces
      /\ c.pc \in {"operator", "rollback"} /\ c.command = "complete" => c.entered \in Workspaces
      /\ c.pc = "forget" => c.command = "delete" /\ c.todo \subseteq Ids
      /\ c.pc = "unset" => c.command = "remove" /\ c.setup \in Setup

ProcessesFit == \A p \in Clis : ProcessFits(p)

TypeInv == ProgramTypes /\ ProcessesFit

LEMMA DoneFits ==
  ASSUME TypeInv, NEW p \in Clis, Done(p)
  PROVE  cli' \in [Clis -> Process] /\ ProcessFits(p)' /\ \A q \in Clis \ {p} : cli'[q] = cli[q]
<1>1. Idle \in Process
  BY DEF Idle, Process, Pcs
<1>2. cli' \in [Clis -> Process] /\ cli'[p] = Idle /\ \A q \in Clis \ {p} : cli'[q] = cli[q]
  BY <1>1 DEF TypeInv, ProgramTypes, Done
<1>3. cli'[p].pc = "idle"
  BY <1>2 DEF Idle
<1>4. QED BY <1>2, <1>3 DEF ProcessFits, IdentityPcs, InitPcs, SetupPcs

LEMMA GotoEffect ==
  ASSUME TypeInv, NEW p \in Clis, NEW pc \in Pcs, Goto(p, pc)
  PROVE  /\ cli' \in [Clis -> Process]
         /\ cli'[p].pc = pc /\ cli'[p].command = cli[p].command
         /\ cli'[p].setup = cli[p].setup /\ cli'[p].entered = cli[p].entered
         /\ cli'[p].todo = cli[p].todo /\ cli'[p].id = cli[p].id
         /\ \A q \in Clis \ {p} : cli'[q] = cli[q]
  BY DEF TypeInv, ProgramTypes, Goto, Process

LEMMA OthersFit ==
  ASSUME TypeInv, NEW p \in Clis, ProcessFits(p)',
         \A q \in Clis \ {p} : cli'[q] = cli[q]
  PROVE  ProcessesFit'
<1>1. ASSUME NEW q \in Clis \ {p} PROVE ProcessFits(q)'
  <2>1. ProcessFits(q)
    BY DEF TypeInv, ProcessesFit
  <2>2. cli'[q] = cli[q]
    OBVIOUS
  <2>3. QED BY <2>1, <2>2 DEF ProcessFits
<1>2. QED BY <1>1 DEF ProcessesFit

LEMMA SetupsOfRows ==
  ASSUME TypeInv, NEW id \in Ids
  PROVE  AsSetup(id) \in Setup
  BY DEF TypeInv, ProgramTypes, Row, AsSetup, Setup

LEMMA UnchangedCliFits ==
  ASSUME TypeInv, UNCHANGED cli
  PROVE  cli' \in [Clis -> Process] /\ ProcessesFit'
<1>1. ASSUME NEW q \in Clis PROVE ProcessFits(q)'
  <2>1. ProcessFits(q)
    BY DEF TypeInv, ProcessesFit
  <2>3. QED BY <2>1 DEF ProcessFits
<1>2. QED BY <1>1 DEF ProcessesFit, TypeInv, ProgramTypes

LEMMA DoneKeepsFits ==
  ASSUME TypeInv, NEW p \in Clis, Done(p)
  PROVE  cli' \in [Clis -> Process] /\ ProcessesFit'
  BY DoneFits, OthersFit

LEMMA TakeSetupEffect ==
  ASSUME TypeInv, NEW p \in Clis, NEW rest \in SUBSET Setup, rest # {}, TakeSetup(p, rest)
  PROVE  \E s \in rest :
           /\ cli' \in [Clis -> Process]
           /\ cli'[p].pc = "setup" /\ cli'[p].command = "init" /\ cli'[p].setup = s
           /\ cli'[p].todo = rest \ {s}
           /\ \A q \in Clis \ {p} : cli'[q] = cli[q]
<1>1. PICK s \in rest :
        cli' = [cli EXCEPT ![p] = [Idle EXCEPT !.pc = "setup", !.command = "init",
                                               !.setup = s, !.todo = rest \ {s}]]
  BY DEF TakeSetup
<1> DEFINE left == rest \ {s}
           r == [Idle EXCEPT !.pc = "setup", !.command = "init", !.setup = s, !.todo = left]
<1>2. left \in SUBSET (Setup \cup Ids) /\ s \in Setup
  OBVIOUS
<1>3. cli' = [cli EXCEPT ![p] = r]
  BY <1>1
<1> HIDE DEF left
<1>4. r.pc = "setup" /\ r.command = "init" /\ r.setup = s /\ r.todo = left
  BY DEF Idle
<1>5. r \in Process
  BY <1>2 DEF Process, Idle, Pcs, Commands
<1> HIDE DEF r
<1>6. cli' \in [Clis -> Process] /\ cli'[p] = r /\ \A q \in Clis \ {p} : cli'[q] = cli[q]
  BY <1>3, <1>5 DEF TypeInv, ProgramTypes
<1>7. QED BY <1>4, <1>6 DEF left

LEMMA TakeSetupFits ==
  ASSUME TypeInv, NEW p \in Clis, NEW rest \in SUBSET Setup, "init" \in CommandsOf[p],
         TakeSetup(p, rest)
  PROVE  cli' \in [Clis -> Process] /\ ProcessesFit'
<1>1. CASE rest = {}
  BY <1>1, DoneKeepsFits DEF TakeSetup
<1>2. CASE rest # {}
  <2>1. PICK s \in rest :
           /\ cli' \in [Clis -> Process]
           /\ cli'[p].pc = "setup" /\ cli'[p].command = "init" /\ cli'[p].setup = s
           /\ cli'[p].todo = rest \ {s}
           /\ \A q \in Clis \ {p} : cli'[q] = cli[q]
    BY <1>2, TakeSetupEffect
  <2>2. ProcessFits(p)'
    BY <2>1 DEF ProcessFits, IdentityPcs, InitPcs, SetupPcs
  <2>3. QED BY <2>1, <2>2, OthersFit
<1>3. QED BY <1>1, <1>2

LEMMA FailSetupFits ==
  ASSUME TypeInv, NEW p \in Clis, cli[p].pc \in SetupPcs, cli[p].command = "init", FailSetup(p)
  PROVE  cli' \in [Clis -> Process] /\ ProcessesFit'
<1>1. cli[p].todo \in SUBSET Setup /\ cli[p].command \in CommandsOf[p]
  BY DEF TypeInv, ProcessesFit, ProcessFits, SetupPcs, InitPcs
<1>2. QED BY <1>1, TakeSetupFits, DoneKeepsFits DEF FailSetup

\* The setups that a run of the wizard has before it, and the rows it makes for them.
InitTodo(new) == {AsSetup(id) : id \in Known("setup")} \cup
                 {[id |-> id, step |-> "selected", workspace |-> None] : id \in new}
InitRows(new) == [id \in Ids |-> IF id \in new THEN [Unused EXCEPT !.at = "setup"] ELSE row[id]]

LEMMA RunInitEffect ==
  ASSUME TypeInv, NEW p \in Clis, NEW new \in SUBSET Ids, RunInit(p, new)
  PROVE  /\ cli[p] = Idle /\ "init" \in CommandsOf[p]
         /\ new \subseteq Known("unused") /\ agent' = TRUE /\ row' = InitRows(new)
         /\ UNCHANGED <<secret, identity, installed, cache, kills>>
         /\ InitTodo(new) \in SUBSET Setup
         /\ \/ UNCHANGED cli
            \/ InitTodo(new) # {} /\ TakeSetup(p, InitTodo(new))
            \/ /\ cli' \in [Clis -> Process]
               /\ cli'[p].pc = "get_metadata" /\ cli'[p].command = "init"
               /\ cli'[p].todo = InitTodo(new)
               /\ \A q \in Clis \ {p} : cli'[q] = cli[q]
<1> DEFINE todo == InitTodo(new)
<1>1. todo \in SUBSET Setup
  <2>1. \A id \in Known("setup") : AsSetup(id) \in Setup
    BY SetupsOfRows DEF Known
  <2>2. \A id \in new : [id |-> id, step |-> "selected", workspace |-> None] \in Setup
    BY DEF Setup, Steps
  <2>3. QED BY <2>1, <2>2 DEF InitTodo
<1>2. /\ cli[p] = Idle /\ "init" \in CommandsOf[p]
      /\ new \subseteq Known("unused") /\ agent' = TRUE /\ row' = InitRows(new)
      /\ IF todo = {} THEN UNCHANGED cli
         ELSE IF installed # None THEN TakeSetup(p, todo)
         ELSE cli' = [cli EXCEPT ![p].command = "init", ![p].pc = "get_metadata",
                                 ![p].todo = todo]
      /\ UNCHANGED <<secret, identity, installed, cache, kills>>
  BY DEF RunInit, Runs, InitTodo, InitRows
<1> HIDE DEF todo
<1>3. CASE cli' = [cli EXCEPT ![p].command = "init", ![p].pc = "get_metadata",
                              ![p].todo = todo]
  <2> DEFINE c1 == [cli EXCEPT ![p].command = "init"]
             c2 == [c1 EXCEPT ![p].pc = "get_metadata"]
  <2>0. cli \in [Clis -> Process] /\ todo \in SUBSET (Setup \cup Ids)
    BY <1>1 DEF TypeInv, ProgramTypes
  <2>1. cli' = [c2 EXCEPT ![p].todo = todo]
    BY ONLY <1>3
  <2>2. /\ c1 \in [Clis -> Process] /\ c1[p].command = "init"
        /\ \A q \in Clis \ {p} : c1[q] = cli[q]
    BY ONLY p \in Clis, <2>0 DEF Process, Commands
  <2> HIDE DEF c1
  <2>3. /\ c2 \in [Clis -> Process] /\ c2[p].pc = "get_metadata"
        /\ c2[p].command = c1[p].command
        /\ \A q \in Clis \ {p} : c2[q] = c1[q]
    BY ONLY p \in Clis, <2>2 DEF Process, Pcs
  <2> HIDE DEF c2
  <2>4. /\ cli' \in [Clis -> Process]
        /\ cli'[p].pc = "get_metadata" /\ cli'[p].command = "init" /\ cli'[p].todo = todo
        /\ \A q \in Clis \ {p} : cli'[q] = cli[q]
    BY ONLY p \in Clis, <2>0, <2>1, <2>2, <2>3 DEF Process
  <2>5. QED BY <1>1, <1>2, <2>4 DEF todo
<1>4. QED BY <1>1, <1>2, <1>3 DEF todo

LEMMA RunInitFits ==
  ASSUME TypeInv, NEW p \in Clis, NEW new \in SUBSET Ids, RunInit(p, new)
  PROVE  TypeInv'
<1> DEFINE todo == InitTodo(new)
<1>1. InitRows(new) \in [Ids -> Row]
  <2>1. [Unused EXCEPT !.at = "setup"] \in Row
    BY DEF Unused, Row, Steps
  <2>2. \A id \in Ids : row[id] \in Row
    BY DEF TypeInv, ProgramTypes
  <2>3. QED BY <2>1, <2>2 DEF InitRows
<1>2. cli' \in [Clis -> Process] /\ ProcessesFit'
  <2>1. CASE UNCHANGED cli
    BY <2>1, UnchangedCliFits
  <2>2. CASE TakeSetup(p, todo)
    BY <2>2, RunInitEffect, TakeSetupFits
  <2>3. CASE /\ cli' \in [Clis -> Process]
             /\ cli'[p].pc = "get_metadata" /\ cli'[p].command = "init" /\ cli'[p].todo = todo
             /\ \A q \in Clis \ {p} : cli'[q] = cli[q]
    <3>1. todo \in SUBSET Setup /\ "init" \in CommandsOf[p]
      BY RunInitEffect
    <3> HIDE DEF todo
    <3>2. ProcessFits(p)'
      BY <2>3, <3>1 DEF ProcessFits, IdentityPcs, InitPcs, SetupPcs
    <3>3. QED BY <2>3, <3>2, OthersFit
  <2>4. QED BY <2>1, <2>2, <2>3, RunInitEffect
<1>3. QED BY <1>1, <1>2, RunInitEffect DEF TypeInv, ProgramTypes, identity, cache

LEMMA RelayUseFits ==
  ASSUME TypeInv, NEW p \in Clis, RelayUse(p)
  PROVE  TypeInv'
<1>1. /\ cli[p] = Idle /\ "use" \in CommandsOf[p]
      /\ cli' = [cli EXCEPT ![p].command = "use", ![p].pc = "get_metadata"]
      /\ UNCHANGED <<database, secret, identity, cache, kills>>
  BY DEF RelayUse, Runs, Begin
<1>2. /\ cli' \in [Clis -> Process]
      /\ cli'[p].pc = "get_metadata" /\ cli'[p].command = "use" /\ cli'[p].todo = {}
      /\ \A q \in Clis \ {p} : cli'[q] = cli[q]
  BY <1>1 DEF TypeInv, ProgramTypes, Process, Pcs, Commands, Idle
<1>3. ProcessFits(p)'
  BY <1>1, <1>2 DEF ProcessFits, IdentityPcs, InitPcs, SetupPcs
<1>4. QED BY <1>1, <1>2, <1>3, OthersFit DEF TypeInv, ProgramTypes, database, identity, cache

LEMMA GotoFits ==
  ASSUME TypeInv, NEW p \in Clis, NEW pc \in Pcs, Goto(p, pc),
         \/ cli[p].pc \in IdentityPcs /\ pc \in IdentityPcs /\ cli[p].id \in 1..MaxIdentities
         \/ cli[p].pc \in SetupPcs /\ pc \in {"operator", "rollback"} /\
            (cli[p].command = "complete" => cli[p].entered \in Workspaces)
  PROVE  cli' \in [Clis -> Process] /\ ProcessesFit'
<1>1. ProcessFits(p)
  BY DEF TypeInv, ProcessesFit
<1>2. ProcessFits(p)'
  BY <1>1, GotoEffect DEF ProcessFits, IdentityPcs, InitPcs, SetupPcs
<1>3. QED BY <1>2, GotoEffect, OthersFit

LEMMA IdentityStepFits ==
  ASSUME TypeInv, NEW p \in Clis, IdentityStep(p)
  PROVE  TypeInv'
<1> USE DEF UnchangedButIdentity, At
<1>0. ProcessFits(p) /\ cli[p] \in Process
  BY DEF TypeInv, ProgramTypes, ProcessesFit
<1>1. ASSUME GetMetadata(p) PROVE TypeInv'
  <2>1. /\ cli[p].pc = "get_metadata"
        /\ cli' = [cli EXCEPT ![p].pc = "get_key", ![p].found = metadata]
        /\ UNCHANGED <<identity, installed, agent, row, secret, cache, kills>>
    BY <1>1 DEF GetMetadata
  <2>a. cli \in [Clis -> Process] /\ metadata \in 1..MaxIdentities \cup {None}
    BY DEF TypeInv, ProgramTypes
  <2>2. /\ cli' \in [Clis -> Process]
        /\ cli'[p].pc = "get_key" /\ cli'[p].command = cli[p].command
        /\ cli'[p].todo = cli[p].todo
        /\ \A q \in Clis \ {p} : cli'[q] = cli[q]
    BY ONLY p \in Clis, <2>1, <2>a DEF Process, Pcs
  <2>3. ProcessFits(p)'
    BY <1>0, <2>1, <2>2 DEF ProcessFits, IdentityPcs, InitPcs, SetupPcs
  <2>4. QED BY <2>1, <2>2, <2>3, OthersFit DEF TypeInv, ProgramTypes, identity, cache
<1>2. ASSUME GetKey(p) PROVE TypeInv'
  <2>0. /\ cli[p].pc = "get_key"
        /\ UNCHANGED <<key, metadata, installed, agent, row, secret, cache, kills>>
    BY <1>2 DEF GetKey
  <2>1. ASSUME Done(p), UNCHANGED generated PROVE TypeInv'
    BY <2>0, <2>1, DoneKeepsFits DEF TypeInv, ProgramTypes, cache
  <2>2. ASSUME NEW pc \in {"enroll", "set_key"}, NEW n \in 1..MaxIdentities,
               cli' = [cli EXCEPT ![p].pc = pc, ![p].id = n],
               generated' \in 0..MaxIdentities
        PROVE  TypeInv'
    <3>1. /\ cli' \in [Clis -> Process]
          /\ cli'[p].pc = pc /\ cli'[p].command = cli[p].command
          /\ cli'[p].todo = cli[p].todo /\ cli'[p].id = n
          /\ \A q \in Clis \ {p} : cli'[q] = cli[q]
      BY <2>2 DEF TypeInv, ProgramTypes, Process, Pcs
    <3>2. ProcessFits(p)'
      BY <1>0, <2>0, <3>1 DEF ProcessFits, IdentityPcs, InitPcs, SetupPcs
    <3>3. QED BY <2>0, <2>2, <3>1, <3>2, OthersFit DEF TypeInv, ProgramTypes, cache
  <2>3. generated \in 0..MaxIdentities /\ MaxIdentities \in Nat
    BY BoundsAssumption DEF TypeInv, ProgramTypes
  <2>4. cli[p].found \in 1..MaxIdentities \cup {None}
    BY <1>0 DEF Process
  <2>5. CASE cli[p].found # None /\ cli' = [cli EXCEPT ![p].pc = "enroll", ![p].id = cli[p].found]
             /\ UNCHANGED generated
    BY <2>2, <2>3, <2>4, <2>5
  <2>6. CASE /\ generated < MaxIdentities /\ generated' = generated + 1
             /\ cli' = [cli EXCEPT ![p].pc = "set_key", ![p].id = generated']
    <3>1. generated' \in 1..MaxIdentities /\ generated' \in 0..MaxIdentities
      BY <2>3, <2>6
    <3>2. QED BY <2>2, <2>6, <3>1
  <2>7. QED BY <1>2, <2>1, <2>5, <2>6 DEF GetKey
<1>3. ASSUME SetKey(p) PROVE TypeInv'
  <2>1. /\ cli[p].pc = "set_key" /\ cli[p].id \in 1..MaxIdentities
        /\ key' \in {key, cli[p].id}
        /\ Goto(p, "set_metadata") \/ Goto(p, "clean")
        /\ UNCHANGED <<metadata, generated, installed, agent, row, secret, cache, kills>>
    BY <1>0, <1>3 DEF SetKey, ProcessFits
  <2>2. cli' \in [Clis -> Process] /\ ProcessesFit'
    BY <2>1, GotoFits DEF IdentityPcs, Pcs
  <2>3. QED BY <2>1, <2>2 DEF TypeInv, ProgramTypes, cache
<1>4. ASSUME SetMetadata(p) PROVE TypeInv'
  <2>1. /\ cli[p].pc = "set_metadata" /\ cli[p].id \in 1..MaxIdentities
        /\ metadata' \in {metadata, cli[p].id}
        /\ Goto(p, "enroll") \/ Goto(p, "clean")
        /\ UNCHANGED <<key, generated, installed, agent, row, secret, cache, kills>>
    BY <1>0, <1>4 DEF SetMetadata, ProcessFits
  <2>2. cli' \in [Clis -> Process] /\ ProcessesFit'
    BY <2>1, GotoFits DEF IdentityPcs, Pcs
  <2>3. QED BY <2>1, <2>2 DEF TypeInv, ProgramTypes, cache
<1>5. ASSUME CleanIdentity(p) PROVE TypeInv'
  <2>1. /\ key' \in {key, None} /\ metadata' \in {metadata, None} /\ Done(p)
        /\ UNCHANGED <<generated, installed, agent, row, secret, cache, kills>>
    BY <1>5 DEF CleanIdentity
  <2>2. QED BY <2>1, DoneKeepsFits DEF TypeInv, ProgramTypes, cache
<1>6. ASSUME Enroll(p) PROVE TypeInv'
  <2>1. /\ cli[p].pc = "enroll" /\ cli[p].id \in 1..MaxIdentities
        /\ cli[p].command \in {"init", "use"} /\ cli[p].todo \in SUBSET Setup
        /\ cli[p].command \in CommandsOf[p]
    BY <1>0, <1>6 DEF Enroll, ProcessFits, IdentityPcs
  <2>2. /\ installed' \in {installed, cli[p].id}
        /\ \/ Done(p)
           \/ cli[p].command = "init" /\ TakeSetup(p, cli[p].todo)
        /\ UNCHANGED <<identity, agent, row, secret, cache, kills>>
    BY <1>6, <2>1 DEF Enroll
  <2>3. cli' \in [Clis -> Process] /\ ProcessesFit'
    BY <2>1, <2>2, DoneKeepsFits, TakeSetupFits
  <2>4. QED BY <2>1, <2>2, <2>3 DEF TypeInv, ProgramTypes, identity, cache
<1>7. QED BY <1>1, <1>2, <1>3, <1>4, <1>5, <1>6 DEF IdentityStep

\* The process of a command in a setup, and what its steps make of it.
SetupProcess(p) ==
  /\ Of(p) \in Ids /\ cli[p].setup \in Setup /\ cli[p].todo \in SUBSET Setup
  /\ cli[p].command \in {"init", "complete"} /\ cli[p].command \in CommandsOf[p]

LEMMA SetupProcesses ==
  ASSUME TypeInv, NEW p \in Clis, cli[p].pc \in SetupPcs
  PROVE  SetupProcess(p)
  BY DEF TypeInv, ProcessesFit, ProcessFits, SetupProcess, SetupPcs, InitPcs, Of, Setup

LEMMA StartSetupEffect ==
  ASSUME TypeInv, NEW p \in Clis, StartSetup(p)
  PROVE  LET s == cli[p].setup
             now == IF Pending(s.id) THEN AsSetup(s.id) ELSE s
         IN  /\ cli' \in [Clis -> Process]
             /\ now \in Setup
             /\ cli'[p].setup = now
             /\ cli'[p].pc \in {"artifact", "wait", "verify", "get_stored"}
             /\ now.step = "selected" => cli'[p].pc = "artifact"
             /\ now.step = "admin_action" => cli'[p].pc = "wait"
             /\ now.step = "credentials" => cli'[p].pc = "verify"
             /\ now.step = "operator" => cli'[p].pc = "get_stored"
             /\ cli'[p].command = cli[p].command /\ cli'[p].todo = cli[p].todo
             /\ \A q \in Clis \ {p} : cli'[q] = cli[q]
<1> DEFINE s == cli[p].setup
           now == IF Pending(s.id) THEN AsSetup(s.id) ELSE s
           pc == IF now.step = "selected" THEN "artifact" ELSE Resume(now.step)
           c1 == [cli EXCEPT ![p].setup = now]
           c2 == [c1 EXCEPT ![p].entered = None]
<1>0. cli \in [Clis -> Process]
  BY DEF TypeInv, ProgramTypes
<1>1. now \in Setup
  <2>1. s \in Setup /\ s.id \in Ids
    BY SetupProcesses DEF StartSetup, At, SetupProcess, SetupPcs, InitPcs, Of
  <2>2. QED BY <2>1, SetupsOfRows
<1>2. cli' = [c2 EXCEPT ![p].pc = pc]
  BY DEF StartSetup
<1> HIDE DEF now
<1>3. now.step \in Steps
  BY <1>1 DEF Setup
<1>4. /\ pc \in {"artifact", "wait", "verify", "get_stored"}
      /\ now.step = "selected" => pc = "artifact"
      /\ now.step = "admin_action" => pc = "wait"
      /\ now.step = "credentials" => pc = "verify"
      /\ now.step = "operator" => pc = "get_stored"
  BY <1>3 DEF Steps, Resume
<1> HIDE DEF pc
<1>5. /\ c1 \in [Clis -> Process] /\ c1[p].setup = now
      /\ c1[p].command = cli[p].command /\ c1[p].todo = cli[p].todo
      /\ \A q \in Clis \ {p} : c1[q] = cli[q]
  BY ONLY p \in Clis, <1>0, <1>1 DEF Process
<1> HIDE DEF c1
<1>6. /\ c2 \in [Clis -> Process] /\ c2[p].setup = now
      /\ c2[p].command = cli[p].command /\ c2[p].todo = cli[p].todo
      /\ \A q \in Clis \ {p} : c2[q] = cli[q]
  BY ONLY p \in Clis, <1>5 DEF Process
<1> HIDE DEF c2
<1>7. /\ cli' \in [Clis -> Process] /\ cli'[p].setup = now /\ cli'[p].pc = pc
      /\ cli'[p].command = cli[p].command /\ cli'[p].todo = cli[p].todo
      /\ \A q \in Clis \ {p} : cli'[q] = cli[q]
  <2>1. pc \in Pcs
    BY <1>4 DEF Pcs
  <2>2. QED BY ONLY p \in Clis, <1>2, <1>6, <2>1 DEF Process
<1>8. QED BY <1>1, <1>4, <1>7 DEF now

LEMMA SetupOfRow ==
  ASSUME TypeInv, NEW id \in Ids, NEW step \in Steps
  PROVE  LET s == [AsSetup(id) EXCEPT !.step = step]
         IN  s \in Setup /\ s.id = id /\ s.step = step /\ s.workspace = row[id].workspace
  BY DEF TypeInv, ProgramTypes, Row, AsSetup, Setup

\* What Step() does to the process when the setup is there.
Stepped(p, step, pc) ==
  /\ row' = Updated(Of(p), step)
  /\ cli' \in [Clis -> Process]
  /\ cli'[p].setup = [AsSetup(Of(p)) EXCEPT !.step = step]
  /\ cli'[p].pc = pc
  /\ cli'[p].command = cli[p].command /\ cli'[p].todo = cli[p].todo
  /\ \A q \in Clis \ {p} : cli'[q] = cli[q]

LEMMA StepEffect ==
  ASSUME TypeInv, NEW p \in Clis, cli[p].pc \in SetupPcs,
         NEW step \in Steps, NEW pc \in Pcs, Step(p, step, pc)
  PROVE  \/ Pending(Of(p)) /\ Stepped(p, step, pc)
         \/ ~Pending(Of(p)) /\ FailSetup(p) /\ UNCHANGED row
<1>1. CASE ~Pending(Of(p))
  BY <1>1 DEF Step
<1>2. CASE Pending(Of(p))
  <2> DEFINE s == [AsSetup(Of(p)) EXCEPT !.step = step]
             c1 == [cli EXCEPT ![p].setup = s]
  <2>1. cli \in [Clis -> Process] /\ s \in Setup
    BY SetupProcesses, SetupOfRow DEF TypeInv, ProgramTypes, SetupProcess
  <2>2. row' = Updated(Of(p), step) /\ cli' = [c1 EXCEPT ![p].pc = pc]
    BY <1>2 DEF Step
  <2> HIDE DEF s
  <2>3. /\ c1 \in [Clis -> Process] /\ c1[p].setup = s
        /\ c1[p].command = cli[p].command /\ c1[p].todo = cli[p].todo
        /\ \A q \in Clis \ {p} : c1[q] = cli[q]
    BY ONLY p \in Clis, <2>1 DEF Process
  <2> HIDE DEF c1
  <2>4. /\ cli' \in [Clis -> Process] /\ cli'[p].setup = s /\ cli'[p].pc = pc
        /\ cli'[p].command = cli[p].command /\ cli'[p].todo = cli[p].todo
        /\ \A q \in Clis \ {p} : cli'[q] = cli[q]
    BY ONLY p \in Clis, pc \in Pcs, <2>2, <2>3 DEF Process
  <2>5. QED BY <1>2, <2>2, <2>4 DEF s, Stepped
<1>3. QED BY <1>1, <1>2

LEMMA VerifyEffect ==
  ASSUME TypeInv, NEW p \in Clis, NEW w \in Workspaces, VerifyCredentials(p, w)
  PROVE  /\ cli' \in [Clis -> Process]
         /\ cli'[p].pc = "store" /\ cli'[p].entered = w
         /\ cli'[p].command = cli[p].command /\ cli'[p].todo = cli[p].todo
         /\ cli'[p].setup = cli[p].setup
         /\ \A q \in Clis \ {p} : cli'[q] = cli[q]
<1>1. cli \in [Clis -> Process] /\ cli' = [cli EXCEPT ![p].entered = w, ![p].pc = "store"]
  BY DEF TypeInv, ProgramTypes, VerifyCredentials
<1>2. QED BY ONLY p \in Clis, w \in Workspaces, <1>1 DEF Process, Pcs

LEMMA OperatorEffect ==
  ASSUME TypeInv, NEW p \in Clis, NEW w \in Workspaces \cup {None},
         cli' = [cli EXCEPT ![p].pc = "operator", ![p].entered = w]
  PROVE  /\ cli' \in [Clis -> Process]
         /\ cli'[p].pc = "operator" /\ cli'[p].entered = w
         /\ cli'[p].command = cli[p].command /\ cli'[p].todo = cli[p].todo
         /\ cli'[p].setup = cli[p].setup
         /\ \A q \in Clis \ {p} : cli'[q] = cli[q]
<1>1. cli \in [Clis -> Process]
  BY DEF TypeInv, ProgramTypes
<1>2. QED BY ONLY p \in Clis, w \in Workspaces \cup {None},
                  cli' = [cli EXCEPT ![p].pc = "operator", ![p].entered = w], <1>1
          DEF Process, Pcs

LEMMA StoredEffect ==
  ASSUME TypeInv, NEW p \in Clis, NEW s \in Setup,
         cli' = [cli EXCEPT ![p].pc = "operator", ![p].setup = s]
  PROVE  /\ cli' \in [Clis -> Process]
         /\ cli'[p].pc = "operator" /\ cli'[p].setup = s
         /\ cli'[p].command = cli[p].command /\ cli'[p].todo = cli[p].todo
         /\ \A q \in Clis \ {p} : cli'[q] = cli[q]
<1>1. cli \in [Clis -> Process]
  BY DEF TypeInv, ProgramTypes
<1>2. QED BY ONLY p \in Clis, s \in Setup,
                  cli' = [cli EXCEPT ![p].pc = "operator", ![p].setup = s], <1>1
          DEF Process, Pcs

\* The beginning of `binding complete` and `binding remove`.
LEMMA BeginsEffect ==
  ASSUME TypeInv, NEW p \in Clis, NEW command \in Commands, NEW pc \in Pcs, NEW s \in Setup,
         cli' = [cli EXCEPT ![p] = [Idle EXCEPT !.command = command, !.pc = pc, !.setup = s]]
  PROVE  /\ cli' \in [Clis -> Process]
         /\ cli'[p].pc = pc /\ cli'[p].command = command
         /\ cli'[p].setup = s /\ cli'[p].todo = {}
         /\ \A q \in Clis \ {p} : cli'[q] = cli[q]
<1> DEFINE r == [Idle EXCEPT !.command = command, !.pc = pc, !.setup = s]
<1>1. cli \in [Clis -> Process]
  BY DEF TypeInv, ProgramTypes
<1>2. cli' = [cli EXCEPT ![p] = r]
  OBVIOUS
<1>3. r.pc = pc /\ r.command = command /\ r.setup = s /\ r.todo = {}
  BY DEF Idle
<1>4. r \in Process
  BY DEF Process, Idle
<1> HIDE DEF r
<1>5. cli' \in [Clis -> Process] /\ cli'[p] = r /\ \A q \in Clis \ {p} : cli'[q] = cli[q]
  BY <1>1, <1>2, <1>4
<1>6. QED BY <1>3, <1>5

LEMMA BindingCompleteEffect ==
  ASSUME TypeInv, NEW p \in Clis, NEW id \in Ids, BindingComplete(p, id)
  PROVE  /\ cli' \in [Clis -> Process]
         /\ cli'[p].pc = "verify" /\ cli'[p].command = "complete" /\ "complete" \in CommandsOf[p]
         /\ cli'[p].setup.id = id /\ cli'[p].setup \in Setup
         /\ cli'[p].todo = {}
         /\ \A q \in Clis \ {p} : cli'[q] = cli[q]
<1> DEFINE s == AsSetup(id)
<1>1. "complete" \in Commands /\ "verify" \in Pcs /\ s \in Setup
  BY SetupsOfRows DEF Commands, Pcs
<1>2. cli' = [cli EXCEPT ![p] = [Idle EXCEPT !.command = "complete", !.pc = "verify",
                                            !.setup = s]]
      /\ "complete" \in CommandsOf[p]
  BY DEF BindingComplete, Runs
<1>3. s.id = id
  BY DEF AsSetup
<1> HIDE DEF s
<1>4. /\ cli' \in [Clis -> Process]
      /\ cli'[p].pc = "verify" /\ cli'[p].command = "complete"
      /\ cli'[p].setup = s /\ cli'[p].todo = {}
      /\ \A q \in Clis \ {p} : cli'[q] = cli[q]
  BY <1>1, <1>2, BeginsEffect
<1>5. QED BY <1>1, <1>2, <1>3, <1>4

LEMMA BindingRemoveEffect ==
  ASSUME TypeInv, NEW p \in Clis, NEW id \in Ids, BindingRemove(p, id)
  PROVE  /\ cli' \in [Clis -> Process]
         /\ cli'[p].pc = "unset" /\ cli'[p].command = "remove" /\ "remove" \in CommandsOf[p]
         /\ cli'[p].setup.id = id /\ cli'[p].setup \in Setup
         /\ cli'[p].todo = {}
         /\ \A q \in Clis \ {p} : cli'[q] = cli[q]
<1> DEFINE s == [AsSetup(id) EXCEPT !.workspace = None]
<1>1. "remove" \in Commands /\ "unset" \in Pcs
  BY DEF Commands, Pcs
<1>2. cli' = [cli EXCEPT ![p] = [Idle EXCEPT !.command = "remove", !.pc = "unset",
                                            !.setup = s]]
      /\ "remove" \in CommandsOf[p]
  BY DEF BindingRemove, Runs
<1>3. s \in Setup /\ s.id = id
  BY DEF TypeInv, ProgramTypes, Row, AsSetup, Setup
<1> HIDE DEF s
<1>4. /\ cli' \in [Clis -> Process]
      /\ cli'[p].pc = "unset" /\ cli'[p].command = "remove"
      /\ cli'[p].setup = s /\ cli'[p].todo = {}
      /\ \A q \in Clis \ {p} : cli'[q] = cli[q]
  BY <1>1, <1>2, <1>3, BeginsEffect
<1>5. QED BY <1>2, <1>3, <1>4

LEMMA AgentDeleteEffect ==
  ASSUME TypeInv, NEW p \in Clis, AgentDelete(p)
  PROVE  /\ cli' \in [Clis -> Process]
         /\ cli'[p].pc = "forget" /\ cli'[p].command = "delete"
         /\ cli'[p].todo = Known("setup")
         /\ \A q \in Clis \ {p} : cli'[q] = cli[q]
<1> DEFINE todo == Known("setup")
           r == [Idle EXCEPT !.command = "delete", !.pc = "forget", !.todo = todo]
<1>1. cli \in [Clis -> Process] /\ todo \in SUBSET (Setup \cup Ids)
  BY DEF TypeInv, ProgramTypes, Known
<1>2. cli' = [cli EXCEPT ![p] = r]
  BY DEF AgentDelete
<1> HIDE DEF todo
<1>3. r.pc = "forget" /\ r.command = "delete" /\ r.todo = todo
  BY DEF Idle
<1>4. r \in Process
  BY <1>1 DEF Process, Idle, Pcs, Commands
<1> HIDE DEF r
<1>5. cli' \in [Clis -> Process] /\ cli'[p] = r /\ \A q \in Clis \ {p} : cli'[q] = cli[q]
  BY <1>1, <1>2, <1>4
<1>6. QED BY <1>3, <1>5 DEF todo

LEMMA ForgetEffect ==
  ASSUME TypeInv, NEW p \in Clis, NEW id \in Ids, Forget(p, id)
  PROVE  /\ cli' \in [Clis -> Process]
         /\ cli'[p].pc = "forget" /\ cli'[p].command = cli[p].command
         /\ cli'[p].todo = cli[p].todo \ {id}
         /\ \A q \in Clis \ {p} : cli'[q] = cli[q]
<1> DEFINE left == cli[p].todo \ {id}
<1>1. cli \in [Clis -> Process] /\ left \in SUBSET (Setup \cup Ids) /\ cli[p].pc = "forget"
  BY DEF TypeInv, ProgramTypes, Process, Forget, At
<1>2. cli' = [cli EXCEPT ![p].todo = left]
  BY <1>1 DEF Forget
<1> HIDE DEF left
<1>3. /\ cli' \in [Clis -> Process]
      /\ cli'[p].pc = "forget" /\ cli'[p].command = cli[p].command
      /\ cli'[p].todo = left
      /\ \A q \in Clis \ {p} : cli'[q] = cli[q]
  BY ONLY p \in Clis, <1>1, <1>2 DEF Process
<1>4. QED BY <1>3 DEF left

\* A process that stays in the setup, at a step whose needs it meets, is in order.
LEMMA StaysInSetup ==
  ASSUME TypeInv, NEW p \in Clis, cli[p].pc \in SetupPcs,
         cli' \in [Clis -> Process], cli'[p].pc \in SetupPcs,
         cli'[p].command = cli[p].command, cli'[p].todo = cli[p].todo,
         cli'[p].setup \in Setup,
         cli'[p].pc \in InitPcs => cli[p].command = "init",
         cli'[p].pc = "store" => cli'[p].entered \in Workspaces,
         cli'[p].pc \in {"operator", "rollback"} /\ cli[p].command = "complete" =>
           cli'[p].entered \in Workspaces,
         \A q \in Clis \ {p} : cli'[q] = cli[q]
  PROVE  ProcessesFit'
<1>1. SetupProcess(p)
  BY SetupProcesses
<1>2. ProcessFits(p)'
  BY <1>1 DEF ProcessFits, IdentityPcs, InitPcs, SetupPcs, SetupProcess
<1>3. QED BY <1>2, OthersFit

LEMMA StepFits ==
  ASSUME TypeInv, NEW p \in Clis, cli[p].pc \in InitPcs,
         NEW step \in Steps, NEW pc \in {"wait", "verify", "setup"}, Step(p, step, pc)
  PROVE  row' \in [Ids -> Row] /\ cli' \in [Clis -> Process] /\ ProcessesFit'
<1>1. /\ cli[p].pc \in SetupPcs /\ cli[p].command = "init" /\ SetupProcess(p)
      /\ pc \in Pcs /\ pc \in SetupPcs
  BY SetupProcesses DEF TypeInv, ProcessesFit, ProcessFits, SetupPcs, InitPcs, Pcs
<1>2. CASE ~Pending(Of(p)) /\ FailSetup(p) /\ UNCHANGED row
  BY <1>1, <1>2, FailSetupFits DEF TypeInv, ProgramTypes
<1>3. CASE Stepped(p, step, pc)
  <2>1. [AsSetup(Of(p)) EXCEPT !.step = step] \in Setup
    BY <1>1, SetupOfRow DEF SetupProcess
  <2>2. cli'[p].setup \in Setup
    BY <1>3, <2>1 DEF Stepped
  <2>3. cli' \in [Clis -> Process] /\ ProcessesFit'
    BY <1>1, <1>3, <2>2, StaysInSetup DEF Stepped
  <2>4. row' \in [Ids -> Row]
    BY <1>1, <1>3 DEF Stepped, Updated, TypeInv, ProgramTypes, Row, SetupProcess
  <2>5. QED BY <2>3, <2>4
<1>4. QED BY <1>1, <1>2, <1>3, StepEffect

LEMMA SetupStepFits ==
  ASSUME TypeInv, NEW p \in Clis, SetupStep(p)
  PROVE  TypeInv'
<1> USE DEF UnchangedButSetup, At
<1>0. ProcessFits(p) /\ cli[p] \in Process
  BY DEF TypeInv, ProgramTypes, ProcessesFit
<1>1. ASSUME StartSetup(p) PROVE TypeInv'
  <2>1. /\ cli[p].pc = "setup" /\ cli[p].pc \in SetupPcs /\ cli[p].command = "init"
        /\ UNCHANGED <<row, secret, agent, installed, identity, cache, kills>>
    BY <1>0, <1>1 DEF StartSetup, SetupPcs, InitPcs, ProcessFits
  <2>2. /\ cli' \in [Clis -> Process] /\ cli'[p].setup \in Setup
        /\ cli'[p].pc \in {"artifact", "wait", "verify", "get_stored"}
        /\ cli'[p].command = cli[p].command /\ cli'[p].todo = cli[p].todo
        /\ \A q \in Clis \ {p} : cli'[q] = cli[q]
    BY <1>1, StartSetupEffect
  <2>3. ProcessesFit'
    BY <2>1, <2>2, StaysInSetup DEF SetupPcs, InitPcs
  <2>4. QED BY <2>1, <2>2, <2>3 DEF TypeInv, ProgramTypes, identity, cache
<1>2. ASSUME WriteArtifact(p) PROVE TypeInv'
  <2>1. row' \in [Ids -> Row] /\ cli' \in [Clis -> Process] /\ ProcessesFit'
    BY <1>2, StepFits DEF WriteArtifact, InitPcs, Steps
  <2>2. UNCHANGED <<secret, agent, installed, identity, cache, kills>>
    BY <1>2 DEF WriteArtifact
  <2>3. QED BY <2>1, <2>2 DEF TypeInv, ProgramTypes, identity, cache
<1>3. ASSUME AdministratorIsDone(p) PROVE TypeInv'
  <2>1. row' \in [Ids -> Row] /\ cli' \in [Clis -> Process] /\ ProcessesFit'
    BY <1>3, StepFits DEF AdministratorIsDone, InitPcs, Steps
  <2>2. UNCHANGED <<secret, agent, installed, identity, cache, kills>>
    BY <1>3 DEF AdministratorIsDone
  <2>3. QED BY <2>1, <2>2 DEF TypeInv, ProgramTypes, identity, cache
<1>4. ASSUME NEW w \in Workspaces, VerifyCredentials(p, w) PROVE TypeInv'
  <2>1. /\ cli[p].pc \in SetupPcs
        /\ UNCHANGED <<row, secret, agent, installed, identity, cache, kills>>
    BY <1>4 DEF VerifyCredentials, SetupPcs
  <2>2. SetupProcess(p)
    BY <2>1, SetupProcesses
  <2>3. cli' \in [Clis -> Process] /\ ProcessesFit'
    BY <1>4, <2>1, <2>2, VerifyEffect, StaysInSetup DEF SetupPcs, InitPcs, SetupProcess
  <2>4. QED BY <2>1, <2>3 DEF TypeInv, ProgramTypes, identity, cache
<1>5. ASSUME StoreCredentials(p) PROVE TypeInv'
  <2> DEFINE w == cli[p].entered
             id == Of(p)
             s == [id |-> id, step |-> "operator", workspace |-> w]
  <2>1. /\ cli[p].pc \in SetupPcs /\ cli[p].pc = "store" /\ SetupProcess(p) /\ id \in Ids
        /\ w \in Workspaces /\ s \in Setup
        /\ secret' = [secret EXCEPT ![id] = w]
        /\ UNCHANGED <<agent, installed, identity, cache, kills>>
    BY <1>0, <1>5, SetupProcesses DEF StoreCredentials, SetupPcs, SetupProcess, ProcessFits,
      Setup, Steps
  <2>2. \/ /\ cli[p].command = "init"
           /\ row' = [row EXCEPT ![id].step = "operator", ![id].workspace = w]
           /\ cli' = [cli EXCEPT ![p].pc = "operator", ![p].setup = s]
        \/ cli[p].command = "init" /\ FailSetup(p) /\ UNCHANGED row
        \/ cli[p].command # "init" /\ Goto(p, "operator") /\ UNCHANGED row
    BY <1>5 DEF StoreCredentials
  <2> HIDE DEF s, w, id
  <2>3. secret' \in [Ids -> Workspaces \cup {None}]
    BY <2>1 DEF TypeInv, ProgramTypes
  <2>4. row' \in [Ids -> Row]
    <3>1. CASE UNCHANGED row
      BY <3>1 DEF TypeInv, ProgramTypes
    <3>2. CASE row' = [row EXCEPT ![id].step = "operator", ![id].workspace = w]
      <4>1. row \in [Ids -> Row]
        BY DEF TypeInv, ProgramTypes
      <4>2. QED BY ONLY <2>1, <3>2, <4>1 DEF Row, Steps
    <3>3. QED BY <2>2, <3>1, <3>2
  <2>5. cli' \in [Clis -> Process] /\ ProcessesFit'
    <3>1. CASE cli[p].command = "init" /\ cli' = [cli EXCEPT ![p].pc = "operator", ![p].setup = s]
      <4>1. /\ cli' \in [Clis -> Process]
            /\ cli'[p].pc = "operator" /\ cli'[p].setup = s
            /\ cli'[p].command = cli[p].command /\ cli'[p].todo = cli[p].todo
            /\ \A q \in Clis \ {p} : cli'[q] = cli[q]
        BY <2>1, <3>1, StoredEffect
      <4>2. QED BY <2>1, <3>1, <4>1, StaysInSetup DEF SetupPcs, InitPcs
    <3>2. CASE cli[p].command = "init" /\ FailSetup(p)
      BY <2>1, <3>2, FailSetupFits
    <3>3. CASE cli[p].command # "init" /\ Goto(p, "operator")
      BY <2>1, <3>3, GotoFits DEF w, Pcs
    <3>4. QED BY <2>2, <3>1, <3>2, <3>3
  <2>6. QED BY <2>1, <2>3, <2>4, <2>5 DEF TypeInv, ProgramTypes, identity, cache
<1>6. ASSUME GetStored(p) PROVE TypeInv'
  <2>1. /\ cli[p].pc = "get_stored" /\ cli[p].pc \in InitPcs /\ cli[p].pc \in SetupPcs
        /\ cli[p].command = "init" /\ SetupProcess(p)
        /\ UNCHANGED <<secret, agent, installed, identity, cache, kills>>
    BY <1>0, <1>6, SetupProcesses DEF GetStored, SetupPcs, InitPcs, ProcessFits
  <2>2. row' \in [Ids -> Row] /\ cli' \in [Clis -> Process] /\ ProcessesFit'
    <3>1. CASE cli' = [cli EXCEPT ![p].pc = "operator", ![p].entered = secret[Of(p)]] /\ UNCHANGED row
      <4>1. secret[Of(p)] \in Workspaces \cup {None}
        BY <2>1 DEF TypeInv, ProgramTypes, SetupProcess
      <4>2. /\ cli' \in [Clis -> Process]
            /\ cli'[p].pc = "operator"
            /\ cli'[p].command = cli[p].command /\ cli'[p].todo = cli[p].todo
            /\ cli'[p].setup = cli[p].setup
            /\ \A q \in Clis \ {p} : cli'[q] = cli[q]
        BY <3>1, <4>1, OperatorEffect
      <4>3. ProcessesFit'
        BY <2>1, <4>2, StaysInSetup DEF SetupPcs, InitPcs, SetupProcess
      <4>4. QED BY <3>1, <4>2, <4>3 DEF TypeInv, ProgramTypes
    <3>2. CASE Step(p, "credentials", "setup")
      BY <2>1, <3>2, StepFits DEF Steps
    <3>3. QED BY <1>6, <3>1, <3>2 DEF GetStored
  <2>3. QED BY <2>1, <2>2 DEF TypeInv, ProgramTypes, identity, cache
<1>7. ASSUME CompleteSetup(p) PROVE TypeInv'
  <2> DEFINE id == Of(p)
             w == IF cli[p].command = "init" THEN cli[p].setup.workspace ELSE cli[p].entered
  <2>1. /\ cli[p].pc = "operator" /\ cli[p].pc \in SetupPcs /\ SetupProcess(p) /\ id \in Ids
        /\ UNCHANGED <<secret, agent, installed, identity, cache, kills>>
    BY <1>7, SetupProcesses DEF CompleteSetup, SetupPcs, SetupProcess
  <2>2. w \in Workspaces \cup {None} /\ (cli[p].command = "complete" => w \in Workspaces)
    BY <1>0, <2>1 DEF Process, SetupProcess, Setup, ProcessFits
  <2>3. \/ /\ row' = [row EXCEPT ![id] = [Unused EXCEPT !.at = "bound", !.workspace = w]]
           /\ IF cli[p].command = "init" THEN TakeSetup(p, cli[p].todo) ELSE Done(p)
        \/ Goto(p, "rollback") /\ UNCHANGED row
        \/ w = None /\ FailSetup(p) /\ UNCHANGED row
    BY <1>7 DEF CompleteSetup
  <2>a. cli[p].command = "complete" => cli[p].entered \in Workspaces
    BY <1>0, <2>1 DEF ProcessFits
  <2>b. w = None => cli[p].command = "init"
    BY <2>1, <2>2, NoneAssumption DEF SetupProcess
  <2> HIDE DEF id, w
  <2>4. row' \in [Ids -> Row]
    <3>1. row \in [Ids -> Row]
      BY DEF TypeInv, ProgramTypes
    <3>2. CASE row' = [row EXCEPT ![id] = [Unused EXCEPT !.at = "bound", !.workspace = w]]
      BY ONLY <2>1, <2>2, <3>1, <3>2 DEF Row, Unused, Steps
    <3>3. QED BY <2>3, <3>1, <3>2
  <2>5. cli' \in [Clis -> Process] /\ ProcessesFit'
    <3>1. CASE IF cli[p].command = "init" THEN TakeSetup(p, cli[p].todo) ELSE Done(p)
      BY <2>1, <3>1, TakeSetupFits, DoneKeepsFits DEF SetupProcess
    <3>2. CASE Goto(p, "rollback")
      BY <2>1, <2>a, <3>2, GotoFits DEF Pcs
    <3>3. CASE w = None /\ FailSetup(p)
      BY <2>1, <2>b, <3>3, FailSetupFits
    <3>4. QED BY <2>3, <3>1, <3>2, <3>3
  <2>6. QED BY <2>1, <2>4, <2>5 DEF TypeInv, ProgramTypes, identity, cache
<1>8. ASSUME Rollback(p) PROVE TypeInv'
  <2>1. /\ cli[p].pc \in SetupPcs /\ SetupProcess(p)
        /\ secret' = [secret EXCEPT ![Of(p)] = None] \/ UNCHANGED secret
        /\ IF cli[p].command = "init" THEN FailSetup(p) ELSE Done(p)
        /\ UNCHANGED <<row, agent, installed, identity, cache, kills>>
    BY <1>8, SetupProcesses DEF Rollback, SetupPcs
  <2>2. cli' \in [Clis -> Process] /\ ProcessesFit'
    BY <2>1, FailSetupFits, DoneKeepsFits
  <2>3. secret' \in [Ids -> Workspaces \cup {None}]
    BY <2>1 DEF TypeInv, ProgramTypes
  <2>4. QED BY <2>1, <2>2, <2>3 DEF TypeInv, ProgramTypes, identity, cache
<1>9. ASSUME LeaveSetup(p) PROVE TypeInv'
  <2>1. /\ cli[p].pc \in SetupPcs
        /\ (cli[p].command = "init" /\ FailSetup(p)) \/ Done(p)
        /\ UNCHANGED <<row, secret, agent, installed, identity, cache, kills>>
    BY <1>9 DEF LeaveSetup, SetupPcs, InitPcs
  <2>2. cli' \in [Clis -> Process] /\ ProcessesFit'
    BY <2>1, FailSetupFits, DoneKeepsFits
  <2>3. QED BY <2>1, <2>2 DEF TypeInv, ProgramTypes, identity, cache
<1>10. QED
  BY <1>1, <1>2, <1>3, <1>4, <1>5, <1>6, <1>7, <1>8, <1>9 DEF SetupStep

LEMMA RemovalFits ==
  ASSUME TypeInv, NEW p \in Clis,
         \/ AgentDelete(p) \/ DeleteAgent(p) \/ FailForget(p) \/ Unset(p) \/ Kill(p)
         \/ \E id \in Ids : BindingComplete(p, id) \/ BindingRemove(p, id) \/ Forget(p, id)
  PROVE  TypeInv'
<1> USE DEF UnchangedButSetup, At, Runs
<1>0. ProcessFits(p) /\ row \in [Ids -> Row] /\ secret \in [Ids -> Workspaces \cup {None}]
  BY DEF TypeInv, ProgramTypes, ProcessesFit
<1>1. ASSUME AgentDelete(p) PROVE TypeInv'
  <2>1. /\ "delete" \in CommandsOf[p] /\ Known("setup") \subseteq Ids
        /\ UNCHANGED <<row, secret, agent, installed, identity, cache, kills>>
    BY <1>1 DEF AgentDelete, Known
  <2>2. ProcessFits(p)'
    BY <1>1, <2>1, AgentDeleteEffect DEF ProcessFits, IdentityPcs, InitPcs, SetupPcs
  <2>3. QED BY <1>1, <2>1, <2>2, AgentDeleteEffect, OthersFit
          DEF TypeInv, ProgramTypes, identity, cache
<1>2. ASSUME DeleteAgent(p) PROVE TypeInv'
  <2>1. /\ agent' \in BOOLEAN /\ row' \in [Ids -> Row] /\ Done(p)
        /\ UNCHANGED <<secret, installed, identity, cache, kills>>
    <3>1. agent \in BOOLEAN
      BY DEF TypeInv, ProgramTypes
    <3>2. \A id \in Ids : row[id] \in Row /\ [Unused EXCEPT !.at = "removed"] \in Row
      BY <1>0 DEF Row, Unused, Steps
    <3>3. row' \in [Ids -> Row]
      BY <1>0, <1>2, <3>2 DEF DeleteAgent
    <3>4. QED BY <1>2, <3>1, <3>3 DEF DeleteAgent
  <2>2. QED BY <2>1, DoneKeepsFits DEF TypeInv, ProgramTypes, identity, cache
<1>3. ASSUME FailForget(p) PROVE TypeInv'
  BY <1>3, DoneKeepsFits DEF FailForget, TypeInv, ProgramTypes, identity, cache
<1>4. ASSUME Unset(p) PROVE TypeInv'
  <2>1. row' \in [Ids -> Row] /\ secret' \in [Ids -> Workspaces \cup {None}]
    BY <1>0, <1>4 DEF Unset, Row
  <2>2. QED BY <1>4, <2>1, DoneKeepsFits DEF Unset, TypeInv, ProgramTypes, identity, cache
<1>5. ASSUME Kill(p) PROVE TypeInv'
  <2>1. kills' \in 0..MaxKills
    BY <1>5, BoundsAssumption DEF Kill, TypeInv, ProgramTypes
  <2>2. QED BY <1>5, <2>1, DoneKeepsFits DEF Kill, TypeInv, ProgramTypes, database, identity, cache
<1>6. ASSUME NEW id \in Ids, BindingComplete(p, id) PROVE TypeInv'
  <2>1. UNCHANGED <<row, secret, agent, installed, identity, cache, kills>>
    BY <1>6 DEF BindingComplete
  <2>2. ProcessFits(p)'
    BY <1>6, BindingCompleteEffect DEF ProcessFits, IdentityPcs, InitPcs, SetupPcs
  <2>3. QED BY <1>6, <2>1, <2>2, BindingCompleteEffect, OthersFit
          DEF TypeInv, ProgramTypes, identity, cache
<1>7. ASSUME NEW id \in Ids, BindingRemove(p, id) PROVE TypeInv'
  <2>1. /\ row' = [row EXCEPT ![id] = [Unused EXCEPT !.at = "deleted"]]
        /\ UNCHANGED <<secret, agent, installed, identity, cache, kills>>
    BY <1>7 DEF BindingRemove
  <2>2. ProcessFits(p)'
    BY <1>7, BindingRemoveEffect DEF ProcessFits, IdentityPcs, InitPcs, SetupPcs
  <2>3. row' \in [Ids -> Row]
    BY <1>0, <2>1 DEF Row, Unused, Steps
  <2>4. QED BY <1>7, <2>1, <2>2, <2>3, BindingRemoveEffect, OthersFit
          DEF TypeInv, ProgramTypes, identity, cache
<1>8. ASSUME NEW id \in Ids, Forget(p, id) PROVE TypeInv'
  <2>1. /\ cli[p].pc = "forget" /\ cli[p].command = "delete" /\ cli[p].todo \subseteq Ids
        /\ cli[p].command \in CommandsOf[p]
        /\ secret' = [secret EXCEPT ![id] = None]
        /\ UNCHANGED <<row, agent, installed, identity, cache, kills>>
    BY <1>0, <1>8 DEF Forget, ProcessFits
  <2>2. ProcessFits(p)'
    BY <1>8, <2>1, ForgetEffect DEF ProcessFits, IdentityPcs, InitPcs, SetupPcs
  <2>3. secret' \in [Ids -> Workspaces \cup {None}]
    BY <1>0, <2>1
  <2>4. QED BY <1>8, <2>1, <2>2, <2>3, ForgetEffect, OthersFit
          DEF TypeInv, ProgramTypes, identity, cache
<1>9. QED
  BY <1>1, <1>2, <1>3, <1>4, <1>5, <1>6, <1>7, <1>8

LEMMA DaemonFits ==
  ASSUME TypeInv,
         \/ \E id \in Ids : LoadStep(id) \/ RenewFails(id)
         \/ \E old \in SUBSET Ids : KeepFresh(old)
         \/ StartDaemon \/ StopDaemon
  PROVE  TypeInv'
<1>0. /\ load \in [Ids -> Load] /\ NoLoad \in Load /\ [NoLoad EXCEPT !.at = "get"] \in Load
      /\ secret \in [Ids -> Workspaces \cup {None}] /\ cached \subseteq Ids
  BY DEF TypeInv, ProgramTypes, NoLoad, Load
<1>1. UNCHANGED <<agent, row, installed, key, metadata, generated, cli>>
  BY DEF LoadStep, GetSecret, Renewed, SetRenewed, RenewFails, KeepFresh, StartDaemon,
    StopDaemon, database, identity
<1>2. ASSUME NEW id \in Ids, LoadStep(id) \/ RenewFails(id)
      PROVE  /\ load' \in [Ids -> Load] /\ cached' \subseteq Ids
             /\ secret' \in [Ids -> Workspaces \cup {None}]
             /\ UNCHANGED <<daemon, kills>>
  <2>1. UNCHANGED <<daemon, kills>>
    BY <1>2 DEF LoadStep, GetSecret, Renewed, SetRenewed, RenewFails
  <2>2. cached' \subseteq Ids
    BY <1>0, <1>2 DEF LoadStep, GetSecret, Renewed, SetRenewed, RenewFails
  <2>3. load[id] \in Load /\ load[id].of \in Workspaces \cup {None}
    BY <1>0 DEF Load
  <2>4. secret' \in [Ids -> Workspaces \cup {None}]
    BY <1>0, <1>2, <2>3 DEF LoadStep, GetSecret, Renewed, SetRenewed, RenewFails
  <2>5. load' \in [Ids -> Load]
    <3>1. ASSUME NEW at \in {"renew", "set"}, NEW of \in Workspaces \cup {None},
                 LoadGoes(id, at, of)
          PROVE  load' \in [Ids -> Load]
      <4>1. [at |-> at, of |-> of] \in Load
        BY DEF Load
      <4>2. QED BY <1>0, <3>1, <4>1 DEF LoadGoes
    <3>2. LoadEnds(id) => load' \in [Ids -> Load]
      BY <1>0 DEF LoadEnds
    <3>3. secret[id] \in Workspaces \cup {None}
      BY <1>0
    <3>4. QED BY <1>2, <2>3, <3>1, <3>2, <3>3
            DEF LoadStep, GetSecret, Renewed, SetRenewed, RenewFails
  <2>6. QED BY <2>1, <2>2, <2>4, <2>5
<1>3. ASSUME NEW old \in SUBSET Ids, KeepFresh(old)
      PROVE  /\ load' \in [Ids -> Load] /\ cached' \subseteq Ids
             /\ UNCHANGED <<secret, daemon, kills>>
  <2>1. load' \in [Ids -> Load]
    BY <1>0, <1>3 DEF KeepFresh, Reload
  <2>2. QED BY <1>0, <1>3, <2>1 DEF KeepFresh
<1>4. ASSUME StartDaemon \/ StopDaemon
      PROVE  /\ load' \in [Ids -> Load] /\ cached' \subseteq Ids /\ daemon' \in BOOLEAN
             /\ kills' \in 0..MaxKills /\ UNCHANGED secret
  <2>1. kills' \in 0..MaxKills
    BY <1>4, BoundsAssumption DEF StartDaemon, StopDaemon, TypeInv, ProgramTypes
  <2>2. load' \in [Ids -> Load]
    BY <1>0, <1>4 DEF StartDaemon, StopDaemon
  <2>3. QED BY <1>0, <1>4, <2>1, <2>2 DEF StartDaemon, StopDaemon
<1>5. ProgramTypes'
  BY <1>1, <1>2, <1>3, <1>4 DEF TypeInv, ProgramTypes
<1>6. QED BY <1>1, <1>5, UnchangedCliFits DEF TypeInv

LEMMA TypeInvStep == TypeInv /\ [Next]_vars => TypeInv'
<1> SUFFICES ASSUME TypeInv, [Next]_vars PROVE TypeInv'
  OBVIOUS
<1>1. CASE UNCHANGED vars
  BY <1>1, UnchangedCliFits DEF vars, programVars, database, identity, cache, TypeInv, ProgramTypes
<1>2. ASSUME NEW p \in Clis, NEW new \in SUBSET Ids, RunInit(p, new) PROVE TypeInv'
  BY <1>2, RunInitFits
<1>3. ASSUME NEW p \in Clis, RelayUse(p) PROVE TypeInv'
  BY <1>3, RelayUseFits
<1>4. ASSUME NEW p \in Clis, IdentityStep(p) PROVE TypeInv'
  BY <1>4, IdentityStepFits
<1>5. ASSUME NEW p \in Clis, SetupStep(p) PROVE TypeInv'
  BY <1>5, SetupStepFits
<1>6. ASSUME NEW p \in Clis,
             \/ AgentDelete(p) \/ DeleteAgent(p) \/ FailForget(p) \/ Unset(p) \/ Kill(p)
             \/ \E id \in Ids : BindingComplete(p, id) \/ BindingRemove(p, id) \/ Forget(p, id)
      PROVE  TypeInv'
  BY <1>6, RemovalFits
<1>7. CASE \/ \E id \in Ids : LoadStep(id) \/ RenewFails(id)
           \/ \E old \in SUBSET Ids : KeepFresh(old)
           \/ StartDaemon \/ StopDaemon
  BY <1>7, DaemonFits
<1>8. QED BY <1>1, <1>2, <1>3, <1>4, <1>5, <1>6, <1>7 DEF Next, Act

LEMMA TypeInvInit == Init => TypeInv
<1> SUFFICES ASSUME Init PROVE TypeInv
  OBVIOUS
<1>1. Idle \in Process
  BY DEF Idle, Process, Pcs
<1>2. ProgramTypes
  <2>1. Unused \in Row /\ NoLoad \in Load
    BY DEF Row, Unused, Steps, Load, NoLoad
  <2>2. 0 \in 0..MaxIdentities /\ 0 \in 0..MaxKills
    BY BoundsAssumption
  <2>3. QED BY <1>1, <2>1, <2>2 DEF Init, ProgramTypes
<1>3. ASSUME NEW p \in Clis PROVE ProcessFits(p)
  BY DEF Init, Idle, ProcessFits, IdentityPcs, InitPcs, SetupPcs
<1>4. QED BY <1>2, <1>3 DEF TypeInv, ProcessesFit

LEMMA TypeInvAlways == Spec => []TypeInv
  BY TypeInvInit, TypeInvStep, PTL DEF Spec

\* What is remembered is about ids.
HistoryTypes == met \subseteq Ids /\ torn \subseteq Ids

LEMMA HistoryStep == TypeInv /\ HistoryTypes /\ [Next]_vars => HistoryTypes'
<1> SUFFICES ASSUME TypeInv, HistoryTypes, [Next]_vars PROVE HistoryTypes'
  OBVIOUS
<1>1. CASE UNCHANGED vars
  BY <1>1 DEF vars, HistoryTypes
<1>2. CASE Remember
  <2>1. Contended' \subseteq Ids
    BY DEF Contended
  <2>2. \A p \in Clis : Completes(p) => Of(p) \in Ids
    BY SetupProcesses DEF Completes, SetupProcess, SetupPcs
  <2>3. torn' \subseteq Ids
    BY <1>2, <2>2 DEF Remember, HistoryTypes
  <2>4. QED BY <1>2, <2>1, <2>3 DEF Remember, HistoryTypes
<1>3. QED BY <1>1, <1>2 DEF Next

\* Every variable of the wizard, the commands and the cache keeps its type.
THEOREM TypeCorrect == Spec => []TypeOK
<1>1. Init => HistoryTypes
  BY DEF Init, HistoryTypes
<1>2. TypeInv /\ HistoryTypes => TypeOK
  BY DEF TypeInv, HistoryTypes, TypeOK
<1>3. QED BY <1>1, <1>2, HistoryStep, TypeInvAlways, PTL DEF Spec

----------------------------------------------------------------------------
(* The identity *)

HeldPcs == {"get_key", "set_key", "set_metadata", "clean", "enroll"}

\* Only the process that acts moves, and not to where getOrCreate() has read something.
LeavesIdentity ==
  /\ UNCHANGED <<key, metadata, installed>>
  /\ \A q \in Clis : cli'[q] = cli[q] \/ cli'[q].pc \notin HeldPcs

LEMMA DoneMoves ==
  ASSUME TypeInv, NEW p \in Clis, Done(p)
  PROVE  cli'[p] = Idle /\ cli'[p].pc = "idle" /\ \A q \in Clis \ {p} : cli'[q] = cli[q]
  BY DEF TypeInv, ProgramTypes, Done, Idle

LEMMA TakeSetupMoves ==
  ASSUME TypeInv, NEW p \in Clis, NEW rest \in SUBSET Setup, TakeSetup(p, rest)
  PROVE  cli'[p].pc \in {"idle", "setup"} /\ \A q \in Clis \ {p} : cli'[q] = cli[q]
<1>1. CASE rest = {}
  BY <1>1, DoneMoves DEF TakeSetup
<1>2. CASE rest # {}
  BY <1>2, TakeSetupEffect
<1>3. QED BY <1>1, <1>2

LEMMA FailSetupMoves ==
  ASSUME TypeInv, NEW p \in Clis, SetupProcess(p), FailSetup(p)
  PROVE  cli'[p].pc \in {"idle", "setup"} /\ \A q \in Clis \ {p} : cli'[q] = cli[q]
  BY DoneMoves, TakeSetupMoves DEF FailSetup, SetupProcess

LEMMA SetupStepMoves ==
  ASSUME TypeInv, NEW p \in Clis, SetupStep(p)
  PROVE  /\ SetupProcess(p) /\ cli[p].pc \in SetupPcs
         /\ cli'[p].pc \in SetupPcs \cup {"idle"}
         /\ \A q \in Clis \ {p} : cli'[q] = cli[q]
         /\ UNCHANGED <<agent, installed, identity, cache, kills>>
<1> USE DEF UnchangedButSetup, At
<1>0. cli[p].pc \in SetupPcs /\ UNCHANGED <<agent, installed, identity, cache, kills>>
  BY DEF SetupStep, StartSetup, WriteArtifact, AdministratorIsDone, VerifyCredentials,
    StoreCredentials, GetStored, CompleteSetup, Rollback, LeaveSetup, SetupPcs, InitPcs
<1>1. SetupProcess(p)
  BY <1>0, SetupProcesses
<1> DEFINE Moves == /\ cli'[p].pc \in SetupPcs \cup {"idle"}
                    /\ \A q \in Clis \ {p} : cli'[q] = cli[q]
<1>2. FailSetup(p) \/ Done(p) => Moves
  BY <1>1, FailSetupMoves, DoneMoves DEF SetupPcs, InitPcs
<1>3. ASSUME NEW step \in Steps, NEW pc \in {"wait", "verify", "setup"}, Step(p, step, pc)
      PROVE  Moves
  <2>1. pc \in Pcs /\ pc \in SetupPcs
    BY DEF Pcs, SetupPcs, InitPcs
  <2>2. QED BY <1>0, <1>2, <1>3, <2>1, StepEffect DEF Stepped
<1>4. StartSetup(p) => Moves
  BY StartSetupEffect DEF SetupPcs, InitPcs
<1>5. WriteArtifact(p) \/ AdministratorIsDone(p) => Moves
  BY <1>3 DEF WriteArtifact, AdministratorIsDone, Steps
<1>6. ASSUME NEW w \in Workspaces, VerifyCredentials(p, w) PROVE Moves
  BY <1>6, VerifyEffect DEF SetupPcs
<1>7. ASSUME NEW pc \in {"operator", "rollback"}, Goto(p, pc) PROVE Moves
  BY <1>7, GotoEffect DEF Pcs, SetupPcs
<1>8. ASSUME StoreCredentials(p) PROVE Moves
  <2> DEFINE s == [id |-> Of(p), step |-> "operator", workspace |-> cli[p].entered]
  <2>1. cli[p].entered \in Workspaces
    BY <1>8 DEF StoreCredentials, TypeInv, ProcessesFit, ProcessFits
  <2>2. s \in Setup
    BY <1>1, <2>1 DEF SetupProcess, Setup, Steps
  <2>3. \/ cli' = [cli EXCEPT ![p].pc = "operator", ![p].setup = s]
        \/ FailSetup(p) \/ Goto(p, "operator")
    BY <1>8 DEF StoreCredentials
  <2> HIDE DEF s
  <2>4. CASE cli' = [cli EXCEPT ![p].pc = "operator", ![p].setup = s]
    BY <2>2, <2>4, StoredEffect DEF SetupPcs
  <2>5. QED BY <1>2, <1>7, <2>3, <2>4
<1>9. ASSUME GetStored(p) PROVE Moves
  <2>1. secret[Of(p)] \in Workspaces \cup {None}
    BY <1>1 DEF TypeInv, ProgramTypes, SetupProcess
  <2>2. CASE cli' = [cli EXCEPT ![p].pc = "operator", ![p].entered = secret[Of(p)]]
    BY <2>1, <2>2, OperatorEffect DEF SetupPcs
  <2>3. CASE Step(p, "credentials", "setup")
    BY <1>3, <2>3 DEF Steps
  <2>4. QED BY <1>9, <2>2, <2>3 DEF GetStored
<1>10. ASSUME CompleteSetup(p) PROVE Moves
  <2>1. TakeSetup(p, cli[p].todo) => Moves
    BY <1>1, TakeSetupMoves DEF SetupProcess, SetupPcs, InitPcs
  <2>2. \/ TakeSetup(p, cli[p].todo) \/ Done(p) \/ Goto(p, "rollback") \/ FailSetup(p)
    BY <1>10 DEF CompleteSetup
  <2>3. QED BY <1>2, <1>7, <2>1, <2>2
<1>11. Rollback(p) \/ LeaveSetup(p) => Moves
  BY <1>2 DEF Rollback, LeaveSetup
<1>12. QED BY <1>0, <1>1, <1>4, <1>5, <1>6, <1>8, <1>9, <1>10, <1>11 DEF SetupStep

LEMMA OthersLeaveIdentity ==
  ASSUME TypeInv, [Next]_vars
  PROVE  LeavesIdentity \/ \E p \in Clis : IdentityStep(p)
<1> USE DEF UnchangedButSetup, LeavesIdentity, HeldPcs
<1>1. CASE UNCHANGED vars
  BY <1>1 DEF vars, programVars, database, identity
<1>2. ASSUME NEW p \in Clis, NEW new \in SUBSET Ids, RunInit(p, new) PROVE LeavesIdentity
  <2>1. CASE TakeSetup(p, InitTodo(new))
    BY <1>2, <2>1, RunInitEffect, TakeSetupMoves DEF identity
  <2>2. QED BY <1>2, <2>1, RunInitEffect DEF identity
<1>3. ASSUME NEW p \in Clis, RelayUse(p) PROVE LeavesIdentity
  <2>1. cli' = [cli EXCEPT ![p].command = "use", ![p].pc = "get_metadata"]
        /\ UNCHANGED <<key, metadata, installed>> /\ cli \in [Clis -> Process]
    BY <1>3 DEF RelayUse, Begin, database, identity, TypeInv, ProgramTypes
  <2>2. cli'[p].pc = "get_metadata" /\ \A q \in Clis \ {p} : cli'[q] = cli[q]
    BY ONLY p \in Clis, <2>1 DEF Process, Pcs, Commands
  <2>3. QED BY <2>1, <2>2
<1>4. ASSUME NEW p \in Clis, SetupStep(p) PROVE LeavesIdentity
  BY <1>4, SetupStepMoves DEF identity, SetupPcs, InitPcs
<1>5. ASSUME NEW p \in Clis, DeleteAgent(p) \/ FailForget(p) \/ Unset(p) \/ Kill(p)
      PROVE  LeavesIdentity
  BY <1>5, DoneMoves DEF DeleteAgent, FailForget, Unset, Kill, database, identity
<1>6. ASSUME NEW p \in Clis, AgentDelete(p) PROVE LeavesIdentity
  BY <1>6, AgentDeleteEffect DEF AgentDelete, identity
<1>7. ASSUME NEW p \in Clis, NEW id \in Ids, Forget(p, id) PROVE LeavesIdentity
  BY <1>7, ForgetEffect DEF Forget, identity
<1>8. ASSUME NEW p \in Clis, NEW id \in Ids, BindingComplete(p, id) \/ BindingRemove(p, id)
      PROVE  LeavesIdentity
  <2>1. UNCHANGED <<key, metadata, installed>>
    BY <1>8 DEF BindingComplete, BindingRemove, identity
  <2>2. QED BY <1>8, <2>1, BindingCompleteEffect, BindingRemoveEffect
<1>9. CASE \/ \E id \in Ids : LoadStep(id) \/ RenewFails(id)
           \/ \E old \in SUBSET Ids : KeepFresh(old)
           \/ StartDaemon \/ StopDaemon
  BY <1>9 DEF LoadStep, GetSecret, Renewed, SetRenewed, RenewFails, KeepFresh, StartDaemon,
    StopDaemon, database, identity
<1>10. QED
  BY <1>1, <1>2, <1>3, <1>4, <1>5, <1>6, <1>7, <1>8, <1>9 DEF Next, Act

\* At most one process runs commands that enroll, as in the instance: of two that race,
\* one may write the metadata of its key beside the key of the other.
OneEnrolls ==
  \A p, q \in Clis :
    p # q => CommandsOf[p] \cap {"init", "use"} = {} \/ CommandsOf[q] \cap {"init", "use"} = {}

\* What the process that makes the identity has read and written so far.
IdentityHeld ==
  \A p \in Clis :
    LET c == cli[p]
    IN  /\ c.pc = "get_key" => c.found = metadata
        /\ c.pc = "set_key" => key = None /\ metadata = None
        /\ c.pc = "set_metadata" => key = c.id /\ metadata = None
        /\ c.pc = "clean" => metadata = None
        /\ c.pc = "enroll" => key = c.id /\ metadata = c.id

MetadataFollowsKey == metadata # None => key = metadata

IdentityInv == TypeInv /\ IdentityAgrees /\ MetadataFollowsKey /\ IdentityHeld

LEMMA OnlyOneHolds ==
  ASSUME OneEnrolls, TypeInv, NEW p \in Clis, cli[p].pc \in IdentityPcs,
         NEW q \in Clis \ {p}
  PROVE  cli[q].pc \notin IdentityPcs
<1>1. SUFFICES ASSUME cli[q].pc \in IdentityPcs PROVE FALSE
  OBVIOUS
<1>2. /\ cli[p].command \in {"init", "use"} /\ cli[p].command \in CommandsOf[p]
      /\ cli[q].command \in {"init", "use"} /\ cli[q].command \in CommandsOf[q]
  BY <1>1 DEF TypeInv, ProcessesFit, ProcessFits, IdentityPcs
<1>3. QED BY <1>2 DEF OneEnrolls

LEMMA IdentityIsKept ==
  ASSUME IdentityInv, LeavesIdentity, TypeInv'
  PROVE  IdentityInv'
<1>1. IdentityAgrees' /\ MetadataFollowsKey'
  BY DEF IdentityInv, IdentityAgrees, MetadataFollowsKey, LeavesIdentity
<1>2. IdentityHeld'
  <2> SUFFICES ASSUME NEW q \in Clis
               PROVE  /\ cli'[q].pc = "get_key" => cli'[q].found = metadata'
                      /\ cli'[q].pc = "set_key" => key' = None /\ metadata' = None
                      /\ cli'[q].pc = "set_metadata" => key' = cli'[q].id /\ metadata' = None
                      /\ cli'[q].pc = "clean" => metadata' = None
                      /\ cli'[q].pc = "enroll" => key' = cli'[q].id /\ metadata' = cli'[q].id
    BY DEF IdentityHeld
  <2>1. CASE cli'[q].pc \notin HeldPcs
    BY <2>1 DEF HeldPcs
  <2>2. CASE cli'[q] = cli[q]
    BY <2>2 DEF IdentityInv, IdentityHeld, LeavesIdentity
  <2>3. QED BY <2>1, <2>2 DEF LeavesIdentity
<1>3. QED BY <1>1, <1>2 DEF IdentityInv

LEMMA IdentityByOne ==
  ASSUME OneEnrolls, IdentityInv, TypeInv', NEW p \in Clis, cli[p].pc \in IdentityPcs,
         \A q \in Clis \ {p} : cli'[q] = cli[q],
         LET c == cli'[p]
         IN  /\ c.pc = "get_key" => c.found = metadata'
             /\ c.pc = "set_key" => key' = None /\ metadata' = None
             /\ c.pc = "set_metadata" => key' = c.id /\ metadata' = None
             /\ c.pc = "clean" => metadata' = None
             /\ c.pc = "enroll" => key' = c.id /\ metadata' = c.id
  PROVE  IdentityHeld'
<1>1. ASSUME NEW q \in Clis \ {p} PROVE cli'[q].pc \notin IdentityPcs
  BY OnlyOneHolds DEF IdentityInv
<1>2. QED BY <1>1 DEF IdentityHeld, IdentityPcs

LEMMA IdentityStepKeeps ==
  ASSUME OneEnrolls, IdentityInv, TypeInv', NEW p \in Clis, IdentityStep(p)
  PROVE  IdentityInv'
<1> USE DEF UnchangedButIdentity, At
<1>0. /\ TypeInv /\ ProcessFits(p) /\ cli \in [Clis -> Process]
      /\ {key, metadata, installed} \subseteq 1..MaxIdentities \cup {None}
      /\ None \notin 1..MaxIdentities
  BY NoneAssumption, BoundsAssumption DEF IdentityInv, TypeInv, ProgramTypes, ProcessesFit
<1>1. ASSUME GetMetadata(p) PROVE IdentityInv'
  <2>1. /\ cli[p].pc = "get_metadata"
        /\ cli' = [cli EXCEPT ![p].pc = "get_key", ![p].found = metadata]
        /\ UNCHANGED <<key, metadata, installed>>
    BY <1>1 DEF GetMetadata, identity
  <2>2. /\ cli'[p].pc = "get_key" /\ cli'[p].found = metadata
        /\ \A q \in Clis \ {p} : cli'[q] = cli[q]
    BY ONLY p \in Clis, <1>0, <2>1 DEF Process, Pcs
  <2>3. IdentityHeld'
    BY <2>1, <2>2, IdentityByOne DEF IdentityPcs
  <2>4. QED BY <2>1, <2>3 DEF IdentityInv, IdentityAgrees, MetadataFollowsKey
<1>2. ASSUME GetKey(p) PROVE IdentityInv'
  <2>1. /\ cli[p].pc = "get_key" /\ cli[p].found = metadata
        /\ UNCHANGED <<key, metadata, installed>>
    BY <1>2 DEF GetKey, IdentityInv, IdentityHeld
  <2>2. CASE Done(p)
    <3>1. IdentityHeld'
      BY <1>0, <2>1, <2>2, DoneMoves, IdentityByOne DEF IdentityPcs
    <3>2. QED BY <2>1, <3>1 DEF IdentityInv, IdentityAgrees, MetadataFollowsKey
  <2>3. ASSUME NEW pc \in {"enroll", "set_key"}, NEW n \in 1..MaxIdentities,
               cli' = [cli EXCEPT ![p].pc = pc, ![p].id = n],
               pc = "enroll" => key = n /\ metadata = n,
               pc = "set_key" => key = None /\ metadata = None
        PROVE  IdentityInv'
    <3>1. /\ cli'[p].pc = pc /\ cli'[p].id = n
          /\ \A q \in Clis \ {p} : cli'[q] = cli[q]
      BY <1>0, <2>3 DEF Process, Pcs
    <3>2. IdentityHeld'
      BY <2>1, <2>3, <3>1, IdentityByOne DEF IdentityPcs
    <3>3. QED BY <2>1, <3>2 DEF IdentityInv, IdentityAgrees, MetadataFollowsKey
  <2>4. CASE /\ cli[p].found # None /\ key # None
             /\ cli' = [cli EXCEPT ![p].pc = "enroll", ![p].id = cli[p].found]
    <3>1. key = metadata /\ metadata \in 1..MaxIdentities /\ cli[p].found = metadata
      BY <1>0, <2>1, <2>4 DEF IdentityInv, MetadataFollowsKey
    <3>2. QED BY <2>3, <2>4, <3>1
  <2>5. CASE /\ cli[p].found = None /\ key = None /\ generated < MaxIdentities
             /\ generated' = generated + 1
             /\ cli' = [cli EXCEPT ![p].pc = "set_key", ![p].id = generated']
    <3>1. generated' \in 1..MaxIdentities /\ metadata = None
      BY <2>1, <2>5, BoundsAssumption, <1>0 DEF TypeInv, ProgramTypes
    <3>2. QED BY <2>3, <2>5, <3>1
  <2>6. QED BY <1>2, <2>2, <2>4, <2>5 DEF GetKey
<1>3. ASSUME SetKey(p) PROVE IdentityInv'
  <2>1. /\ cli[p].pc = "set_key" /\ key = None /\ metadata = None /\ installed = None
        /\ UNCHANGED <<metadata, installed>>
    BY <1>3, <1>0 DEF SetKey, IdentityInv, IdentityHeld, IdentityAgrees
  <2>2. \/ key' = cli[p].id /\ Goto(p, "set_metadata")
        \/ key' = key /\ Goto(p, "clean")
    BY <1>3 DEF SetKey
  <2>3. /\ \A q \in Clis \ {p} : cli'[q] = cli[q]
        /\ cli'[p].id = cli[p].id
        /\ \/ cli'[p].pc = "set_metadata" /\ key' = cli[p].id
           \/ cli'[p].pc = "clean"
    BY <1>0, <2>2, GotoEffect DEF Pcs
  <2>4. IdentityHeld'
    BY <2>1, <2>3, IdentityByOne DEF IdentityPcs
  <2>5. QED BY <2>1, <2>4 DEF IdentityInv, IdentityAgrees, MetadataFollowsKey
<1>4. ASSUME SetMetadata(p) PROVE IdentityInv'
  <2>1. /\ cli[p].pc = "set_metadata" /\ key = cli[p].id /\ metadata = None /\ installed = None
        /\ UNCHANGED <<key, installed>>
    BY <1>4, <1>0 DEF SetMetadata, IdentityInv, IdentityHeld, IdentityAgrees
  <2>2. \/ metadata' = cli[p].id /\ Goto(p, "enroll")
        \/ metadata' = metadata /\ Goto(p, "clean")
    BY <1>4 DEF SetMetadata
  <2>3. /\ \A q \in Clis \ {p} : cli'[q] = cli[q]
        /\ cli'[p].id = cli[p].id
        /\ \/ cli'[p].pc = "enroll" /\ metadata' = cli[p].id
           \/ cli'[p].pc = "clean" /\ metadata' = None
    BY <1>0, <2>1, <2>2, GotoEffect DEF Pcs
  <2>4. IdentityHeld'
    BY <2>1, <2>3, IdentityByOne DEF IdentityPcs
  <2>5. QED BY <2>1, <2>3, <2>4 DEF IdentityInv, IdentityAgrees, MetadataFollowsKey
<1>5. ASSUME CleanIdentity(p) PROVE IdentityInv'
  <2>1. /\ cli[p].pc = "clean" /\ metadata = None /\ installed = None
        /\ metadata' = None /\ UNCHANGED installed /\ Done(p)
    BY <1>5, <1>0 DEF CleanIdentity, IdentityInv, IdentityHeld, IdentityAgrees
  <2>2. IdentityHeld'
    BY <1>0, <2>1, DoneMoves, IdentityByOne DEF IdentityPcs
  <2>3. QED BY <2>1, <2>2 DEF IdentityInv, IdentityAgrees, MetadataFollowsKey
<1>6. ASSUME Enroll(p) PROVE IdentityInv'
  <2>1. /\ cli[p].pc = "enroll" /\ key = cli[p].id /\ metadata = cli[p].id
        /\ cli[p].todo \in SUBSET Setup
        /\ UNCHANGED <<key, metadata>> /\ installed' \in {installed, cli[p].id}
        /\ Done(p) \/ TakeSetup(p, cli[p].todo)
    BY <1>6, <1>0 DEF Enroll, IdentityInv, IdentityHeld, identity, ProcessFits, IdentityPcs
  <2>2. cli'[p].pc \in {"idle", "setup"} /\ \A q \in Clis \ {p} : cli'[q] = cli[q]
    BY <1>0, <2>1, DoneMoves, TakeSetupMoves
  <2>3. IdentityHeld'
    BY <2>1, <2>2, IdentityByOne DEF IdentityPcs
  <2>4. QED BY <2>1, <2>3 DEF IdentityInv, IdentityAgrees, MetadataFollowsKey
<1>7. QED BY <1>1, <1>2, <1>3, <1>4, <1>5, <1>6 DEF IdentityStep

\* The installation that is enrolled is the one the keyring can sign for: getOrCreate()
\* writes the key, then the metadata, and enrolls only what it read or wrote whole.
THEOREM IdentityAlwaysAgrees == OneEnrolls => (Spec => []IdentityAgrees)
<1> SUFFICES ASSUME OneEnrolls PROVE Spec => []IdentityAgrees
  OBVIOUS
<1>1. Init => IdentityInv
  <2> SUFFICES ASSUME Init PROVE IdentityInv
    OBVIOUS
  <2>1. IdentityHeld
    BY DEF Init, IdentityHeld, Idle
  <2>2. QED BY <2>1, TypeInvInit DEF Init, IdentityInv, IdentityAgrees, MetadataFollowsKey
<1>2. IdentityInv /\ [Next]_vars => IdentityInv'
  <2> SUFFICES ASSUME IdentityInv, [Next]_vars PROVE IdentityInv'
    OBVIOUS
  <2>1. TypeInv /\ TypeInv'
    BY TypeInvStep DEF IdentityInv
  <2>2. ASSUME NEW p \in Clis, IdentityStep(p) PROVE IdentityInv'
    BY <2>1, <2>2, IdentityStepKeeps
  <2>3. QED BY <2>1, <2>2, OthersLeaveIdentity, IdentityIsKept
<1>3. IdentityInv => IdentityAgrees
  BY DEF IdentityInv
<1>4. QED BY <1>1, <1>2, <1>3, PTL DEF Spec

----------------------------------------------------------------------------
(* Credentials *)

\* The ids a command has before it: a setup it completes or will come to, a Binding it
\* removes, and for `agent delete` whatever is no Binding yet.
Holds(p, id) ==
  \/ cli[p].pc \in SetupPcs /\ cli[p].setup.id = id
  \/ cli[p].pc \in SetupPcs \cup IdentityPcs /\ \E s \in cli[p].todo : s.id = id
Removes(p, id) == cli[p].pc = "unset" /\ cli[p].setup.id = id
Forgets(p, id) == cli[p].pc = "forget" /\ row[id].at \in {"unused", "setup"}
Works(p, id) == Holds(p, id) \/ Removes(p, id) \/ Forgets(p, id)

\* A wizard comes to each setup once.
Distinct(p) ==
  LET c == cli[p]
  IN  /\ c.pc \in SetupPcs => \A s \in c.todo : s.id # c.setup.id
      /\ c.pc \in SetupPcs \cup IdentityPcs => \A s, t \in c.todo : s.id = t.id => s = t

Completed(id) == \E p \in Clis : Completes(p) /\ Of(p) = id

\* The row of an id, its credentials and the load of them. What a wizard stored for a setup
\* is of the workspace it wrote into the row, unless `binding complete` stored its own since.
RowFits(id) ==
  /\ load[id].at # "none" => row[id].at \in {"bound", "deleted", "removed"}
  /\ row[id].at = "unused" => secret[id] = None
  /\ row[id].at = "removed" => secret[id] = None /\ load[id].at \notin {"renew", "set"}
  /\ Bound(id) =>
       /\ secret[id] # None /\ (id \in torn \/ secret[id] = row[id].workspace)
       /\ load[id].at \in {"renew", "set"} => load[id].of = secret[id]
  /\ Pending(id) /\ id \notin torn /\ ~Completed(id) /\ row[id].step = "operator" =>
       secret[id] \in {None, row[id].workspace}

\* What a command that works on the id relies on.
CommandFits(p, id) ==
  LET c == cli[p]
  IN  /\ Holds(p, id) => Pending(id)
      /\ Removes(p, id) => row[id].at \in {"deleted", "removed"}
      /\ c.pc = "forget" =>
           /\ id \in c.todo => Pending(id)
           /\ Pending(id) => id \in c.todo \/ secret[id] = None
      /\ c.pc = "operator" /\ c.setup.id = id =>
           IF c.command = "complete" THEN secret[id] = c.entered
           ELSE secret[id] # None /\ (id \in torn \/ secret[id] = c.setup.workspace)
      /\ c.pc = "get_stored" /\ c.setup.id = id =>
           row[id].step = "operator" /\ c.setup.workspace = row[id].workspace

Fits(id) == RowFits(id) /\ \A p \in Clis : CommandFits(p, id)

KeyInv ==
  /\ TypeInv
  /\ Contended \subseteq met
  /\ \A p \in Clis : Distinct(p)
  /\ \A id \in Ids \ met : Fits(id)

LEMMA IdsOfHeld ==
  ASSUME TypeInv, NEW p \in Clis
  PROVE  /\ cli[p].pc \in SetupPcs \cup {"unset"} => cli[p].setup.id \in Ids
         /\ cli[p].pc \in SetupPcs \cup IdentityPcs => \A s \in cli[p].todo : s.id \in Ids
         /\ cli[p].pc = "forget" => cli[p].todo \subseteq Ids
<1>1. ProcessFits(p)
  BY DEF TypeInv, ProcessesFit
<1>2. \A s \in Setup : s.id \in Ids
  BY DEF Setup
<1>3. QED BY <1>1, <1>2 DEF ProcessFits, SetupPcs, InitPcs, IdentityPcs

LEMMA WorkersWorkOn ==
  ASSUME TypeInv, NEW p \in Clis, NEW id \in Ids, Works(p, id)
  PROVE  WorksOn(p, id)
<1>0. ProcessFits(p)
  BY DEF TypeInv, ProcessesFit
<1>1. CASE cli[p].pc \in SetupPcs \cup {"unset"} /\ cli[p].setup.id = id
  <2>1. cli[p].setup \in Setup
    BY <1>0, <1>1 DEF ProcessFits, SetupPcs, InitPcs
  <2>2. QED BY <1>1, <2>1, NoSetupAssumption DEF WorksOn
<1>2. CASE cli[p].pc \in SetupPcs \cup IdentityPcs /\ \E s \in cli[p].todo : s.id = id
  <2>1. cli[p].command # "delete"
    BY <1>0, <1>2 DEF ProcessFits, SetupPcs, InitPcs, IdentityPcs
  <2>2. QED BY <1>2, <2>1 DEF WorksOn
<1>3. CASE Forgets(p, id)
  BY <1>0, <1>3 DEF Forgets, ProcessFits, WorksOn
<1>4. QED BY <1>1, <1>2, <1>3 DEF Works, Holds, Removes

\* Nobody else works on an id that was never worked on twice.
LEMMA WorksAlone ==
  ASSUME KeyInv, NEW id \in Ids \ met, NEW p \in Clis, Works(p, id), NEW q \in Clis \ {p}
  PROVE  ~Works(q, id)
<1> SUFFICES ASSUME Works(q, id) PROVE FALSE
  OBVIOUS
<1>1. WorksOn(p, id) /\ WorksOn(q, id)
  BY WorkersWorkOn DEF KeyInv
<1>2. id \in Contended
  BY <1>1 DEF Contended
<1>3. QED BY <1>2 DEF KeyInv

LEMMA MetGrows ==
  ASSUME Remember
  PROVE  met \subseteq met' /\ Contended' \subseteq met'
  BY DEF Remember

\* An id stays torn, or whole, when no command stores credentials for it or leaves it so.
LEMMA TornStays ==
  ASSUME Remember, NEW id \in Ids \ met', row'[id].at \in {"setup", "bound"},
         \A q \in Clis : Of(q) = id =>
           /\ ~(At(q, "store") /\ cli'[q].pc = "operator")
           /\ ~(Completes(q) /\ cli'[q] = Idle)
  PROVE  id \in torn' <=> id \in torn
  BY DEF Remember

LEMMA TornWhenLeft ==
  ASSUME Remember, NEW id \in Ids \ met', row'[id].at = "setup", secret'[id] # None,
         NEW p \in Clis, Of(p) = id, Completes(p), cli'[p] = Idle
  PROVE  id \in torn'
  BY DEF Remember

LEMMA IdentityStepMoves ==
  ASSUME TypeInv, NEW p \in Clis, IdentityStep(p)
  PROVE  /\ UNCHANGED <<agent, row, secret, cache, kills>>
         /\ cli[p].pc \in IdentityPcs
         /\ \/ Done(p)
            \/ cli[p].command = "init" /\ TakeSetup(p, cli[p].todo)
            \/ /\ cli'[p].pc \in IdentityPcs
               /\ cli'[p].command = cli[p].command /\ cli'[p].todo = cli[p].todo
               /\ \A q \in Clis \ {p} : cli'[q] = cli[q]
<1> USE DEF UnchangedButIdentity, At
<1>0. /\ UNCHANGED <<agent, row, secret, cache, kills>>
      /\ cli[p].pc \in IdentityPcs /\ cli[p].command \in {"init", "use"}
  <2>1. /\ UNCHANGED <<agent, row, secret, cache, kills>>
        /\ cli[p].pc \in IdentityPcs
    BY DEF IdentityStep, GetMetadata, GetKey, SetKey, SetMetadata, CleanIdentity, Enroll,
      IdentityPcs
  <2>2. QED BY <2>1 DEF TypeInv, ProcessesFit, ProcessFits
<1> DEFINE Stays == /\ cli'[p].pc \in IdentityPcs
                    /\ cli'[p].command = cli[p].command /\ cli'[p].todo = cli[p].todo
                    /\ \A q \in Clis \ {p} : cli'[q] = cli[q]
<1>1. cli \in [Clis -> Process] /\ metadata \in 1..MaxIdentities \cup {None}
  BY DEF TypeInv, ProgramTypes
<1>2. ASSUME GetMetadata(p) PROVE Stays
  <2>1. cli' = [cli EXCEPT ![p].pc = "get_key", ![p].found = metadata]
    BY <1>2 DEF GetMetadata
  <2>2. QED BY ONLY p \in Clis, <1>1, <2>1 DEF Process, Pcs, IdentityPcs
<1>3. ASSUME GetKey(p) PROVE Done(p) \/ Stays
  <2>1. ASSUME NEW pc \in {"enroll", "set_key"}, NEW n,
               cli' = [cli EXCEPT ![p].pc = pc, ![p].id = n]
        PROVE  Stays
    BY ONLY p \in Clis, <1>1, <2>1 DEF Process, IdentityPcs
  <2>2. QED BY <1>3, <2>1 DEF GetKey
<1>4. ASSUME NEW pc \in {"set_metadata", "clean", "enroll"}, Goto(p, pc) PROVE Stays
  BY <1>4, GotoEffect DEF Pcs, IdentityPcs
<1>5. SetKey(p) \/ SetMetadata(p) => Stays
  BY <1>4 DEF SetKey, SetMetadata
<1>6. CleanIdentity(p) => Done(p)
  BY DEF CleanIdentity
<1>7. Enroll(p) => Done(p) \/ (cli[p].command = "init" /\ TakeSetup(p, cli[p].todo))
  BY <1>0 DEF Enroll
<1>8. QED BY <1>0, <1>2, <1>3, <1>5, <1>6, <1>7 DEF IdentityStep

LEMMA DaemonMoves ==
  ASSUME TypeInv,
         \/ \E id \in Ids : LoadStep(id) \/ RenewFails(id)
         \/ \E old \in SUBSET Ids : KeepFresh(old)
         \/ StartDaemon \/ StopDaemon
  PROVE  /\ UNCHANGED <<agent, row, installed, identity, cli>>
         /\ \A id \in Ids :
              \/ load'[id] = load[id]
              \/ load'[id].at = "none"
              \/ load'[id].at = "get" /\ Bound(id)
              \/ /\ load[id].at = "get" /\ secret[id] # None
                 /\ load'[id].at = "renew" /\ load'[id].of = secret[id]
              \/ load[id].at = "renew" /\ load'[id].at = "set" /\ load'[id].of = load[id].of
         /\ \A id \in Ids :
              \/ secret'[id] = secret[id]
              \/ load[id].at = "set" /\ secret'[id] = load[id].of
<1>0. load \in [Ids -> Load] /\ secret \in [Ids -> Workspaces \cup {None}]
  BY DEF TypeInv, ProgramTypes
<1>1. NoLoad.at = "none" /\ [NoLoad EXCEPT !.at = "get"].at = "get"
  BY DEF NoLoad
<1>2. UNCHANGED <<agent, row, installed, identity, cli>>
  BY DEF LoadStep, GetSecret, Renewed, SetRenewed, RenewFails, KeepFresh, StartDaemon,
    StopDaemon, database, identity
<1>3. ASSUME NEW id \in Ids, GetSecret(id) \/ Renewed(id) \/ SetRenewed(id) \/ RenewFails(id)
      PROVE  /\ \A other \in Ids \ {id} : load'[other] = load[other] /\ secret'[other] = secret[other]
             /\ \/ load'[id].at = "none"
                \/ /\ load[id].at = "get" /\ secret[id] # None
                   /\ load'[id].at = "renew" /\ load'[id].of = secret[id]
                \/ load[id].at = "renew" /\ load'[id].at = "set" /\ load'[id].of = load[id].of
             /\ \/ secret'[id] = secret[id]
                \/ load[id].at = "set" /\ secret'[id] = load[id].of
  BY <1>0, <1>1, <1>3 DEF GetSecret, Renewed, SetRenewed, RenewFails, LoadEnds, LoadGoes
<1>4. ASSUME NEW old \in SUBSET Ids, KeepFresh(old)
      PROVE  /\ UNCHANGED secret
             /\ \A id \in Ids : \/ load'[id] = load[id]
                                \/ load'[id].at = "get" /\ Bound(id)
  BY <1>0, <1>1, <1>4 DEF KeepFresh, Reload, Known, Bound
<1>5. ASSUME StartDaemon \/ StopDaemon
      PROVE  /\ UNCHANGED secret
             /\ \A id \in Ids : \/ load'[id].at = "none"
                                \/ load'[id].at = "get" /\ Bound(id)
  BY <1>0, <1>1, <1>5 DEF StartDaemon, StopDaemon
<1>6. QED BY <1>2, <1>3, <1>4, <1>5 DEF LoadStep

LEMMA IdleFits ==
  ASSUME NEW p \in Clis, NEW id \in Ids, cli'[p].pc = "idle"
  PROVE  CommandFits(p, id)' /\ Distinct(p)'
  BY DEF CommandFits, Holds, Removes, Distinct, SetupPcs, InitPcs, IdentityPcs

\* A command that is where it was, when the row, the credentials and their history are.
LEMMA StillFits ==
  ASSUME NEW q \in Clis, NEW id \in Ids, CommandFits(q, id), cli'[q] = cli[q],
         row'[id] = row[id], secret'[id] = secret[id],
         row[id].at = "setup" => (id \in torn' <=> id \in torn)
  PROVE  CommandFits(q, id)'
<1>1. (Holds(q, id)' <=> Holds(q, id)) /\ (Removes(q, id)' <=> Removes(q, id))
  BY DEF Holds, Removes
<1>2. Pending(id)' <=> Pending(id)
  BY DEF Pending
<1>3. cli[q].pc = "operator" /\ cli[q].setup.id = id => Pending(id)
  BY DEF CommandFits, Holds, SetupPcs
<1>4. QED BY <1>1, <1>2, <1>3 DEF CommandFits, Pending

\* A command that has nothing to do with the id.
LEMMA StrangerFits ==
  ASSUME NEW q \in Clis, NEW id \in Ids, cli'[q] = cli[q],
         ~Holds(q, id), Removes(q, id) => row'[id].at \in {"deleted", "removed"},
         cli[q].pc = "forget" => id \notin cli[q].todo /\ row'[id].at # "setup"
  PROVE  CommandFits(q, id)'
<1>1. ~Holds(q, id)' /\ (Removes(q, id)' <=> Removes(q, id))
  BY DEF Holds, Removes
<1>2. cli[q].pc \in SetupPcs => cli[q].setup.id # id
  BY DEF Holds
<1>3. QED BY <1>1, <1>2 DEF CommandFits, Pending, SetupPcs, InitPcs

\* The other commands, when the one that acts works on the id.
LEMMA OthersAreStrangers ==
  ASSUME KeyInv, NEW id \in Ids \ met, NEW p \in Clis, Works(p, id),
         \A q \in Clis \ {p} : cli'[q] = cli[q],
         row'[id].at = "setup" => row[id].at \in {"unused", "setup"}
  PROVE  \A q \in Clis \ {p} : CommandFits(q, id)'
<1> SUFFICES ASSUME NEW q \in Clis \ {p} PROVE CommandFits(q, id)'
  OBVIOUS
<1>1. ~Holds(q, id) /\ ~Removes(q, id) /\ ~Forgets(q, id) /\ CommandFits(q, id)
  BY WorksAlone DEF Works, KeyInv, Fits
<1>2. cli[q].pc = "forget" => row[id].at \notin {"unused", "setup"} /\ id \notin cli[q].todo
  BY <1>1 DEF Forgets, CommandFits, Pending
<1>3. QED BY <1>1, <1>2, StrangerFits

LEMMA RowStillFits ==
  ASSUME NEW id \in Ids, RowFits(id), row'[id] = row[id], load'[id] = load[id],
         secret'[id] = secret[id],
         row[id].at \in {"setup", "bound"} => (id \in torn' <=> id \in torn),
         Completed(id) => Completed(id)'
  PROVE  RowFits(id)'
  BY DEF RowFits, Bound, Pending

\* A step of a command that leaves the row and its credentials alone.
LEMMA UntouchedFits ==
  ASSUME KeyInv, Remember, NEW p \in Clis, NEW id \in Ids \ met',
         \A q \in Clis \ {p} : cli'[q] = cli[q],
         row'[id] = row[id], load'[id] = load[id], secret'[id] = secret[id],
         ~(At(p, "store") /\ cli'[p].pc = "operator" /\ Of(p) = id),
         Completes(p) /\ Of(p) = id => Completes(p)' /\ Of(p)' = id,
         (row[id].at = "setup" => (id \in torn' <=> id \in torn)) => CommandFits(p, id)'
  PROVE  Fits(id)'
<1>1. id \in Ids \ met /\ Fits(id)
  BY MetGrows DEF KeyInv
<1>2. row[id].at \in {"setup", "bound"} => (id \in torn' <=> id \in torn)
  <2>1. ASSUME NEW q \in Clis, Of(q) = id
        PROVE  /\ ~(At(q, "store") /\ cli'[q].pc = "operator")
               /\ ~(Completes(q) /\ cli'[q] = Idle)
    <3>1. CASE q = p
      BY <2>1, <3>1 DEF Completes, Idle
    <3>2. CASE q # p
      BY <3>2 DEF At, Completes, Idle
    <3>3. QED BY <3>1, <3>2
  <2>2. QED BY <2>1, TornStays
<1>3. Completed(id) => Completed(id)'
  <2>1. ASSUME NEW q \in Clis, Completes(q), Of(q) = id
        PROVE  Completes(q)' /\ Of(q)' = id
    <3>1. CASE q = p
      BY <2>1, <3>1
    <3>2. CASE q # p
      BY <2>1, <3>2 DEF Completes, Of
    <3>3. QED BY <3>1, <3>2
  <2>2. QED BY <2>1 DEF Completed
<1>4. RowFits(id)'
  BY <1>1, <1>2, <1>3, RowStillFits DEF Fits
<1>5. \A q \in Clis \ {p} : CommandFits(q, id)'
  BY <1>1, <1>2, StillFits DEF Fits
<1>6. QED BY <1>2, <1>4, <1>5 DEF Fits

\* A command that comes to the next of the setups it has before it.
LEMMA TakenFits ==
  ASSUME TypeInv, NEW p \in Clis, NEW rest \in SUBSET Setup, TakeSetup(p, rest),
         \A s, t \in rest : s.id = t.id => s = t
  PROVE  /\ Distinct(p)' /\ ~Completes(p)' /\ cli'[p].pc \in {"idle", "setup"}
         /\ \A q \in Clis \ {p} : cli'[q] = cli[q]
         /\ \A id \in Ids : Holds(p, id)' => \E s \in rest : s.id = id
         /\ \A id \in Ids : (\A s \in rest : s.id = id => row'[id].at = "setup") =>
                              CommandFits(p, id)'
<1>1. CASE rest = {}
  <2>1. cli'[p].pc = "idle" /\ \A q \in Clis \ {p} : cli'[q] = cli[q]
    BY <1>1, DoneMoves DEF TakeSetup
  <2>2. \A id \in Ids : ~Holds(p, id)'
    BY <2>1 DEF Holds, SetupPcs, InitPcs, IdentityPcs
  <2>3. ~Completes(p)'
    BY <2>1 DEF Completes
  <2>4. \A id \in Ids : CommandFits(p, id)'
    BY <2>1, IdleFits
  <2>5. Distinct(p)'
    BY <2>1 DEF Distinct, SetupPcs, InitPcs, IdentityPcs
  <2>6. QED BY <2>1, <2>2, <2>3, <2>4, <2>5
<1>2. CASE rest # {}
  <2>1. PICK s \in rest :
           /\ cli'[p].pc = "setup" /\ cli'[p].command = "init" /\ cli'[p].setup = s
           /\ cli'[p].todo = rest \ {s}
           /\ \A q \in Clis \ {p} : cli'[q] = cli[q]
    BY <1>2, TakeSetupEffect
  <2>2. \A id \in Ids : Holds(p, id)' => \E t \in rest : t.id = id
    BY <2>1 DEF Holds
  <2>3. ASSUME NEW id \in Ids, \A t \in rest : t.id = id => row'[id].at = "setup"
        PROVE  CommandFits(p, id)'
    BY <2>1, <2>2, <2>3 DEF CommandFits, Pending, Removes
  <2>4. Distinct(p)'
    <3>1. \A t \in rest \ {s} : t.id # s.id
      OBVIOUS
    <3>2. \A t, u \in rest \ {s} : t.id = u.id => t = u
      OBVIOUS
    <3>3. QED BY <2>1, <3>1, <3>2 DEF Distinct
  <2>5. QED BY <2>1, <2>2, <2>3, <2>4 DEF Completes
<1>3. QED BY <1>1, <1>2

\* What a step of a setup does to the other ids.
Elsewhere(p) ==
  /\ \A id \in Ids \ {Of(p)} : row'[id] = row[id] /\ secret'[id] = secret[id]
  /\ \/ Done(p)
     \/ TakeSetup(p, cli[p].todo)
     \/ /\ cli'[p].pc \in SetupPcs /\ cli'[p].todo = cli[p].todo
        /\ cli'[p].setup.id = Of(p)

LEMMA SetupStepElsewhere ==
  ASSUME TypeInv, NEW p \in Clis, SetupStep(p)
  PROVE  Elsewhere(p)
<1> USE DEF UnchangedButSetup, At
<1>0. /\ cli[p].pc \in SetupPcs /\ SetupProcess(p) /\ ProcessFits(p) /\ Of(p) \in Ids
      /\ row \in [Ids -> Row] /\ secret \in [Ids -> Workspaces \cup {None}]
      /\ cli[p].setup.id = Of(p)
  BY SetupStepMoves DEF TypeInv, ProgramTypes, ProcessesFit, SetupProcess, Of
<1>2. FailSetup(p) => Done(p) \/ TakeSetup(p, cli[p].todo)
  BY DEF FailSetup
<1>3. ASSUME UNCHANGED row, \A id \in Ids \ {Of(p)} : secret'[id] = secret[id],
             \/ Done(p)
             \/ FailSetup(p)
             \/ /\ cli'[p].pc \in SetupPcs /\ cli'[p].todo = cli[p].todo
                /\ cli'[p].setup.id = Of(p)
      PROVE  Elsewhere(p)
  BY <1>2, <1>3 DEF Elsewhere
<1>4. ASSUME NEW step \in Steps, NEW pc \in {"wait", "verify", "setup"}, Step(p, step, pc),
             UNCHANGED secret
      PROVE  Elsewhere(p)
  <2>1. pc \in Pcs /\ pc \in SetupPcs
    BY DEF Pcs, SetupPcs, InitPcs
  <2>2. CASE Stepped(p, step, pc)
    <3>1. \A id \in Ids \ {Of(p)} : row'[id] = row[id]
      BY <1>0, <2>2 DEF Stepped, Updated
    <3>2. cli'[p].setup.id = Of(p)
      BY <1>0, <2>2, SetupOfRow DEF Stepped
    <3>3. QED BY <1>4, <2>1, <2>2, <3>1, <3>2 DEF Elsewhere, Stepped
  <2>3. CASE FailSetup(p) /\ UNCHANGED row
    BY <1>3, <1>4, <2>3
  <2>4. QED BY <1>0, <1>4, <2>1, <2>2, <2>3, StepEffect
<1>5. ASSUME StartSetup(p) PROVE Elsewhere(p)
  <2>1. /\ cli'[p].setup = IF Pending(cli[p].setup.id) THEN AsSetup(cli[p].setup.id)
                           ELSE cli[p].setup
        /\ cli'[p].pc \in SetupPcs /\ cli'[p].todo = cli[p].todo
    BY <1>5, StartSetupEffect DEF SetupPcs, InitPcs
  <2>2. cli'[p].setup.id = Of(p)
    BY <1>0, <2>1 DEF AsSetup
  <2>3. QED BY <1>3, <1>5, <2>1, <2>2 DEF StartSetup
<1>6. ASSUME WriteArtifact(p) \/ AdministratorIsDone(p) PROVE Elsewhere(p)
  BY <1>4, <1>6 DEF WriteArtifact, AdministratorIsDone, Steps
<1>7. ASSUME NEW w \in Workspaces, VerifyCredentials(p, w) PROVE Elsewhere(p)
  <2>1. cli'[p].pc \in SetupPcs /\ cli'[p].todo = cli[p].todo /\ cli'[p].setup.id = Of(p)
    BY <1>0, <1>7, VerifyEffect DEF SetupPcs
  <2>2. QED BY <1>3, <1>7, <2>1 DEF VerifyCredentials
<1>8. ASSUME NEW pc \in {"operator", "rollback"}, Goto(p, pc)
      PROVE  cli'[p].pc \in SetupPcs /\ cli'[p].todo = cli[p].todo /\ cli'[p].setup.id = Of(p)
  BY <1>0, <1>8, GotoEffect DEF Pcs, SetupPcs
<1>9. ASSUME StoreCredentials(p) PROVE Elsewhere(p)
  <2> DEFINE w == cli[p].entered
             s == [id |-> Of(p), step |-> "operator", workspace |-> w]
  <2>1. w \in Workspaces /\ secret' = [secret EXCEPT ![Of(p)] = w]
    BY <1>0, <1>9 DEF StoreCredentials, ProcessFits
  <2>2. s \in Setup /\ s.id = Of(p)
    BY <1>0, <2>1 DEF Setup, Steps
  <2>3. \A id \in Ids \ {Of(p)} : secret'[id] = secret[id]
    BY <1>0, <2>1
  <2>4. \/ /\ row' = [row EXCEPT ![Of(p)].step = "operator", ![Of(p)].workspace = w]
           /\ cli' = [cli EXCEPT ![p].pc = "operator", ![p].setup = s]
        \/ FailSetup(p) /\ UNCHANGED row
        \/ Goto(p, "operator") /\ UNCHANGED row
    BY <1>9 DEF StoreCredentials
  <2> HIDE DEF s, w
  <2>5. CASE /\ row' = [row EXCEPT ![Of(p)].step = "operator", ![Of(p)].workspace = w]
             /\ cli' = [cli EXCEPT ![p].pc = "operator", ![p].setup = s]
    <3>1. \A id \in Ids \ {Of(p)} : row'[id] = row[id]
      BY ONLY <1>0, <2>5
    <3>2. cli'[p].pc = "operator" /\ cli'[p].setup = s /\ cli'[p].todo = cli[p].todo
      BY <2>2, <2>5, StoredEffect
    <3>3. QED BY <2>2, <2>3, <3>1, <3>2 DEF Elsewhere, SetupPcs
  <2>6. QED BY <1>3, <1>8, <2>3, <2>4, <2>5
<1>10. ASSUME GetStored(p) PROVE Elsewhere(p)
  <2>1. secret[Of(p)] \in Workspaces \cup {None} /\ UNCHANGED secret
    BY <1>0, <1>10 DEF GetStored
  <2>2. CASE cli' = [cli EXCEPT ![p].pc = "operator", ![p].entered = secret[Of(p)]]
             /\ UNCHANGED row
    <3>1. cli'[p].pc \in SetupPcs /\ cli'[p].todo = cli[p].todo /\ cli'[p].setup.id = Of(p)
      BY <1>0, <2>1, <2>2, OperatorEffect DEF SetupPcs
    <3>2. QED BY <1>3, <2>1, <2>2, <3>1
  <2>3. CASE Step(p, "credentials", "setup")
    BY <1>4, <2>1, <2>3 DEF Steps
  <2>4. QED BY <1>10, <2>2, <2>3 DEF GetStored
<1>11. ASSUME CompleteSetup(p) PROVE Elsewhere(p)
  <2>1. /\ UNCHANGED secret
        /\ \/ /\ \A id \in Ids \ {Of(p)} : row'[id] = row[id]
              /\ TakeSetup(p, cli[p].todo) \/ Done(p)
           \/ Goto(p, "rollback") /\ UNCHANGED row
           \/ FailSetup(p) /\ UNCHANGED row
    BY <1>0, <1>11 DEF CompleteSetup
  <2>2. QED BY <1>3, <1>8, <2>1 DEF Elsewhere
<1>12. ASSUME Rollback(p) PROVE Elsewhere(p)
  <2>1. /\ UNCHANGED row /\ \A id \in Ids \ {Of(p)} : secret'[id] = secret[id]
        /\ FailSetup(p) \/ Done(p)
    BY <1>0, <1>12 DEF Rollback
  <2>2. QED BY <1>3, <2>1
<1>13. ASSUME LeaveSetup(p) PROVE Elsewhere(p)
  BY <1>3, <1>13 DEF LeaveSetup
<1>14. QED
  BY <1>5, <1>6, <1>7, <1>9, <1>10, <1>11, <1>12, <1>13 DEF SetupStep

\* A step of a setup, for the ids that it is not about.
LEMMA SetupStepFitsOthers ==
  ASSUME KeyInv, Remember, NEW p \in Clis, SetupStep(p)
  PROVE  Distinct(p)' /\ \A id \in Ids \ met' : id # Of(p) => Fits(id)'
<1>0. /\ TypeInv /\ SetupProcess(p) /\ cli[p].pc \in SetupPcs /\ Distinct(p)
      /\ UNCHANGED load /\ \A q \in Clis \ {p} : cli'[q] = cli[q]
  BY SetupStepMoves DEF KeyInv, cache
<1>1. Elsewhere(p) /\ Of(p) = cli[p].setup.id
  BY <1>0, SetupStepElsewhere DEF Of
<1>2. /\ \A s \in cli[p].todo : s.id \in Ids /\ s.id # Of(p)
      /\ \A s, t \in cli[p].todo : s.id = t.id => s = t
  BY <1>0, <1>1, IdsOfHeld DEF Distinct
<1>3. Distinct(p)'
  <2>1. CASE Done(p)
    BY <1>0, <2>1, DoneMoves DEF Distinct, SetupPcs, InitPcs, IdentityPcs
  <2>2. CASE TakeSetup(p, cli[p].todo)
    BY <1>0, <1>2, <2>2, TakenFits DEF SetupProcess
  <2>3. CASE /\ cli'[p].pc \in SetupPcs /\ cli'[p].todo = cli[p].todo
             /\ cli'[p].setup.id = Of(p)
    BY <1>2, <2>3 DEF Distinct
  <2>4. QED BY <1>1, <2>1, <2>2, <2>3 DEF Elsewhere
<1>4. ASSUME NEW id \in Ids \ met', id # Of(p) PROVE Fits(id)'
  <2>1. id \in Ids \ met /\ row'[id] = row[id] /\ secret'[id] = secret[id]
        /\ load'[id] = load[id]
    BY <1>0, <1>1, <1>4, MetGrows DEF Elsewhere
  <2>2. CommandFits(p, id)
    BY <2>1 DEF KeyInv, Fits
  <2>3. \A s \in cli[p].todo : s.id = id => row'[id].at = "setup"
    BY <1>0, <2>1, <2>2 DEF CommandFits, Holds, Pending
  <2>4. CommandFits(p, id)'
    <3>1. CASE Done(p)
      BY <1>0, <3>1, DoneMoves, IdleFits
    <3>2. CASE TakeSetup(p, cli[p].todo)
      BY <1>0, <1>2, <2>3, <3>2, TakenFits DEF SetupProcess
    <3>3. CASE /\ cli'[p].pc \in SetupPcs /\ cli'[p].todo = cli[p].todo
               /\ cli'[p].setup.id = Of(p)
      <4>1. Holds(p, id)' => row'[id].at = "setup"
        BY <1>4, <2>3, <3>3 DEF Holds
      <4>2. cli'[p].setup.id # id /\ cli'[p].pc \notin {"unset", "forget"}
        BY <1>4, <3>3 DEF SetupPcs, InitPcs
      <4>3. QED BY <4>1, <4>2 DEF CommandFits, Removes, Pending
    <3>4. QED BY <1>1, <3>1, <3>2, <3>3 DEF Elsewhere
  <2>5. QED BY <1>0, <1>4, <2>1, <2>4, UntouchedFits
<1>5. QED BY <1>3, <1>4

LEMMA TornStaysByOne ==
  ASSUME Remember, NEW p \in Clis, NEW id \in Ids \ met', row'[id].at \in {"setup", "bound"},
         \A q \in Clis \ {p} : cli'[q] = cli[q],
         ~(At(p, "store") /\ cli'[p].pc = "operator" /\ Of(p) = id),
         ~(Completes(p) /\ cli'[p] = Idle /\ Of(p) = id)
  PROVE  id \in torn' <=> id \in torn
<1>1. ASSUME NEW q \in Clis, Of(q) = id
      PROVE  /\ ~(At(q, "store") /\ cli'[q].pc = "operator")
             /\ ~(Completes(q) /\ cli'[q] = Idle)
  <2>1. CASE q = p
    BY <1>1, <2>1
  <2>2. CASE q # p
    BY <2>2 DEF At, Completes, Idle
  <2>3. QED BY <2>1, <2>2
<1>2. QED BY <1>1, TornStays

\* What a step of a setup starts from, when only this command ever worked on the setup.
OwnSetup(p, id) ==
  /\ id \in Ids \ met /\ id = Of(p) /\ id = cli[p].setup.id
  /\ cli[p].pc \in SetupPcs /\ SetupProcess(p) /\ ProcessFits(p)
  /\ Pending(id) /\ row[id].at = "setup" /\ load[id].at = "none" /\ Works(p, id)
  /\ RowFits(id) /\ CommandFits(p, id)
  /\ \A s \in cli[p].todo : s.id # id
  /\ \A s, t \in cli[p].todo : s.id = t.id => s = t
  /\ \A q \in Clis \ {p} : ~(Completes(q) /\ Of(q) = id)

LEMMA SetupIsOwn ==
  ASSUME KeyInv, NEW p \in Clis, cli[p].pc \in SetupPcs, Of(p) \in Ids \ met
  PROVE  OwnSetup(p, Of(p))
<1>1. /\ SetupProcess(p) /\ ProcessFits(p) /\ Distinct(p)
      /\ RowFits(Of(p)) /\ CommandFits(p, Of(p))
  BY SetupProcesses DEF KeyInv, TypeInv, ProcessesFit, Fits
<1>2. Holds(p, Of(p)) /\ Works(p, Of(p))
  BY DEF Holds, Works, Of
<1>3. Pending(Of(p)) /\ row[Of(p)].at = "setup" /\ load[Of(p)].at = "none"
  BY <1>1, <1>2 DEF CommandFits, RowFits, Pending
<1>4. \A q \in Clis \ {p} : ~(Completes(q) /\ Of(q) = Of(p))
  BY <1>2, WorksAlone DEF Works, Holds, Completes, Of, SetupPcs
<1>5. QED BY <1>1, <1>2, <1>3, <1>4 DEF OwnSetup, Distinct, Of

\* The process stays in the setup, or goes on to another.
LEMMA OwnSetupLeft ==
  ASSUME TypeInv, NEW p \in Clis, NEW id \in Ids, OwnSetup(p, id),
         Done(p) \/ FailSetup(p) \/ TakeSetup(p, cli[p].todo)
  PROVE  CommandFits(p, id)' /\ ~Completes(p)' /\ cli'[p].pc \in {"idle", "setup"}
<1>1. CASE Done(p)
  BY <1>1, DoneMoves, IdleFits DEF Completes
<1>2. CASE TakeSetup(p, cli[p].todo)
  BY <1>2, TakenFits DEF OwnSetup, SetupProcess
<1>3. QED BY <1>1, <1>2 DEF FailSetup

\* The setup's row or its credentials are written.
LEMMA OwnSetupWritten ==
  ASSUME KeyInv, Remember, NEW p \in Clis, NEW id \in Ids \ met', OwnSetup(p, id),
         \A q \in Clis \ {p} : cli'[q] = cli[q],
         RowFits(id)', CommandFits(p, id)'
  PROVE  Fits(id)'
<1>1. \A q \in Clis \ {p} : CommandFits(q, id)'
  BY OthersAreStrangers DEF OwnSetup
<1>2. QED BY <1>1 DEF Fits

\* Nobody else is in the middle of completing it.
LEMMA OwnSetupCompleted ==
  ASSUME NEW p \in Clis, NEW id \in Ids, OwnSetup(p, id),
         \A q \in Clis \ {p} : cli'[q] = cli[q]
  PROVE  /\ Completed(id)' => Completes(p)'
         /\ Completed(id) => Completes(p)
<1>1. \A q \in Clis \ {p} : ~(Completes(q)' /\ Of(q)' = id)
  BY DEF OwnSetup, Completes, Of
<1>2. QED BY <1>1 DEF Completed, OwnSetup

LEMMA OwnSetupFits ==
  ASSUME KeyInv, Remember, NEW p \in Clis, NEW id \in Ids \ met', OwnSetup(p, id),
         SetupStep(p)
  PROVE  Fits(id)'
<1> USE DEF UnchangedButSetup, At
<1>0. /\ TypeInv /\ UNCHANGED load /\ \A q \in Clis \ {p} : cli'[q] = cli[q]
      /\ row \in [Ids -> Row] /\ secret \in [Ids -> Workspaces \cup {None}]
  BY SetupStepMoves DEF KeyInv, cache, TypeInv, ProgramTypes
<1>1. /\ id = Of(p) /\ id = cli[p].setup.id /\ cli[p].pc \in SetupPcs
      /\ row[id].at = "setup" /\ Pending(id) /\ load[id].at = "none"
      /\ RowFits(id) /\ CommandFits(p, id) /\ SetupProcess(p) /\ ProcessFits(p)
  BY DEF OwnSetup
<1>2. ASSUME row'[id] = row[id], secret'[id] = secret[id],
             ~(cli[p].pc = "store" /\ cli'[p].pc = "operator"),
             Completes(p) => Completes(p)' /\ cli'[p].setup.id = id,
             (id \in torn' <=> id \in torn) => CommandFits(p, id)'
      PROVE  Fits(id)'
  BY <1>0, <1>1, <1>2, UntouchedFits DEF Of
<1>3. ASSUME UNCHANGED row, UNCHANGED secret, ~Completes(p),
             Done(p) \/ FailSetup(p) \/ TakeSetup(p, cli[p].todo)
      PROVE  Fits(id)'
  BY <1>0, <1>2, <1>3, OwnSetupLeft
<1>4. ASSUME NEW step \in {"admin_action", "credentials"},
             NEW pc \in {"wait", "verify", "setup"}, Step(p, step, pc), UNCHANGED secret
      PROVE  Fits(id)'
  <2>1. pc \in Pcs /\ step \in Steps
    BY DEF Pcs, Steps
  <2>2. Stepped(p, step, pc)
    BY <1>0, <1>1, <1>4, <2>1, StepEffect
  <2>3. row'[id].at = "setup" /\ row'[id].step = step
    BY ONLY <1>0, <1>1, id \in Ids, <2>2 DEF Stepped, Updated, Row
  <2>4. RowFits(id)'
    BY <1>0, <1>1, <2>3 DEF RowFits, Bound, Pending
  <2>5. CommandFits(p, id)'
    BY <2>2, <2>3 DEF Stepped, CommandFits, Pending, Removes
  <2>6. QED BY <1>0, <2>4, <2>5, OwnSetupWritten
<1>5. ASSUME StartSetup(p) PROVE Fits(id)'
  <2>1. /\ cli'[p].setup = AsSetup(id) /\ UNCHANGED <<row, secret>>
        /\ cli'[p].pc \in {"artifact", "wait", "verify", "get_stored"}
        /\ row[id].step # "operator" => cli'[p].pc # "get_stored"
        /\ cli[p].pc = "setup"
    <3>1. AsSetup(id).step = row[id].step /\ row[id].step \in Steps
      BY <1>0 DEF AsSetup, Row
    <3>2. Pending(cli[p].setup.id) /\ AsSetup(cli[p].setup.id) = AsSetup(id)
      BY <1>1
    <3>3. /\ cli'[p].setup = AsSetup(id)
          /\ cli'[p].pc \in {"artifact", "wait", "verify", "get_stored"}
          /\ AsSetup(id).step = "selected" => cli'[p].pc = "artifact"
          /\ AsSetup(id).step = "admin_action" => cli'[p].pc = "wait"
          /\ AsSetup(id).step = "credentials" => cli'[p].pc = "verify"
      BY <1>0, <1>5, <3>2, StartSetupEffect
    <3>4. UNCHANGED <<row, secret>> /\ cli[p].pc = "setup"
      BY <1>5 DEF StartSetup
    <3>5. QED BY <3>1, <3>3, <3>4 DEF Steps
  <2>2. CommandFits(p, id)'
    BY <1>1, <2>1 DEF CommandFits, Pending, Removes, AsSetup
  <2>3. ~Completes(p)
    BY <2>1 DEF Completes
  <2>4. QED BY <1>2, <2>1, <2>2, <2>3
<1>6. ASSUME WriteArtifact(p) \/ AdministratorIsDone(p) PROVE Fits(id)'
  BY <1>4, <1>6 DEF WriteArtifact, AdministratorIsDone
<1>7. ASSUME NEW w \in Workspaces, VerifyCredentials(p, w) PROVE Fits(id)'
  <2>1. cli'[p].pc = "store" /\ UNCHANGED <<row, secret>> /\ cli[p].pc = "verify"
    BY <1>0, <1>7, VerifyEffect DEF VerifyCredentials
  <2>2. CommandFits(p, id)' /\ ~Completes(p)
    BY <1>1, <2>1 DEF CommandFits, Pending, Removes, Completes
  <2>3. QED BY <1>2, <2>1, <2>2
<1>8. ASSUME StoreCredentials(p) PROVE Fits(id)'
  <2> DEFINE w == cli[p].entered
             s == [id |-> id, step |-> "operator", workspace |-> w]
  <2>1. w \in Workspaces /\ secret'[id] = w /\ w # None
    BY <1>0, <1>1, <1>8, NoneAssumption DEF StoreCredentials, ProcessFits
  <2>2. s \in Setup /\ s.id = id /\ s.workspace = w
    BY <2>1 DEF Setup, Steps
  <2>3. CASE cli[p].command = "init"
    <3>1. /\ row' = [row EXCEPT ![id].step = "operator", ![id].workspace = w]
          /\ cli' = [cli EXCEPT ![p].pc = "operator", ![p].setup = s]
      BY <1>1, <1>8, <2>3 DEF StoreCredentials
    <3> HIDE DEF s, w
    <3>2. row'[id].at = "setup" /\ row'[id].workspace = w
      BY ONLY <1>0, <1>1, id \in Ids, <3>1 DEF Row
    <3>3. cli'[p].pc = "operator" /\ cli'[p].setup = s /\ cli'[p].command = "init"
      BY <1>0, <2>2, <2>3, <3>1, StoredEffect
    <3>4. RowFits(id)'
      BY <1>0, <1>1, <2>1, <3>2 DEF RowFits, Bound, Pending
    <3>5. CommandFits(p, id)'
      BY <2>1, <2>2, <3>2, <3>3 DEF CommandFits, Pending, Removes
    <3>6. QED BY <1>0, <3>4, <3>5, OwnSetupWritten
  <2>4. CASE cli[p].command # "init"
    <3>1. Goto(p, "operator") /\ UNCHANGED row /\ cli[p].command = "complete"
      BY <1>1, <1>8, <2>4 DEF StoreCredentials, SetupProcess
    <3>2. /\ cli'[p].pc = "operator" /\ cli'[p].setup = cli[p].setup
          /\ cli'[p].command = "complete" /\ cli'[p].entered = w
      BY <1>0, <3>1, GotoEffect DEF Pcs
    <3>3. Completed(id)'
      BY <1>1, <3>2 DEF Completed, Completes, Of
    <3>4. RowFits(id)'
      BY <1>0, <1>1, <3>1, <3>3 DEF RowFits, Bound, Pending
    <3>5. CommandFits(p, id)'
      BY <1>1, <2>1, <3>1, <3>2 DEF CommandFits, Pending, Removes
    <3>6. QED BY <1>0, <3>4, <3>5, OwnSetupWritten
  <2>5. QED BY <2>3, <2>4
<1>9. ASSUME GetStored(p) PROVE Fits(id)'
  <2>1. secret[id] \in Workspaces \cup {None} /\ UNCHANGED secret /\ cli[p].pc = "get_stored"
    BY <1>0, <1>9 DEF GetStored
  <2>2. cli[p].command = "init" /\ ~Completes(p)
    BY <1>1, <2>1 DEF ProcessFits, InitPcs, Completes
  <2>3. CASE secret[id] # None
    <3>1. cli' = [cli EXCEPT ![p].pc = "operator", ![p].entered = secret[id]] /\ UNCHANGED row
      BY <1>1, <1>9, <2>3 DEF GetStored
    <3>2. /\ cli'[p].pc = "operator" /\ cli'[p].setup = cli[p].setup
          /\ cli'[p].command = "init"
      BY <1>0, <2>1, <2>2, <3>1, OperatorEffect
    <3>3. row[id].step = "operator" /\ cli[p].setup.workspace = row[id].workspace
      BY <1>1, <2>1 DEF CommandFits
    <3>4. ~Completed(id)
      BY <1>0, <2>2, OwnSetupCompleted
    <3>5. id \in torn \/ secret[id] = cli[p].setup.workspace
      BY <1>1, <2>3, <3>3, <3>4 DEF RowFits
    <3>6. (id \in torn' <=> id \in torn) => CommandFits(p, id)'
      BY <1>1, <2>1, <2>3, <3>1, <3>2, <3>5 DEF CommandFits, Pending, Removes
    <3>7. QED BY <1>2, <2>1, <2>2, <3>1, <3>6
  <2>4. CASE secret[id] = None
    BY <1>1, <1>4, <1>9, <2>1, <2>4 DEF GetStored
  <2>5. QED BY <2>3, <2>4
<1>10. ASSUME CompleteSetup(p) PROVE Fits(id)'
  <2> DEFINE w == IF cli[p].command = "init" THEN cli[p].setup.workspace ELSE cli[p].entered
  <2>1. /\ UNCHANGED secret /\ cli[p].pc = "operator"
        /\ \/ /\ row' = [row EXCEPT ![id] = [Unused EXCEPT !.at = "bound", !.workspace = w]]
              /\ w # None
              /\ TakeSetup(p, cli[p].todo) \/ Done(p)
           \/ Goto(p, "rollback") /\ UNCHANGED row
           \/ w = None /\ FailSetup(p) /\ UNCHANGED row
    BY <1>1, <1>10 DEF CompleteSetup
  <2>2. IF cli[p].command = "complete" THEN secret[id] = w
        ELSE secret[id] # None /\ (id \in torn \/ secret[id] = w)
    BY <1>1, <2>1 DEF CommandFits, SetupProcess
  <2>3. w = None => ~Completes(p)
    BY <1>1, <2>1, NoneAssumption DEF ProcessFits, Completes
  <2> HIDE DEF w
  <2>4. CASE /\ row' = [row EXCEPT ![id] = [Unused EXCEPT !.at = "bound", !.workspace = w]]
             /\ w # None
             /\ TakeSetup(p, cli[p].todo) \/ Done(p)
    <3>1. row'[id].at = "bound" /\ row'[id].workspace = w
      BY ONLY <1>0, id \in Ids, <2>4 DEF Unused
    <3>2. cli[p].command = "init" => (id \in torn' <=> id \in torn)
      BY <1>0, <2>1, <3>1, TornStaysByOne DEF Completes
    <3>3. secret'[id] # None /\ (id \in torn' \/ secret'[id] = row'[id].workspace)
      BY <1>1, <2>1, <2>2, <2>4, <3>1, <3>2 DEF SetupProcess
    <3>4. RowFits(id)'
      BY <1>0, <1>1, <3>1, <3>3 DEF RowFits, Bound, Pending
    <3>5. CommandFits(p, id)'
      <4>1. CASE Done(p)
        BY <1>0, <4>1, DoneMoves, IdleFits
      <4>2. CASE TakeSetup(p, cli[p].todo)
        BY <1>0, <4>2, TakenFits DEF OwnSetup, SetupProcess
      <4>3. QED BY <2>4, <4>1, <4>2
    <3>6. QED BY <1>0, <3>4, <3>5, OwnSetupWritten
  <2>5. CASE Goto(p, "rollback") /\ UNCHANGED row
    <3>1. /\ cli'[p].pc = "rollback" /\ cli'[p].setup = cli[p].setup
          /\ cli'[p].command = cli[p].command
      BY <1>0, <2>5, GotoEffect DEF Pcs
    <3>2. CommandFits(p, id)'
      BY <1>1, <2>5, <3>1 DEF CommandFits, Pending, Removes
    <3>3. Completes(p) => Completes(p)' /\ cli'[p].setup.id = id
      BY <1>1, <3>1 DEF Completes
    <3>4. QED BY <1>2, <2>1, <2>5, <3>1, <3>2, <3>3
  <2>6. CASE w = None /\ FailSetup(p) /\ UNCHANGED row
    BY <1>3, <2>1, <2>3, <2>6
  <2>7. QED BY <2>1, <2>4, <2>5, <2>6
<1>11. ASSUME Rollback(p) PROVE Fits(id)'
  <2>1. /\ UNCHANGED row /\ secret'[id] \in {secret[id], None} /\ cli[p].pc = "rollback"
        /\ IF cli[p].command = "init" THEN FailSetup(p) ELSE Done(p)
    BY <1>0, <1>1, <1>11 DEF Rollback
  <2>2. CommandFits(p, id)' /\ ~Completes(p)'
    BY <1>0, <2>1, OwnSetupLeft
  <2>3. secret'[id] = None \/ id \in torn' \/
          (~Completes(p) /\ secret'[id] = secret[id] /\ (id \in torn' <=> id \in torn))
    <3>1. CASE cli[p].command = "init"
      BY <1>0, <1>1, <2>1, <3>1, TornStaysByOne DEF Completes
    <3>2. CASE cli[p].command # "init"
      <4>1. cli'[p] = Idle /\ Completes(p)
        BY <1>0, <1>1, <2>1, <3>2, DoneMoves DEF Completes, SetupProcess
      <4>2. QED BY <1>1, <2>1, <4>1, TornWhenLeft
    <3>3. QED BY <3>1, <3>2
  <2>4. ~Completes(p) => ~Completed(id)
    BY <1>0, OwnSetupCompleted
  <2>5. RowFits(id)'
    BY <1>0, <1>1, <2>1, <2>3, <2>4 DEF RowFits, Bound, Pending
  <2>6. QED BY <1>0, <2>2, <2>5, OwnSetupWritten
<1>12. ASSUME LeaveSetup(p) PROVE Fits(id)'
  <2>1. ~Completes(p) /\ (FailSetup(p) \/ Done(p)) /\ UNCHANGED row /\ UNCHANGED secret
    BY <1>12 DEF LeaveSetup, Completes
  <2>2. QED BY <1>3, <2>1
<1>13. QED
  BY <1>5, <1>6, <1>7, <1>8, <1>9, <1>10, <1>11, <1>12 DEF SetupStep

LEMMA KeySetupStep ==
  ASSUME KeyInv, TypeInv', Remember, NEW p \in Clis, SetupStep(p)
  PROVE  KeyInv'
<1>1. /\ TypeInv /\ cli[p].pc \in SetupPcs /\ \A q \in Clis \ {p} : cli'[q] = cli[q]
  BY SetupStepMoves DEF KeyInv
<1>2. Distinct(p)' /\ \A id \in Ids \ met' : id # Of(p) => Fits(id)'
  BY SetupStepFitsOthers
<1>3. ASSUME NEW id \in Ids \ met', id = Of(p) PROVE Fits(id)'
  <2>1. OwnSetup(p, id)
    BY <1>1, <1>3, MetGrows, SetupIsOwn
  <2>2. QED BY <2>1, OwnSetupFits
<1>4. \A q \in Clis : Distinct(q)'
  <2>1. \A q \in Clis \ {p} : Distinct(q)'
    BY <1>1 DEF KeyInv, Distinct
  <2>2. QED BY <1>2, <2>1
<1>5. QED BY <1>2, <1>3, <1>4, MetGrows DEF KeyInv

\* A step that ends in the invariant for every id that nobody worked on twice.
LEMMA KeyByOne ==
  ASSUME KeyInv, TypeInv', Remember, NEW p \in Clis, Distinct(p)',
         \A q \in Clis \ {p} : cli'[q] = cli[q],
         \A id \in Ids \ met' : Fits(id)'
  PROVE  KeyInv'
<1>1. \A q \in Clis \ {p} : Distinct(q)'
  BY DEF KeyInv, Distinct
<1>2. QED BY <1>1, MetGrows DEF KeyInv

LEMMA KeyIdentity ==
  ASSUME KeyInv, TypeInv', Remember, NEW p \in Clis, IdentityStep(p) \/ RelayUse(p)
  PROVE  KeyInv'
<1>0. TypeInv /\ Distinct(p) /\ cli \in [Clis -> Process]
  BY DEF KeyInv, TypeInv, ProgramTypes
<1>1. UNCHANGED <<row, secret, load>> /\ cli[p].pc \in IdentityPcs \cup {"idle"}
  BY <1>0, IdentityStepMoves DEF RelayUse, Runs, Idle, database, cache
<1>2. /\ Distinct(p)' /\ \A q \in Clis \ {p} : cli'[q] = cli[q]
      /\ cli'[p].pc \in IdentityPcs \cup {"idle", "setup"}
      /\ \A id \in Ids : (Holds(p, id) => Pending(id)) => CommandFits(p, id)'
  <2>1. CASE RelayUse(p)
    <3>1. cli' = [cli EXCEPT ![p].command = "use", ![p].pc = "get_metadata"]
          /\ cli[p].todo = {}
      BY <2>1 DEF RelayUse, Begin, Runs, Idle
    <3>2. /\ cli'[p].pc = "get_metadata" /\ cli'[p].todo = {}
          /\ \A q \in Clis \ {p} : cli'[q] = cli[q]
      BY ONLY p \in Clis, <1>0, <3>1 DEF Process, Pcs, Commands
    <3>3. Distinct(p)' /\ \A id \in Ids : CommandFits(p, id)'
      BY <3>2 DEF Distinct, CommandFits, Holds, Removes, SetupPcs, InitPcs
    <3>4. QED BY <3>2, <3>3 DEF IdentityPcs
  <2>2. CASE IdentityStep(p)
    <3>1. cli[p].pc \in IdentityPcs /\ cli[p].todo \in SUBSET Setup
      BY <1>0, <2>2, IdentityStepMoves DEF TypeInv, ProcessesFit, ProcessFits
    <3>2. \A s, t \in cli[p].todo : s.id = t.id => s = t
      BY <1>0, <3>1 DEF Distinct
    <3>3. \A id \in Ids : (Holds(p, id) => Pending(id)) =>
                            \A s \in cli[p].todo : s.id = id => row'[id].at = "setup"
      BY <1>1, <3>1 DEF Holds, Pending
    <3>4. CASE Done(p)
      <4>1. cli'[p].pc = "idle" /\ \A q \in Clis \ {p} : cli'[q] = cli[q]
        BY <1>0, <3>4, DoneMoves
      <4>2. Distinct(p)' /\ \A id \in Ids : CommandFits(p, id)'
        BY <4>1 DEF Distinct, CommandFits, Holds, Removes, SetupPcs, InitPcs, IdentityPcs
      <4>3. QED BY <4>1, <4>2
    <3>5. CASE TakeSetup(p, cli[p].todo)
      BY <1>0, <3>1, <3>2, <3>3, <3>5, TakenFits
    <3>6. CASE /\ cli'[p].pc \in IdentityPcs /\ cli'[p].todo = cli[p].todo
               /\ \A q \in Clis \ {p} : cli'[q] = cli[q]
      <4>1. Distinct(p)'
        BY <3>2, <3>6 DEF Distinct, SetupPcs, InitPcs, IdentityPcs
      <4>2. ASSUME NEW id \in Ids, Holds(p, id) => Pending(id) PROVE CommandFits(p, id)'
        <5>1. Holds(p, id)' => row'[id].at = "setup"
          BY <3>3, <3>6, <4>2 DEF Holds, SetupPcs, InitPcs, IdentityPcs
        <5>2. QED BY <3>6, <5>1 DEF CommandFits, Removes, Pending, IdentityPcs
      <4>3. QED BY <3>6, <4>1, <4>2
    <3>7. QED BY <1>0, <2>2, <3>4, <3>5, <3>6, IdentityStepMoves
  <2>3. QED BY <2>1, <2>2
<1>3. ASSUME NEW id \in Ids \ met' PROVE Fits(id)'
  <2>1. CommandFits(p, id)'
    <3>1. CommandFits(p, id)
      BY <1>3, MetGrows DEF KeyInv, Fits
    <3>2. QED BY <1>2, <3>1 DEF CommandFits
  <2>2. ~Completes(p) /\ ~(At(p, "store") /\ cli'[p].pc = "operator")
    BY <1>1 DEF Completes, At, IdentityPcs
  <2>3. QED BY <1>1, <1>2, <2>1, <2>2, UntouchedFits
<1>4. QED BY <1>2, <1>3, KeyByOne

LEMMA KeyRunInit ==
  ASSUME KeyInv, TypeInv', Remember, NEW p \in Clis, NEW new \in SUBSET Ids, RunInit(p, new)
  PROVE  KeyInv'
<1> DEFINE todo == InitTodo(new)
<1>0. TypeInv /\ row \in [Ids -> Row] /\ cli \in [Clis -> Process]
  BY DEF KeyInv, TypeInv, ProgramTypes
<1>1. /\ new \subseteq Known("unused") /\ row' = InitRows(new) /\ cli[p].pc = "idle"
      /\ UNCHANGED <<secret, load>> /\ todo \in SUBSET Setup
  <2>1. cli[p] = Idle /\ new \subseteq Known("unused") /\ row' = InitRows(new)
        /\ UNCHANGED <<secret, cache>> /\ todo \in SUBSET Setup
    BY <1>0, RunInitEffect
  <2>2. Idle.pc = "idle"
    BY DEF Idle
  <2>3. QED BY <2>1, <2>2 DEF cache
<1>2. /\ \A id \in new : row'[id] = [Unused EXCEPT !.at = "setup"] /\ row[id].at = "unused"
      /\ \A id \in Ids \ new : row'[id] = row[id]
  BY <1>0, <1>1 DEF InitRows, Known
<1>a. \A id \in new : row'[id].at = "setup" /\ row'[id].step = "selected"
  BY <1>2 DEF Unused
<1>3. /\ \A s \in todo : row'[s.id].at = "setup"
      /\ \A s, t \in todo : s.id = t.id => s = t
      /\ \A id \in new : \E s \in todo : s.id = id
  <2>1. \A s \in todo : \/ s.id \in Known("setup") /\ s = AsSetup(s.id)
                        \/ /\ s.id \in new
                           /\ s = [id |-> s.id, step |-> "selected", workspace |-> None]
    BY DEF InitTodo, AsSetup
  <2>2. \A id \in Known("setup") : id \in Ids \ new /\ row[id].at = "setup"
    BY <1>2 DEF Known
  <2>3. ASSUME NEW id \in new PROVE \E s \in todo : s.id = id
    <3>1. [id |-> id, step |-> "selected", workspace |-> None] \in todo
      BY DEF InitTodo
    <3>2. [id |-> id, step |-> "selected", workspace |-> None].id = id
      OBVIOUS
    <3>3. QED BY <3>1, <3>2
  <2>4. QED BY <1>2, <1>a, <2>1, <2>2, <2>3
<1> HIDE DEF todo
<1>4. /\ Distinct(p)' /\ \A q \in Clis \ {p} : cli'[q] = cli[q]
      /\ \A id \in Ids : CommandFits(p, id)'
  <2>1. CASE UNCHANGED cli
    <3>1. cli'[p].pc = "idle"
      BY <1>1, <2>1
    <3>2. QED BY <2>1, <3>1, IdleFits DEF Distinct, SetupPcs, InitPcs, IdentityPcs
  <2>2. CASE TakeSetup(p, todo)
    BY <1>0, <1>1, <1>3, <2>2, TakenFits
  <2>3. CASE /\ cli'[p].pc = "get_metadata" /\ cli'[p].todo = todo
             /\ \A q \in Clis \ {p} : cli'[q] = cli[q]
    BY <1>3, <2>3 DEF Distinct, CommandFits, Holds, Removes, Pending, SetupPcs, InitPcs
  <2>4. QED BY <1>0, <2>1, <2>2, <2>3, RunInitEffect DEF todo
<1>5. ASSUME NEW id \in Ids \ met' PROVE Fits(id)'
  <2>1. id \in Ids \ met /\ RowFits(id) /\ \A q \in Clis : CommandFits(q, id)
    BY <1>5, MetGrows DEF KeyInv, Fits
  <2>2. ~Completes(p) /\ ~At(p, "store")
    BY <1>1 DEF Completes, At
  <2>3. CASE id \notin new
    BY <1>1, <1>2, <1>4, <1>5, <2>2, <2>3, UntouchedFits
  <2>4. CASE id \in new
    <3>1. secret'[id] = None /\ load'[id].at = "none" /\ row[id].at = "unused"
      BY <1>1, <1>2, <2>1, <2>4 DEF RowFits
    <3>2. RowFits(id)'
      BY <1>a, <2>4, <3>1 DEF RowFits, Bound, Pending
    <3>3. ASSUME NEW q \in Clis \ {p} PROVE CommandFits(q, id)'
      <4>1. ~Holds(q, id) /\ ~Removes(q, id) /\ (cli[q].pc = "forget" => id \notin cli[q].todo)
        BY <2>1, <3>1 DEF CommandFits, Pending
      <4>2. ~Holds(q, id)' /\ ~Removes(q, id)' /\ cli'[q] = cli[q]
        BY <1>4, <4>1 DEF Holds, Removes
      <4>3. cli[q].pc \in SetupPcs => cli[q].setup.id # id
        BY <4>1 DEF Holds
      <4>4. cli'[q].pc \notin {"operator", "get_stored"} \/ cli'[q].setup.id # id
        BY <4>2, <4>3 DEF SetupPcs, InitPcs
      <4>5. cli'[q].pc = "forget" => id \notin cli'[q].todo /\ secret'[id] = None
        BY <3>1, <4>1, <4>2
      <4>6. QED BY <4>2, <4>4, <4>5 DEF CommandFits
    <3>4. QED BY <1>4, <3>2, <3>3 DEF Fits
  <2>5. QED BY <2>3, <2>4
<1>6. QED BY <1>4, <1>5, KeyByOne

\* A command that is about no setup begins, goes on or ends, and changes nothing else.
LEMMA KeyByCommand ==
  ASSUME KeyInv, TypeInv', Remember, NEW p \in Clis, UNCHANGED <<row, secret, load>>,
         ~Completes(p), ~At(p, "store"), Distinct(p)',
         \A q \in Clis \ {p} : cli'[q] = cli[q],
         \A id \in Ids \ met' : CommandFits(p, id) => CommandFits(p, id)'
  PROVE  KeyInv'
<1>1. ASSUME NEW id \in Ids \ met' PROVE Fits(id)'
  <2>1. CommandFits(p, id)
    BY MetGrows DEF KeyInv, Fits
  <2>2. QED BY <2>1, UntouchedFits
<1>2. QED BY <1>1, KeyByOne

LEMMA KeyKill ==
  ASSUME KeyInv, TypeInv', Remember, NEW p \in Clis, Kill(p)
  PROVE  KeyInv'
<1>1. /\ TypeInv /\ UNCHANGED <<row, secret, load>> /\ cli'[p] = Idle
      /\ cli'[p].pc = "idle" /\ \A q \in Clis \ {p} : cli'[q] = cli[q]
  BY DoneMoves DEF KeyInv, Kill, database, cache
<1>2. ASSUME NEW id \in Ids \ met' PROVE Fits(id)'
  <2>1. CASE Completes(p) /\ Of(p) = id
    <3>1. OwnSetup(p, id)
      BY <1>2, <2>1, MetGrows, SetupIsOwn DEF Completes, SetupPcs
    <3>2. secret'[id] = None \/ id \in torn'
      BY <1>1, <2>1, <3>1, TornWhenLeft DEF OwnSetup
    <3>3. RowFits(id)'
      BY <1>1, <3>1, <3>2 DEF OwnSetup, RowFits, Bound, Pending
    <3>4. QED BY <1>1, <3>1, <3>3, IdleFits, OwnSetupWritten
  <2>2. CASE ~(Completes(p) /\ Of(p) = id)
    BY <1>1, <2>2, IdleFits, UntouchedFits
  <2>3. QED BY <2>1, <2>2
<1>3. Distinct(p)'
  BY <1>1 DEF Distinct, SetupPcs, InitPcs, IdentityPcs
<1>4. QED BY <1>1, <1>2, <1>3, KeyByOne

LEMMA KeyAgentDelete ==
  ASSUME KeyInv, TypeInv', Remember, NEW p \in Clis,
         AgentDelete(p) \/ DeleteAgent(p) \/ FailForget(p) \/ \E id \in Ids : Forget(p, id)
  PROVE  KeyInv'
<1> USE DEF UnchangedButSetup, At
<1>0. TypeInv /\ row \in [Ids -> Row] /\ secret \in [Ids -> Workspaces \cup {None}]
  BY DEF KeyInv, TypeInv, ProgramTypes
<1>1. CASE AgentDelete(p)
  <2>1. UNCHANGED <<row, secret, load>> /\ cli[p].pc = "idle"
    BY <1>1 DEF AgentDelete, Runs, Idle, cache
  <2>2. /\ cli'[p].pc = "forget" /\ cli'[p].todo = Known("setup")
        /\ \A q \in Clis \ {p} : cli'[q] = cli[q]
    BY <1>0, <1>1, AgentDeleteEffect
  <2>3. \A id \in Ids : CommandFits(p, id)'
    BY <2>1, <2>2 DEF CommandFits, Holds, Removes, Pending, Known, SetupPcs, InitPcs, IdentityPcs
  <2>4. Distinct(p)' /\ ~Completes(p)
    BY <2>1, <2>2 DEF Distinct, Completes, SetupPcs, InitPcs, IdentityPcs
  <2>5. QED BY <2>1, <2>2, <2>3, <2>4, KeyByCommand
<1>2. CASE FailForget(p)
  <2>1. UNCHANGED <<row, secret, load>> /\ cli[p].pc = "forget"
    BY <1>2 DEF FailForget, cache
  <2>2. cli'[p].pc = "idle" /\ \A q \in Clis \ {p} : cli'[q] = cli[q]
    BY <1>0, <1>2, DoneMoves DEF FailForget
  <2>3. \A id \in Ids : CommandFits(p, id)'
    BY <2>2, IdleFits
  <2>4. Distinct(p)' /\ ~Completes(p)
    BY <2>1, <2>2 DEF Distinct, Completes, SetupPcs, InitPcs, IdentityPcs
  <2>5. QED BY <2>1, <2>2, <2>3, <2>4, KeyByCommand
<1>3. CASE DeleteAgent(p)
  <2>1. /\ cli[p].pc = "forget" /\ cli[p].todo = {} /\ UNCHANGED <<secret, load>>
        /\ cli'[p].pc = "idle" /\ \A q \in Clis \ {p} : cli'[q] = cli[q]
    BY <1>0, <1>3, DoneMoves DEF DeleteAgent, cache
  <2>2. \A id \in Ids : row'[id] = row[id] \/ (Pending(id) /\ row'[id].at = "removed")
    BY <1>0, <1>3 DEF DeleteAgent, Unused
  <2>3. ASSUME NEW id \in Ids \ met' PROVE Fits(id)'
    <3>1. id \in Ids \ met /\ RowFits(id) /\ CommandFits(p, id)
      BY <2>3, MetGrows DEF KeyInv, Fits
    <3>2. CASE row'[id] = row[id]
      BY <2>1, <2>3, <3>2, IdleFits, UntouchedFits DEF Completes
    <3>3. CASE Pending(id) /\ row'[id].at = "removed"
      <4>1. secret[id] = None /\ load[id].at = "none" /\ Works(p, id)
        BY <2>1, <3>1, <3>3 DEF CommandFits, RowFits, Works, Forgets, Pending
      <4>2. RowFits(id)'
        BY <2>1, <3>3, <4>1 DEF RowFits, Bound, Pending
      <4>3. \A q \in Clis \ {p} : CommandFits(q, id)'
        BY <2>1, <3>1, <3>3, <4>1, OthersAreStrangers
      <4>4. QED BY <2>1, <4>2, <4>3, IdleFits DEF Fits
    <3>4. QED BY <2>2, <3>2, <3>3
  <2>4. Distinct(p)'
    BY <2>1 DEF Distinct, SetupPcs, InitPcs, IdentityPcs
  <2>5. QED BY <2>1, <2>3, <2>4, KeyByOne
<1>4. ASSUME NEW one \in Ids, Forget(p, one) PROVE KeyInv'
  <2>1. /\ cli[p].pc = "forget" /\ one \in cli[p].todo /\ UNCHANGED <<row, load>>
        /\ secret'[one] = None /\ \A id \in Ids \ {one} : secret'[id] = secret[id]
    BY <1>0, <1>4 DEF Forget, cache
  <2>2. /\ cli'[p].pc = "forget" /\ cli'[p].todo = cli[p].todo \ {one}
        /\ \A q \in Clis \ {p} : cli'[q] = cli[q]
    BY <1>0, <1>4, ForgetEffect
  <2>3. ASSUME NEW id \in Ids \ met' PROVE Fits(id)'
    <3>1. id \in Ids \ met /\ RowFits(id) /\ CommandFits(p, id)
      BY <2>3, MetGrows DEF KeyInv, Fits
    <3>2. CommandFits(p, id)'
      BY <2>1, <2>2, <3>1 DEF CommandFits, Holds, Removes, Pending, SetupPcs, InitPcs, IdentityPcs
    <3>3. CASE id # one
      BY <2>1, <2>2, <2>3, <3>2, <3>3, UntouchedFits DEF Completes
    <3>4. CASE id = one
      <4>1. row[id].at = "setup" /\ load[id].at = "none" /\ Works(p, id)
        BY <2>1, <3>1, <3>4 DEF CommandFits, RowFits, Works, Forgets, Pending
      <4>2. RowFits(id)'
        BY <2>1, <3>4, <4>1 DEF RowFits, Bound, Pending
      <4>3. \A q \in Clis \ {p} : CommandFits(q, id)'
        BY <2>1, <2>2, <3>1, <4>1, OthersAreStrangers
      <4>4. QED BY <3>2, <4>2, <4>3 DEF Fits
    <3>5. QED BY <3>3, <3>4
  <2>4. Distinct(p)'
    BY <2>2 DEF Distinct, SetupPcs, InitPcs, IdentityPcs
  <2>5. QED BY <2>2, <2>3, <2>4, KeyByOne
<1>5. QED BY <1>1, <1>2, <1>3, <1>4

LEMMA KeyBinding ==
  ASSUME KeyInv, TypeInv', Remember, NEW p \in Clis,
         Unset(p) \/ \E id \in Ids : BindingComplete(p, id) \/ BindingRemove(p, id)
  PROVE  KeyInv'
<1> USE DEF UnchangedButSetup, At
<1>0. TypeInv /\ row \in [Ids -> Row] /\ secret \in [Ids -> Workspaces \cup {None}]
  BY DEF KeyInv, TypeInv, ProgramTypes
<1>1. ASSUME NEW one \in Ids, BindingComplete(p, one) PROVE KeyInv'
  <2>1. UNCHANGED <<row, secret, load>> /\ cli[p].pc = "idle" /\ Pending(one)
    <3>1. cli[p] = Idle /\ Pending(one) /\ UNCHANGED <<row, secret, load>>
      BY <1>1 DEF BindingComplete, Runs, cache
    <3>2. Idle.pc = "idle"
      BY DEF Idle
    <3>3. QED BY <3>1, <3>2
  <2>2. /\ cli'[p].pc = "verify" /\ cli'[p].setup.id = one /\ cli'[p].todo = {}
        /\ \A q \in Clis \ {p} : cli'[q] = cli[q]
    BY <1>0, <1>1, BindingCompleteEffect
  <2>3. \A id \in Ids : CommandFits(p, id)'
    BY <2>1, <2>2 DEF CommandFits, Holds, Removes, Pending
  <2>4. Distinct(p)' /\ ~Completes(p)
    BY <2>1, <2>2 DEF Distinct, Completes
  <2>5. QED BY <2>1, <2>2, <2>3, <2>4, KeyByCommand
<1>2. ASSUME NEW one \in Ids, BindingRemove(p, one) PROVE KeyInv'
  <2>1. /\ UNCHANGED <<secret, load>> /\ cli[p].pc = "idle" /\ row[one].at = "bound"
        /\ row'[one].at = "deleted" /\ \A id \in Ids \ {one} : row'[id] = row[id]
    <3>1. /\ cli[p] = Idle /\ Bound(one) /\ UNCHANGED <<secret, load>>
          /\ row' = [row EXCEPT ![one] = [Unused EXCEPT !.at = "deleted"]]
      BY <1>2 DEF BindingRemove, Runs, cache
    <3>2. Idle.pc = "idle"
      BY DEF Idle
    <3>3. [Unused EXCEPT !.at = "deleted"].at = "deleted"
      BY DEF Unused
    <3>4. row'[one].at = "deleted" /\ \A id \in Ids \ {one} : row'[id] = row[id]
      BY <1>0, <3>1, <3>3
    <3>5. QED BY <3>1, <3>2, <3>4 DEF Bound
  <2>2. /\ cli'[p].pc = "unset" /\ cli'[p].setup.id = one
        /\ \A q \in Clis \ {p} : cli'[q] = cli[q]
    BY <1>0, <1>2, BindingRemoveEffect
  <2>3. \A id \in Ids : CommandFits(p, id)'
    BY <2>1, <2>2 DEF CommandFits, Holds, Removes, SetupPcs, InitPcs, IdentityPcs
  <2>4. Distinct(p)' /\ ~Completes(p)
    BY <2>1, <2>2 DEF Distinct, Completes, SetupPcs, InitPcs, IdentityPcs
  <2>5. ASSUME NEW id \in Ids \ met' PROVE Fits(id)'
    <3>1. id \in Ids \ met /\ RowFits(id) /\ \A q \in Clis : CommandFits(q, id)
      BY <2>5, MetGrows DEF KeyInv, Fits
    <3>2. CASE id # one
      BY <2>1, <2>2, <2>3, <2>4, <2>5, <3>2, UntouchedFits
    <3>3. CASE id = one
      <4>1. RowFits(id)'
        BY <2>1, <3>3 DEF RowFits, Bound, Pending
      <4>2. ASSUME NEW q \in Clis \ {p} PROVE CommandFits(q, id)'
        BY <2>1, <2>2, <3>1, <3>3, StrangerFits DEF CommandFits, Pending
      <4>3. QED BY <2>3, <4>1, <4>2 DEF Fits
    <3>4. QED BY <3>2, <3>3
  <2>6. QED BY <2>2, <2>4, <2>5, KeyByOne
<1>3. CASE Unset(p)
  <2>1. /\ cli[p].pc = "unset" /\ UNCHANGED load
        /\ cli'[p].pc = "idle" /\ \A q \in Clis \ {p} : cli'[q] = cli[q]
    BY <1>0, <1>3, DoneMoves DEF Unset, cache
  <2>2. Of(p) = cli[p].setup.id /\ Of(p) \in Ids
    BY <1>0, <2>1, IdsOfHeld DEF Of
  <2>3. /\ \A id \in Ids \ {Of(p)} : row'[id] = row[id] /\ secret'[id] = secret[id]
        /\ \/ UNCHANGED <<row, secret>>
           \/ secret'[Of(p)] = None /\ row'[Of(p)].at = "removed"
    BY <1>0, <1>3, <2>2 DEF Unset, Row
  <2>4. Distinct(p)' /\ ~Completes(p)
    BY <2>1 DEF Distinct, Completes, SetupPcs, InitPcs, IdentityPcs
  <2>5. ASSUME NEW id \in Ids \ met' PROVE Fits(id)'
    <3>1. id \in Ids \ met /\ RowFits(id) /\ CommandFits(p, id)
      BY <2>5, MetGrows DEF KeyInv, Fits
    <3>2. CASE row'[id] = row[id] /\ secret'[id] = secret[id]
      BY <2>1, <2>4, <2>5, <3>2, IdleFits, UntouchedFits
    <3>3. CASE id = Of(p) /\ secret'[id] = None /\ row'[id].at = "removed"
      <4>1. Works(p, id) /\ row[id].at \in {"deleted", "removed"}
        BY <2>1, <2>2, <3>1, <3>3 DEF Works, Removes, CommandFits
      <4>2. load[id].at \notin {"renew", "set"}
        BY <2>1, <3>1, <3>3 DEF KeyInv, Contended
      <4>3. RowFits(id)'
        BY <2>1, <3>3, <4>2 DEF RowFits, Bound, Pending
      <4>4. \A q \in Clis \ {p} : CommandFits(q, id)'
        BY <2>1, <3>1, <3>3, <4>1, OthersAreStrangers
      <4>5. QED BY <2>1, <4>3, <4>4, IdleFits DEF Fits
    <3>4. QED BY <2>3, <3>2, <3>3
  <2>6. QED BY <2>1, <2>4, <2>5, KeyByOne
<1>4. QED BY <1>1, <1>2, <1>3

LEMMA KeyDaemon ==
  ASSUME KeyInv, TypeInv', Remember,
         \/ \E id \in Ids : LoadStep(id) \/ RenewFails(id)
         \/ \E old \in SUBSET Ids : KeepFresh(old)
         \/ StartDaemon \/ StopDaemon
  PROVE  KeyInv'
<1>0. TypeInv /\ UNCHANGED <<row, cli>>
  BY DaemonMoves DEF KeyInv
<1>1. ASSUME NEW id \in Ids \ met' PROVE Fits(id)'
  <2>1. id \in Ids \ met /\ RowFits(id) /\ \A q \in Clis : CommandFits(q, id)
    BY <1>1, MetGrows DEF KeyInv, Fits
  <2>2. row[id].at \in {"setup", "bound"} => (id \in torn' <=> id \in torn)
    <3>1. \A q \in Clis : /\ ~(At(q, "store") /\ cli'[q].pc = "operator")
                          /\ ~(Completes(q) /\ cli'[q] = Idle)
      BY <1>0 DEF At, Completes, Idle
    <3>2. QED BY <1>0, <1>1, <3>1, TornStays
  <2>3. Completed(id)' <=> Completed(id)
    BY <1>0 DEF Completed, Completes, Of
  <2>4. \/ load'[id] = load[id]
        \/ load'[id].at = "none"
        \/ load'[id].at = "get" /\ Bound(id)
        \/ /\ load[id].at = "get" /\ secret[id] # None
           /\ load'[id].at = "renew" /\ load'[id].of = secret[id]
        \/ load[id].at = "renew" /\ load'[id].at = "set" /\ load'[id].of = load[id].of
    BY <1>0, <1>1, DaemonMoves
  <2>5. secret'[id] = secret[id] \/ (load[id].at = "set" /\ row[id].at = "deleted")
    <3>1. secret'[id] = secret[id] \/ (load[id].at = "set" /\ secret'[id] = load[id].of)
      BY <1>0, <1>1, DaemonMoves
    <3>2. load[id].at = "set" => row[id].at \in {"bound", "deleted"}
      BY <2>1 DEF RowFits
    <3>3. load[id].at = "set" /\ row[id].at = "bound" => load[id].of = secret[id]
      BY <2>1 DEF RowFits, Bound
    <3>4. QED BY <3>1, <3>2, <3>3
  <2>6. RowFits(id)'
    BY <1>0, <2>1, <2>2, <2>3, <2>4, <2>5 DEF RowFits, Bound, Pending
  <2>7. ASSUME NEW q \in Clis PROVE CommandFits(q, id)'
    <3>1. CASE secret'[id] = secret[id]
      BY <1>0, <2>1, <2>2, <3>1, StillFits
    <3>2. CASE row[id].at = "deleted"
      BY <1>0, <2>1, <3>2, StrangerFits DEF CommandFits, Pending
    <3>3. QED BY <2>5, <3>1, <3>2
  <2>8. QED BY <2>6, <2>7 DEF Fits
<1>2. \A q \in Clis : Distinct(q)'
  BY <1>0 DEF KeyInv, Distinct
<1>3. QED BY <1>1, <1>2, MetGrows DEF KeyInv

LEMMA KeyStutters ==
  ASSUME KeyInv, UNCHANGED vars
  PROVE  KeyInv'
<1>1. UNCHANGED <<row, secret, cli, load, met, torn>> /\ TypeInv'
  BY TypeInvStep DEF KeyInv, vars, programVars, database, cache
<1>2. \A q \in Clis : Distinct(q)'
  BY <1>1 DEF KeyInv, Distinct
<1>3. Contended' \subseteq met'
  BY <1>1 DEF KeyInv, Contended, WorksOn, At, Of
<1>4. ASSUME NEW id \in Ids \ met' PROVE Fits(id)'
  <2>1. RowFits(id) /\ \A q \in Clis : CommandFits(q, id)
    BY <1>1, <1>4 DEF KeyInv, Fits
  <2>2. Completed(id)' <=> Completed(id)
    BY <1>1 DEF Completed, Completes, Of
  <2>3. RowFits(id)'
    BY <1>1, <2>1, <2>2, RowStillFits
  <2>4. \A q \in Clis : CommandFits(q, id)'
    BY <1>1, <2>1, StillFits
  <2>5. QED BY <2>3, <2>4 DEF Fits
<1>5. QED BY <1>1, <1>2, <1>3, <1>4 DEF KeyInv

LEMMA KeyInvInit == Init => KeyInv
<1> SUFFICES ASSUME Init PROVE KeyInv
  OBVIOUS
<1>1. Idle.pc = "idle" /\ NoLoad.at = "none" /\ Unused.at = "unused"
      /\ Idle.setup = None /\ Idle.command = None /\ Idle.todo = {}
  BY DEF Idle, NoLoad, Unused
<1>2. ASSUME NEW p \in Clis PROVE Distinct(p) /\ \A id \in Ids : CommandFits(p, id)
  BY <1>1 DEF Init, Distinct, CommandFits, Holds, Removes, SetupPcs, InitPcs, IdentityPcs
<1>3. \A id \in Ids : RowFits(id)
  BY <1>1 DEF Init, RowFits, Bound, Pending
<1>4. Contended = {}
  BY <1>1 DEF Init, Contended, WorksOn
<1>5. QED BY <1>2, <1>3, <1>4, TypeInvInit DEF KeyInv, Fits

LEMMA KeyInvStep == KeyInv /\ [Next]_vars => KeyInv'
<1> SUFFICES ASSUME KeyInv, [Next]_vars PROVE KeyInv'
  OBVIOUS
<1>0. TypeInv'
  BY TypeInvStep DEF KeyInv
<1>1. CASE UNCHANGED vars
  BY <1>1, KeyStutters
<1>2. CASE Act /\ Remember
  <2>1. ASSUME NEW p \in Clis, NEW new \in SUBSET Ids, RunInit(p, new) PROVE KeyInv'
    BY <1>0, <1>2, <2>1, KeyRunInit
  <2>2. ASSUME NEW p \in Clis, IdentityStep(p) \/ RelayUse(p) PROVE KeyInv'
    BY <1>0, <1>2, <2>2, KeyIdentity
  <2>3. ASSUME NEW p \in Clis, SetupStep(p) PROVE KeyInv'
    BY <1>0, <1>2, <2>3, KeySetupStep
  <2>4. ASSUME NEW p \in Clis,
               AgentDelete(p) \/ DeleteAgent(p) \/ FailForget(p) \/ \E id \in Ids : Forget(p, id)
        PROVE  KeyInv'
    BY <1>0, <1>2, <2>4, KeyAgentDelete
  <2>5. ASSUME NEW p \in Clis,
               Unset(p) \/ \E id \in Ids : BindingComplete(p, id) \/ BindingRemove(p, id)
        PROVE  KeyInv'
    BY <1>0, <1>2, <2>5, KeyBinding
  <2>6. ASSUME NEW p \in Clis, Kill(p) PROVE KeyInv'
    BY <1>0, <1>2, <2>6, KeyKill
  <2>7. CASE \/ \E id \in Ids : LoadStep(id) \/ RenewFails(id)
             \/ \E old \in SUBSET Ids : KeepFresh(old)
             \/ StartDaemon \/ StopDaemon
    BY <1>0, <1>2, <2>7, KeyDaemon
  <2>8. QED BY <1>2, <2>1, <2>2, <2>3, <2>4, <2>5, <2>6, <2>7 DEF Act
<1>3. QED BY <1>1, <1>2 DEF Next

\* What a Binding's credentials and those of a setup are, and what every command relies on,
\* for the ids that were never worked on twice at a time: whichever commands run, and
\* however many at a time.
THEOREM CredentialsInvariant == Spec => []KeyInv
  BY KeyInvInit, KeyInvStep, PTL DEF Spec

\* The credentials of what was removed stay gone: `agent delete` and `binding remove` delete
\* those that commands killed or failed before them stored.
THEOREM RemovedStaysForgotten == Spec => []RemovedIsForgotten
<1>1. KeyInv => RemovedIsForgotten
  BY DEF KeyInv, Fits, RowFits, RemovedIsForgotten, Known
<1>2. QED BY <1>1, CredentialsInvariant, PTL

\* A completed Binding has credentials, of its own workspace unless `binding complete` was
\* killed in its midst or could not delete what it had stored.
THEOREM BindingAlwaysHasItsSecret == Spec => []BindingHasItsSecret
<1>1. KeyInv => BindingHasItsSecret
  BY DEF KeyInv, Fits, RowFits, BindingHasItsSecret, Known, Bound
<1>2. QED BY <1>1, CredentialsInvariant, PTL
=============================================================================
