-------------------------------- MODULE Onboarding --------------------------------
(***************************************************************************)
(* Setting up an installation: the wizard of `init` and `connect`          *)
(* (apps/cli/src/cli/wizard.ts), `binding complete`, `binding remove` and  *)
(* `agent delete` (cli/program.ts), the enrollment with a Relay            *)
(* (relay/enrollment.ts, `relay use`), the identity and the Bindings'      *)
(* credentials in the keyring (security/identity.ts, keyring.ts) and the   *)
(* daemon's cache of them (security/credential-cache.ts), over the tables  *)
(* of agents, installations, setups and Bindings (store/store.ts).         *)
(*                                                                         *)
(* The database is synchronous; the keyring, the prompts and the network   *)
(* are awaited. A command is a process: one action per await and the       *)
(* synchronous code after it. It may be killed at any of them, and what a  *)
(* person is asked for, or the keyring, a provider or the Relay does, may  *)
(* fail.                                                                   *)
(*                                                                         *)
(* There is one repository. A set of credentials is the workspace it is    *)
(* for; a key pair is its number. A Binding keeps the id of its setup, and *)
(* an id is never used twice. Which Operator a Binding gets, the origin of *)
(* the Relay and the texts are left out.                                   *)
(*                                                                         *)
(* A definition that no action uses is a defective variant of the one that *)
(* follows it, named for its defect. The mutation runs put it in that      *)
(* one's place to see a property fail.                                     *)
(***************************************************************************)
EXTENDS Naturals, FiniteSets

CONSTANTS
  Clis,          \* command-line processes that run at a time
  CommandsOf,    \* [Clis -> SUBSET Commands]: what is run in each of them
  Ids,           \* ids of setups and Bindings
  ConnectorOf,   \* [Ids -> connectors]
  Workspaces,    \* externalInstallationId of verified credentials
  Renewing,      \* connectors with tokens that expire (linear-client-credentials)
  None,          \* null, undefined, no row
  MaxIdentities, \* bound: key pairs that are generated
  MaxKills,      \* bound: processes that are killed in a behaviour
  MaxMet         \* bound: ids that are worked on twice at a time in a behaviour

Commands == {"init", "complete", "remove", "delete", "use"}

ASSUME CommandsAssumption == CommandsOf \in [Clis -> SUBSET Commands]
ASSUME ConnectorAssumption == DOMAIN ConnectorOf = Ids
ASSUME NoneAssumption == None \notin Ids \cup Workspaces \cup Nat
ASSUME BoundsAssumption == {MaxIdentities, MaxKills, MaxMet} \subseteq Nat

VARIABLES
  agent,      \* the repository has an Agent
  row,        \* a setup or a Binding in the database, and what became of it
  secret,     \* keyring entries binding:<id>
  key,        \* keyring entry installation:private-key
  metadata,   \* keyring entry installation:metadata
  generated,  \* key pairs generated so far
  installed,  \* the installations table
  cli,        \* what a command is at
  daemon,     \* the daemon runs
  cached,     \* entries of BindingCredentialCache
  load,       \* its inFlight loads
  kills,      \* how often a process was killed
  met,        \* history: ids that two commands, or a removal and a renewal, worked on at a time
  torn        \* history: setups that `binding complete` left with what it stored for them

database == <<agent, row, installed>>
identity == <<key, metadata, generated>>
cache == <<daemon, cached, load>>
programVars == <<database, secret, identity, cli, cache, kills>>
vars == <<programVars, met, torn>>

Steps == {"selected", "admin_action", "credentials", "operator"}

\* "setup" and "bound" are rows of binding_setups and bindings (which have no step);
\* "removed" are ids whose removal was reported, "deleted" those of a removal that did not
\* get that far.
Row == [at : {"unused", "setup", "bound", "deleted", "removed"},
        step : Steps, workspace : Workspaces \cup {None}]
Unused == [at |-> "unused", step |-> "selected", workspace |-> None]

\* A setup as a wizard knows it.
Setup == [id : Ids, step : Steps, workspace : Workspaces \cup {None}]
ASSUME NoSetupAssumption == None \notin Setup

Pcs == {"idle", "get_metadata", "get_key", "set_key", "set_metadata", "clean", "enroll",
        "setup", "artifact", "wait", "verify", "store", "get_stored", "operator",
        "rollback", "forget", "unset"}
Idle == [pc |-> "idle", command |-> None, setup |-> None, entered |-> None,
         todo |-> {}, id |-> None, found |-> None]
Process == [pc : Pcs, command : Commands \cup {None}, setup : Setup \cup {None},
            entered : Workspaces \cup {None}, todo : SUBSET (Setup \cup Ids),
            id : 1..MaxIdentities \cup {None}, found : 1..MaxIdentities \cup {None}]

\* A load of credentials, with those it has read.
Load == [at : {"none", "get", "renew", "set"}, of : Workspaces \cup {None}]
NoLoad == [at |-> "none", of |-> None]

ProgramTypes ==
  /\ agent \in BOOLEAN /\ daemon \in BOOLEAN
  /\ row \in [Ids -> Row]
  /\ secret \in [Ids -> Workspaces \cup {None}]
  /\ {key, metadata, installed} \subseteq 1..MaxIdentities \cup {None}
  /\ generated \in 0..MaxIdentities
  /\ cli \in [Clis -> Process]
  /\ cached \subseteq Ids
  /\ load \in [Ids -> Load]
  /\ kills \in 0..MaxKills

TypeOK == ProgramTypes /\ met \subseteq Ids /\ torn \subseteq Ids

Init ==
  /\ agent = FALSE /\ daemon = FALSE
  /\ row = [id \in Ids |-> Unused]
  /\ secret = [id \in Ids |-> None]
  /\ key = None /\ metadata = None /\ installed = None /\ generated = 0
  /\ cli = [p \in Clis |-> Idle]
  /\ cached = {} /\ load = [id \in Ids |-> NoLoad]
  /\ kills = 0 /\ met = {} /\ torn = {}

----------------------------------------------------------------------------
(* The database *)

Bound(id) == row[id].at = "bound"
Pending(id) == row[id].at = "setup"
Known(at) == {id \in Ids : row[id].at = at}
AsSetup(id) == [id |-> id, step |-> row[id].step, workspace |-> row[id].workspace]

\* updateBindingSetup() of a row that is there, and what it returns.
Updated(id, step) == [row EXCEPT ![id].step = step]

\* completeBindingSetup() fails when the setup is gone, and on a second Binding of the
\* Agent with the workspace.
CanComplete(id, w) ==
  /\ Pending(id)
  /\ ~\E other \in Known("bound") :
        ConnectorOf[other] = ConnectorOf[id] /\ row[other].workspace = w

----------------------------------------------------------------------------
(* Commands *)

Goto(p, pc) == cli' = [cli EXCEPT ![p].pc = pc]
Done(p) == cli' = [cli EXCEPT ![p] = Idle]

\* An idle process that runs a command begins it.
Runs(p, command) == cli[p] = Idle /\ command \in CommandsOf[p]
Begin(p, command, pc) == cli' = [cli EXCEPT ![p].command = command, ![p].pc = pc]
At(p, pc) == cli[p].pc = pc
Of(p) == cli[p].setup.id

\* The wizard goes on to one of the setups it has left, or is done.
TakeSetup(p, rest) ==
  IF rest = {} THEN Done(p)
  ELSE \E s \in rest :
         cli' = [cli EXCEPT ![p] = [Idle EXCEPT !.pc = "setup", !.command = "init",
                                                !.setup = s, !.todo = rest \ {s}]]

\* An error in one setup is recorded in its row, and the wizard goes on; when the row is
\* gone, that fails too and the wizard ends. So it does when the person gives up.
FailSetup(p) == IF Pending(Of(p)) THEN TakeSetup(p, cli[p].todo) ELSE Done(p)

----------------------------------------------------------------------------
(* The installation's identity and its enrollment *)

UnchangedButIdentity == UNCHANGED <<agent, row, secret, cache, kills>>

\* runInitWizard(): a new Agent with the requested setups, or those an Agent still lacks.
\* The setups that are pending then wait for ensureHosted().
RunInit(p, new) ==
  LET fresh == [id \in Ids |-> IF id \in new THEN [Unused EXCEPT !.at = "setup"] ELSE row[id]]
      todo == {AsSetup(id) : id \in Known("setup")} \cup
              {[id |-> id, step |-> "selected", workspace |-> None] : id \in new}
      has == {ConnectorOf[id] : id \in Known("setup") \cup Known("bound")}
  IN  /\ Runs(p, "init")
      /\ new \subseteq Known("unused")
      /\ \A a, b \in new : ConnectorOf[a] = ConnectorOf[b] => a = b
      /\ \A id \in new : ConnectorOf[id] \notin has
      /\ agent' = TRUE
      /\ row' = fresh
      /\ IF todo = {} THEN UNCHANGED cli
         ELSE IF installed # None THEN TakeSetup(p, todo)
         ELSE cli' = [cli EXCEPT ![p].command = "init", ![p].pc = "get_metadata",
                                 ![p].todo = todo]
      /\ UNCHANGED <<secret, identity, installed, cache, kills>>

\* `relay use`
RelayUse(p) ==
  /\ Runs(p, "use")
  /\ Begin(p, "use", "get_metadata")
  /\ UNCHANGED <<database, secret, identity, cache, kills>>

\* getOrCreate() reads the metadata, then the key.
GetMetadata(p) ==
  /\ At(p, "get_metadata")
  /\ cli' = [cli EXCEPT ![p].pc = "get_key", ![p].found = metadata]
  /\ UNCHANGED <<identity, installed>> /\ UnchangedButIdentity

\* Both make the identity, neither that there is none; one alone is an error.
GetKey(p) ==
  LET found == cli[p].found
  IN  /\ At(p, "get_key")
      /\ \/ /\ found # None /\ key # None
            /\ cli' = [cli EXCEPT ![p].pc = "enroll", ![p].id = found]
            /\ UNCHANGED generated
         \/ /\ (found = None) # (key = None)
            /\ Done(p)
            /\ UNCHANGED generated
         \/ /\ found = None /\ key = None /\ generated < MaxIdentities
            /\ generated' = generated + 1
            /\ cli' = [cli EXCEPT ![p].pc = "set_key", ![p].id = generated']
         \/ /\ generated = MaxIdentities \* bound
            /\ Done(p)
            /\ UNCHANGED generated
      /\ UNCHANGED <<key, metadata, installed>> /\ UnchangedButIdentity

SetKey(p) ==
  /\ At(p, "set_key")
  /\ \/ key' = cli[p].id /\ Goto(p, "set_metadata")
     \/ key' = key /\ Goto(p, "clean")
  /\ UNCHANGED <<metadata, generated, installed>> /\ UnchangedButIdentity

SetMetadataUnawaited(p) ==
  /\ At(p, "set_metadata")
  /\ metadata' \in {metadata, cli[p].id}
  /\ Goto(p, "enroll")
  /\ UNCHANGED <<key, generated, installed>> /\ UnchangedButIdentity

SetMetadata(p) ==
  /\ At(p, "set_metadata")
  /\ \/ metadata' = cli[p].id /\ Goto(p, "enroll")
     \/ metadata' = metadata /\ Goto(p, "clean")
  /\ UNCHANGED <<key, generated, installed>> /\ UnchangedButIdentity

\* Both entries are deleted when one was not written; each of the deletions may fail.
CleanIdentity(p) ==
  /\ At(p, "clean")
  /\ key' \in {key, None} /\ metadata' \in {metadata, None}
  /\ Done(p)
  /\ UNCHANGED <<generated, installed>> /\ UnchangedButIdentity

\* enrollAndPersist(): the Relay refuses, or the row is made, or refreshed when it is of
\* the same identity.
Enroll(p) ==
  /\ At(p, "enroll")
  /\ \/ Done(p) /\ UNCHANGED installed
     \/ /\ installed \in {None, cli[p].id}
        /\ installed' = cli[p].id
        /\ IF cli[p].command = "use" THEN Done(p) ELSE TakeSetup(p, cli[p].todo)
  /\ UNCHANGED identity /\ UnchangedButIdentity

IdentityStep(p) ==
  \/ GetMetadata(p) \/ GetKey(p) \/ SetKey(p) \/ SetMetadata(p)
  \/ CleanIdentity(p) \/ Enroll(p)

----------------------------------------------------------------------------
(* processSetup() *)

UnchangedButSetup == UNCHANGED <<agent, installed, identity, cache, kills>>

\* Where a step of the setup goes on. Without a terminal, the wizard leaves it there.
Resume(step) ==
  CASE step = "admin_action" -> "wait"
    [] step = "credentials" -> "verify"
    [] step = "operator" -> "get_stored"

StartSetup(p) ==
  LET s == cli[p].setup
      now == IF Pending(s.id) THEN AsSetup(s.id) ELSE s
  IN  /\ At(p, "setup")
      /\ cli' = [cli EXCEPT ![p].setup = now, ![p].entered = None,
                            ![p].pc = IF now.step = "selected" THEN "artifact"
                                      ELSE Resume(now.step)]
      /\ UNCHANGED <<row, secret>> /\ UnchangedButSetup

\* updateBindingSetup(), for the step that follows.
Step(p, step, pc) ==
  IF Pending(Of(p))
  THEN /\ row' = Updated(Of(p), step)
       /\ cli' = [cli EXCEPT ![p].setup = [AsSetup(Of(p)) EXCEPT !.step = step],
                             ![p].pc = pc]
  ELSE FailSetup(p) /\ UNCHANGED row

WriteArtifact(p) ==
  /\ At(p, "artifact")
  /\ Step(p, "admin_action", "wait")
  /\ UNCHANGED secret /\ UnchangedButSetup

\* The administrator has made the provider's app.
AdministratorIsDone(p) ==
  /\ At(p, "wait")
  /\ Step(p, "credentials", "verify")
  /\ UNCHANGED secret /\ UnchangedButSetup

\* verifyCredentials() tells the workspace; `binding complete` is told which to expect.
VerifyCredentials(p, w) ==
  /\ At(p, "verify")
  /\ cli' = [cli EXCEPT ![p].entered = w, ![p].pc = "store"]
  /\ UNCHANGED <<row, secret>> /\ UnchangedButSetup

\* The keyring takes the credentials; the wizard's setup goes on to its operator.
StoreCredentials(p) ==
  LET w == cli[p].entered
      id == Of(p)
  IN  /\ At(p, "store")
      /\ secret' = [secret EXCEPT ![id] = w]
      /\ IF cli[p].command = "init" /\ Pending(id)
         THEN /\ row' = [row EXCEPT ![id].step = "operator", ![id].workspace = w]
              /\ cli' = [cli EXCEPT ![p].pc = "operator",
                           ![p].setup = [id |-> id, step |-> "operator", workspace |-> w]]
         ELSE IF cli[p].command = "init" THEN FailSetup(p) /\ UNCHANGED row
         ELSE Goto(p, "operator") /\ UNCHANGED row
      /\ UnchangedButSetup

GetStoredTrusting(p) ==
  /\ At(p, "get_stored")
  /\ cli' = [cli EXCEPT ![p].pc = "operator", ![p].entered = cli[p].setup.workspace]
  /\ UNCHANGED <<row, secret>> /\ UnchangedButSetup

\* A wizard that resumes at the operator needs the credentials that were stored; without
\* them it asks again.
GetStored(p) ==
  /\ At(p, "get_stored")
  /\ IF secret[Of(p)] # None
     THEN /\ cli' = [cli EXCEPT ![p].pc = "operator", ![p].entered = secret[Of(p)]]
          /\ UNCHANGED row
     ELSE Step(p, "credentials", "setup")
  /\ UNCHANGED secret /\ UnchangedButSetup

\* The Operator is known: the setup becomes a Binding, of the workspace that the wizard's
\* setup names, or that `binding complete` verified. The database may also refuse: it is
\* busy, or the Operator that was passed is empty.
CompleteSetup(p) ==
  LET id == Of(p)
      w == IF cli[p].command = "init" THEN cli[p].setup.workspace ELSE cli[p].entered
  IN  /\ At(p, "operator")
      /\ \/ /\ w # None /\ CanComplete(id, w)
            /\ row' = [row EXCEPT ![id] = [Unused EXCEPT !.at = "bound", !.workspace = w]]
            /\ IF cli[p].command = "init" THEN TakeSetup(p, cli[p].todo) ELSE Done(p)
         \/ /\ w # None
            /\ Goto(p, "rollback")
            /\ UNCHANGED row
         \/ /\ w = None /\ FailSetup(p)
            /\ UNCHANGED row
      /\ UNCHANGED secret /\ UnchangedButSetup

\* The credentials of a setup that could not be completed are deleted, unless that fails.
Rollback(p) ==
  /\ At(p, "rollback")
  /\ \/ secret' = [secret EXCEPT ![Of(p)] = None]
     \/ UNCHANGED secret
  /\ IF cli[p].command = "init" THEN FailSetup(p) ELSE Done(p)
  /\ UNCHANGED row /\ UnchangedButSetup

\* A provider, a prompt or the keyring fails, or there is no terminal: the setup is left
\* where it is. When the person gives up, the wizard ends, as `binding complete` always does.
LeaveSetup(p) ==
  /\ \/ /\ cli[p].command = "init"
        /\ cli[p].pc \in {"artifact", "wait", "verify", "store", "get_stored", "operator"}
        /\ FailSetup(p) \/ Done(p)
     \/ /\ cli[p].command = "complete"
        /\ cli[p].pc \in {"verify", "store"}
        /\ Done(p)
  /\ UNCHANGED <<row, secret>> /\ UnchangedButSetup

\* `binding complete` of a pending setup
BindingComplete(p, id) ==
  /\ Runs(p, "complete") /\ Pending(id)
  /\ cli' = [cli EXCEPT ![p] = [Idle EXCEPT !.command = "complete", !.pc = "verify",
                                            !.setup = AsSetup(id)]]
  /\ UNCHANGED <<row, secret>> /\ UnchangedButSetup

SetupStep(p) ==
  \/ StartSetup(p) \/ WriteArtifact(p) \/ AdministratorIsDone(p)
  \/ \E w \in Workspaces : VerifyCredentials(p, w)
  \/ StoreCredentials(p) \/ GetStored(p) \/ CompleteSetup(p) \/ Rollback(p)
  \/ LeaveSetup(p)

----------------------------------------------------------------------------
(* Removing *)

AgentDeleteOfStored(p) ==
  /\ Runs(p, "delete") /\ agent
  /\ cli' = [cli EXCEPT ![p] = [Idle EXCEPT !.command = "delete", !.pc = "forget",
               !.todo = {id \in Known("setup") : row[id].step = "operator"}]]
  /\ UNCHANGED <<row, secret>> /\ UnchangedButSetup

\* `agent delete` lists the setups, whose credentials go first.
AgentDelete(p) ==
  /\ Runs(p, "delete") /\ agent
  /\ cli' = [cli EXCEPT ![p] = [Idle EXCEPT !.command = "delete", !.pc = "forget",
                                            !.todo = Known("setup")]]
  /\ UNCHANGED <<row, secret>> /\ UnchangedButSetup

Forget(p, id) ==
  /\ At(p, "forget") /\ id \in cli[p].todo
  /\ secret' = [secret EXCEPT ![id] = None]
  /\ cli' = [cli EXCEPT ![p].todo = @ \ {id}]
  /\ UNCHANGED row /\ UnchangedButSetup

\* deleteAgent(): its setups go with it; with a Binding it is refused.
DeleteAgent(p) ==
  /\ At(p, "forget") /\ cli[p].todo = {}
  /\ IF agent /\ Known("bound") = {}
     THEN /\ agent' = FALSE
          /\ row' = [id \in Ids |-> IF Pending(id) THEN [Unused EXCEPT !.at = "removed"]
                                    ELSE row[id]]
     ELSE UNCHANGED <<agent, row>>
  /\ Done(p)
  /\ UNCHANGED <<secret, installed, identity, cache, kills>>

\* `binding remove`: the row goes first. (With Sessions, or deliveries to make, it is
\* refused; that only takes behaviours away here.)
BindingRemove(p, id) ==
  /\ Runs(p, "remove") /\ Bound(id)
  /\ row' = [row EXCEPT ![id] = [Unused EXCEPT !.at = "deleted"]]
  /\ cli' = [cli EXCEPT ![p] = [Idle EXCEPT !.command = "remove", !.pc = "unset",
                                            !.setup = [AsSetup(id) EXCEPT !.workspace = None]]]
  /\ UNCHANGED secret /\ UnchangedButSetup

\* Then the keyring's entry; unless that fails, the removal is reported.
Unset(p) ==
  /\ At(p, "unset")
  /\ \/ /\ secret' = [secret EXCEPT ![Of(p)] = None]
        /\ row' = [row EXCEPT ![Of(p)].at = "removed"]
     \/ UNCHANGED <<secret, row>>
  /\ Done(p)
  /\ UnchangedButSetup

\* The keyring fails.
FailForget(p) ==
  /\ At(p, "forget") /\ Done(p)
  /\ UNCHANGED <<row, secret>> /\ UnchangedButSetup

Kill(p) ==
  /\ cli[p] # Idle /\ kills < MaxKills
  /\ kills' = kills + 1
  /\ Done(p)
  /\ UNCHANGED <<database, secret, identity, cache>>

----------------------------------------------------------------------------
(* The daemon's cache *)

\* startDaemon() refuses without a Relay and without a Binding; prime() loads the rest.
StartDaemon ==
  /\ ~daemon /\ installed # None /\ Known("bound") # {}
  /\ daemon' = TRUE
  /\ load' = [id \in Ids |-> IF Bound(id) THEN [NoLoad EXCEPT !.at = "get"] ELSE NoLoad]
  /\ UNCHANGED <<database, secret, identity, cli, cached, kills>>

StopDaemon ==
  /\ daemon /\ kills < MaxKills
  /\ kills' = kills + 1
  /\ daemon' = FALSE /\ cached' = {} /\ load' = [id \in Ids |-> NoLoad]
  /\ UNCHANGED <<database, secret, identity, cli>>

Reload(ids) ==
  load' = [id \in Ids |->
             IF id \in ids /\ load[id] = NoLoad THEN [NoLoad EXCEPT !.at = "get"] ELSE load[id]]

KeepFreshKeeping(old) ==
  /\ daemon
  /\ old \subseteq cached
  /\ Reload(Known("bound") \ (cached \ old))
  /\ UNCHANGED <<database, secret, identity, cli, daemon, cached, kills>>

\* keepFresh(): entries of other than Bindings are dropped; what is missing, and some of
\* what was loaded before (`old`), is loaded unless it is being loaded.
KeepFresh(old) ==
  /\ daemon
  /\ old \subseteq cached
  /\ cached' = cached \cap Known("bound")
  /\ Reload(Known("bound") \ (cached \ old))
  /\ UNCHANGED <<database, secret, identity, cli, daemon, kills>>

LoadGoes(id, at, of) == load' = [load EXCEPT ![id] = [at |-> at, of |-> of]]
LoadEnds(id) == load' = [load EXCEPT ![id] = NoLoad]

\* require(): what the keyring holds is cached, or renewed first when it expired.
GetSecret(id) ==
  /\ load[id].at = "get"
  /\ \/ /\ secret[id] = None
        /\ LoadEnds(id) /\ UNCHANGED cached
     \/ /\ secret[id] # None
        /\ LoadEnds(id) /\ cached' = cached \cup {id}
     \/ /\ secret[id] # None /\ ConnectorOf[id] \in Renewing
        /\ LoadGoes(id, "renew", secret[id]) /\ UNCHANGED cached
  /\ UNCHANGED <<database, secret, identity, cli, daemon, kills>>

Renewed(id) ==
  /\ load[id].at = "renew"
  /\ LoadGoes(id, "set", load[id].of)
  /\ UNCHANGED <<database, secret, identity, cli, daemon, cached, kills>>

RenewFails(id) ==
  /\ load[id].at = "renew"
  /\ LoadEnds(id)
  /\ UNCHANGED <<database, secret, identity, cli, daemon, cached, kills>>

\* The renewed credentials are written back, whether or not they are still there.
SetRenewed(id) ==
  /\ load[id].at = "set"
  /\ secret' = [secret EXCEPT ![id] = load[id].of]
  /\ cached' = cached \cup {id}
  /\ LoadEnds(id)
  /\ UNCHANGED <<database, identity, cli, daemon, kills>>

LoadStep(id) == GetSecret(id) \/ Renewed(id) \/ SetRenewed(id)

----------------------------------------------------------------------------
Act ==
  \/ \E p \in Clis :
       \/ \E new \in SUBSET Ids : RunInit(p, new)
       \/ RelayUse(p) \/ IdentityStep(p) \/ SetupStep(p)
       \/ AgentDelete(p) \/ DeleteAgent(p) \/ FailForget(p) \/ Unset(p) \/ Kill(p)
       \/ \E id \in Ids : BindingComplete(p, id) \/ BindingRemove(p, id) \/ Forget(p, id)
  \/ \E id \in Ids : LoadStep(id) \/ RenewFails(id)
  \/ \E old \in SUBSET Ids : KeepFresh(old)
  \/ StartDaemon \/ StopDaemon

\* The ids that a command works on: `agent delete` on all that are no Bindings yet.
WorksOn(p, id) ==
  LET c == cli[p]
  IN  \/ c.setup # None /\ c.setup.id = id
      \/ c.command # "delete" /\ \E s \in c.todo : s.id = id
      \/ c.pc # "idle" /\ c.command = "delete" /\ row[id].at \in {"unused", "setup"}

\* The ids that are worked on twice.
Contended ==
  {id \in Ids :
     \/ \E p, q \in Clis : p # q /\ WorksOn(p, id) /\ WorksOn(q, id)
     \/ load[id].at \in {"renew", "set"} /\ \E p \in Clis : At(p, "unset") /\ Of(p) = id}

\* `binding complete` between the keyring and the database.
Completes(p) == cli[p].command = "complete" /\ cli[p].pc \in {"operator", "rollback"}

\* What the properties need to know of the past. An id is torn until other credentials
\* are stored for it, or it is gone.
Remember ==
  LET leaves(p) == Completes(p) /\ cli'[p] = Idle
      left == {Of(p) : p \in {q \in Clis : leaves(q)}}
      stored == {Of(p) : p \in {q \in Clis : At(q, "store") /\ cli'[q].pc = "operator"}}
  IN  /\ met' = met \cup Contended'
      /\ Cardinality(met') <= MaxMet \* bound
      /\ torn' = ({id \in torn \ stored : row'[id].at \in {"setup", "bound"}}
                   \cup {id \in left : row'[id].at = "setup" /\ secret'[id] # None}) \ met'

Next == Act /\ Remember

\* The service manager starts the daemon, its timer fires, the keyring answers, and a
\* provider that is asked for a token again and again gives one.
Fairness ==
  /\ WF_programVars(StartDaemon)
  /\ WF_programVars(\E old \in SUBSET Ids : KeepFresh(old))
  /\ \A id \in Ids : WF_programVars(LoadStep(id)) /\ SF_programVars(Renewed(id))

Spec == Init /\ [][Next]_vars /\ Fairness

----------------------------------------------------------------------------
(* Properties *)

\* A Binding has credentials in the keyring, though they and its row are written
\* separately, and they are of the workspace it is bound to, whatever was cancelled, killed,
\* retried or removed on the way. (Not so when two commands worked on it at a time; and of
\* another workspace they may be when `binding complete` was killed after it stored them,
\* or could not delete them again, and the wizard then finished the setup with them.)
BindingHasItsSecret ==
  \A id \in Known("bound") \ met :
    secret[id] # None /\ (id \in torn \/ secret[id] = row[id].workspace)

\* Nothing brings credentials back once their removal was reported (help of `binding
\* remove`), and none are left behind by what was killed or failed before it. (Not so when
\* another command worked on the id at the time, or the daemon renewed its tokens.)
RemovedIsForgotten == \A id \in Known("removed") \ met : secret[id] = None

\* The same of every Binding and of every id that was removed: the code does not keep it.
EveryBindingHasItsSecret == \A id \in Known("bound") : secret[id] = row[id].workspace
EveryRemovedIsForgotten == \A id \in Known("removed") : secret[id] = None

\* The installation that is enrolled is the one the keyring can sign for, however often an
\* enrollment was cut short or a write to the keyring failed.
IdentityAgrees == installed # None => key = installed /\ metadata = installed

\* The cache comes to hold exactly the credentials of the Bindings there are: of one that
\* was added while the daemon runs, and not of one that was removed while they were loaded.
CacheConverges ==
  \A id \in Ids :
    <>[](IF Bound(id) /\ installed # None THEN id \in cached \/ secret[id] = None
         ELSE id \notin cached)
=============================================================================
