# AgentChannels: a verification project

AgentChannels lets people in Slack and Linear work with a coding agent on an
operator's machine. A provider posts webhooks to a public **Relay**; the Relay
hands them to a **local daemon** over a WebSocket; the daemon turns them into
commands for a **Session** of an agent runtime and sends the results back to the
provider as **deliveries**. This directory holds TLA+ models of the parts whose
correctness depends on the order of things, TLC configurations that check them
on small instances, and proofs for every instance of what matters most.

In this directory, `tlc -config MCRelay.cfg MCRelay` checks a configuration (each
.cfg extends the module named in the tables of section 3), and
`tlapm RelayProofs.tla` checks the proofs of a module.

Paths below are relative to the repository; `cli` is `apps/cli/src` and `relay`
is `apps/relay/src`.

## 1. The system

| Component | Source | State it keeps | Operations | Hard behaviour |
|---|---|---|---|---|
| Relay connections | relay/connection.ts | outbox (32 frames), congestion, pending deliveries, space waiters | deliver, respond, notify, drained, close, release, registry attach/detach/closeAll | woken coroutines, timers, backpressure, replacement |
| Relay server | relay/server.ts | sockets with nonce, installation, connection | enroll, connect, authenticate, dispatch, forward, stop | body awaited after routing, shutdown with requests in progress |
| Relay store | relay/store.ts | installations, routes (Binding to installation) | register, touch, replaceBindings, owner, prune | route conflicts, capacity, pruning |
| Session coordinator | cli/engine/coordinator.ts | queue, running, active turns, pending interactions (memory) | accept, schedule, pump, execute, requestInteraction, resolveInteraction, stop, recoverAfterCrash | one thread with many awaits; memory and store are lost separately |
| Local store | cli/store/store.ts, cli/model.ts | SQLite: sessions, interactions, follow-ups, ingress events, deliveries, Agents, Bindings | transitions and queries | several processes use it; transitions are refused by exception |
| Delivery worker | cli/engine/deliveries.ts | a batch of claimed rows (memory), the table | drain, announceFailure, recovery | crash between post and record, two daemons, retries |
| Daemon | cli/daemon.ts | timers, the components above | start, run, stop | no lock against a second daemon |
| Relay client | cli/relay/client.ts | socket, authenticated, stopping | run, connectOnce, handleMessage, syncBindings, stop | reconnect or give up, messages handled concurrently |
| Ingress | cli/engine/ingress.ts | none | handle | answers before the command is accepted |
| Credentials and identity | cli/security/*.ts | keyring, cache, loads in flight | getOrCreate, require, prime, keepFresh | two processes, token renewal, in-flight loads |
| Worktrees and retention | cli/engine/worktrees.ts, retention.ts | git worktrees, sessions' retention | create, remove, clean, retire, prune | awaits between list, removal and retirement |
| Runtime | cli/runtimes/*.ts | an SDK query, its open questions | start, resume, interrupt, dispose, interpretResponse | abort and answer race, end of a stream |
| Connectors | cli/connectors/*.ts | none | verifyAndParse, deliver, verify setup | several HTTP calls per message |
| Onboarding, CLI | cli/cli/*.ts | setups, credentials, users | init, users, relay, sessions | several stores are written in turn |
| Service manager | cli/service/*.ts | unit or agent definition of the OS | install, reconcile, start, stop, uninstall, status | service changes while it is reconciled |
| Migrations, restore | cli/store/migrations.ts, restore.ts | schema version, backups | migrate, restore | crash between file operations |

How they interact: a webhook enters through `forward()` (relay/server.ts), waits
in a `Connection`, is handled by the Relay client and ingress in the daemon, and
`SessionCoordinator.accept()` records its event and acts. The coordinator runs
turns of the runtime, which call back with `requestInteraction()`; everything it
says becomes a row in `deliveries`, which the worker drains on a timer of the
daemon. The only shared memory is that of one JavaScript thread per process; the
processes (daemon, a second daemon, the CLI) share the SQLite file, the keyring
and the worktree directory.

What makes each component correct:

* Relay: every webhook is answered exactly once, by the installation it was
  routed to or as offline; buffers are bounded and nobody waits beside a free
  place; one installation has one live connection; a route has one owner.
* Coordinator: the slots are counted; a session runs one turn at a time and its
  messages in order; a stop sticks; an interaction is settled once and a
  permission only by the operator; after a crash nothing is stuck.
* Deliveries: at least once up to the attempts, in order, settled rows final,
  failures surfaced, nothing stranded.
* Relay client: a connection that is lost is replaced until somebody stops the
  daemon or the Relay does not know it; no socket is left behind; the Relay
  routes what the store lists.
* Credentials and onboarding: a completed Binding has its credentials, a removed
  one has none, and one key is the installation's identity.
* Worktrees and retention: a session that may run has its worktree, and an expired
  one loses it once.
* Runtime: a question is answered or aborted once, by what the reply says as a
  whole; a sticky rule is one that somebody granted; the stream ends with one result
  or error, and what was said is posted once and in order.
* Connector formatting: a message shows its body within the provider's limits, and
  whatever it asks can be answered.
* Enrollment: an installation that is in use stays enrolled, and the capacity holds.
* Migrations, restore: after a crash at any step what was committed is in the
  database or in a complete copy beside it, and every migration is applied once.

## 2. Modules

| Module | Models | Composition |
|---|---|---|
| `WebhookExchange` | what a provider may rely on: one answer per webhook | abstract specification |
| `Relay` | connection.ts, server.ts, the routes of store.ts | implements `WebhookExchange` |
| `SerialConversation` | one message at a time, the others in order | abstract specification |
| `Coordinator` | coordinator.ts with the tables it drives | implements `SerialConversation` (no stops, no crashes) |
| `Deliveries` | deliveries.ts, the deliveries table, the daemon's timer, several workers | |
| `Gateway` | client.ts, the Binding timer of daemon.ts, and the Relay's end of the same sockets (server.ts, the routes of store.ts) | composes both sides of the protocol |
| `Worktrees` | worktrees.ts, retention.ts, `sessions prune` and `retire`, the sessions table | composes the daemon with two commands |
| `Interactions` | canUseTool() and interpretResponse() of claude.ts, the commands of slack.ts and linear.ts, the interactions of coordinator.ts | composes runtime, coordinator and connector |
| `Transcript` | events() of claude.ts, execute() of coordinator.ts, what slack.ts and linear.ts post | composes runtime, coordinator and connector |
| `SlackMessage` | renderSlackMessage() of slack-blocks.ts, mrkdwn.ts | a pure algorithm as a machine |
| `Onboarding` | wizard.ts, the commands that set up and remove, identity, keyring, credential cache, enrollment | composes commands with the daemon |
| `Migrations` | migrations.ts, restore.ts, opening the database | composes processes of several versions |
| `MC...` | instances for TLC, one module for each of the ten detailed ones | extend the above |
| `RelayProofs`, `CoordinatorProofs`, `DeliveriesProofs` (of `Deliveries` and `SlackMessage`), `GatewayProofs`, `WorktreesProofs`, `RuntimeProofs` (of `Interactions` and `Transcript`), `OnboardingProofs`, `MigrationsProofs` | theorems and proofs | extend the above and TLAPS |

Each state variable carries the name of the field or column it stands for, and
each action the name of the method or handler; `PROJECT.json` maps every
definition to its lines. A definition that no action uses (for example
`EnqueueLate`, `PoolIsFullLate`, `RecoverNothing`) is a defective variant of the
one after it: with it in that one's place, TLC finds the property it is listed
with in `PROJECT.json` violated.

### Relay

An action is one task of the event loop: a WebSocket event, an HTTP request, a
timer. A task can wake coroutines that wait in `enqueue()`; these run before the
next task (`NoMicrotask`), in any order. `deliver()` is split at its awaits
("reading", "waiting", "woken", "returned"). Bun's `send()` takes a frame, takes
it and reports backpressure, or drops it (`SendLoop`). Clocks are abstracted: an
armed timer may fire at any time. Authentication is abstracted to a socket that
proves one installation's key or none. Wire encoding is left out.

### Coordinator

An action is one task with the promise reactions it triggers, except that
`pump()` is an action of its own that runs before any other task (`pumping`).
The awaits are borders: the worktree of a new session (`creating`), `interrupt()`
in a stop (`stopping`), the events of a turn (`exec`). A session is named by its
conversation (the store keeps one row per conversation). The runtime is the
environment: a turn asks questions, ends with a result only when none of its
questions is open, and ends with an error, throws or aborts a question at any
time; `interrupt()` may fail. `IgnoreEvent` stands for every recorded event
without further effect (strangers, participants who answer a permission, failed
sessions, partial and unreadable replies). A promise that is rejected and
handled by nobody ends the process (`doomed`, `Exit`), as Bun does.

Left out: retention (in `Worktrees`), the contents of deliveries (in `Transcript`),
the contents of replies and sticky permission rules (in `Interactions`), a Binding
or an Agent that is removed while a session uses it.

### Deliveries

`claimDueDeliveries()` is one transaction; the worker keeps copies of the rows it
claimed and works on them one by one, and each report is an UPDATE guarded by the
row's status. The await on the connector is the border between two actions: the
provider may take the message (`posted`) and the answer be lost. A failure for good is
marked and announced by two statements with a callback between them, so these are two
actions (`DeliveryFails`, `AnnounceFailure`), and the process may die between them. Any
statement of a catch block, and the callback, may throw (`Throw`): that ends drain(), and
leaves the rest of the batch as it is. Workers are a
set, because nothing keeps the background service and a daemon in a terminal
from sharing a store. Time is abstracted: pending rows are claimed in the order
of their creation (next_attempt_at and created_at are equal, ties go by rowid
through the index), a retry falls due some time later. A session may be retired
at any moment (`Retire`), as far as deliveries can tell.

### Gateway

A socket has two ends, the client's `ready` and the Relay's `conn`, with a queue of
frames in each direction; each end learns of the other's by the frames and events
that reach it. An action is one task of the daemon or of the Relay; answering a
challenge is split at its awaits on the keyring (`OnChallenge`, `Signed`), and a
handler that fails settles the attempt, and lets the loop go on, before its socket
has closed. The fields of `RelayClient` (`authed`, `life`, `stopping`) are shared by
all attempts of a client, while `seen` is the local variable of one attempt: that
difference is behind MCLateClose.cfg in section 3. Clients of one installation (a
second daemon, the wizard's) share the store and replace each other at the Relay.
`place` is the store's list of Bindings and setups as the command line changes it.
The set sent last (`last`) stands for `lastBindingSignature`.

Left out: webhooks and their answers (see `Relay` and `Coordinator`), frames that
cannot be read or speak another protocol version, and the length of the backoff.
`Relay` and `Gateway` model the same server.ts for different questions: `Relay` has
the outboxes, the calls and several installations, and peers that do anything;
`Gateway` has one installation with the peer that client.ts is.

### Worktrees

Every git command is awaited, so an action is one git command with the synchronous
code after it. Three processes remove worktrees (`proc`): the daemon's sweep at its
start and by timer, `sessions prune`, and `sessions retire`; messages, turns and
crashes fall between any two of their steps. `tree` is a directory together with
git's record of it; a turn, or a person, makes it dirty or clean at any time. The
clock (`now`) advances by steps, and retention is counted in them. `waiting` is
taken together with `running`, and what a turn says is left out. `Retirable`
parameterises which sessions operators retire: the code accepts any that is not
live, and reads the status again only after the worktree is gone.

### Interactions

A reply is what one person types or clicks; the provider turns it into one event or
two (Slack tells a mention of the app as a message as well), delivered in any order
and more than once. A text is a sequence of four kinds of words, which is what
`interpretResponse()` tells apart. The SDK asks before a tool runs unless a rule in
force covers the call; it may give up a call at any time. `stored` is the Agent's
runtime state, which turns of several sessions read at their start and write at each
grant. `Connector` and `Clears` (people empty a select) are constants. Stops, crashes
and the queue are in `Coordinator`.

### Transcript

The SDK's messages are the environment: texts, tool calls, results and errors in any
order. `events()` holds the last text back, since the result repeats it (`held`), and
keeps calls that started until their result comes (`started`); `execute()` enqueues a
delivery for each event and settles the session. What the connector posts of it is
`Posts`. A text is a model value; deliveries arrive in the order they were enqueued. An
assistant message has up to two texts in the model, may have none, and may carry an
error with or without a tool call. Both properties speak of positions in `posted` and
`said`. The names differ from those of `Interactions`, the runtime's other half, so
that one module proves about both.

### SlackMessage

`splitIntoChunks()` is a loop over a text, a step one round of it; `bodySections()` runs
it a second time when the first result has too many blocks. A body is a sequence of
kinds of lines, its text a sequence of units that tell letters, spaces, newlines, fences
and combining characters apart. The limits are constants, in units; with `SectionText =
8` the room for the two fences of a cut code block matters as it does with 3000. A
notice that lists options without a button is cut as any section is: how many of its
labels are left is `room`, any number, since what comes before them (the title,
descriptions of any size) is not modelled. Bold and links are left out. Some definitions
bear the module's name (`SlackInit`, `SlackSpec`), so that the module that proves about
messages on their way to a provider can prove about their rendering too.

### Onboarding

A command is a process with a program counter: an action is one await (the keyring, a
prompt, the provider, the Relay) with the synchronous code after it, and it may fail
or be killed there. The database is synchronous; the keyring is written entry by
entry. Credentials are the workspace they are for, so that a Binding can be caught
with those of another. The daemon's cache has its loads in flight, which read, renew
and store. `CommandsOf` says what each process may run, one command after another.

Nothing keeps two commands from working on one id, and then the code promises nothing of
its credentials (section 5). So two variables remember the past, for the properties only:
`met` has the ids that two commands worked on at a time, or whose tokens the daemon
renewed while they were removed, and `torn` those for which a `binding complete` ended
after it had stored credentials, with the Binding not completed. `RemovedIsForgotten` and
`BindingHasItsSecret` except these and no others.

### Migrations

Each statement of SQLite and each file operation is an action, and any process may be
killed there. Files are identities: `path` is the file at the database's path, and a
process keeps the one it opened when another takes its place. The tables are a set of
facts, the schema the sequence of migrations that were applied. `StopsFirst` is what
`database restore` says in its help ("Stop the daemon first.", program.ts) and the
code does not enforce.

## 3. Runs

| Run | Module, configuration | Instance | Shows |
|---|---|---|---|
| `relay` | `MCRelay` | 2 sockets, 2 installations, 1 Binding, 2 webhooks, error frames, capacity 2 | bounded outbox, no lost wake-up, one live connection, no frame sent twice, `ImplementsExchange`, every delivery ends |
| `coordinator` | `MCCoordinator` | 2 conversations, 3 messages, 2 stops, 1 response, 3 turns, 2 interactions, concurrency 2, 1 crash | counted pool, work conservation, interactions, permissions, stops, redelivered events |
| `coordinator_serial` | `MCCoordinator`, MCSerial.cfg | 2 conversations, 3 messages, 1 response, concurrency 1, no stops, no crashes | `ImplementsSerial`, follow-ups in order, queued sessions run, no unhandled rejection |
| `overlap` (violation) | `MCCoordinator`, MCOverlap.cfg | 1 conversation, 2 messages, 1 stop | a resumed session runs two turns in one worktree |
| `deliveries` | `MCDeliveries` | 2 daemons, 1 message with its announcements, 2 attempts, 1 crash, 1 exception, 1 session that is retired | bounded attempts, no more announcements lost than there were crashes and exceptions, every delivery ends |
| `gateway` | `MCGateway` | 2 clients with 1 socket at a time, 1 Binding, 1 fault, a new attempt only after the old socket closed | no leaked socket, stop() ends the loop, routes follow the store |
| `worktrees` | `MCWorktrees` | 2 sessions, 2 conversations, retention of 1 tick, 1 tick, 1 crash, operators retire failed sessions | a session in use has its worktree, no turn runs in one that is being removed, what expired goes |
| `interactions` | `MCInteractions` | 2 sessions, 2 calls, 2 replies, 2 rules, 2 questions, 2 turns, Slack | calls are decided as told, rules are those granted, answers fit their question |
| `transcript` | `MCTranscript` | 3 texts, 2 calls, 3 turns, Linear | texts posted once and in order, calls kept once |
| `slack_message` | `MCSlackMessage` | bodies of up to 5 lines of 7 kinds, 0 to 2 questions of up to 3 options, sections of 8 units, 6 blocks | the body is shown, every option can be chosen or its list is cut and shows it |
| `onboarding` | `MCOnboarding` | a process that sets up and one that removes or deletes, a Slack and a Linear Binding, 2 workspaces, 2 key pairs, 1 kill, 1 id that both work on | Bindings have their secret, removed ones have none, one identity, the cache converges |
| `migrations` | `MCMigrations` | 2 processes, versions 1 and 3, 2 facts, 3 files, 2 kills | nothing committed is lost, migrations in order |

Further configurations answer questions beside these. They are kept for what they
show and are run by hand:

| Configuration | Module | Shows |
|---|---|---|
| MCBacklog.cfg | `MCDeliveries` | passes: first attempts come in the order of creation (1 daemon, 3 messages, claims of 2, 2 restarts) |
| MCRejection.cfg | `MCCoordinator` | violates `NoUnhandledRejection`: the end of an interrupted turn is refused and the rejection is unhandled |
| MCRepeated.cfg | `MCCoordinator` | violates `FollowUpsInOrder`: two overlapping turns of a session take up the same follow-up |
| MCOrphan.cfg | `MCCoordinator` | violates `QueuedHasPlace`: a queued session survives a restart without its place in the queue |
| MCRetired.cfg | `MCDeliveries` | violates `FailureSurfaced`: a failure of a retired session that is never announced |
| MCForgotten.cfg | `MCOnboarding` | violates `EveryRemovedIsForgotten`: a wizard or `binding complete` beside `agent delete` leaves credentials of what is gone |
| MCTorn.cfg | `MCOnboarding` | violates `EveryBindingHasItsSecret`: `binding complete` beside a wizard, or ended in its midst, leaves a Binding without credentials or with another's |
| MCRefusal.cfg | `MCGateway` | violates `OnlyRefusalEndsTheDaemon`: a connection that breaks before authentication ends the daemon |
| MCLateClose.cfg | `MCGateway` | violates `ListedIsRouted`: a late close event stops the sync of Bindings |
| MCRoutes.cfg | `MCGateway` | passes: what is listed stays routed while two clients replace each other (2 Bindings, 1 fault, 4 million states) |
| MCRetire.cfg | `MCWorktrees` | violates `LiveHasWorktree`: `sessions retire` removes the worktree of a session that a message resumed meanwhile |

Some properties are stated in the modules and left out of the runs: they hold under the
same configurations when added there, and say less than those that are listed. These are
`TypeOK` of every module (`coordinator` checks it), in `Relay` `PendingIsUnanswered`, in
`Coordinator` `LiveIsPending` and `ActiveHasTurn` (with MCSerial.cfg `OneActiveTurn` and
`QueuedHasPlace`), in `Deliveries` `SendingIsHeld` and `SettledIsFinal`.

Why the bounds are enough.

* Relay: two webhooks and an error frame are more than an outbox of two, so a
  webhook can wait, be woken and find the place taken again; two sockets are a
  connection and its successor; two installations are needed for a conflict.
* Coordinator: two conversations compete for slots and three messages give one
  session a turn, a follow-up and a resumption; two interactions let one settle while
  another is open; three turns exceed the pool, so identities never run out.
* Deliveries: two daemons suffice for a stale copy, and two attempts for a retry;
  with one message two announcements are possible, one per daemon. A crash and an
  exception, each at any step, are enough to lose an announcement in either way; the
  theorem counts them for any number.
* Gateway: two clients replace each other; a Binding is added and removed at any time
  (an ID is used once, so one shows both directions); one fault at any step is
  followed by as many reconnections as the rest needs. A second fault multiplies the
  states and ends no await that a single one does not end. `MaxClosing = 0` says that
  a failed attempt's socket closes within the backoff of 250 ms or more;
  MCLateClose.cfg shows what happens when it does not.
* Worktrees: two sessions are one that is removed and one that follows on the same
  list; they may be of one conversation, one after the other, or of two. With a
  retention of one tick, a session that ended before the tick has expired after it.
* Interactions: two sessions of one agent add to one list of rules; two calls are
  enough to take a reply for the wrong one, two replies for a second decision, two
  questions for a misplaced answer. A text that is clear and one that only begins so
  are the cases of `interpretResponse()`; the SDK's suggestions include one that denies.
* Transcript: two calls may be open in either order; with three texts one is held, one
  ends it and one follows. Linear posts the start of a call as well as its result, so
  it shows more than Slack; with Slack the configuration passes too.
* SlackMessage: with sections of 8 units a line of 8 must be cut, inside and outside
  of a code block, and five lines open and close a block with text before, in and
  after it and still exceed the message. Two elements per row and two options per
  select are exceeded by three options.
* Onboarding: a removal or an `agent delete` beside each step of a set-up, on a
  connector whose tokens are renewed and one whose are not; at most one id is worked on
  twice in a behaviour (`MaxMet`), since the other then shows what the properties say of
  it; two workspaces are needed to mix credentials up, two key pairs for two identities.
* Migrations: two versions that are two migrations apart leave an intermediate schema
  behind when one is killed; two kills are that of a migration or restore and that of
  what comes to repair it.

Constants named `Max...`, and the sets of events, turns, calls and the like, are
bounds; the code has none of them except `MaxAttempts`, `Limit`, `Capacity`,
`Concurrency`, `RetentionMs` and Slack's limits. `CHECK_DEADLOCK FALSE` is set wherever
the system may rest: with every event used, every socket closed, every message
delivered, or a message rendered. `onboarding` never rests and checks deadlock.

### Properties worth a word

* `WorkConserving` (Relay) is the absence of lost wake-ups: a coroutine that
  waits for space waits on a live connection whose outbox is full, and frames
  wait only behind a congested socket.
* `ImplementsExchange` maps the outboxes, timers and sockets away: what remains
  is that an answer is given once and a response only to what was handed over.
* `WaitingIsAnswerable` (Coordinator) relates the status in the store to the memory of
  the process: no session waits for a question nobody can answer, whichever of reply,
  abort, stop and end came first.
* `StopSticks` is an action property: a stopped session changes only with the
  arrival of a new message.
* `EventUsedOnce`: a message that was recorded and is held nowhere (worktree in
  progress, queue, turn, follow-up) never reappears.
* `OneActiveTurn`, `OneExecutingTurn`, `NoUnhandledRejection` and `QueuedHasPlace`
  hold without stops and crashes and fail with them.
* `AttemptsBounded`: only the start of a daemon can grant an attempt beyond
  maxAttempts, and only one, although two daemons hold copies of the same row.
* `FailureSurfacedUnlessLost` bounds what can be lost: an announcement for each crash and
  each exception, although two daemons may hold copies of one row and both give it up.
  `FailureSurfaced`, that none is lost, does not hold.
* `NoFrameTwice` (Relay): a frame that was handed to the socket is not in the outbox any
  more, nor twice in it, whichever coroutine flushes next and whatever `send()` said.
* `ListedIsRouted` is about the missing direction only. The opposite, that what was
  removed is no longer routed, does not hold in the code: a set that changes while
  the connection is down and changes back before the timer's next look is not told,
  and the Relay may hold an older one. Its premise leaves one client alone: two
  daemons of one installation replace each other without backoff, for ever.
* `NoLeakedSocket` and `StopEnds` fail together when a socket is not closed; the
  first says that no attempt is left open behind the loop's back, the second that no
  await of the loop outlives `stop()`.
* `HasWorktree` is why a sweep can work over several awaits on a list it read once: a
  session that has expired is hidden from accept() by the same comparison.
* `RemovalExcludesTurns` says more than `HasWorktree` while it lasts: from the moment a
  list is read to the last row on it, no turn is in any of its worktrees. That changes
  which nobody committed survive is left to git, which removes no changed worktree
  without --force; only ignored files are not safe that way.
* `DecidedAsTold` compares what the SDK was told with the words of the reply and not
  with what the code took them for; `RulesAreGranted` with every such reply there was.
* `PostsWhatWasSaid` says of the text that is held that it is what is missing: what was
  posted, followed by it, is what was said.
* `ShowsTheBody` compares blocks with what the Markdown means, letter by letter and
  whether it is code; nothing in it follows the splitting. Its condition
  (`ShowsBackticks`) leaves out the one kind of body that the code renders wrongly, see
  section 5. That controls can crowd out the notice of omitted text is in it as well.
* `OptionsAreReachable` lets an option be missing in two cases: controls were dropped and
  the message says so, or it is too long for a button and the list of its question ends in
  an ellipsis.
* `BindingHasItsSecret` relates a row in the database to an entry in the keyring that was
  written before it by a command which may have died since, with other commands after it.
* `RemovedIsForgotten` and `CacheConverges` are about the same removal in the keyring
  and in memory; the first is safety, the second says that a load in flight cannot keep
  credentials in the cache for good.

### Fairness

* Relay: woken coroutines resume and armed timers fire (`Resume`,
  `DeliveryTimeout`, `SpaceTimeout`). Nothing is assumed of peers or the network.
* Coordinator: `pump()` runs (it is called in place) and the runtime ends its
  turns. The second is an assumption on the runtime: without it a queue may wait
  forever, in the code too.
* Deliveries: the daemon's timer fires, a call to a provider ends one way or the
  other, a retry falls due, a daemon that went down is started again (the service
  definitions say Restart=on-failure and KeepAlive). That a call ends is an
  assumption: the connectors set no timeout.
* Gateway: frames and close events arrive, signatures end, the loop's and the
  Binding timer fire, the Relay handles its events. Starting, stopping, faults and
  changes of the store are not assumed to happen.
* Worktrees: the service manager starts the daemon again, its timers fire and its git
  commands end (the code sets them no timeout). Commands, turns and messages are not
  assumed to go on.
* Onboarding: the daemon is started again, its timer calls keepFresh(), and a load's
  calls to keyring and provider end; a renewal that is tried over and over succeeds in
  the end (the strong fairness on `Renewed`), since with a provider that refuses for
  ever nothing can be in the cache.

## 4. Proofs

Eight modules prove, for every value of the constants that meets the named
assumptions, what follows. The assumptions say that capacities, limits and the like
are positive, that `None` and `Notice` differ from what they stand beside, that turns,
daemons and the sockets of a client are finitely many; bounds (`Max...`) are any numbers.

* `RelayProofs`: `TypeOK`, `WorkConserving`, `OutboxBounded`, `PendingIsUnanswered`,
  `RegistryIsExact`, `RoutedOnly`, `NoFrameTwice`, and the refinement
  `ImplementsExchange`: the Relay's initial states are initial states of
  `WebhookExchange`, and each of its steps is a step of it or leaves calls and answers
  as they are.
* `CoordinatorProofs`, with stops and crashes: `TypeOK`, `PoolIsCounted`,
  `WorkConserving`, `LiveIsPending`, `WaitingIsAnswerable`, `PermissionByOperator`,
  `ActiveHasTurn`, and the action properties `StopSticks` and `EventUsedOnce`. With
  crashes but without stops (`NobodyStops`): `OneActiveTurn`, `NoUnhandledRejection`,
  `FollowUpsInOrder`. With neither (`NeverDown`): the refinement `ImplementsSerial`.
* `DeliveriesProofs`, of `Deliveries`: `AttemptsBounded`, `FailureSurfacedUnlessLost`,
  `SendingIsHeld`, `FirstAttemptsInOrder`, and the action property `SettledIsFinal`. Of
  `SlackMessage`, for bodies of any length, any questions and any limits that leave room
  for the two fences and for one block of each kind: `ShowsTheBody`,
  `OptionsAreReachable`.
* `GatewayProofs`: `NoLeakedSocket`, also with `MaxClosing > 0`; with `MaxClosing = 0`
  the action property `ListedStaysRouted`.
* `WorktreesProofs`: `HasWorktree` and `RemovalExcludesTurns`, when operators retire failed
  sessions only (`RetiresFailed`).
* `RuntimeProofs`, of `Interactions`: `DecidedAsTold` and `RulesAreGranted` with both
  connectors, and `AnswersFit` with Slack when nobody empties a select. Of `Transcript`,
  with both connectors: `TranscriptTypeOK`, `PostsWhatWasSaid`, `ToolCallsAreKeptOnce`.
* `OnboardingProofs`: `TypeOK`, `RemovedIsForgotten` and `BindingHasItsSecret`, for any
  number of processes that run any commands; `IdentityAgrees` when only one process runs
  commands that enroll (`OneEnrolls`).
* `MigrationsProofs`: `MigratedInOrder`, and `NothingIsLost` when nothing runs beside a
  restore (`StopsFirst`).

The hypotheses are settings of the runs that check the same property, generalised to
any number of the rest. They are needed for the code as it is, not for the proofs:
section 5 names what happens without each.

All have the same shape: lemmas about the operators, an inductive invariant `IInv`
that holds initially and is kept action by action, and theorems that draw the
properties from it. What each invariant adds, and why:

* Relay: the conjunction of the safety properties: they support one another (a woken
  coroutine that finds its connection released must find its request settled, so work
  conservation needs the pending map and the other way round). `FrameInv` adds for
  the frames that one which is queued or was handed over has left `enqueue()`
  (`QueuedReturned`), so a coroutine that is woken late brings nothing a second time, and
  for the refinement that a request which was answered as not found was never routed
  (`NotFoundUnrouted`).
* Coordinator: `DownIsEmpty` (a process that is down holds nothing) and `OpenBySomebody`
  (a pending interaction has a session), without which the properties are not inductive
  over a crash and a restart. The counting of the pool rests on the cardinality theorems
  of the library: starting a turn adds one element to the set of executed turns, leaving
  one removes it. What holds only while nobody stops is a second invariant beside the
  first. `SerialInv` relates the one turn of a session to the status in the store
  (`OneTurn`, `StatusFits`), so that no transition is attempted that the store refuses,
  and says that who asks executes (`AskerExecutes`). `OrderInv` adds that the delivered
  follow-ups of a session come before the queued ones (`DeliveredPrefix`), that the turn
  of a follow-up runs the first queued one (`RunsRow`), and that a message is a
  follow-up or opens a turn, never both (`MessagesApart`). `SteadyInv`, for the
  refinement, says that the process is up and a queued session has its place.
  `ActiveHasTurn` is kept by itself beside `IInv`.
* Deliveries: a count. A claim that has used up the attempts is the last of its kind; any
  other gives its row back when it fails; only the start of a daemon makes two of
  one. So a row's attempts beyond the limit, the row itself while it waits, and the
  claims of it that have attempts left are together no more than the starts there
  were (`ClaimsAreCounted`). `PostsAreCharged` does the same for what the provider took:
  posts so far and workers that may still post are covered by charged attempts. Both
  are sums of cardinalities of sets of workers. `Fallbacks` says that announcements do
  not chain. Beside it `LostAreCounted`: a row stops being about to be announced only
  by its announcement, by a crash or by an exception, and each of these ends one
  worker's hold on one row. For `FirstAttemptsInOrder`, `Tried` says
  that a row is pending exactly until its first attempt is charged, so what a claim
  passes over is younger than what it takes first. `SendingIsHeld` is inductive beside
  `IInv`: a crash takes its premise away and a start leaves no row "sending".
* Gateway: `SigningWasOpen`: a challenge still being signed belongs to a socket that was
  open, so its late answer cannot end the attempt of another. For the shared field,
  `OneSocket` (with `MaxClosing = 0` a client has one socket that is not closed),
  `AuthedHasSocket` and `FieldAgrees`, which covers sockets that are still connecting.
  For the routes, `OneAttached` (the Relay listens to the socket in its registry),
  `NotYet` (a socket that is only challenged was not told it is authenticated, so the
  client sends it no routes) and `SendsInOrder`: what is on its way from the one attached
  socket lists all that is routed or was removed since, each frame so beside the one
  before.
* Worktrees: `ListsAreSpent`: what is on the list of a process that removes worktrees
  can never be used again, by the retention that hides it or because it failed; with
  `TurnsAreKept`, `QueueIsIdle`, `DownIsIdle` and `RowHasTree` for what memory holds.
* Interactions: `RepliesAreKept`, `InboxIsKnown` and `UsedOnce` say that no event that
  counts is left of a reply that has settled a call; `AllowIsStored` that rules in force
  are stored. `AnswersFit` adds `RepliesFit`, that a click names the question it was
  made for.
* Transcript: `Tells`, that each text that was posted has one position in what was said,
  and with later positions later ones, which is what appending keeps; the held texts
  are the last of what was said, and only while a turn runs. `KeepsCalls`: a call that is
  open has its start among the deliveries and no result, and a result follows a start.
* Onboarding: for the identity `MetadataFollowsKey` and `IdentityHeld`: what the process
  that enrolls has read or written so far is what the keyring holds. For credentials one
  invariant, `KeyInv`, of the ids that were never worked on twice at a time. Who works on
  such an id works on it alone (`WorksAlone`), so what a command saw of it at its last
  await still holds at the next. `RowFits` says what the keyring may hold for an id by its
  row (nothing for what is unused or removed, something for a Binding, of its workspace
  unless torn) and what a load in flight may write back, `CommandFits` what a command
  between two awaits relies on.
* Migrations: `AllInOrder`, `FilesExist` and `Upward` (a process migrates from a lower
  schema than its own, and works on none) for the order; for what is committed `Alone`
  (a restore runs alone), `AtPath` (what is open is the file at the path) and
  `CopiesSuffice` (once the database is removed, complete copies hold every fact).
* SlackMessage: `SlackInv` needs of a rendering only its type and the end, for what
  `assemble()` makes of the controls is one step; the work is in the lemmas: which
  blocks offer an option (`ControlsOffer`), and that a stop block is the last
  (`Assembled`). `BodyInv` is the invariant of the loop: the letters of the chunks, each
  read by itself, followed by those of the text that is left, read as code or not as
  `inFence` says, are the letters that the body means. `LettersConcat` says how the
  letters of two texts combine, which is what a cut, the repair of its fences and a line
  of Markdown come down to. What `FlattenSeq()` computes is described by the sequences
  it goes through (`Steps`), and induction over a predicate, which the provers cannot
  instantiate, by a set of numbers that holds 0 and with each number the next
  (`UptoInduction`). `BudgetsFit` says that the trimmed body and its notice have room
  unless the controls take it.

Only model-checked: the liveness properties (`DeliveryEnds` of both, `QueuedRuns`,
`StopEnds`, `ListedIsRouted`, `ExpiredIsRetired`, `CacheConverges`), which are outside what
the provers do. Every other property that a passing run checks is a theorem.

## 5. What disagrees with the code's own words, and what to know

Runs and configurations show the first ten:

* A message after a stop starts a second turn beside the interrupted one
  (`overlap`); the tests say that messages wait until the active turn completes.
* The two turns then take up the same follow-up: it is queued until a turn that ran it
  ends, and each turn that ends looks for the first queued one, so a message is run twice
  (coordinator.ts:332, MCRepeated.cfg).
* The end of that interrupted turn attempts queued -> interrupted, which the store
  refuses; the rejection has no handler and the daemon exits (MCRejection.cfg).
* After a restart a session that was queued stays so for ever; it can be neither
  resumed nor retired (MCOrphan.cfg).
* A permanently failed message is not announced when its session was retired
  meanwhile, and the rest of its batch is stranded until a restart (MCRetired.cfg). Nor is
  it when the daemon dies, or a statement or the callback throws, after the row was marked:
  a start takes up only rows that are being sent. (MCDeliveries.cfg with `FailureSurfaced`
  in place of `FailureSurfacedUnlessLost` shows it.) Two daemons that give up one row
  announce it twice.
* A connection that ends before it authenticated ends the daemon as if the Relay had
  refused the installation, also when the Relay was only restarted (MCRefusal.cfg).
* After a handler failed, the close event of the old socket can come when the next
  connection is authenticated; the client then takes itself for unauthenticated and
  tells the Relay of no Binding until it reconnects (MCLateClose.cfg). Where the close
  comes later still, the field of the old connection makes the daemon's timer send its
  Bindings on the new one before that has authenticated: with a second client in between
  they may be older than what is routed, and take a listed Binding off the routes
  (MCRoutes.cfg with `MaxClosing = 1` and a second element in `Lives`).
* `sessions retire` checks the status, removes the worktree and then lets the store
  check the status again: a session that a message resumed in between runs on without
  its worktree (MCRetire.cfg).
* A wizard or a `binding complete` that works on a setup while `agent delete` removes it
  leaves credentials in the keyring that nothing deletes any more, and so does a renewal
  of a Linear token that was in flight when its Binding was removed (MCForgotten.cfg).
* `binding complete` stores credentials before it completes the Binding. If it is killed
  there, or refused and its deletion fails, a resumed wizard completes the Binding of one
  workspace with the credentials of another; and when its completion is refused because a
  wizard was faster, it deletes the credentials of the Binding that the wizard completed
  (wizard.ts:358 and program.ts:704 do the same to each other) (MCTorn.cfg).

The rest was met while modelling, and is part of the models as the code does it, or
of the restrictions that the modules name:

* Worktrees. A worktree that is gone or not owned ends the sweep, and at the daemon's
  start the daemon (daemon.ts:125), though the help says that unowned ones are preserved
  and reported. Files that git ignores go with a clean worktree. A session keeps its old
  retention while it runs again (store.ts:616-619). A message to an expired session
  whose worktree is dirty creates a worktree whose row the database then refuses.
* Interactions. Linear's options carry no question, so an option may answer another
  question of the same call. An emptied Slack select sends its whole payload as the
  answer. With two interactions pending, the answer to one sets the session running, and
  what is typed for the other becomes a follow-up. A message that mentions somebody
  other than the app is heard by nobody. An interaction that outlived its turn is
  answered by the next message (coordinator.ts:127).
* Transcript. The text that is held when a turn fails is lost.
* Slack messages. A code block fenced by tildes that shows backticks, a long line of
  prose cut before inline backticks, and controls that fill the message by themselves
  are rendered wrongly or without the notice that something is missing. An option without
  a button is listed with the text to type, but the list is cut at 3000 characters: one
  such option is about 2000 long itself, so the second is told of by an ellipsis only.
* Onboarding. Two `init` that race create two Agents and may mix a key with another's
  metadata; the advice to rerun init (identity.ts:80, 127) does not help, because the
  enrollment is only done once.
* Migrations. A restore beside a running daemon loses what that writes, and nothing
  keeps it from running. A daemon of an old version goes on with a schema that a newer
  one migrated. A restore that is killed between removal and copy leaves no database,
  and the next start creates an empty one (the data is in the preserved copy). Of two
  processes that migrate at once the second ends with an error.
* Service. When the restart fails after a changed definition was written, the next
  reconcile finds it unchanged and leaves the old process running (not modelled).

## 6. What is left

Not modelled, and why:

* The background service: its behaviour is what systemd and launchd make of the files
  and calls they are given, and they are not in the repository; the code around them
  writes a file and makes a call or two.
* Ingress on its own: `handle()` verifies, parses and accepts without state; its ends are
  in `Coordinator`, `Interactions`, `Gateway` and `Onboarding`.
* Provider payloads, signatures, HTTP exchanges, the encoding of keys and frames: pure
  functions of their input, abstracted to valid or not, or to a step that succeeds or
  fails.
* Registration at the Relay and its pruning by the time an installation last connected
  (relay/store.ts:110): one statement on one table each, and the question is about real
  time. The effect of a pruning is in `Gateway`.
* The scripts of the migrations are SQL, and inline Markdown is text.
* Users, access to sessions, status and the commands that only read; terminal input and
  output, logging, redaction, configuration.
