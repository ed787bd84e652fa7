------------------------------- MODULE Transcript -------------------------------
(***************************************************************************)
(* What a channel gets of the turns of a Session: events() of the Claude   *)
(* runtime (apps/cli/src/runtimes/claude.ts) turns the SDK's messages into *)
(* runtime events, execute() (engine/coordinator.ts) enqueues a delivery   *)
(* for each and settles the Session, and the connectors (connectors/       *)
(* slack.ts, linear.ts) post the deliveries.                               *)
(*                                                                         *)
(* The SDK is the environment: it may say a text, call a tool, give a      *)
(* result or fail at any time, and give a tool's result again when it      *)
(* resumes. A text is a model value and said once; the result of a turn    *)
(* repeats the last text of the assistant or is another. Deliveries are    *)
(* posted in the order they were enqueued (Deliveries has the rest).       *)
(*                                                                         *)
(* The runtime's other part is Interactions. No name here is one of there: *)
(* RuntimeProofs extends both.                                             *)
(*                                                                         *)
(* A definition that no action uses is a defective variant of the one that *)
(* follows it, named for its defect. The mutation runs put it in that      *)
(* one's place to see a property fail.                                     *)
(***************************************************************************)
EXTENDS Naturals, SequencesExt

CONSTANTS
  Bodies,    \* texts of the assistant
  ToolUses,  \* tool_use ids
  Provider,  \* the connector, "slack" or "linear"
  Turns      \* bound: turns of the Session

ASSUME ProviderAssumption == Provider \in {"slack", "linear"}
ASSUME TurnsAssumption == Turns \in Nat

VARIABLES
  session,    \* the Session's status
  begun,      \* how many turns were started
  held,       \* events(): pendingAssistantText
  started,    \* events(): startedCalls
  failed,     \* execute(): runtimeError is set
  posted,     \* the deliveries of the Session
  said,       \* the texts of the Session as the SDK said them, but for what is lost
  called      \* calls the SDK has made

turnVars == <<held, started, failed>>
transcriptVars == <<session, begun, turnVars, posted, said, called>>

Deliveries == [kind : {"progress", "final"}, body : Bodies]
                \cup [kind : {"action"}, call : ToolUses, ephemeral : BOOLEAN]
                \cup [kind : {"error"}]

TranscriptTypeOK ==
  /\ session \in {"queued", "running", "completed", "failed", "interrupted"}
  /\ begun \in 0..Turns
  /\ failed \in BOOLEAN
  /\ held \in Seq(Bodies) /\ said \in Seq(Bodies)
  /\ started \subseteq ToolUses /\ called \subseteq ToolUses
  /\ posted \in Seq(Deliveries)

TranscriptInit ==
  /\ session = "queued"
  /\ begun = 0
  /\ held = <<>> /\ started = {} /\ failed = FALSE
  /\ posted = <<>> /\ said = <<>> /\ called = {}

Progress(bodies) == [i \in DOMAIN bodies |-> [kind |-> "progress", body |-> bodies[i]]]
Action(c, ephemeral) == [kind |-> "action", call |-> c, ephemeral |-> ephemeral]

\* A text that was not said before.
Fresh(bodies) == IsInjective(bodies) /\ ToSet(bodies) \cap ToSet(said) = {}

----------------------------------------------------------------------------
(* execute() *)

\* start() or resume(): what events() and execute() keep is new with each turn.
StartTurn ==
  /\ session = "queued" /\ begun < Turns
  /\ session' = "running" /\ begun' = begun + 1
  /\ held' = <<>> /\ started' = {} /\ failed' = FALSE
  /\ UNCHANGED <<posted, said, called>>

\* A follow-up, or a message that resumes the Session.
ResumeSession ==
  /\ session \in {"completed", "interrupted"}
  /\ session' = "queued"
  /\ UNCHANGED <<begun, turnVars, posted, said, called>>

\* The loop over the events ends: a runtime error fails the Session.
Conclude(items) ==
  /\ session' = IF failed THEN "failed" ELSE "completed"
  /\ posted' = posted \o items \o (IF failed THEN <<[kind |-> "error"]>> ELSE <<>>)
  /\ held' = <<>>
  /\ UNCHANGED <<begun, started, failed, called>>

\* What was held is lost.
Lose == said' = SubSeq(said, 1, Len(said) - Len(held))

\* The stream throws.
Throw ==
  /\ session = "running"
  /\ Lose
  /\ session' = "interrupted"
  /\ posted' = Append(posted, [kind |-> "error"])
  /\ held' = <<>>
  /\ UNCHANGED <<begun, started, failed, called>>

----------------------------------------------------------------------------
(* events() *)

\* The text of a message without tool calls waits for the next message; what waited goes.
HoldOverHeld(bodies) ==
  /\ posted' = posted
  /\ held' = bodies

Hold(bodies) ==
  /\ posted' = posted \o Progress(held)
  /\ held' = bodies

AssistantText(bodies, error) ==
  /\ session = "running" /\ Fresh(bodies)
  /\ Hold(bodies)
  /\ said' = said \o bodies
  /\ failed' = (failed \/ error)
  /\ UNCHANGED <<session, begun, started, called>>

\* The text of a message with a tool call goes out ahead of the call.
AssistantCalls(bodies, c, error) ==
  /\ session = "running" /\ Fresh(bodies) /\ c \notin called
  /\ posted' = posted \o Progress(held) \o Progress(bodies) \o <<Action(c, TRUE)>>
  /\ held' = <<>>
  /\ said' = said \o bodies
  /\ started' = started \cup {c}
  /\ called' = called \cup {c}
  /\ failed' = (failed \/ error)
  /\ UNCHANGED <<session, begun>>

KeepStarted(c) == started' = started

Finish(c) == started' = started \ {c}

\* A tool's result; that of a call which is not open, from an earlier turn or twice, is
\* skipped.
UserMessage(c) ==
  /\ session = "running" /\ c \in called
  /\ posted' = posted \o (IF c \in started THEN <<Action(c, FALSE)>> ELSE <<>>) \o Progress(held)
  /\ Finish(c)
  /\ held' = <<>>
  /\ UNCHANGED <<session, begun, failed, said, called>>

\* Any other message lets go what was held.
OtherMessage ==
  /\ session = "running" /\ held # <<>>
  /\ Hold(<<>>)
  /\ UNCHANGED <<session, begun, started, failed, said, called>>

HeldBeside(body) == held

\* Held text that the result repeats goes out as the result only. No text is there twice.
HeldBut(body) == RemoveFirst(held, body)

ResultSuccess(body) ==
  /\ session = "running"
  /\ \/ held # <<>> /\ body = Last(held) /\ UNCHANGED said
     \/ Fresh(<<body>>) /\ said' = Append(said, body)
  /\ Conclude(Progress(HeldBut(body)) \o <<[kind |-> "final", body |-> body]>>)

\* A result that is an error: what was held is not posted.
ResultError ==
  /\ session = "running"
  /\ Lose
  /\ session' = "failed"
  /\ posted' = Append(posted, [kind |-> "error"])
  /\ held' = <<>> /\ failed' = TRUE
  /\ UNCHANGED <<begun, started, called>>

\* The stream ends without a result.
StreamEnds ==
  /\ session = "running"
  /\ UNCHANGED said
  /\ Conclude(Progress(held))

----------------------------------------------------------------------------
(* The connectors *)

\* deliver(): Slack posts nothing for the opening half of a tool call.
Posts(item) == Provider = "linear" \/ item.kind # "action" \/ ~item.ephemeral

----------------------------------------------------------------------------

TranscriptNext ==
  \/ StartTurn \/ ResumeSession \/ Throw
  \/ \E bodies \in UNION {[1..n -> Bodies] : n \in 0..2} :
       \E error \in BOOLEAN :
         \/ AssistantText(bodies, error)
         \/ \E c \in ToolUses : AssistantCalls(bodies, c, error)
  \/ \E c \in ToolUses : UserMessage(c)
  \/ OtherMessage
  \/ \E body \in Bodies : ResultSuccess(body)
  \/ ResultError \/ StreamEnds

TranscriptSpec == TranscriptInit /\ [][TranscriptNext]_transcriptVars

----------------------------------------------------------------------------
(* Properties *)

\* The positions of the texts in what was posted, and how much of what was said they are.
TextsAt == {i \in DOMAIN posted : posted[i].kind \in {"progress", "final"}}
Sent == Len(said) - Len(held)

\* What a conversation gets is what the assistant said, each text once and in its order,
\* over all turns of its Session; only the text of the last message may still be held.
\* (What was held when a turn failed is lost.)
PostsWhatWasSaid ==
  /\ \A k \in DOMAIN held : held[k] = said[Sent + k]
  /\ \A p \in 1..Sent : \E i \in TextsAt : posted[i].body = said[p]
  /\ \A i \in TextsAt : \E p \in 1..Sent : posted[i].body = said[p]
  /\ \A i, j \in TextsAt, p, q \in 1..Sent :
       posted[i].body = said[p] /\ posted[j].body = said[q] => (i < j <=> p < q)

\* What was posted: a tool call is kept once, by its result, which follows its start.
Visible == {i \in DOMAIN posted : Posts(posted[i])}

ToolCallsAreKeptOnce ==
  \A i \in Visible :
    posted[i].kind = "action" =>
      /\ \A j \in Visible : posted[i] = posted[j] => i = j
      /\ ~posted[i].ephemeral =>
           \E k \in 1..(i - 1) :
             /\ posted[k] = Action(posted[i].call, TRUE)
             /\ Provider = "linear" => k \in Visible
=============================================================================
