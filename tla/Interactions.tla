------------------------------ MODULE Interactions ------------------------------
(***************************************************************************)
(* What the Claude runtime (apps/cli/src/runtimes/claude.ts: canUseTool    *)
(* and interpretResponse) asks the people in a channel, how their replies  *)
(* come back through the Slack and Linear connectors                       *)
(* (connectors/slack.ts, slack-blocks.ts, linear.ts) and                   *)
(* SessionCoordinator (engine/coordinator.ts), and what the runtime takes  *)
(* them to mean.                                                           *)
(*                                                                         *)
(* One Agent with several Sessions, so that the Agent's runtime state (its *)
(* sticky permission rules) is shared by turns that run at the same time.  *)
(* The SDK is the environment: it asks before a tool runs unless a rule in *)
(* force covers the call, and ends. So are the people and the providers,   *)
(* whose events come in any order. A post of Slack's that mentions         *)
(* somebody else than the app is nobody's command and is left out.         *)
(*                                                                         *)
(* A text is a sequence of words: "yes", "no" and "always" stand for the   *)
(* words of APPROVES, of REFUSES and for ALLOW_ALWAYS, "more" for all      *)
(* others. The microtask that resumes canUseTool() is taken together with  *)
(* the task that settles its promise. Stops, crashes, the queue and what   *)
(* a turn says have modules of their own.                                  *)
(*                                                                         *)
(* A definition that no action uses is a defective variant of the one that *)
(* follows it, named for its defect. The mutation runs put it in that      *)
(* one's place to see a property fail.                                     *)
(***************************************************************************)
EXTENDS Naturals, Sequences, FiniteSets

CONSTANTS
  Sessions,   \* Sessions of one Agent
  Calls,      \* tool_use ids
  Replies,    \* what people type and click
  Rules,      \* permission rules
  None,       \* undefined
  Connector,  \* "slack" or "linear"
  Proposals,  \* the suggestions the SDK may make with a request, by the call's rule
  Texts,      \* what people type
  Questions,  \* the number of questions in an AskUserQuestion call
  Clears,     \* whether people empty a select they have chosen from
  MaxTurns    \* bound: turns in a behaviour

Kinds == {"permission", "plan", "question"}
Statuses == {"pending", "answered", "denied", "cancelled"}
Words == {"yes", "no", "always", "more"}
Suggestions == [behavior : {"allow", "deny"}, rule : Rules]

ASSUME ConnectorAssumption == Connector \in {"slack", "linear"}
ASSUME ProposalsAssumption == Proposals \in [Rules -> SUBSET SUBSET Suggestions]
ASSUME TextsAssumption == Texts \subseteq Seq(Words) \ {<<>>}
ASSUME BoundsAssumption == Questions \in Nat \ {0} /\ MaxTurns \in Nat /\ Clears \in BOOLEAN

VARIABLES
  stored,   \* the Agent's runtime state: permissionRules
  turn,     \* a Session's turn and the Session's status: "idle", "running", "waiting"
  allow,    \* the permission rules in force in a turn
  call,     \* a tool call, its interaction and what the SDK was told
  reply,    \* what a person typed or clicked
  inbox,    \* events of replies that have not been accepted
  turns     \* how many turns were started

vars == <<stored, turn, allow, call, reply, inbox, turns>>

\* ix: the interactions row (NULL for a call that was not asked about); by: the reply that
\* settled it; answers: its response, as far as it goes; sdk: what canUseTool() returned.
Call == [session : Sessions, kind : Kinds, rule : Rules \cup {None}, suggestions : SUBSET Suggestions,
         ix : Statuses \cup {None},
         by : Replies \cup {None},
         answers : [1..Questions -> {None} \cup 0..Questions],
         sdk : {"asking", "allowed", "denied", "gone"}]

\* call: the interaction a click belongs to; index: the question it answers (0: none).
Reply == [session : Sessions, operator : BOOLEAN, call : Calls \cup {None},
          index : 0..Questions, cleared : BOOLEAN, mention : BOOLEAN, text : Seq(Words)]

ASSUME NoneAssumption ==
  None \notin Sessions \cup Calls \cup Replies \cup Rules \cup Nat \cup Statuses \cup Call \cup Reply

Events == {"app_mention", "message", "block_actions", "prompted"}

TypeOK ==
  /\ stored \subseteq Rules
  /\ turn \in [Sessions -> {"idle", "running", "waiting"}]
  /\ allow \in [Sessions -> SUBSET Rules]
  /\ call \in [Calls -> Call \cup {None}]
  /\ reply \in [Replies -> Reply \cup {None}]
  /\ inbox \subseteq Replies \X Events
  /\ turns \in 0..MaxTurns

Init ==
  /\ stored = {}
  /\ turn = [s \in Sessions |-> "idle"]
  /\ allow = [s \in Sessions |-> {}]
  /\ call = [c \in Calls |-> None]
  /\ reply = [p \in Replies |-> None]
  /\ inbox = {}
  /\ turns = 0

Made == {c \in Calls : call[c] # None}
Pending(s) == {c \in Made : call[c].session = s /\ call[c].ix = "pending"}
Asking(s) == {c \in Made : call[c].session = s /\ call[c].sdk = "asking"}

----------------------------------------------------------------------------
(* What a reply means: interpretResponse() and resolveInteraction() *)

StickySuggestionsOfAnyKind(c) == {g.rule : g \in call[c].suggestions}

\* stickySuggestions(): permissive ones only.
StickySuggestions(c) == {g.rule : g \in {h \in call[c].suggestions : h.behavior = "allow"}}

VerdictOnFirstWord(text) ==
  CASE Head(text) = "always" -> "allow_always" [] Head(text) = "yes" -> "allow"
    [] Head(text) = "no" -> "deny" [] OTHER -> "unclear"

\* permissionVerdict(): the whole reply is matched.
PermissionVerdict(text) ==
  CASE text = <<"always">> -> "allow_always" [] text = <<"yes">> -> "allow"
    [] text = <<"no">> -> "deny" [] OTHER -> "unclear"

\* accumulateAnswers(): of the question the reply names, or the next without an answer.
AccumulateAnswers(answers, index, answer) ==
  LET open == {q \in 1..Questions : answers[q] = None}
      next == {q \in open : \A other \in open : q <= other}
  IN  [q \in 1..Questions |->
         IF q \in IF index > 0 THEN {index} ELSE next THEN answer ELSE answers[q]]

MergeIntoRulesOfTurn(granted, s) == stored' = allow[s] \cup granted

\* mergeStoredRules(), of the state as the store has it now, and setAgentRuntimeState().
MergeStoredRules(granted, s) == stored' = stored \cup granted

\* The row is settled; canUseTool() answers the SDK if it still asks. The Session that
\* waits runs again, whatever else was asked of it.
Settle(c, p, status, answers) ==
  /\ call' = [call EXCEPT ![c] =
       [@ EXCEPT !.ix = status, !.by = p, !.answers = answers,
                 !.sdk = IF call[c].sdk # "asking" THEN call[c].sdk
                         ELSE IF status = "answered" THEN "allowed" ELSE "denied"]]
  /\ turn' = [turn EXCEPT ![call[c].session] = IF @ = "waiting" THEN "running" ELSE @]

\* A permission: an unreadable reply leaves it waiting. What is granted for good is in
\* force in the turn too, if the SDK still asks (updatedPermissions).
ResolvePermission(c, p) ==
  LET verdict == PermissionVerdict(reply[p].text)
      s == call[c].session
      granted == IF verdict = "allow_always" THEN StickySuggestions(c) ELSE {}
  IN  IF verdict = "unclear" THEN UNCHANGED <<stored, turn, allow, call>>
      ELSE /\ Settle(c, p, IF verdict = "deny" THEN "denied" ELSE "answered", call[c].answers)
           /\ MergeStoredRules(granted, s)
           /\ allow' = [allow EXCEPT ![s] =
                          IF call[c].sdk = "asking" THEN @ \cup granted ELSE @]

\* A plan: what is not an approval is feedback and sends it back.
ResolvePlan(c, p) ==
  /\ Settle(c, p, IF PermissionVerdict(reply[p].text) \in {"allow", "allow_always"}
                  THEN "answered" ELSE "denied", call[c].answers)
  /\ UNCHANGED <<stored, allow>>

\* Questions: settled once each has an answer.
ResolveQuestion(c, p, index) ==
  LET answers == AccumulateAnswers(call[c].answers, index, reply[p].index)
  IN  /\ IF \A q \in 1..Questions : answers[q] # None
         THEN Settle(c, p, "answered", answers)
         ELSE call' = [call EXCEPT ![c].answers = answers] /\ UNCHANGED turn
      /\ UNCHANGED <<stored, allow>>

ResolveInteraction(c, p, index) ==
  \/ call[c].kind = "permission" /\ ResolvePermission(c, p)
  \/ call[c].kind = "plan" /\ ResolvePlan(c, p)
  \/ call[c].kind = "question" /\ ResolveQuestion(c, p, index)

----------------------------------------------------------------------------
(* Replies: the people, the providers and the connectors *)

\* permissionOptions(), and the options of a plan and of questions, as buttonLadder() and
\* selectOptions() render them: the question a control belongs to and its value.
Controls(c) ==
  CASE call[c].kind = "permission" ->
         {<<0, "yes">>, <<0, "no">>}
           \cup (IF StickySuggestions(c) = {} THEN {} ELSE {<<0, "always">>})
    [] call[c].kind = "plan" -> {<<0, "yes">>, <<0, "more">>}
    [] call[c].kind = "question" -> (1..Questions) \X {"more"}

\* Slack sends an app_mention beside the message event of a post that mentions the app.
ProviderEvents(r) ==
  CASE Connector = "linear" -> {"prompted"}
    [] Connector = "slack" /\ r.call # None -> {"block_actions"}
    [] Connector = "slack" /\ r.call = None ->
         {"message"} \cup (IF r.mention THEN {"app_mention"} ELSE {})

Give(p, r) ==
  /\ reply[p] = None
  /\ reply' = [reply EXCEPT ![p] = r]
  /\ inbox' = inbox \cup ({p} \X ProviderEvents(r))
  /\ UNCHANGED <<stored, turn, allow, call, turns>>

\* A person who has access writes in the conversation.
Type(p, s, operator, text) ==
  \E mention \in IF Connector = "slack" THEN BOOLEAN ELSE {FALSE} :
    Give(p, [session |-> s, operator |-> operator, call |-> None, index |-> 0,
             cleared |-> FALSE, mention |-> mention, text |-> text])

\* Controls stay in the channel: a click may come long after its interaction was settled.
Click(p, c, operator) ==
  /\ c \in Made /\ call[c].ix # None
  /\ \E control \in Controls(c),
        cleared \in IF Clears /\ call[c].kind = "question" /\ Connector = "slack"
                    THEN BOOLEAN ELSE {FALSE} :
       Give(p, [session |-> call[c].session, operator |-> operator, call |-> c,
                index |-> control[1], cleared |-> cleared, mention |-> FALSE,
                text |-> <<control[2]>>])

NoIndex(r) == 0

\* agentCommand(): Linear's token is an interaction id and an option's value.
\* parseInteraction(): Slack's envelope has the index of the question too, but a select
\* that was emptied has no envelope, and all of the payload is the response.
ParsedIndex(r) == IF Connector = "linear" \/ r.cleared THEN 0 ELSE r.index

ParsesEverything(p, event) == TRUE

\* Slack's verifyAndParse(): the message event of a mention is skipped, as the app_mention
\* is the message.
Parses(p, event) == event = "message" => ~reply[p].mention

AnybodyMayAnswer(c, p) == TRUE

MayAnswer(c, p) == call[c].kind = "permission" => reply[p].operator

\* accept() of an interaction_response; and of a message in a Session that waits, for the
\* older of two interactions, or either when both were made in one millisecond. A message
\* in any other Session becomes a follow-up, or the prompt of its next turn.
Accept(p, event) ==
  LET r == reply[p]
      asked == IF r.call # None THEN {r.call} \cap Pending(r.session)
               ELSE IF turn[r.session] = "waiting" THEN Pending(r.session) ELSE {}
  IN  /\ <<p, event>> \in inbox
      /\ inbox' = inbox \ {<<p, event>>}
      /\ IF Parses(p, event) /\ asked # {}
         THEN \E c \in asked : IF MayAnswer(c, p) THEN ResolveInteraction(c, p, ParsedIndex(r))
                               ELSE UNCHANGED <<stored, turn, allow, call>>
         ELSE UNCHANGED <<stored, turn, allow, call>>
      /\ UNCHANGED <<reply, turns>>

\* What decided nothing need not be remembered.
Forget(p) ==
  /\ reply[p] # None
  /\ \A m \in inbox : m[1] # p
  /\ \A c \in Made : call[c].by # p
  /\ reply' = [reply EXCEPT ![p] = None]
  /\ UNCHANGED <<stored, turn, allow, call, inbox, turns>>

----------------------------------------------------------------------------
(* Turns *)

\* createTurn(): permissionAllowRules() replays the stored rules.
PermissionAllowRules(s) == stored

CreateTurn(s) ==
  /\ turn[s] = "idle" /\ turns < MaxTurns
  /\ turns' = turns + 1
  /\ turn' = [turn EXCEPT ![s] = "running"]
  /\ allow' = [allow EXCEPT ![s] = PermissionAllowRules(s)]
  /\ UNCHANGED <<stored, call, reply, inbox>>

NewCall(s, kind, rule, suggestions) ==
  [session |-> s, kind |-> kind, rule |-> rule, suggestions |-> suggestions,
   ix |-> "pending", by |-> None, answers |-> [q \in 1..Questions |-> None],
   sdk |-> "asking"]

\* canUseTool() and requestInteraction(): the SDK asks for a permission unless a rule
\* covers the call, and has AskUserQuestion and ExitPlanMode.
CanUseTool(s, c) ==
  /\ turn[s] # "idle" /\ call[c] = None
  /\ \/ \E kind \in Kinds \ {"permission"} :
          call' = [call EXCEPT ![c] = NewCall(s, kind, None, {})]
     \/ \E rule \in Rules \ allow[s] : \E suggestions \in Proposals[rule] :
          call' = [call EXCEPT ![c] = NewCall(s, "permission", rule, suggestions)]
  /\ turn' = [turn EXCEPT ![s] = "waiting"]
  /\ UNCHANGED <<stored, allow, reply, inbox, turns>>

\* The SDK runs a tool that a rule covers.
UseByRule(s, c) ==
  /\ turn[s] # "idle" /\ call[c] = None
  /\ \E rule \in allow[s] :
       call' = [call EXCEPT ![c] =
         [NewCall(s, "permission", rule, {}) EXCEPT !.ix = None, !.sdk = "allowed"]]
  /\ UNCHANGED <<stored, turn, allow, reply, inbox, turns>>

\* The SDK aborts a request: the interaction is cancelled and canUseTool() denies the call.
Abort(c) ==
  /\ c \in Made /\ call[c].sdk = "asking" /\ call[c].ix = "pending"
  /\ Settle(c, None, "cancelled", call[c].answers)
  /\ UNCHANGED <<stored, allow, reply, inbox, turns>>

\* The turn ends. What the SDK still asked stays pending when it ends by an error.
EndTurn(s) ==
  /\ turn[s] # "idle"
  /\ turn' = [turn EXCEPT ![s] = "idle"]
  /\ allow' = [allow EXCEPT ![s] = {}]
  /\ call' = [c \in Calls |-> IF c \in Asking(s) THEN [call[c] EXCEPT !.sdk = "gone"] ELSE call[c]]
  /\ UNCHANGED <<stored, reply, inbox, turns>>

Next ==
  \/ \E p \in Replies, operator \in BOOLEAN :
       \/ \E s \in Sessions, text \in Texts : Type(p, s, operator, text)
       \/ \E c \in Calls : Click(p, c, operator)
  \/ \E p \in Replies : Forget(p) \/ \E event \in Events : Accept(p, event)
  \/ \E s \in Sessions :
       \/ CreateTurn(s) \/ EndTurn(s)
       \/ \E c \in Calls : CanUseTool(s, c) \/ UseByRule(s, c)
  \/ \E c \in Calls : Abort(c)

Spec == Init /\ [][Next]_vars

----------------------------------------------------------------------------
(* Properties *)

\* A reply of an operator that is an approval, or a refusal, in its every word.
Approves(p) == reply[p].operator /\ reply[p].text \in {<<"yes">>, <<"always">>}
Refuses(p) == reply[p].operator /\ reply[p].text = <<"no">>

\* The rules that operators granted for good, out of those the SDK proposed to allow.
Granted ==
  LET always == {c \in Made : /\ call[c].kind = "permission" /\ call[c].by # None
                              /\ reply[call[c].by].text = <<"always">>}
  IN  {r \in Rules : \E c \in always : [behavior |-> "allow", rule |-> r] \in call[c].suggestions}

\* A tool runs only when an operator approved that very call in so many words, or granted
\* its rule; it is denied only when an operator refused it or the SDK gave up; and what
\* a person says once decides one call, also when the provider tells it twice.
DecidedAsTold ==
  /\ \A c \in Made : call[c].kind = "permission" =>
       /\ call[c].sdk = "allowed" =>
            \/ call[c].rule \in Granted
            \/ call[c].by # None /\ Approves(call[c].by)
       /\ call[c].ix = "denied" => Refuses(call[c].by)
  /\ \A c, d \in Made : call[c].by = call[d].by /\ call[c].by # None => c = d

\* The Agent's sticky rules are those that operators granted, in whichever of its Sessions
\* and however their turns overlap: none is lost, none is added.
RulesAreGranted == stored = Granted

\* Each answer the tool gets for a question was typed, or chosen among the options of that
\* question. (Not so with Linear, whose options do not say which question they are of, nor
\* when people empty a select of Slack's.)
AnswersFit ==
  \A c \in Made : call[c].kind = "question" =>
    \A q \in 1..Questions : call[c].answers[q] \in {None, 0, q}
=============================================================================
