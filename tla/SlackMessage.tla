------------------------------ MODULE SlackMessage ------------------------------
(***************************************************************************)
(* renderSlackMessage() (apps/cli/src/connectors/slack-blocks.ts) and the  *)
(* Markdown conversion it relies on (connectors/mrkdwn.ts): a delivery     *)
(* becomes blocks within Slack's limits. A behaviour is the rendering of   *)
(* one message, a step is one round of the loop in splitIntoChunks().      *)
(*                                                                         *)
(* A body is a sequence of Markdown lines of a few kinds; mrkdwn is a      *)
(* sequence of units: "w" a letter, "d" a table's divider, "_" a space,    *)
(* "/" a newline, "f" a line's three backticks, "^" a combining character. *)
(* Lengths are counted in units, so that FENCE_REPAIR, the room for a      *)
(* fence and its newline before and after, is four. Inline markup is left  *)
(* out; of the size of a notice only how much of its list is shown is kept.*)
(*                                                                         *)
(* A definition that no action uses is a defective variant of the one that *)
(* follows it, named for its defect. The mutation runs put it in that      *)
(* one's place to see a property fail.                                     *)
(***************************************************************************)
EXTENDS Naturals, SequencesExt

CONSTANTS
  Messages,          \* the messages to render
  SectionText,       \* SLACK_LIMITS.sectionText
  BlocksPerMessage,  \* SLACK_LIMITS.blocksPerMessage
  ActionsElements,   \* SLACK_LIMITS.actionsElements
  SelectOptions      \* SLACK_LIMITS.selectOptions

Lines == {"blank", "word", "long", "marks", "divider", "ticks", "tildes"}

\* The size of an option's envelope: "short" fits a select's value, "medium" a button's;
\* and how many labels of the others a notice shows, with what comes before them.
Question == [multi : BOOLEAN, options : Seq({"short", "medium", "long"}), room : Nat]

Message == [kind : {"progress", "permission", "question"}, lines : Seq(Lines),
            questions : Seq(Question)]

ASSUME MessagesAssumption ==
  \A m \in Messages : m \in Message /\ (m.kind = "permission" => Len(m.questions) = 1)
ASSUME LimitsAssumption ==
  /\ SectionText \in Nat /\ SectionText > 4
  /\ BlocksPerMessage \in Nat /\ BlocksPerMessage > 3
  /\ ActionsElements \in Nat \ {0} /\ SelectOptions \in Nat

VARIABLES
  message,    \* what is rendered
  pc,         \* "whole", "trimmed" (the passes of bodySections()) or "done"
  rest,       \* splitIntoChunks(): the text that is left
  inFence,    \* splitIntoChunks(): the text that is left begins in a code block
  chunks,     \* splitIntoChunks(): the chunks so far
  blocks      \* the message's blocks

slackVars == <<message, pc, rest, inFence, chunks, blocks>>

\* "e" stands for the placeholder of an empty body, "~" for the ellipsis of clamp().
Mrkdwn == Seq({"w", "d", "_", "/", "f", "t", "^", "e", "~"})
Options == SUBSET (Nat \X Nat)
Block ==
  [type : {"section"}, text : Mrkdwn] \cup [type : {"omission"}, omitted : Nat]
    \cup [type : {"notice"}, options : Options, question : Nat, cut : BOOLEAN]
    \cup [type : {"actions", "select"}, options : Options]
    \cup [type : {"dropped"}, controls : Nat] \cup [type : {"stop"}]

SlackTypeOK ==
  /\ message \in Message
  /\ pc \in {"whole", "trimmed", "done"}
  /\ rest \in Mrkdwn /\ chunks \in Seq(Mrkdwn)
  /\ inFence \in BOOLEAN
  /\ blocks \in Seq(Block)

----------------------------------------------------------------------------
(* mrkdwn.ts *)

Units(line) ==
  CASE line = "blank" -> <<>> [] line = "word" -> <<"w">> [] line = "divider" -> <<"d">>
    [] line = "long" -> <<"w", "w", "_", "w", "w", "w", "w", "w">>
    [] line = "marks" -> <<"w", "^", "^", "^", "^">>
    [] line = "ticks" -> <<"f">> [] line = "tildes" -> <<"t">>

\* renderLine(): outside of code a table's divider is dropped. A line brings its newline.
RenderLine(line) == IF line = "divider" THEN <<>> ELSE <<"/">> \o Units(line)

\* A line closes the block that the same kind of fence opened.
Closes(line, fence) == line = fence

\* The fence that is open after so many lines.
FenceOf(lines) ==
  LET fence[i \in 0..Len(lines)] ==
        IF i = 0 THEN "none"
        ELSE IF fence[i - 1] # "none"
        THEN IF Closes(lines[i], fence[i - 1]) THEN "none" ELSE fence[i - 1]
        ELSE IF lines[i] \in {"ticks", "tildes"} THEN lines[i] ELSE "none"
  IN  fence

\* What a line becomes, where a fence is open before it or none.
Rendered(line, fence) ==
  IF fence # "none"
  THEN IF Closes(line, fence) THEN <<"/", "f">> ELSE <<"/">> \o Units(line)
  ELSE IF line \in {"ticks", "tildes"} THEN <<"/", "f">> ELSE RenderLine(line)

\* markdownToMrkdwn(): what is left open is closed, and there is no newline before the first line.
MarkdownToMrkdwn(lines) ==
  LET fence == FenceOf(lines)
      out == FlattenSeq([i \in DOMAIN lines |-> Rendered(lines[i], fence[i - 1])])
               \o (IF fence[Len(lines)] = "none" THEN <<>> ELSE <<"/", "f">>)
  IN  IF out = <<>> THEN <<>> ELSE Tail(out)

----------------------------------------------------------------------------
(* splitIntoChunks() *)

Blank(text) == \A i \in DOMAIN text : text[i] \in {"_", "/"}

FenceRepairOfOneEnd == 2

FenceRepair == 4

Budget == SectionText - FenceRepair

\* The last place in the window after which a separator lets it be cut.
CutsAt(text, separator) ==
  {i + Len(separator) - 1 :
     i \in {j \in 2..(Budget - Len(separator) + 1) :
              SubSeq(text, j, j + Len(separator) - 1) = separator}}

\* cutSafely(): never before a combining character, if need be nowhere.
CutSafely(text) ==
  CHOOSE end \in 0..Budget :
    /\ end = 0 \/ text[end + 1] # "^"
    /\ \A later \in (end + 1)..Budget : text[later + 1] = "^"

\* cutChunk(): the length of the next chunk, up to a paragraph, a line or a word.
CutChunk(text) ==
  LET separators == <<<<"/", "/">>, <<"/">>, <<"_">>>>
      found == {k \in 1..3 : CutsAt(text, separators[k]) # {}}
  IN  IF Len(text) <= Budget THEN Len(text)
      ELSE IF found = {} THEN CutSafely(text)
      ELSE Max(CutsAt(text, separators[Min(found)]))

\* countFences() is odd.
OddFences(text) == Cardinality({i \in DOMAIN text : text[i] = "f"}) % 2 = 1

\* What is left begins in a code block.
EndsInFence(raw) == inFence # OddFences(raw)

\* A chunk that begins or ends in a code block gets the fence it lacks.
Piece(raw) ==
  (IF inFence THEN <<"f", "/">> ELSE <<>>) \o raw \o (IF EndsInFence(raw) THEN <<"/", "f">> ELSE <<>>)

\* What is split: the body, or a note that it is empty ("e").
Source ==
  LET converted == MarkdownToMrkdwn(message.lines)
  IN  IF Blank(converted) THEN <<"e">> ELSE converted

----------------------------------------------------------------------------
(* Controls *)

\* interactionButton(): none when the envelope is too long.
HasButton(size) == size # "long"

Buttons(options) == {o \in DOMAIN options : HasButton(options[o])}
Unreachable(options) == DOMAIN options \ Buttons(options)

\* The rows that actionsBlocks() makes of some options, which fill one row after another.
Place(o, buttons) == Cardinality({b \in buttons : b < o})

ActionsBlocks(q, buttons) ==
  [k \in 1..((Cardinality(buttons) + ActionsElements - 1) \div ActionsElements) |->
     [type |-> "actions",
      options |-> {<<q, o>> : o \in {b \in buttons : Place(b, buttons) \div ActionsElements = k - 1}}]]

\* noticeSection() of a question's title.
Title(q) == [type |-> "notice", options |-> {}, question |-> q, cut |-> FALSE]

\* buttonLadder(): buttons, and a notice that lists the options without one. An ellipsis
\* takes the place of those at the end that clamp() leaves out.
ButtonLadder(q) == ActionsBlocks(q, Buttons(message.questions[q].options))

Listing(q) ==
  LET unreachable == Unreachable(message.questions[q].options)
      shown == {o \in unreachable : Place(o, unreachable) < message.questions[q].room}
  IN  [type |-> "notice", options |-> {<<q, o>> : o \in shown}, question |-> q,
       cut |-> shown # unreachable]

FitsSelectByNumber(question) == question.multi /\ Len(question.options) <= SelectOptions

FitsSelect(question) ==
  /\ question.multi /\ Len(question.options) <= SelectOptions
  /\ ToSet(question.options) \subseteq {"short"}

\* questionBlocks(): a title, with a select or with buttons.
QuestionBlocks(q) ==
  LET question == message.questions[q]
      all == {<<q, i>> : i \in DOMAIN question.options}
  IN  IF question.options = <<>> THEN <<Title(q)>>
      ELSE IF FitsSelect(question)
      THEN <<Title(q), [type |-> "select", options |-> all]>>
      ELSE <<Listing(q)>> \o ButtonLadder(q)

\* controlBlocks()
ControlBlocks ==
  CASE message.kind = "progress" -> <<>>
    [] message.kind = "question" ->
         FlattenSeq([q \in DOMAIN message.questions |-> QuestionBlocks(q)])
    [] message.kind = "permission" ->
         ButtonLadder(1) \o (IF Unreachable(message.questions[1].options) = {} THEN <<>>
                             ELSE <<Listing(1)>>)

\* The Stop button of an interaction.
Trailer == IF message.kind = "progress" THEN <<>> ELSE <<[type |-> "stop"]>>

----------------------------------------------------------------------------
(* renderSlackMessage() *)

Minus(a, b) == IF a > b THEN a - b ELSE 0

BodyBudget == Max({1, Minus(BlocksPerMessage, Len(ControlBlocks) + Len(Trailer) + 1)})

\* bodySections(): a body that is cut keeps a place for the notice.
TrimmedBudget == Max({1, BodyBudget - 1})

MaxChunks == IF pc = "whole" THEN BodyBudget ELSE TrimmedBudget

\* clamp()
Clamp(text) ==
  IF Len(text) <= SectionText THEN text ELSE Append(SubSeq(text, 1, SectionText - 1), "~")

Sections ==
  [i \in DOMAIN chunks |-> [type |-> "section", text |-> Clamp(chunks[i])]]
    \o (IF pc = "whole" THEN <<>> ELSE <<[type |-> "omission", omitted |-> Len(rest)]>>)

Slice(blks, n) == SubSeq(blks, 1, Min({n, Len(blks)}))

\* assemble(): controls beyond the limit are dropped with a notice.
Assemble(body) ==
  LET controls == ControlBlocks
      kept == Min({Len(controls), BlocksPerMessage - Len(Trailer) - 2})
      notice == IF kept = Len(controls) THEN <<>>
                ELSE <<[type |-> "dropped", controls |-> Len(controls) - kept]>>
      room == Max({1, Minus(BlocksPerMessage, kept + Len(notice) + Len(Trailer))})
  IN  Slice(Slice(body, room) \o Slice(controls, kept) \o notice \o Trailer, BlocksPerMessage)

SplitGoesOn == rest # <<>> /\ Len(chunks) < MaxChunks /\ CutChunk(rest) > 0

Split ==
  LET raw == SubSeq(rest, 1, CutChunk(rest))
  IN  /\ pc \in {"whole", "trimmed"} /\ SplitGoesOn
      /\ rest' = SubSeq(rest, Len(raw) + 1, Len(rest))
      /\ inFence' = EndsInFence(raw)
      /\ chunks' = IF Blank(Piece(raw)) THEN chunks ELSE Append(chunks, Piece(raw))
      /\ UNCHANGED <<message, pc, blocks>>

\* The body does not fit: it is split again, with room for the notice.
Trim ==
  /\ pc = "whole" /\ ~SplitGoesOn /\ rest # <<>>
  /\ pc' = "trimmed"
  /\ rest' = Source /\ inFence' = FALSE /\ chunks' = <<>>
  /\ UNCHANGED <<message, blocks>>

Render ==
  /\ pc \in {"whole", "trimmed"} /\ ~SplitGoesOn
  /\ pc = "whole" => rest = <<>>
  /\ pc' = "done"
  /\ blocks' = Assemble(Sections)
  /\ UNCHANGED <<message, rest, inFence, chunks>>

SlackInit ==
  /\ message \in Messages
  /\ pc = "whole"
  /\ rest = Source /\ inFence = FALSE /\ chunks = <<>>
  /\ blocks = <<>>

SlackNext == Split \/ Trim \/ Render

SlackSpec == SlackInit /\ [][SlackNext]_slackVars

----------------------------------------------------------------------------
(* Properties *)

\* The letters of a text with what Slack takes for code, fences and spaces aside; it is
\* begun as code or not.
Letters(text, code) ==
  FlattenSeq([i \in DOMAIN text |->
                IF text[i] \in {"f", "_", "/"} THEN <<>>
                ELSE <<<<text[i], code # OddFences(SubSeq(text, 1, i))>>>>])

\* The letters that the body's Markdown means: a block reaches from a fence to the next of
\* its kind, a table's divider is markup outside of one.
FenceAfter(lines) ==
  LET fence[i \in 0..Len(lines)] ==
        IF i = 0 THEN "none"
        ELSE IF fence[i - 1] = "none" /\ lines[i] \in {"ticks", "tildes"} THEN lines[i]
        ELSE IF fence[i - 1] = lines[i] THEN "none" ELSE fence[i - 1]
  IN  fence

IsFence(lines, i) ==
  lines[i] \in {"ticks", "tildes"} /\ FenceAfter(lines)[i - 1] \in {"none", lines[i]}

MeantByLine(lines) ==
  [i \in DOMAIN lines |->
     LET code == FenceAfter(lines)[i - 1] # "none"
         units == Units(lines[i])
     IN  IF IsFence(lines, i) \/ (lines[i] = "divider" /\ ~code) THEN <<>>
         ELSE FlattenSeq([k \in DOMAIN units |->
                            IF units[k] = "_" THEN <<>> ELSE <<<<units[k], code>>>>])]

Meant(lines) == IF Blank(MarkdownToMrkdwn(lines)) THEN <<<<"e", FALSE>>>>
                ELSE FlattenSeq(MeantByLine(lines))

Shown ==
  FlattenSeq([i \in DOMAIN blocks |->
                IF blocks[i].type = "section" THEN Letters(blocks[i].text, FALSE) ELSE <<>>])

\* Some block that is fenced by tildes shows backticks.
ShowsBackticks(lines) ==
  \E i \in DOMAIN lines : lines[i] = "ticks" /\ FenceAfter(lines)[i - 1] = "tildes"

\* A message shows its body's letters in their order, code as code and prose as prose in
\* each section by itself; what is missing is missing at the end, and announced. (Not so
\* when a block fenced by tildes shows backticks, nor when the controls alone fill the
\* message: assemble() then drops the announcement.)
ShowsTheBody ==
  pc = "done" /\ ~ShowsBackticks(message.lines) =>
    /\ IsPrefix(Shown, Meant(message.lines))
    /\ \A i \in DOMAIN blocks :
         blocks[i].type = "section" =>
           Len(blocks[i].text) <= SectionText /\ ~OddFences(blocks[i].text)
    /\ Shown = Meant(message.lines)
         \/ Len(ControlBlocks) > BlocksPerMessage - 3
         \/ \E i \in DOMAIN blocks :
              /\ blocks[i].type = "omission"
              /\ blocks[i].omitted >= Len(Meant(message.lines)) - Len(Shown)

\* A message stays within Slack's limits; a person can answer with each option by exactly
\* one button, select or listed text, unless the message says that controls are missing
\* or, for an option too long for a button, the list of its question ends in an ellipsis;
\* and an interaction can always be stopped.
Offers == {i \in DOMAIN blocks : blocks[i].type \in {"notice", "actions", "select"}}

IsCutOff(q) == \E i \in Offers : blocks[i].type = "notice" /\ blocks[i].question = q /\ blocks[i].cut

OptionsAreReachable ==
  pc = "done" =>
    /\ Len(blocks) <= BlocksPerMessage
    /\ message.kind # "progress" =>
         /\ blocks[Len(blocks)].type = "stop"
         /\ \A q \in DOMAIN message.questions : \A o \in DOMAIN message.questions[q].options :
              LET size == message.questions[q].options[o]
                  by == {i \in Offers : <<q, o>> \in blocks[i].options}
              IN  /\ by = {} => \/ \E i \in DOMAIN blocks : blocks[i].type = "dropped"
                                \/ size = "long" /\ IsCutOff(q)
                  /\ Cardinality(by) <= 1
                  /\ \A i \in by : /\ blocks[i].type = "actions" => size # "long"
                                   /\ blocks[i].type = "select" => size = "short"
    /\ \A i \in Offers :
         /\ blocks[i].type = "actions" => Cardinality(blocks[i].options) <= ActionsElements
         /\ blocks[i].type = "select" => Cardinality(blocks[i].options) <= SelectOptions
=============================================================================
