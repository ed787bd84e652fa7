----------------------------- MODULE MCSlackMessage -----------------------------
(***************************************************************************)
(* SlackMessage for all short bodies with few controls, and for all small  *)
(* questions with few bodies.                                              *)
(***************************************************************************)
EXTENDS SlackMessage

CONSTANTS MaxLines, MaxQuestions, MaxOptions

Upto(S, n) == UNION {[1..k -> S] : k \in 0..n}

MCBodies == {lines \in Upto(Lines, MaxLines) : ~ShowsBackticks(lines)}

MCQuestions ==
  {q \in [multi : BOOLEAN, options : Upto({"short", "medium", "long"}, MaxOptions),
          room : 0..MaxOptions] : q.room <= Cardinality(Unreachable(q.options))}

MCMessages ==
  [kind : {"progress"}, lines : MCBodies, questions : {<<>>}]
    \cup [kind : {"permission"}, lines : MCBodies,
          questions : {<<[multi |-> FALSE, options |-> <<"short", "short">>, room |-> 0]>>}]
    \cup [kind : {"permission"}, lines : Upto({"word", "long", "ticks"}, 2),
          questions : [1..1 -> MCQuestions]]
    \cup [kind : {"question"}, lines : Upto({"word", "long", "ticks"}, 2),
          questions : Upto(MCQuestions, MaxQuestions)]
=============================================================================
