------------------------------ MODULE RuntimeProofs ------------------------------
(***************************************************************************)
(* Proofs about the Claude runtime, with Slack and with Linear.            *)
(*                                                                         *)
(* Interactions, for any Sessions, calls, replies and rules, whatever the  *)
(* SDK proposes and people write: a tool runs only as an operator said, a  *)
(* reply decides one call, and the Agent's sticky rules are those that     *)
(* operators granted. The invariant relates four pieces of state: the      *)
(* rules that are stored, those in force in turns, the calls with the      *)
(* replies that settled them, and the events of those replies that are     *)
(* still to be accepted.                                                   *)
(*                                                                         *)
(* Transcript, for any texts, calls and turns: what is posted is what was  *)
(* said, and a call is kept once. The invariant relates what was posted to *)
(* what was said, but for its end, which is held.                          *)
(***************************************************************************)
EXTENDS Interactions, Transcript, TLAPS

----------------------------------------------------------------------------
(* The inductive invariant of Interactions *)

\* An interaction that was answered or denied has a reply, and no other has.
RepliesAreKept ==
  \A c \in Made :
    /\ call[c].by # None <=> call[c].ix \in {"answered", "denied"}
    /\ call[c].by # None => call[c].by \in Replies /\ reply[call[c].by] # None

\* An event belongs to a reply; of the two that Slack sends for a mention one counts.
InboxIsKnown ==
  \A m \in inbox : reply[m[1]] # None /\ m[2] \in ProviderEvents(reply[m[1]])

\* A reply that has settled a call has no event left that counts.
UsedOnce ==
  \A c \in Made : \A m \in inbox : call[c].by = m[1] => ~Parses(m[1], m[2])

\* What is in force in a turn was granted, and is stored.
AllowIsStored == \A s \in Sessions : allow[s] \subseteq stored

IInv ==
  /\ TypeOK
  /\ RepliesAreKept /\ InboxIsKnown /\ UsedOnce /\ AllowIsStored
  /\ RulesAreGranted /\ DecidedAsTold

----------------------------------------------------------------------------
(* Lemmas about the operators *)

LEMMA NoneIsNothing ==
  /\ None \notin Sessions /\ None \notin Calls /\ None \notin Replies /\ None \notin Rules
  /\ None \notin Call /\ None \notin Reply /\ None \notin Nat
  /\ None \notin {"answered", "denied"}
BY NoneAssumption DEF Statuses

\* Among the events of one reply, one counts.
LEMMA OneEventCounts ==
  ASSUME TypeOK, NEW p \in Replies, reply[p] # None,
         NEW e \in ProviderEvents(reply[p]), NEW f \in ProviderEvents(reply[p]),
         Parses(p, e), Parses(p, f)
  PROVE  e = f
<1>1. CASE Connector = "linear"
  BY <1>1 DEF ProviderEvents
<1>2. CASE Connector = "slack" /\ reply[p].call # None
  BY <1>2 DEF ProviderEvents
<1>3. CASE Connector = "slack" /\ reply[p].call = None
  BY <1>3 DEF ProviderEvents, Parses
<1>4. QED BY <1>1, <1>2, <1>3, ConnectorAssumption

\* What Settle does.
LEMMA Settled ==
  ASSUME TypeOK, NEW c \in Calls, call[c] # None, NEW p \in Replies \cup {None},
         NEW status \in Statuses \ {"pending"},
         NEW answers \in [1..Questions -> {None} \cup 0..Questions],
         Settle(c, p, status, answers)
  PROVE  /\ turn' \in [Sessions -> {"idle", "running", "waiting"}]
         /\ \E r \in Call :
              /\ call' = [call EXCEPT ![c] = r]
              /\ r.kind = call[c].kind /\ r.rule = call[c].rule
              /\ r.suggestions = call[c].suggestions
              /\ r.ix = status /\ r.by = p /\ r.answers = answers
              /\ r.sdk = IF call[c].sdk # "asking" THEN call[c].sdk
                         ELSE IF status = "answered" THEN "allowed" ELSE "denied"
<1>1. call[c] \in Call
  BY DEF TypeOK
<1>2. PICK k : k = IF call[c].sdk # "asking" THEN call[c].sdk
                   ELSE IF status = "answered" THEN "allowed" ELSE "denied"
  OBVIOUS
<1>3. k \in {"asking", "allowed", "denied", "gone"}
  BY <1>1, <1>2 DEF Call
<1> DEFINE r == [call[c] EXCEPT !.ix = status, !.by = p, !.answers = answers, !.sdk = k]
<1>4. /\ r \in Call /\ r.kind = call[c].kind /\ r.rule = call[c].rule
      /\ r.suggestions = call[c].suggestions
      /\ r.ix = status /\ r.by = p /\ r.answers = answers /\ r.sdk = k
  BY ONLY <1>1, <1>3, p \in Replies \cup {None},
          status \in Statuses \ {"pending"},
          answers \in [1..Questions -> {None} \cup 0..Questions] DEF Call
<1>5. call' = [call EXCEPT ![c] = r]
  BY <1>2 DEF Settle
<1>6. turn' \in [Sessions -> {"idle", "running", "waiting"}]
  BY <1>1 DEF Settle, TypeOK, Call
<1> HIDE DEF r
<1>7. QED BY <1>2, <1>4, <1>5, <1>6

\* The reply that granted for good, and the rules it granted.
Grants(c) == call[c] # None /\ call[c].kind = "permission" /\ call[c].by # None
             /\ reply[call[c].by].text = <<"always">>

LEMMA GrantedIs ==
  /\ Granted = {r \in Rules : \E c \in Calls :
                  Grants(c) /\ [behavior |-> "allow", rule |-> r] \in call[c].suggestions}
  /\ Granted' = {r \in Rules : \E c \in Calls :
                  Grants(c)' /\ [behavior |-> "allow", rule |-> r] \in call'[c].suggestions}
BY DEF Granted, Grants, Made

LEMMA StickyIs ==
  ASSUME TypeOK, NEW c \in Calls, call[c] # None
  PROVE  StickySuggestions(c) =
           {r \in Rules : [behavior |-> "allow", rule |-> r] \in call[c].suggestions}
<1>1. call[c].suggestions \subseteq Suggestions
  BY DEF TypeOK, Call
<1>2. ASSUME NEW g \in call[c].suggestions, g.behavior = "allow"
      PROVE  g.rule \in Rules /\ g = [behavior |-> "allow", rule |-> g.rule]
  BY <1>1, <1>2 DEF Suggestions
<1>3. QED BY <1>2 DEF StickySuggestions

\* A step that settles no permission grants nothing.
LEMMA GrantedStays ==
  ASSUME \A c \in Calls :
           /\ Grants(c)' <=> Grants(c)
           /\ Grants(c) => call'[c].suggestions = call[c].suggestions
  PROVE  Granted' = Granted
BY GrantedIs

----------------------------------------------------------------------------
(* It holds initially *)

LEMMA InitInv == Init => IInv
<1> SUFFICES ASSUME Init PROVE IInv
  OBVIOUS
<1>1. TypeOK
  BY BoundsAssumption DEF Init, TypeOK
<1>2. Made = {}
  BY DEF Init, Made
<1>3. RepliesAreKept /\ InboxIsKnown /\ UsedOnce /\ AllowIsStored
  BY <1>2 DEF Init, RepliesAreKept, InboxIsKnown, UsedOnce, AllowIsStored
<1>4. RulesAreGranted /\ DecidedAsTold
  BY <1>2 DEF Init, RulesAreGranted, Granted, DecidedAsTold
<1>5. QED BY <1>1, <1>3, <1>4 DEF IInv

----------------------------------------------------------------------------
(* Every step preserves it *)

\* What a call has come to is what was said.
Told(c) ==
  call[c].kind = "permission" =>
    /\ call[c].sdk = "allowed" =>
         \/ call[c].rule \in Granted
         \/ call[c].by # None /\ Approves(call[c].by)
    /\ call[c].ix = "denied" => Refuses(call[c].by)

LEMMA DecidedIs ==
  /\ DecidedAsTold <=>
       /\ \A c \in Made : Told(c)
       /\ \A c, d \in Made : call[c].by = call[d].by /\ call[c].by # None => c = d
  /\ DecidedAsTold' <=>
       /\ \A c \in Made' : Told(c)'
       /\ \A c, d \in Made' : call'[c].by = call'[d].by /\ call'[c].by # None => c = d
BY DEF DecidedAsTold, Told

\* Calls, rules and the replies that settled calls stay as they are.
LEMMA CallsStay ==
  ASSUME IInv, UNCHANGED <<stored, allow, call>>,
         \A p \in Replies :
           \/ reply'[p] = reply[p]
           \/ \A c \in Made : call[c].by # p
  PROVE  AllowIsStored' /\ RulesAreGranted' /\ DecidedAsTold'
<1>1. ASSUME NEW c \in Calls, call[c] # None, call[c].by # None
      PROVE  reply'[call[c].by] = reply[call[c].by]
  BY <1>1 DEF IInv, RepliesAreKept, Made
<1>2. Granted' = Granted
  <2>1. \A c \in Calls : Grants(c)' <=> Grants(c)
    BY <1>1 DEF Grants
  <2>2. QED BY <2>1, GrantedStays
<1>3. ASSUME NEW c \in Made
      PROVE  Told(c)'
  <2>1. Told(c) /\ call[c] # None /\ c \in Calls
    BY DecidedIs DEF IInv, Made
  <2>2. CASE call[c].by # None
    <3>1. reply'[call[c].by] = reply[call[c].by]
      BY <1>1, <2>1, <2>2
    <3>2. QED BY <1>2, <2>1, <2>2, <3>1 DEF Told, Approves, Refuses
  <2>3. CASE call[c].by = None
    <3>1. call[c].ix # "denied" \/ call[c].kind # "permission"
      BY <2>1, <2>3 DEF IInv, RepliesAreKept, Made
    <3>2. QED BY <1>2, <2>1, <2>3, <3>1 DEF Told
  <2>4. QED BY <2>2, <2>3
<1>4. DecidedAsTold'
  BY <1>3, DecidedIs DEF IInv, Made
<1>5. QED BY <1>2, <1>4 DEF IInv, AllowIsStored, RulesAreGranted

LEMMA GiveInv ==
  ASSUME IInv, NEW p \in Replies, NEW r \in Reply, Give(p, r)
  PROVE  IInv'
<1>1. /\ reply[p] = None /\ reply' = [reply EXCEPT ![p] = r] /\ r # None
      /\ inbox' = inbox \cup ({p} \X ProviderEvents(r))
      /\ UNCHANGED <<stored, turn, allow, call, turns>>
  BY NoneIsNothing DEF Give
<1>2. ProviderEvents(r) \subseteq Events
  BY ConnectorAssumption DEF ProviderEvents, Events
<1>3. TypeOK'
  BY <1>1, <1>2 DEF IInv, TypeOK
<1>4. \A c \in Made : call[c].by # p
  BY <1>1, NoneIsNothing DEF IInv, RepliesAreKept
<1>5. Made' = Made
  BY <1>1 DEF Made
<1>6. RepliesAreKept'
  BY <1>1, <1>4, <1>5 DEF IInv, TypeOK, RepliesAreKept
<1>7. ASSUME NEW m \in inbox
      PROVE  /\ m = <<m[1], m[2]>> /\ m[1] \in Replies /\ m[1] # p
             /\ reply'[m[1]] = reply[m[1]]
  BY <1>1 DEF IInv, TypeOK, InboxIsKnown
<1>8. ASSUME NEW m \in inbox', m \notin inbox
      PROVE  m[1] = p /\ m[2] \in ProviderEvents(r)
  BY <1>1, <1>8
<1>9. InboxIsKnown'
  <2>1. ASSUME NEW m \in inbox
        PROVE  reply'[m[1]] # None /\ m[2] \in ProviderEvents(reply'[m[1]])
    BY <1>7, <2>1 DEF IInv, InboxIsKnown
  <2>2. ASSUME NEW m \in inbox', m \notin inbox
        PROVE  reply'[m[1]] # None /\ m[2] \in ProviderEvents(reply'[m[1]])
    BY <1>1, <1>8, <2>2 DEF IInv, TypeOK
  <2>3. QED BY <2>1, <2>2 DEF InboxIsKnown, ProviderEvents
<1>10. UsedOnce'
  <2>1. ASSUME NEW c \in Made, NEW m \in inbox', call[c].by = m[1]
        PROVE  m \in inbox /\ ~(m[2] = "message" => ~reply'[m[1]].mention)
    BY <1>4, <1>7, <1>8, <2>1 DEF IInv, UsedOnce, Parses
  <2>2. QED BY <1>1, <1>5, <2>1 DEF UsedOnce, Parses
<1>11. AllowIsStored' /\ RulesAreGranted' /\ DecidedAsTold'
  BY <1>1, <1>4, CallsStay DEF IInv, TypeOK
<1>12. QED BY <1>3, <1>6, <1>9, <1>10, <1>11 DEF IInv

LEMMA TypeInv ==
  ASSUME IInv, NEW p \in Replies, NEW s \in Sessions, NEW operator \in BOOLEAN,
         NEW text \in Texts, Type(p, s, operator, text)
  PROVE  IInv'
<1>1. PICK mention \in BOOLEAN :
        Give(p, [session |-> s, operator |-> operator, call |-> None, index |-> 0,
                 cleared |-> FALSE, mention |-> mention, text |-> text])
  BY DEF Type
<1>2. [session |-> s, operator |-> operator, call |-> None, index |-> 0,
       cleared |-> FALSE, mention |-> mention, text |-> text] \in Reply
  <2>1. text \in Seq(Words) /\ 0 \in 0..Questions
    BY TextsAssumption, BoundsAssumption
  <2>2. QED BY <2>1 DEF Reply
<1>3. QED BY <1>1, <1>2, GiveInv

LEMMA ClickInv ==
  ASSUME IInv, NEW p \in Replies, NEW c \in Calls, NEW operator \in BOOLEAN,
         Click(p, c, operator)
  PROVE  IInv'
<1>1. call[c] \in Call
  BY DEF Click, Made, IInv, TypeOK
<1>2. PICK control \in Controls(c), cleared \in BOOLEAN :
        Give(p, [session |-> call[c].session, operator |-> operator, call |-> c,
                 index |-> control[1], cleared |-> cleared, mention |-> FALSE,
                 text |-> <<control[2]>>])
  BY DEF Click
<1>3. control[1] \in 0..Questions /\ control[2] \in Words
  BY <1>1, BoundsAssumption DEF Controls, Words, Call, Kinds
<1>4. <<control[2]>> \in Seq(Words)
  BY <1>3
<1>5. [session |-> call[c].session, operator |-> operator, call |-> c,
       index |-> control[1], cleared |-> cleared, mention |-> FALSE,
       text |-> <<control[2]>>] \in Reply
  BY <1>1, <1>3, <1>4 DEF Reply, Call
<1>6. QED BY <1>2, <1>5, GiveInv

LEMMA ForgetInv ==
  ASSUME IInv, NEW p \in Replies, Forget(p)
  PROVE  IInv'
<1>1. /\ \A m \in inbox : m[1] # p
      /\ \A c \in Made : call[c].by # p
      /\ reply' = [reply EXCEPT ![p] = None] /\ Made' = Made
      /\ UNCHANGED <<stored, turn, allow, call, inbox, turns>>
  BY DEF Forget, Made
<1>2. TypeOK'
  BY <1>1 DEF IInv, TypeOK
<1>3. RepliesAreKept'
  BY <1>1 DEF IInv, TypeOK, RepliesAreKept
<1>4. \A m \in inbox : reply'[m[1]] = reply[m[1]]
  BY <1>1 DEF IInv, TypeOK
<1>5. InboxIsKnown'
  BY <1>1, <1>4 DEF IInv, InboxIsKnown, ProviderEvents
<1>6. UsedOnce'
  BY <1>1, <1>4 DEF IInv, UsedOnce, Parses
<1>7. AllowIsStored' /\ RulesAreGranted' /\ DecidedAsTold'
  BY <1>1, CallsStay DEF IInv, TypeOK
<1>8. QED BY <1>2, <1>3, <1>5, <1>6, <1>7 DEF IInv

LEMMA CreateTurnInv ==
  ASSUME IInv, NEW s \in Sessions, CreateTurn(s)
  PROVE  IInv'
<1>1. /\ turn' = [turn EXCEPT ![s] = "running"] /\ turns' = turns + 1 /\ turns < MaxTurns
      /\ allow' = [allow EXCEPT ![s] = stored] /\ Made' = Made
      /\ UNCHANGED <<stored, call, reply, inbox>>
  BY DEF CreateTurn, PermissionAllowRules, Made
<1>2. TypeOK'
  BY <1>1, BoundsAssumption DEF IInv, TypeOK
<1>3. RepliesAreKept' /\ InboxIsKnown' /\ UsedOnce'
  BY <1>1 DEF IInv, RepliesAreKept, InboxIsKnown, ProviderEvents, UsedOnce, Parses
<1>4. AllowIsStored'
  BY <1>1 DEF IInv, TypeOK, AllowIsStored
<1>5. RulesAreGranted' /\ DecidedAsTold'
  BY <1>1
     DEF IInv, RulesAreGranted, DecidedAsTold, Granted, Approves, Refuses
<1>6. QED BY <1>2, <1>3, <1>4, <1>5 DEF IInv

\* A call that has no reply, before a step and after it.
LEMMA CallMoves ==
  ASSUME IInv, NEW c \in Calls, NEW r \in Call, call' = [call EXCEPT ![c] = r],
         call[c] # None => call[c].by = None,
         r.by = None, r.ix \notin {"answered", "denied"},
         r.kind = "permission" /\ r.sdk = "allowed" => r.rule \in stored,
         turn' \in [Sessions -> {"idle", "running", "waiting"}],
         UNCHANGED <<stored, allow, reply, inbox, turns>>
  PROVE  IInv'
<1>1. call'[c] = r /\ r # None /\ \A d \in Calls : d # c => call'[d] = call[d]
  BY NoneIsNothing DEF IInv, TypeOK
<1>2. TypeOK'
  BY DEF IInv, TypeOK
<1>3. RepliesAreKept' /\ UsedOnce'
  <2>1. ASSUME NEW d \in Made', d # c
        PROVE  d \in Made /\ call'[d] = call[d]
    BY <1>1, <2>1 DEF Made
  <2>2. \A m \in inbox : m[1] \in Replies
    BY DEF IInv, TypeOK
  <2>3. QED BY <1>1, <2>1, <2>2, NoneIsNothing DEF IInv, RepliesAreKept, UsedOnce, Parses
<1>4. InboxIsKnown' /\ AllowIsStored'
  BY DEF IInv, InboxIsKnown, ProviderEvents, AllowIsStored
<1>5. Granted' = Granted
  <2>1. ASSUME NEW d \in Calls
        PROVE  /\ Grants(d)' <=> Grants(d)
               /\ Grants(d) => call'[d].suggestions = call[d].suggestions
    <3>1. CASE d = c
      BY <1>1, <3>1 DEF Grants
    <3>2. CASE d # c
      BY <1>1, <3>2 DEF Grants
    <3>3. QED BY <3>1, <3>2
  <2>2. QED BY <2>1, GrantedStays
<1>6. RulesAreGranted'
  BY <1>5 DEF IInv, RulesAreGranted
<1>7. DecidedAsTold'
  <2>1. ASSUME NEW d \in Made', d # c
        PROVE  d \in Made /\ call'[d] = call[d] /\ Told(d)
    BY <1>1, <2>1, DecidedIs DEF IInv, Made
  <2>2. ASSUME NEW d \in Made', d # c
        PROVE  Told(d)'
    BY <1>5, <2>1, <2>2 DEF Told, Approves, Refuses
  <2>3. Told(c)'
    BY <1>1, <1>6 DEF Told, RulesAreGranted
  <2>4. ASSUME NEW d \in Made', NEW e \in Made', call'[d].by = call'[e].by, call'[d].by # None
        PROVE  d = e
    BY <1>1, <2>1, <2>4, DecidedIs DEF IInv
  <2>5. QED BY <2>2, <2>3, <2>4, DecidedIs
<1>8. QED BY <1>2, <1>3, <1>4, <1>6, <1>7 DEF IInv

LEMMA NewCallIs ==
  ASSUME NEW s \in Sessions, NEW kind \in Kinds, NEW rule \in Rules \cup {None},
         NEW suggestions \in SUBSET Suggestions
  PROVE  LET r == NewCall(s, kind, rule, suggestions)
         IN  r \in Call /\ r.by = None /\ r.ix = "pending" /\ r.sdk = "asking"
BY BoundsAssumption DEF NewCall, Call, Statuses

LEMMA CanUseToolInv ==
  ASSUME IInv, NEW s \in Sessions, NEW c \in Calls, CanUseTool(s, c)
  PROVE  IInv'
<1>1. /\ call[c] = None /\ turn' \in [Sessions -> {"idle", "running", "waiting"}]
      /\ UNCHANGED <<stored, allow, reply, inbox, turns>>
  BY DEF CanUseTool, IInv, TypeOK
<1>2. PICK kind \in Kinds, rule \in Rules \cup {None}, suggestions \in SUBSET Suggestions :
        call' = [call EXCEPT ![c] = NewCall(s, kind, rule, suggestions)]
  <2>1. CASE \E kind \in Kinds \ {"permission"} :
               call' = [call EXCEPT ![c] = NewCall(s, kind, None, {})]
    BY <2>1
  <2>2. CASE \E rule \in Rules \ allow[s] : \E suggestions \in Proposals[rule] :
               call' = [call EXCEPT ![c] = NewCall(s, "permission", rule, suggestions)]
    BY <2>2, ProposalsAssumption DEF Kinds
  <2>3. QED BY <2>1, <2>2 DEF CanUseTool
<1>3. PICK r : r = NewCall(s, kind, rule, suggestions)
  OBVIOUS
<1>4. r \in Call /\ r.by = None /\ r.ix = "pending" /\ r.sdk = "asking"
  BY <1>3, NewCallIs
<1>5. QED BY <1>1, <1>2, <1>3, <1>4, CallMoves

LEMMA UseByRuleInv ==
  ASSUME IInv, NEW s \in Sessions, NEW c \in Calls, UseByRule(s, c)
  PROVE  IInv'
<1>1. /\ call[c] = None /\ turn' \in [Sessions -> {"idle", "running", "waiting"}]
      /\ UNCHANGED <<stored, allow, reply, inbox, turns>>
  BY DEF UseByRule, IInv, TypeOK
<1>2. PICK rule \in allow[s] :
        call' = [call EXCEPT ![c] =
          [NewCall(s, "permission", rule, {}) EXCEPT !.ix = None, !.sdk = "allowed"]]
  BY DEF UseByRule
<1>3. rule \in stored /\ rule \in Rules
  BY DEF IInv, TypeOK, AllowIsStored
<1>4. PICK n : n = NewCall(s, "permission", rule, {})
  OBVIOUS
<1>5. n \in Call /\ n.by = None /\ n.rule = rule
  BY <1>3, <1>4, NewCallIs DEF Kinds, NewCall
<1> DEFINE r == [n EXCEPT !.ix = None, !.sdk = "allowed"]
<1>6. r \in Call /\ r.by = None /\ r.ix = None /\ r.rule = rule
  BY ONLY <1>5 DEF Call
<1>7. call' = [call EXCEPT ![c] = r]
  BY <1>2, <1>4
<1>8. None \notin {"answered", "denied"}
  BY NoneIsNothing
<1> HIDE DEF r
<1>9. QED BY <1>1, <1>3, <1>6, <1>7, <1>8, CallMoves

LEMMA AbortInv ==
  ASSUME IInv, NEW c \in Calls, Abort(c)
  PROVE  IInv'
<1>1. /\ call[c] # None /\ call[c].sdk = "asking" /\ call[c].ix = "pending"
      /\ Settle(c, None, "cancelled", call[c].answers) /\ call[c] \in Call
      /\ UNCHANGED <<stored, allow, reply, inbox, turns>>
  BY DEF Abort, Made, IInv, TypeOK
<1>2. call[c].by = None
  BY <1>1 DEF IInv, RepliesAreKept, Made
<1>3. call[c].answers \in [1..Questions -> {None} \cup 0..Questions]
  BY <1>1 DEF Call
<1>4. "cancelled" \in Statuses \ {"pending"}
  BY DEF Statuses
<1>5. turn' \in [Sessions -> {"idle", "running", "waiting"}]
  BY <1>1, <1>3, <1>4, Settled DEF IInv
<1>6. PICK r \in Call :
        /\ call' = [call EXCEPT ![c] = r] /\ r.ix = "cancelled" /\ r.by = None
        /\ r.sdk = IF call[c].sdk # "asking" THEN call[c].sdk
                   ELSE IF "cancelled" = "answered" THEN "allowed" ELSE "denied"
  BY <1>1, <1>3, <1>4, Settled DEF IInv
<1>7. r.sdk = "denied"
  BY <1>1, <1>6
<1>8. QED BY <1>1, <1>2, <1>5, <1>6, <1>7, CallMoves

LEMMA EndTurnInv ==
  ASSUME IInv, NEW s \in Sessions, EndTurn(s)
  PROVE  IInv'
<1>1. /\ turn' = [turn EXCEPT ![s] = "idle"] /\ allow' = [allow EXCEPT ![s] = {}]
      /\ UNCHANGED <<stored, reply, inbox, turns>>
  BY DEF EndTurn
<1> DEFINE R(c) == IF c \in Asking(s) THEN [call[c] EXCEPT !.sdk = "gone"] ELSE call[c]
<1>2. call' = [c \in Calls |-> R(c)]
  BY DEF EndTurn
<1>3. ASSUME NEW c \in Calls
      PROVE  \/ R(c) = call[c]
             \/ /\ call[c] \in Call /\ call[c] # None /\ R(c) \in Call
                /\ R(c).kind = call[c].kind /\ R(c).rule = call[c].rule
                /\ R(c).suggestions = call[c].suggestions
                /\ R(c).ix = call[c].ix /\ R(c).by = call[c].by /\ R(c).sdk = "gone"
  <2>1. CASE c \in Asking(s)
    <3>1. call[c] \in Call /\ call[c] # None
      BY <2>1 DEF Asking, Made, IInv, TypeOK
    <3> DEFINE r == [call[c] EXCEPT !.sdk = "gone"]
    <3>2. /\ r \in Call /\ r.kind = call[c].kind /\ r.rule = call[c].rule
          /\ r.suggestions = call[c].suggestions
          /\ r.ix = call[c].ix /\ r.by = call[c].by /\ r.sdk = "gone"
      BY ONLY <3>1 DEF Call
    <3>3. R(c) = r
      BY <2>1
    <3> HIDE DEF r, R
    <3>4. QED BY <3>1, <3>2, <3>3
  <2>2. CASE c \notin Asking(s)
    BY <2>2
  <2>3. QED BY <2>1, <2>2
<1> HIDE DEF R
<1>4. ASSUME NEW c \in Calls
      PROVE  \/ call'[c] = call[c]
             \/ /\ call[c] \in Call /\ call[c] # None /\ call'[c] \in Call /\ call'[c] # None
                /\ call'[c].kind = call[c].kind /\ call'[c].rule = call[c].rule
                /\ call'[c].suggestions = call[c].suggestions
                /\ call'[c].ix = call[c].ix /\ call'[c].by = call[c].by
                /\ call'[c].sdk = "gone"
  BY <1>2, <1>3, NoneIsNothing
<1>5. TypeOK'
  BY <1>1, <1>2, <1>4 DEF IInv, TypeOK
<1>6. Made' = Made
  BY <1>4 DEF Made
<1>7. RepliesAreKept' /\ InboxIsKnown' /\ UsedOnce'
  BY <1>1, <1>4, <1>6
     DEF IInv, RepliesAreKept, InboxIsKnown, ProviderEvents, UsedOnce, Parses, Made
<1>8. AllowIsStored'
  BY <1>1 DEF IInv, TypeOK, AllowIsStored
<1>9. Granted' = Granted
  BY <1>1, <1>4, GrantedStays DEF Grants
<1>10. RulesAreGranted'
  BY <1>1, <1>9 DEF IInv, RulesAreGranted
<1>11. DecidedAsTold'
  <2>1. ASSUME NEW c \in Made
        PROVE  Told(c)' /\ call'[c].by = call[c].by
    <3>1. Told(c) /\ c \in Calls
      BY DecidedIs DEF IInv, Made
    <3>2. QED BY <1>1, <1>4, <1>9, <3>1 DEF Told, Approves, Refuses
  <2>2. QED BY <1>6, <2>1, DecidedIs DEF IInv
<1>12. QED BY <1>5, <1>7, <1>8, <1>10, <1>11 DEF IInv

\* A reply settles a call that has none, having no other event that counts, and grants
\* what it should.
LEMMA SettleInv ==
  ASSUME IInv, NEW c \in Calls, call[c] # None, call[c].ix = "pending",
         NEW p \in Replies, NEW event \in Events, <<p, event>> \in inbox, Parses(p, event),
         inbox' = inbox \ {<<p, event>>},
         NEW r \in Call, call' = [call EXCEPT ![c] = r],
         r.kind = call[c].kind, r.rule = call[c].rule, r.suggestions = call[c].suggestions,
         r.by = p, r.ix \in {"answered", "denied"},
         r.sdk = IF call[c].sdk # "asking" THEN call[c].sdk
                 ELSE IF r.ix = "answered" THEN "allowed" ELSE "denied",
         r.kind = "permission" => IF r.ix = "answered" THEN Approves(p) ELSE Refuses(p),
         NEW granted \in SUBSET Rules,
         granted = IF r.kind = "permission" /\ reply[p].text = <<"always">>
                   THEN StickySuggestions(c) ELSE {},
         stored' = stored \cup granted,
         allow' \in [Sessions -> SUBSET Rules],
         \A s \in Sessions : allow'[s] \subseteq allow[s] \cup granted,
         turn' \in [Sessions -> {"idle", "running", "waiting"}],
         UNCHANGED <<reply, turns>>
  PROVE  IInv'
<1>1. call'[c] = r /\ r # None /\ \A d \in Calls : d # c => call'[d] = call[d]
  BY NoneIsNothing DEF IInv, TypeOK
<1>2. call[c].by = None /\ p # None
  BY NoneIsNothing DEF IInv, RepliesAreKept, Made
<1>3. reply[p] # None /\ event \in ProviderEvents(reply[p])
  BY DEF IInv, InboxIsKnown
<1>4. Made' = Made /\ c \in Made
  BY <1>1 DEF Made
<1>5. \A d \in Made : d # c => call[d].by # p
  BY DEF IInv, UsedOnce
<1>6. TypeOK'
  BY DEF IInv, TypeOK
<1>7. RepliesAreKept'
  BY <1>1, <1>2, <1>3, <1>4 DEF IInv, RepliesAreKept, Made
<1>8. InboxIsKnown'
  BY DEF IInv, InboxIsKnown, ProviderEvents
<1>9. UsedOnce'
  <2>1. ASSUME NEW m \in inbox', m[1] = p
        PROVE  ~Parses(p, m[2])
    <3>1. m \in inbox /\ m = <<p, m[2]>> /\ m # <<p, event>>
      BY <2>1 DEF IInv, TypeOK
    <3>2. m[2] \in ProviderEvents(reply[p]) /\ m[2] # event
      BY <2>1, <3>1 DEF IInv, InboxIsKnown
    <3>3. QED BY <1>3, <3>2, OneEventCounts DEF IInv
  <2>2. ASSUME NEW d \in Made, NEW m \in inbox', call'[d].by = m[1]
        PROVE  ~Parses(m[1], m[2])
    <3>1. CASE d = c
      BY <1>1, <2>1, <2>2, <3>1
    <3>2. CASE d # c
      BY <1>1, <2>2, <3>2 DEF IInv, UsedOnce, Made
    <3>3. QED BY <3>1, <3>2
  <2>3. QED BY <1>4, <2>2 DEF UsedOnce, Parses
<1>10. Granted' = Granted \cup granted
  <2>1. ASSUME NEW d \in Calls, d # c
        PROVE  (Grants(d)' <=> Grants(d)) /\ call'[d] = call[d]
    BY <1>1, <2>1 DEF Grants
  <2>2. ~Grants(c)
    BY <1>2 DEF Grants
  <2>3. Grants(c)' <=> r.kind = "permission" /\ reply[p].text = <<"always">>
    BY <1>1, <1>2 DEF Grants
  <2>4. StickySuggestions(c) =
          {x \in Rules : [behavior |-> "allow", rule |-> x] \in r.suggestions}
    BY StickyIs DEF IInv
  <2>5. QED BY <1>1, <2>1, <2>2, <2>3, <2>4, GrantedIs
<1>11. RulesAreGranted' /\ AllowIsStored'
  BY <1>10 DEF IInv, RulesAreGranted, AllowIsStored
<1>12. DecidedAsTold'
  <2>1. ASSUME NEW d \in Made, d # c
        PROVE  call'[d] = call[d] /\ Told(d)'
    <3>1. Told(d) /\ call'[d] = call[d]
      BY <1>1, <2>1, DecidedIs DEF IInv, Made
    <3>2. QED BY <1>10, <3>1 DEF Told, Approves, Refuses
  <2>2. Told(c)'
    <3>1. Told(c)
      BY <1>4, DecidedIs DEF IInv
    <3>2. QED BY <1>1, <1>2, <1>10, <3>1 DEF Told, Approves, Refuses
  <2>3. ASSUME NEW d \in Made, NEW e \in Made, call'[d].by = call'[e].by, call'[d].by # None
        PROVE  d = e
    BY <1>1, <1>5, <2>1, <2>3, DecidedIs DEF IInv
  <2>4. QED BY <1>4, <2>1, <2>2, <2>3, DecidedIs
<1>13. QED BY <1>6, <1>7, <1>8, <1>9, <1>11, <1>12 DEF IInv

\* An event that decides nothing is gone.
LEMMA InboxShrinks ==
  ASSUME IInv, inbox' \subseteq inbox, UNCHANGED <<stored, allow, reply, turns>>,
         turn' = turn, call' = call
  PROVE  IInv'
<1>1. TypeOK' /\ Made' = Made
  BY DEF IInv, TypeOK, Made
<1>2. RepliesAreKept' /\ InboxIsKnown' /\ UsedOnce'
  BY <1>1 DEF IInv, RepliesAreKept, InboxIsKnown, ProviderEvents, UsedOnce, Parses
<1>3. AllowIsStored' /\ RulesAreGranted' /\ DecidedAsTold'
  BY CallsStay
<1>4. QED BY <1>1, <1>2, <1>3 DEF IInv

\* The answers of a question that is not settled yet.
LEMMA AnswersMove ==
  ASSUME IInv, NEW c \in Calls, call[c] # None, call[c].ix = "pending",
         NEW answers \in [1..Questions -> {None} \cup 0..Questions],
         call' = [call EXCEPT ![c].answers = answers], inbox' \subseteq inbox,
         UNCHANGED <<stored, turn, allow, reply, turns>>
  PROVE  IInv'
<1>1. call[c] \in Call
  BY DEF IInv, TypeOK
<1> DEFINE r == [call[c] EXCEPT !.answers = answers]
<1>2. /\ r \in Call /\ r.kind = call[c].kind /\ r.rule = call[c].rule
      /\ r.suggestions = call[c].suggestions /\ r.ix = call[c].ix /\ r.by = call[c].by
      /\ r.sdk = call[c].sdk
  BY ONLY <1>1, answers \in [1..Questions -> {None} \cup 0..Questions] DEF Call
<1>3. call' = [call EXCEPT ![c] = r]
  OBVIOUS
<1> HIDE DEF r
<1>4. ASSUME NEW d \in Calls
      PROVE  /\ call'[d] = None <=> call[d] = None
             /\ call'[d] # None =>
                  /\ call'[d].kind = call[d].kind /\ call'[d].rule = call[d].rule
                  /\ call'[d].suggestions = call[d].suggestions
                  /\ call'[d].ix = call[d].ix /\ call'[d].by = call[d].by
                  /\ call'[d].sdk = call[d].sdk
  BY <1>2, <1>3, NoneIsNothing DEF IInv, TypeOK
<1>5. TypeOK' /\ Made' = Made
  BY <1>2, <1>3, <1>4 DEF IInv, TypeOK, Made
<1>6. RepliesAreKept' /\ InboxIsKnown' /\ UsedOnce' /\ AllowIsStored'
  <2>1. RepliesAreKept'
    BY <1>4, <1>5 DEF IInv, RepliesAreKept, Made
  <2>2. UsedOnce'
    BY <1>4, <1>5 DEF IInv, UsedOnce, Parses, Made
  <2>3. InboxIsKnown' /\ AllowIsStored'
    BY DEF IInv, InboxIsKnown, ProviderEvents, AllowIsStored
  <2>4. QED BY <2>1, <2>2, <2>3
<1>7. Granted' = Granted
  BY <1>4, GrantedStays DEF Grants
<1>8. DecidedAsTold'
  <2>1. ASSUME NEW d \in Made
        PROVE  Told(d)' /\ call'[d].by = call[d].by
    <3>1. Told(d) /\ d \in Calls /\ call[d] # None
      BY DecidedIs DEF IInv, Made
    <3>2. QED BY <1>4, <1>7, <3>1 DEF Told, Approves, Refuses
  <2>2. QED BY <1>5, <2>1, DecidedIs DEF IInv
<1>9. QED BY <1>5, <1>6, <1>7, <1>8 DEF IInv, RulesAreGranted

LEMMA AccumulateIs ==
  ASSUME NEW answers \in [1..Questions -> {None} \cup 0..Questions], NEW index,
         NEW answer \in 0..Questions
  PROVE  AccumulateAnswers(answers, index, answer) \in [1..Questions -> {None} \cup 0..Questions]
BY DEF AccumulateAnswers

LEMMA ResolvePermissionInv ==
  ASSUME IInv, NEW c \in Calls, call[c] # None, call[c].ix = "pending",
         call[c].kind = "permission", NEW p \in Replies, MayAnswer(c, p),
         NEW event \in Events, <<p, event>> \in inbox, Parses(p, event),
         inbox' = inbox \ {<<p, event>>}, UNCHANGED <<reply, turns>>,
         ResolvePermission(c, p)
  PROVE  IInv'
<1> DEFINE verdict == PermissionVerdict(reply[p].text)
           granted == IF verdict = "allow_always" THEN StickySuggestions(c) ELSE {}
           status == IF verdict = "deny" THEN "denied" ELSE "answered"
<1>1. call[c] \in Call /\ reply[p].operator
  BY DEF IInv, TypeOK, MayAnswer
<1>2. CASE verdict = "unclear"
  BY <1>2, InboxShrinks DEF ResolvePermission
<1>3. CASE verdict # "unclear"
  <2>1. /\ Settle(c, p, status, call[c].answers)
        /\ stored' = stored \cup granted
        /\ allow' = [allow EXCEPT ![call[c].session] =
                       IF call[c].sdk = "asking" THEN @ \cup granted ELSE @]
    BY <1>3 DEF ResolvePermission, MergeStoredRules
  <2>2. granted = IF reply[p].text = <<"always">> THEN StickySuggestions(c) ELSE {}
    BY DEF PermissionVerdict
  <2>3. IF status = "answered" THEN Approves(p) ELSE Refuses(p)
    BY <1>1, <1>3 DEF PermissionVerdict, Approves, Refuses
  <2>4. granted \in SUBSET Rules
    BY StickyIs DEF IInv
  <2>5. status \in {"answered", "denied"} /\ status \in Statuses \ {"pending"}
    BY DEF Statuses
  <2>6. call[c].answers \in [1..Questions -> {None} \cup 0..Questions]
    BY <1>1 DEF Call
  <2>7. call[c].session \in Sessions
    BY <1>1 DEF Call
  <2> HIDE DEF verdict, granted, status
  <2>8. PICK g \in SUBSET Rules : g = granted
    BY <2>4
  <2>9. /\ allow' \in [Sessions -> SUBSET Rules] /\ stored' = stored \cup g
        /\ \A s \in Sessions : allow'[s] \subseteq allow[s] \cup g
    BY <2>1, <2>8, <2>7 DEF IInv, TypeOK
  <2>10. turn' \in [Sessions -> {"idle", "running", "waiting"}]
    BY <2>1, <2>5, <2>6, Settled DEF IInv
  <2>11. PICK r \in Call :
           /\ call' = [call EXCEPT ![c] = r]
           /\ r.kind = call[c].kind /\ r.rule = call[c].rule
           /\ r.suggestions = call[c].suggestions
           /\ r.ix = status /\ r.by = p
           /\ r.sdk = IF call[c].sdk # "asking" THEN call[c].sdk
                      ELSE IF status = "answered" THEN "allowed" ELSE "denied"
    BY <2>1, <2>5, <2>6, Settled DEF IInv
  <2>12. /\ r.sdk = IF call[c].sdk # "asking" THEN call[c].sdk
                    ELSE IF r.ix = "answered" THEN "allowed" ELSE "denied"
         /\ r.ix \in {"answered", "denied"}
    BY <2>5, <2>11
  <2>13. /\ r.kind = "permission" => IF r.ix = "answered" THEN Approves(p) ELSE Refuses(p)
         /\ g = IF r.kind = "permission" /\ reply[p].text = <<"always">>
                THEN StickySuggestions(c) ELSE {}
    BY <2>2, <2>3, <2>11, <2>8
  <2>14. QED BY <2>9, <2>10, <2>11, <2>12, <2>13, SettleInv
<1>4. QED BY <1>2, <1>3

\* A plan or questions: nothing is granted.
LEMMA SettleOther ==
  ASSUME IInv, NEW c \in Calls, call[c] # None, call[c].ix = "pending",
         call[c].kind # "permission", NEW p \in Replies,
         NEW event \in Events, <<p, event>> \in inbox, Parses(p, event),
         inbox' = inbox \ {<<p, event>>}, UNCHANGED <<stored, allow, reply, turns>>,
         NEW status \in {"answered", "denied"},
         NEW answers \in [1..Questions -> {None} \cup 0..Questions],
         Settle(c, p, status, answers)
  PROVE  IInv'
<1>1. status \in Statuses \ {"pending"}
  BY DEF Statuses
<1>2. turn' \in [Sessions -> {"idle", "running", "waiting"}]
  BY <1>1, Settled DEF IInv
<1>3. PICK r \in Call :
        /\ call' = [call EXCEPT ![c] = r]
        /\ r.kind = call[c].kind /\ r.rule = call[c].rule
        /\ r.suggestions = call[c].suggestions
        /\ r.ix = status /\ r.by = p
        /\ r.sdk = IF call[c].sdk # "asking" THEN call[c].sdk
                   ELSE IF status = "answered" THEN "allowed" ELSE "denied"
  BY <1>1, Settled DEF IInv
<1>4. PICK granted \in SUBSET Rules : granted = {}
  OBVIOUS
<1>5. /\ granted = IF r.kind = "permission" /\ reply[p].text = <<"always">>
                   THEN StickySuggestions(c) ELSE {}
      /\ stored' = stored \cup granted
      /\ r.kind = "permission" => IF r.ix = "answered" THEN Approves(p) ELSE Refuses(p)
      /\ r.sdk = IF call[c].sdk # "asking" THEN call[c].sdk
                 ELSE IF r.ix = "answered" THEN "allowed" ELSE "denied"
  BY <1>3, <1>4
<1>6. /\ allow' \in [Sessions -> SUBSET Rules]
      /\ \A s \in Sessions : allow'[s] \subseteq allow[s] \cup granted
  BY DEF IInv, TypeOK
<1>7. QED BY <1>2, <1>3, <1>5, <1>6, SettleInv

LEMMA AcceptInv ==
  ASSUME IInv, NEW p \in Replies, NEW event \in Events, Accept(p, event)
  PROVE  IInv'
<1>1. /\ <<p, event>> \in inbox /\ inbox' = inbox \ {<<p, event>>}
      /\ UNCHANGED <<reply, turns>>
  BY DEF Accept
<1>2. CASE UNCHANGED <<stored, turn, allow, call>>
  BY <1>1, <1>2, InboxShrinks
<1>3. CASE ~UNCHANGED <<stored, turn, allow, call>>
  <2>1. PICK c \in Pending(reply[p].session) :
          Parses(p, event) /\ MayAnswer(c, p) /\ ResolveInteraction(c, p, ParsedIndex(reply[p]))
    BY <1>3 DEF Accept
  <2>2. /\ c \in Calls /\ call[c] # None /\ call[c].ix = "pending" /\ call[c] \in Call
        /\ reply[p] \in Reply
    BY <1>1 DEF Pending, Made, IInv, TypeOK, InboxIsKnown
  <2>3. CASE call[c].kind = "permission" /\ ResolvePermission(c, p)
    BY <1>1, <2>1, <2>2, <2>3, ResolvePermissionInv
  <2>4. CASE call[c].kind = "plan" /\ ResolvePlan(c, p)
    <3>1. PICK status \in {"answered", "denied"} : Settle(c, p, status, call[c].answers)
      BY <2>4 DEF ResolvePlan
    <3>2. UNCHANGED <<stored, allow>> /\ call[c].kind # "permission"
      BY <2>4 DEF ResolvePlan
    <3>3. call[c].answers \in [1..Questions -> {None} \cup 0..Questions]
      BY <2>2 DEF Call
    <3>4. QED BY <1>1, <2>1, <2>2, <3>1, <3>2, <3>3, SettleOther
  <2>5. CASE call[c].kind = "question" /\ ResolveQuestion(c, p, ParsedIndex(reply[p]))
    <3>1. PICK answers : answers = AccumulateAnswers(call[c].answers, ParsedIndex(reply[p]), reply[p].index)
      OBVIOUS
    <3>2. answers \in [1..Questions -> {None} \cup 0..Questions]
      BY <2>2, <3>1, AccumulateIs DEF Call, Reply
    <3>3. UNCHANGED <<stored, allow>> /\ call[c].kind # "permission"
      BY <2>5 DEF ResolveQuestion
    <3>4. CASE Settle(c, p, "answered", answers)
      BY <1>1, <2>1, <2>2, <3>2, <3>3, <3>4, SettleOther
    <3>5. CASE call' = [call EXCEPT ![c].answers = answers] /\ UNCHANGED turn
      BY <1>1, <2>2, <3>2, <3>3, <3>5, AnswersMove
    <3>6. QED BY <2>5, <3>1, <3>4, <3>5 DEF ResolveQuestion
  <2>6. QED BY <2>1, <2>3, <2>4, <2>5 DEF ResolveInteraction
<1>4. QED BY <1>2, <1>3

LEMMA StepInv == IInv /\ [Next]_vars => IInv'
<1> SUFFICES ASSUME IInv, [Next]_vars PROVE IInv'
  OBVIOUS
<1>1. CASE UNCHANGED vars
  BY <1>1, InboxShrinks DEF vars
<1>2. CASE Next
  BY <1>2, TypeInv, ClickInv, ForgetInv, AcceptInv, CreateTurnInv, EndTurnInv, CanUseToolInv,
     UseByRuleInv, AbortInv DEF Next
<1>3. QED BY <1>1, <1>2

\* Replies keep the call they decided, nothing is used twice, and what an Agent stores as its
\* rules is what accepted replies granted, through every callback, reply and turn.
THEOREM InteractionsInvariant == Spec => []IInv
<1>1. QED BY InitInv, StepInv, PTL DEF Spec

----------------------------------------------------------------------------
(* What follows *)

\* A tool runs only when an operator approved that very call in so many words or granted its
\* rule, is denied only when an operator refused it or the SDK gave up, and what a person
\* says once decides one call: for any Sessions, tool calls, texts and suggestions.
THEOREM InteractionsDecidedAsTold == Spec => []DecidedAsTold
<1>1. IInv => DecidedAsTold
  BY DEF IInv
<1>2. QED BY InteractionsInvariant, <1>1, PTL

\* The Agent's sticky rules are those that operators granted, however many of its Sessions
\* have turns at the same time: none is lost, none is added.
THEOREM InteractionsRulesAreGranted == Spec => []RulesAreGranted
<1>1. IInv => RulesAreGranted
  BY DEF IInv
<1>2. QED BY InteractionsInvariant, <1>1, PTL

----------------------------------------------------------------------------
(* Answers *)

\* A click names the question its control belongs to, and a message none.
RepliesFit ==
  \A p \in Replies : reply[p] # None =>
    /\ ~reply[p].cleared
    /\ reply[p].call = None => reply[p].index = 0
    /\ reply[p].call # None =>
         /\ call[reply[p].call] # None
         /\ call[reply[p].call].kind = "question" => reply[p].index # 0

FInv == IInv /\ RepliesFit /\ AnswersFit

\* The answers of a call fit.
Fit(k) == k.kind = "question" => \A q \in 1..Questions : k.answers[q] \in {None, 0, q}

\* What becomes of calls when no reply is given.
LEMMA FitStays ==
  ASSUME FInv, IInv',
         \A p \in Replies : reply'[p] \in {reply[p], None},
         \A c \in Calls :
           \/ call'[c] = call[c]
           \/ /\ call'[c] # None
              /\ call[c] # None => call'[c].kind = call[c].kind
              /\ Fit(call'[c])
  PROVE  FInv'
<1>1. AnswersFit'
  BY DEF FInv, AnswersFit, Fit, Made
<1>2. RepliesFit'
  <2> SUFFICES ASSUME NEW p \in Replies, reply'[p] # None
               PROVE  /\ ~reply'[p].cleared
                      /\ reply'[p].call = None => reply'[p].index = 0
                      /\ reply'[p].call # None =>
                           /\ call'[reply'[p].call] # None
                           /\ call'[reply'[p].call].kind = "question" => reply'[p].index # 0
    BY DEF RepliesFit
  <2>1. reply'[p] = reply[p]
    OBVIOUS
  <2>2. reply[p].call \in Calls \cup {None}
    BY <2>1 DEF FInv, IInv, TypeOK, Reply
  <2>3. QED BY <2>1, <2>2 DEF FInv, RepliesFit
<1>3. QED BY <1>1, <1>2 DEF FInv

LEMMA FitGive ==
  ASSUME FInv, IInv', NEW p \in Replies, NEW r \in Reply, Give(p, r),
         ~r.cleared, r.call = None => r.index = 0,
         r.call # None => /\ call[r.call] # None
                          /\ call[r.call].kind = "question" => r.index # 0
  PROVE  FInv'
<1>1. reply' = [reply EXCEPT ![p] = r] /\ call' = call
  BY DEF Give
<1>2. AnswersFit'
  BY <1>1 DEF FInv, AnswersFit, Made
<1>3. RepliesFit'
  BY <1>1 DEF FInv, IInv, TypeOK, RepliesFit
<1>4. QED BY <1>2, <1>3 DEF FInv

LEMMA FitClick ==
  ASSUME ~Clears, FInv, IInv', NEW p \in Replies, NEW c \in Calls, NEW operator \in BOOLEAN,
         Click(p, c, operator)
  PROVE  FInv'
<1>1. call[c] \in Call /\ call[c] # None /\ c # None
  BY NoneIsNothing DEF Click, Made, FInv, IInv, TypeOK
<1>2. PICK control \in Controls(c) :
        Give(p, [session |-> call[c].session, operator |-> operator, call |-> c,
                 index |-> control[1], cleared |-> FALSE, mention |-> FALSE,
                 text |-> <<control[2]>>])
  BY DEF Click
<1>3. control[1] \in 0..Questions /\ control[2] \in Words
  BY <1>1, BoundsAssumption DEF Controls, Words, Call, Kinds
<1>4. call[c].kind = "question" => control[1] # 0
  BY <1>1 DEF Controls
<1>5. [session |-> call[c].session, operator |-> operator, call |-> c,
       index |-> control[1], cleared |-> FALSE, mention |-> FALSE,
       text |-> <<control[2]>>] \in Reply
  <2>1. <<control[2]>> \in Seq(Words)
    BY <1>3
  <2>2. QED BY <1>1, <1>3, <2>1 DEF Reply, Call
<1>6. QED BY <1>1, <1>2, <1>4, <1>5, FitGive

LEMMA FitType ==
  ASSUME FInv, IInv', NEW p \in Replies, NEW s \in Sessions, NEW operator \in BOOLEAN,
         NEW text \in Texts, Type(p, s, operator, text)
  PROVE  FInv'
<1>1. PICK mention \in BOOLEAN :
        Give(p, [session |-> s, operator |-> operator, call |-> None, index |-> 0,
                 cleared |-> FALSE, mention |-> mention, text |-> text])
  BY DEF Type
<1>2. [session |-> s, operator |-> operator, call |-> None, index |-> 0,
       cleared |-> FALSE, mention |-> mention, text |-> text] \in Reply
  <2>1. text \in Seq(Words) /\ 0 \in 0..Questions
    BY TextsAssumption, BoundsAssumption
  <2>2. QED BY <2>1 DEF Reply
<1>3. QED BY <1>1, <1>2, FitGive

\* A new call has no answers.
LEMMA FitNewCall ==
  ASSUME FInv, IInv', NEW s \in Sessions, NEW c \in Calls, CanUseTool(s, c) \/ UseByRule(s, c)
  PROVE  FInv'
<1>1. call[c] = None /\ reply' = reply /\ c \in Calls /\ call \in [Calls -> Call \cup {None}]
  BY DEF CanUseTool, UseByRule, FInv, IInv, TypeOK
<1>2. CASE UseByRule(s, c)
  <2>1. PICK rule \in allow[s] :
          call' = [call EXCEPT ![c] =
            [NewCall(s, "permission", rule, {}) EXCEPT !.ix = None, !.sdk = "allowed"]]
    BY <1>2 DEF UseByRule
  <2>2. rule \in Rules
    BY DEF FInv, IInv, TypeOK
  <2>3. PICK n : n = NewCall(s, "permission", rule, {})
    OBVIOUS
  <2>4. n \in Call /\ n.kind = "permission"
    BY <2>2, <2>3, NewCallIs DEF NewCall, Kinds
  <2> DEFINE r == [n EXCEPT !.ix = None, !.sdk = "allowed"]
  <2>5. r \in Call /\ r.kind = "permission"
    BY ONLY <2>4 DEF Call
  <2>6. call' = [call EXCEPT ![c] = r]
    BY <2>1, <2>3
  <2> HIDE DEF r
  <2>7. Fit(r) /\ r # None
    BY <2>5, NoneIsNothing DEF Fit
  <2>8. \A d \in Calls : call'[d] = IF d = c THEN r ELSE call[d]
    BY <1>1, <2>6
  <2>9. QED BY <1>1, <2>7, <2>8, FitStays
<1>3. CASE CanUseTool(s, c)
  <2>1. PICK kind \in Kinds, rule \in Rules \cup {None}, suggestions \in SUBSET Suggestions :
          call' = [call EXCEPT ![c] = NewCall(s, kind, rule, suggestions)]
    <3>1. CASE \E kind \in Kinds \ {"permission"} :
                 call' = [call EXCEPT ![c] = NewCall(s, kind, None, {})]
      BY <3>1
    <3>2. CASE \E rule \in Rules \ allow[s] : \E suggestions \in Proposals[rule] :
                 call' = [call EXCEPT ![c] = NewCall(s, "permission", rule, suggestions)]
      BY <3>2, ProposalsAssumption DEF Kinds
    <3>3. QED BY <1>3, <3>1, <3>2 DEF CanUseTool
  <2>2. PICK r : r = NewCall(s, kind, rule, suggestions)
    OBVIOUS
  <2>3. r \in Call /\ r # None /\ Fit(r)
    BY <2>2, NewCallIs, NoneIsNothing DEF Fit, NewCall
  <2>4. \A d \in Calls : call'[d] = IF d = c THEN r ELSE call[d]
    BY <1>1, <2>1, <2>2
  <2>5. QED BY <1>1, <2>3, <2>4, FitStays
<1>4. QED BY <1>2, <1>3

\* A call is settled with answers that fit.
LEMMA FitSettle ==
  ASSUME FInv, IInv', NEW c \in Calls, call[c] # None, NEW p \in Replies \cup {None},
         NEW status \in Statuses \ {"pending"},
         NEW answers \in [1..Questions -> {None} \cup 0..Questions],
         Settle(c, p, status, answers), reply' = reply,
         call[c].kind = "question" => \A q \in 1..Questions : answers[q] \in {None, 0, q}
  PROVE  FInv'
<1>1. PICK r \in Call : /\ call' = [call EXCEPT ![c] = r]
                        /\ r.kind = call[c].kind /\ r.answers = answers
  BY Settled DEF FInv, IInv
<1>2. r # None /\ Fit(r) /\ \A d \in Calls : call'[d] = IF d = c THEN r ELSE call[d]
  BY <1>1, NoneIsNothing DEF Fit, FInv, IInv, TypeOK
<1>3. QED BY <1>1, <1>2, FitStays

LEMMA FitAccept ==
  ASSUME Connector = "slack", FInv, IInv', NEW p \in Replies, NEW event \in Events,
         Accept(p, event)
  PROVE  FInv'
<1>1. <<p, event>> \in inbox /\ reply' = reply /\ reply[p] # None /\ reply[p] \in Reply
  BY DEF Accept, FInv, IInv, InboxIsKnown, TypeOK
<1>2. CASE UNCHANGED call
  BY <1>1, <1>2, FitStays
<1>3. CASE ~UNCHANGED call
  <2>1. PICK c \in Calls :
          /\ c \in IF reply[p].call # None THEN {reply[p].call} \cap Pending(reply[p].session)
                   ELSE Pending(reply[p].session)
          /\ ResolveInteraction(c, p, ParsedIndex(reply[p]))
    BY <1>3 DEF Accept, Pending, Made
  <2>2. /\ call[c] # None /\ call[c] \in Call /\ reply[p].call \in {None, c}
        /\ ParsedIndex(reply[p]) = reply[p].index /\ reply[p].index \in 0..Questions
        /\ call[c].answers \in [1..Questions -> {None} \cup 0..Questions]
    BY <1>1, <2>1 DEF Pending, Made, ParsedIndex, FInv, RepliesFit, Reply, IInv, TypeOK, Call
  <2>3. call[c].kind = "question" => \A q \in 1..Questions : call[c].answers[q] \in {None, 0, q}
    BY <2>2 DEF FInv, AnswersFit, Made
  <2>4. CASE call[c].kind # "question"
    <3>1. PICK status \in Statuses \ {"pending"} : Settle(c, p, status, call[c].answers)
      BY <1>3, <2>1, <2>4
         DEF ResolveInteraction, ResolvePermission, ResolvePlan, Statuses
    <3>2. QED BY <1>1, <2>2, <2>4, <3>1, FitSettle
  <2>5. CASE call[c].kind = "question"
    <3>1. PICK answers : answers = AccumulateAnswers(call[c].answers, reply[p].index, reply[p].index)
      OBVIOUS
    <3>2. answers \in [1..Questions -> {None} \cup 0..Questions]
      BY <2>2, <3>1, AccumulateIs
    <3>3. \A q \in 1..Questions : answers[q] \in {None, 0, q}
      <4>1. reply[p].call = c => reply[p].index # 0
        BY <1>1, <2>2, <2>5, NoneIsNothing DEF FInv, RepliesFit
      <4>2. reply[p].call = None => reply[p].index = 0
        BY <1>1 DEF FInv, RepliesFit
      <4>3. ASSUME NEW q \in 1..Questions
            PROVE  answers[q] \in {call[c].answers[q], 0, q}
        BY <2>2, <3>1, <4>1, <4>2, <4>3, BoundsAssumption DEF AccumulateAnswers
      <4>4. QED BY <2>3, <2>5, <4>3
    <3>4. CASE Settle(c, p, "answered", answers)
      BY <1>1, <2>2, <3>2, <3>3, <3>4, FitSettle DEF Statuses
    <3>5. CASE call' = [call EXCEPT ![c].answers = answers]
      <4> DEFINE r == [call[c] EXCEPT !.answers = answers]
      <4>1. call[c] \in Call
        BY <2>2
      <4>2. r \in Call /\ r.kind = call[c].kind /\ r.answers = answers
        BY ONLY <3>2, <4>1 DEF Call
      <4>3. call' = [call EXCEPT ![c] = r]
        BY <3>5
      <4> HIDE DEF r
      <4>4. r # None /\ Fit(r) /\ \A d \in Calls : call'[d] = IF d = c THEN r ELSE call[d]
        BY <3>3, <4>2, <4>3, NoneIsNothing DEF Fit, FInv, IInv, TypeOK
      <4>5. QED BY <1>1, <4>2, <4>4, FitStays
    <3>6. QED BY <2>1, <2>2, <2>5, <3>1, <3>4, <3>5 DEF ResolveInteraction, ResolveQuestion
  <2>6. QED BY <2>4, <2>5
<1>4. QED BY <1>2, <1>3

LEMMA FitStep == Connector = "slack" /\ ~Clears /\ FInv /\ [Next]_vars => FInv'
<1> SUFFICES ASSUME Connector = "slack", ~Clears, FInv, [Next]_vars PROVE FInv'
  OBVIOUS
<1>1. IInv'
  BY StepInv DEF FInv
<1>2. ASSUME UNCHANGED call, \A p \in Replies : reply'[p] \in {reply[p], None}
      PROVE  FInv'
  BY <1>1, <1>2, FitStays
<1>3. CASE UNCHANGED vars
  BY <1>2, <1>3 DEF vars
<1>4. ASSUME NEW p \in Replies, Forget(p)
      PROVE  FInv'
  BY <1>2, <1>4 DEF Forget, FInv, IInv, TypeOK
<1>5. ASSUME NEW s \in Sessions, CreateTurn(s)
      PROVE  FInv'
  BY <1>2, <1>5 DEF CreateTurn
<1>6. ASSUME NEW s \in Sessions, EndTurn(s)
      PROVE  FInv'
  <2>1. reply' = reply
    BY <1>6 DEF EndTurn
  <2>2. ASSUME NEW c \in Calls
        PROVE  \/ call'[c] = call[c]
               \/ /\ call'[c] # None /\ call'[c].kind = call[c].kind
                  /\ Fit(call'[c])
    <3>1. CASE c \in Asking(s)
      <4>1. call[c] # None /\ call[c] \in Call /\ Fit(call[c])
        BY <3>1 DEF Asking, Made, FInv, IInv, TypeOK, AnswersFit, Fit
      <4> DEFINE r == [call[c] EXCEPT !.sdk = "gone"]
      <4>2. r \in Call /\ r.kind = call[c].kind /\ r.answers = call[c].answers
        BY ONLY <4>1 DEF Call
      <4>3. call'[c] = r
        BY <1>6, <3>1 DEF EndTurn
      <4> HIDE DEF r
      <4>4. QED BY <4>1, <4>2, <4>3, NoneIsNothing DEF Fit
    <3>2. CASE c \notin Asking(s)
      BY <1>6, <3>2 DEF EndTurn
    <3>3. QED BY <3>1, <3>2
  <2>3. QED BY <1>1, <2>1, <2>2, FitStays
<1>7. ASSUME NEW c \in Calls, Abort(c)
      PROVE  FInv'
  <2>1. /\ call[c] # None /\ call[c] \in Call /\ reply' = reply
        /\ Settle(c, None, "cancelled", call[c].answers)
    BY <1>7 DEF Abort, Made, FInv, IInv, TypeOK
  <2>2. /\ call[c].answers \in [1..Questions -> {None} \cup 0..Questions]
        /\ call[c].kind = "question" => \A q \in 1..Questions : call[c].answers[q] \in {None, 0, q}
    BY <2>1 DEF Call, FInv, AnswersFit, Made
  <2>3. QED BY <1>1, <2>1, <2>2, FitSettle DEF Statuses
<1>8. CASE Next
  BY <1>1, <1>4, <1>5, <1>6, <1>7, <1>8, FitType, FitClick, FitAccept, FitNewCall DEF Next
<1>9. QED BY <1>3, <1>8

\* With Slack, whose controls name their question, each answer was typed or chosen among the
\* options of the question it is for, as long as nobody empties a select.
THEOREM InteractionsAnswersFit ==
  Connector = "slack" /\ ~Clears => (Spec => []AnswersFit)
<1> SUFFICES ASSUME Connector = "slack", ~Clears PROVE Spec => []AnswersFit
  OBVIOUS
<1>1. Init => FInv
  BY InitInv DEF Init, FInv, RepliesFit, AnswersFit, Made
<1>2. FInv /\ [Next]_vars => FInv'
  BY FitStep
<1>3. FInv => AnswersFit
  BY DEF FInv
<1>4. QED BY <1>1, <1>2, <1>3, PTL DEF Spec

----------------------------------------------------------------------------
(* Transcript: what is said and what is posted *)

IsText(d) == d.kind \in {"progress", "final"}

\* The texts in P are the first n of S, each once and in their order.
Tells(P, S, n) ==
  /\ \A p \in 1..n : \E i \in 1..Len(P) : IsText(P[i]) /\ P[i].body = S[p]
  /\ \A i \in 1..Len(P) : IsText(P[i]) => \E p \in 1..n : P[i].body = S[p]
  /\ \A i, j \in 1..Len(P), p, q \in 1..n :
       IsText(P[i]) /\ IsText(P[j]) /\ P[i].body = S[p] /\ P[j].body = S[q] => (i < j <=> p < q)

\* Items that are no texts, more of the texts, and texts that differ further on.
LEMMA TellsOther ==
  ASSUME NEW D, NEW P \in Seq(D), NEW Q \in Seq(D), NEW S, NEW n \in Nat, Tells(P, S, n),
         \A k \in 1..Len(Q) : ~IsText(Q[k])
  PROVE  Tells(P \o Q, S, n)
<1> DEFINE R == P \o Q
<1>1. /\ R \in Seq(D) /\ Len(R) = Len(P) + Len(Q) /\ Len(P) \in Nat /\ Len(Q) \in Nat
      /\ \A i \in 1..Len(P) : R[i] = P[i]
      /\ \A i \in 1..Len(R) : i > Len(P) => R[i] = Q[i - Len(P)]
  OBVIOUS
<1> HIDE DEF R
<1>2. \A i \in 1..Len(R) : IsText(R[i]) => i \in 1..Len(P)
  <2> TAKE i \in 1..Len(R)
  <2>1. i > Len(P) => i - Len(P) \in 1..Len(Q) /\ R[i] = Q[i - Len(P)]
    BY <1>1
  <2>2. i > Len(P) => ~IsText(R[i])
    BY <2>1
  <2>3. QED BY <2>2, <1>1
<1>3. 1..Len(P) \subseteq 1..Len(R)
  BY <1>1
<1>4. \A i \in 1..Len(R) : IsText(R[i]) => i \in 1..Len(P) /\ R[i] = P[i]
  BY <1>1, <1>2
<1>5. \A p \in 1..n : \E i \in 1..Len(R) : IsText(R[i]) /\ R[i].body = S[p]
  BY <1>1, <1>3 DEF Tells
<1>6. \A i \in 1..Len(R) : IsText(R[i]) => \E p \in 1..n : R[i].body = S[p]
  BY <1>4 DEF Tells
<1>7. ASSUME NEW i \in 1..Len(R), NEW j \in 1..Len(R), NEW p \in 1..n, NEW q \in 1..n,
             IsText(R[i]), IsText(R[j]), R[i].body = S[p], R[j].body = S[q]
      PROVE  i < j <=> p < q
  <2>1. i \in 1..Len(P) /\ j \in 1..Len(P) /\ R[i] = P[i] /\ R[j] = P[j]
    BY <1>4, <1>7
  <2>2. QED BY <2>1, <1>7 DEF Tells
<1>8. Tells(R, S, n)
  BY <1>5, <1>6, <1>7 DEF Tells
<1>9. QED BY <1>8 DEF R

LEMMA TellsMore ==
  ASSUME NEW D, NEW P \in Seq(D), NEW Q \in Seq(D), NEW S, NEW n \in Nat, Tells(P, S, n),
         \A p, q \in 1..(n + Len(Q)) : S[p] = S[q] => p = q,
         \A k \in 1..Len(Q) : IsText(Q[k]) /\ Q[k].body = S[n + k]
  PROVE  Tells(P \o Q, S, n + Len(Q))
<1> DEFINE R == P \o Q  m == n + Len(Q)
<1>1. /\ R \in Seq(D) /\ Len(R) = Len(P) + Len(Q) /\ Len(P) \in Nat /\ Len(Q) \in Nat
      /\ \A i \in 1..Len(P) : R[i] = P[i]
      /\ \A k \in 1..Len(Q) : R[Len(P) + k] = Q[k]
  OBVIOUS
<1>2. m \in Nat /\ m >= n /\ m = n + Len(Q) /\ \A p, q \in 1..m : S[p] = S[q] => p = q
  BY <1>1
<1> HIDE DEF R, m
<1>3. \A i \in 1..Len(P), p \in 1..m :
        IsText(R[i]) /\ R[i].body = S[p] => p \in 1..n /\ P[i].body = S[p] /\ IsText(P[i])
  BY <1>1, <1>2 DEF Tells
<1>4. \A i \in 1..Len(R) : i > Len(P) =>
        /\ i - Len(P) \in 1..Len(Q) /\ n + (i - Len(P)) \in 1..m
        /\ IsText(R[i]) /\ R[i].body = S[n + (i - Len(P))]
  <2> TAKE i \in 1..Len(R)
  <2> HAVE i > Len(P)
  <2>1. \E k \in 1..Len(Q) : i = Len(P) + k
    <3>1. i - Len(P) \in 1..Len(Q) /\ i = Len(P) + (i - Len(P))
      BY <1>1
    <3>2. QED BY <3>1
  <2> PICK k \in 1..Len(Q) : i = Len(P) + k
    BY <2>1
  <2>2. i - Len(P) = k /\ R[i] = Q[k] /\ n + k \in 1..m
    BY <1>1, <1>2
  <2>3. QED BY <2>2
<1>5. \A i \in 1..Len(R), p \in 1..m :
        i > Len(P) /\ R[i].body = S[p] => p = n + (i - Len(P))
  BY <1>2, <1>4
<1>6. \A p \in 1..m : \E i \in 1..Len(R) : IsText(R[i]) /\ R[i].body = S[p]
  <2> TAKE p \in 1..m
  <2>1. CASE p \in 1..n
    <3>1. PICK i \in 1..Len(P) : IsText(P[i]) /\ P[i].body = S[p]
      BY <2>1 DEF Tells
    <3>2. i \in 1..Len(R) /\ R[i] = P[i]
      BY <1>1
    <3>3. QED BY <3>1, <3>2
  <2>2. CASE p > n
    <3>1. /\ Len(P) + (p - n) \in 1..Len(R) /\ Len(P) + (p - n) > Len(P)
          /\ n + (Len(P) + (p - n) - Len(P)) = p
      BY <1>1, <1>2, <2>2
    <3>2. QED BY <3>1, <1>4
  <2>3. QED BY <2>1, <2>2, <1>2
<1>7. \A i \in 1..Len(R) : IsText(R[i]) => \E p \in 1..m : R[i].body = S[p]
  <2> TAKE i \in 1..Len(R)
  <2> HAVE IsText(R[i])
  <2>1. CASE i \in 1..Len(P)
    <3>1. PICK p \in 1..n : P[i].body = S[p]
      BY <2>1, <1>1 DEF Tells
    <3>2. p \in 1..m /\ R[i] = P[i]
      BY <1>1, <1>2, <2>1
    <3>3. QED BY <3>1, <3>2
  <2>2. CASE i > Len(P)
    BY <2>2, <1>4
  <2>3. QED BY <2>1, <2>2, <1>1
<1>8. ASSUME NEW i \in 1..Len(R), NEW j \in 1..Len(R), NEW p \in 1..m, NEW q \in 1..m,
             IsText(R[i]), IsText(R[j]), R[i].body = S[p], R[j].body = S[q]
      PROVE  i < j <=> p < q
  <2>1. CASE i \in 1..Len(P) /\ j \in 1..Len(P)
    BY <2>1, <1>3, <1>8 DEF Tells
  <2>2. CASE i \in 1..Len(P) /\ j > Len(P)
    <3>1. p \in 1..n
      BY <2>2, <1>3, <1>8
    <3>2. q = n + (j - Len(P))
      BY <2>2, <1>5, <1>8
    <3> QED BY <3>1, <3>2, <2>2, <1>1
  <2>3. CASE i > Len(P) /\ j \in 1..Len(P)
    <3>1. q \in 1..n
      BY <2>3, <1>3, <1>8
    <3>2. p = n + (i - Len(P))
      BY <2>3, <1>5, <1>8
    <3> QED BY <3>1, <3>2, <2>3, <1>1
  <2>4. CASE i > Len(P) /\ j > Len(P)
    <3>1. p = n + (i - Len(P)) /\ q = n + (j - Len(P))
      BY <2>4, <1>5, <1>8
    <3>2. QED BY <3>1, <1>1
  <2>5. QED BY <2>1, <2>2, <2>3, <2>4, <1>1
<1>9. Tells(R, S, m)
  BY <1>6, <1>7, <1>8 DEF Tells
<1>10. QED BY <1>9 DEF R, m

LEMMA TellsSame ==
  ASSUME NEW P, NEW S, NEW U, NEW n \in Nat, Tells(P, S, n), \A p \in 1..n : U[p] = S[p]
  PROVE  Tells(P, U, n)
BY DEF Tells

\* What was posted of the calls, of which some are open and some have been made.
KeepsCalls(P, open, made) ==
  /\ \A i \in 1..Len(P) : P[i].kind = "action" =>
       /\ P[i].call \in made
       /\ \A j \in 1..Len(P) : P[i] = P[j] => i = j
       /\ ~P[i].ephemeral =>
            /\ P[i].call \notin open
            /\ \E k \in 1..(i - 1) : P[k] = Action(P[i].call, TRUE)
  /\ \A c \in open : c \in made /\ \E k \in 1..Len(P) : P[k] = Action(c, TRUE)

LEMMA KeepsOther ==
  ASSUME NEW D, NEW P \in Seq(D), NEW Q \in Seq(D), NEW open, NEW made,
         KeepsCalls(P, open, made), \A k \in 1..Len(Q) : Q[k].kind # "action"
  PROVE  KeepsCalls(P \o Q, open, made)
<1> DEFINE R == P \o Q
<1>1. /\ R \in Seq(D) /\ Len(R) = Len(P) + Len(Q) /\ Len(P) \in Nat /\ Len(Q) \in Nat
      /\ \A i \in 1..Len(P) : R[i] = P[i]
      /\ \A i \in 1..Len(R) : i > Len(P) => R[i] = Q[i - Len(P)]
  OBVIOUS
<1> HIDE DEF R
<1>2. 1..Len(P) \subseteq 1..Len(R)
  BY <1>1
<1>3. \A i \in 1..Len(R) : R[i].kind = "action" => i \in 1..Len(P) /\ R[i] = P[i]
  <2> TAKE i \in 1..Len(R)
  <2>1. i > Len(P) => i - Len(P) \in 1..Len(Q) /\ R[i] = Q[i - Len(P)]
    BY <1>1
  <2>2. i > Len(P) => R[i].kind # "action"
    BY <2>1
  <2>3. QED BY <2>2, <1>1
<1>4. ASSUME NEW i \in 1..Len(R), R[i].kind = "action"
      PROVE  /\ R[i].call \in made
             /\ \A j \in 1..Len(R) : R[i] = R[j] => i = j
             /\ ~R[i].ephemeral =>
                  /\ R[i].call \notin open
                  /\ \E k \in 1..(i - 1) : R[k] = Action(R[i].call, TRUE)
  <2>1. i \in 1..Len(P) /\ R[i] = P[i]
    BY <1>3, <1>4
  <2>2. \A j \in 1..Len(R) : R[i] = R[j] => j \in 1..Len(P) /\ P[i] = P[j]
    BY <2>1, <1>3, <1>4
  <2>3. \A k \in 1..(i - 1) : R[k] = P[k]
    BY <2>1, <1>1
  <2>4. QED BY <1>4, <2>1, <2>2, <2>3 DEF KeepsCalls
<1>5. \A c \in open : c \in made /\ \E k \in 1..Len(R) : R[k] = Action(c, TRUE)
  BY <1>1, <1>2 DEF KeepsCalls
<1>6. KeepsCalls(R, open, made)
  BY <1>4, <1>5 DEF KeepsCalls
<1>7. QED BY <1>6 DEF R

\* One more item, about a call.
LEMMA KeepsCall ==
  ASSUME NEW D, NEW P \in Seq(D), NEW open, NEW made, KeepsCalls(P, open, made),
         NEW c, NEW e \in BOOLEAN, Action(c, e) \in D,
         NEW left, NEW all, made \subseteq all, c \in all,
         IF e THEN c \notin made /\ left = open \cup {c} ELSE c \in open /\ left = open \ {c}
  PROVE  KeepsCalls(P \o <<Action(c, e)>>, left, all)
<1> DEFINE x == Action(c, e)  R == P \o <<x>>
<1>1. /\ R \in Seq(D) /\ Len(R) = Len(P) + 1 /\ Len(P) \in Nat
      /\ \A i \in 1..Len(P) : R[i] = P[i]
      /\ R[Len(P) + 1] = x
  OBVIOUS
<1>2. x.kind = "action" /\ x.call = c /\ x.ephemeral = e
  BY DEF Action
<1>a. e = TRUE => x = Action(c, TRUE)
  OBVIOUS
<1> HIDE DEF R, x
<1>3. 1..Len(P) \subseteq 1..Len(R) /\ Len(P) + 1 \in 1..Len(R)
      /\ \A i \in 1..Len(R) : i \in 1..Len(P) \/ i = Len(P) + 1
  BY <1>1
<1>4. \A i \in 1..Len(P) : P[i] # x
  <2> SUFFICES ASSUME NEW i \in 1..Len(P), P[i] = x PROVE FALSE
    OBVIOUS
  <2>1. CASE e = TRUE
    BY <2>1, <1>2 DEF KeepsCalls
  <2>2. CASE e = FALSE
    BY <2>2, <1>2 DEF KeepsCalls
  <2>3. QED BY <2>1, <2>2
<1>5. ASSUME NEW i \in 1..Len(R), R[i].kind = "action"
      PROVE  /\ R[i].call \in all
             /\ \A j \in 1..Len(R) : R[i] = R[j] => i = j
             /\ ~R[i].ephemeral =>
                  /\ R[i].call \notin left
                  /\ \E k \in 1..(i - 1) : R[k] = Action(R[i].call, TRUE)
  <2>1. CASE i \in 1..Len(P)
    <3>1. R[i] = P[i] /\ P[i].kind = "action"
      BY <1>1, <1>5, <2>1
    <3>2. P[i].call \in made /\ \A j \in 1..Len(P) : P[i] = P[j] => i = j
      BY <2>1, <3>1 DEF KeepsCalls
    <3>3. \A j \in 1..Len(R) : R[i] = R[j] => i = j
      BY <1>1, <1>3, <1>4, <2>1, <3>1, <3>2
    <3>4. ASSUME ~P[i].ephemeral
          PROVE  P[i].call \notin left /\ \E k \in 1..(i - 1) : R[k] = Action(P[i].call, TRUE)
      <4>1. P[i].call \notin open /\ \E k \in 1..(i - 1) : P[k] = Action(P[i].call, TRUE)
        BY <2>1, <3>1, <3>4 DEF KeepsCalls
      <4>2. \A k \in 1..(i - 1) : R[k] = P[k]
        BY <2>1, <1>1
      <4>3. P[i].call \notin left
        BY <4>1, <3>2
      <4>4. QED BY <4>1, <4>2, <4>3
    <3>5. QED BY <3>1, <3>2, <3>3, <3>4
  <2>2. CASE i = Len(P) + 1
    <3>1. R[i] = x
      BY <1>1, <2>2
    <3>2. \A j \in 1..Len(R) : R[i] = R[j] => i = j
      BY <1>1, <1>3, <1>4, <2>2, <3>1
    <3>3. ASSUME ~e
          PROVE  c \notin left /\ \E k \in 1..(i - 1) : R[k] = Action(c, TRUE)
      <4>1. PICK k \in 1..Len(P) : P[k] = Action(c, TRUE)
        BY <3>3 DEF KeepsCalls
      <4>2. k \in 1..(i - 1) /\ R[k] = P[k]
        BY <2>2, <1>1
      <4>3. QED BY <3>3, <4>1, <4>2
    <3>4. QED BY <3>1, <3>2, <3>3, <1>2
  <2>3. QED BY <2>1, <2>2, <1>3
<1>6. ASSUME NEW d \in left
      PROVE  d \in all /\ \E k \in 1..Len(R) : R[k] = Action(d, TRUE)
  <2>1. CASE d \in open
    BY <2>1, <1>1, <1>3 DEF KeepsCalls
  <2>2. CASE d \notin open
    <3>1. e = TRUE /\ d = c
      BY <2>2, <1>6
    <3>2. R[Len(P) + 1] = Action(d, TRUE)
      BY <3>1, <1>1, <1>a
    <3>3. QED BY <3>1, <3>2, <1>3
  <2>3. QED BY <2>1, <2>2
<1>7. KeepsCalls(R, left, all)
  BY <1>5, <1>6 DEF KeepsCalls
<1>8. QED BY <1>7 DEF R, x

LEMMA KeepsFewer ==
  ASSUME NEW P, NEW open, NEW made, KeepsCalls(P, open, made), NEW left \in SUBSET open
  PROVE  KeepsCalls(P, left, made)
BY DEF KeepsCalls

\* S was said, no text of it twice; P tells it but for its end H, which is held.
Spoken(P, S, H) ==
  /\ P \in Seq(Deliveries) /\ S \in Seq(Bodies) /\ H \in Seq(Bodies)
  /\ Len(H) <= Len(S)
  /\ \A p, q \in 1..Len(S) : S[p] = S[q] => p = q
  /\ \A k \in 1..Len(H) : H[k] = S[Len(S) - Len(H) + k]
  /\ Tells(P, S, Len(S) - Len(H))

\* The steps of events() on what is held: it goes, more is said, other items go, it is lost.
LEMMA LetGo ==
  ASSUME NEW P, NEW S, NEW H, Spoken(P, S, H), NEW Q \in Seq(Deliveries), Len(Q) = Len(H),
         \A k \in 1..Len(H) : IsText(Q[k]) /\ Q[k].body = H[k]
  PROVE  Spoken(P \o Q, S, <<>>)
<1> PICK n \in Nat : n = Len(S) - Len(H)
  <2>1. Len(S) - Len(H) \in Nat
    BY DEF Spoken
  <2>2. QED BY <2>1
<1>1. n + Len(Q) = Len(S) /\ Len(S) \in Nat
  BY DEF Spoken
<1>2. \A k \in 1..Len(Q) : IsText(Q[k]) /\ Q[k].body = S[n + k]
  BY DEF Spoken
<1>3. \A p, q \in 1..(n + Len(Q)) : S[p] = S[q] => p = q
  BY <1>1 DEF Spoken
<1>4. P \in Seq(Deliveries) /\ Tells(P, S, n)
  BY DEF Spoken
<1>5. Tells(P \o Q, S, n + Len(Q))
  BY <1>2, <1>3, <1>4, TellsMore
<1>6. P \o Q \in Seq(Deliveries) /\ <<>> \in Seq(Bodies) /\ Len(<<>>) = 0
  BY <1>4
<1>7. QED BY <1>1, <1>5, <1>6 DEF Spoken

LEMMA SayMore ==
  ASSUME NEW P, NEW S, NEW H, Spoken(P, S, H), NEW b \in Seq(Bodies),
         \A i, j \in 1..Len(b) : b[i] = b[j] => i = j,
         \A i \in 1..Len(b), p \in 1..Len(S) : b[i] # S[p]
  PROVE  Spoken(P, S \o b, H \o b)
<1> DEFINE U == S \o b  G == H \o b
<1>1. /\ U \in Seq(Bodies) /\ Len(U) = Len(S) + Len(b) /\ Len(S) \in Nat /\ Len(b) \in Nat
      /\ \A p \in 1..Len(S) : U[p] = S[p]
      /\ \A p \in 1..Len(U) : p > Len(S) => p - Len(S) \in 1..Len(b) /\ U[p] = b[p - Len(S)]
  BY DEF Spoken
<1>2. /\ G \in Seq(Bodies) /\ Len(G) = Len(H) + Len(b) /\ Len(H) \in Nat /\ Len(H) <= Len(S)
      /\ \A k \in 1..Len(H) : G[k] = H[k]
      /\ \A k \in 1..Len(G) : k > Len(H) => k - Len(H) \in 1..Len(b) /\ G[k] = b[k - Len(H)]
  BY DEF Spoken
<1> HIDE DEF U, G
<1>3. ASSUME NEW p \in 1..Len(U), NEW q \in 1..Len(U), U[p] = U[q] PROVE p = q
  <2>1. CASE p \in 1..Len(S) /\ q \in 1..Len(S)
    BY <2>1, <1>1, <1>3 DEF Spoken
  <2>2. CASE p > Len(S) /\ q \in 1..Len(S)
    BY <2>2, <1>1, <1>3
  <2>3. CASE p \in 1..Len(S) /\ q > Len(S)
    BY <2>3, <1>1, <1>3
  <2>4. CASE p > Len(S) /\ q > Len(S)
    <3>1. p - Len(S) = q - Len(S)
      BY <2>4, <1>1, <1>3
    <3>2. QED BY <3>1, <1>1
  <2>5. QED BY <2>1, <2>2, <2>3, <2>4, <1>1
<1>4. Len(U) - Len(G) = Len(S) - Len(H) /\ Len(G) <= Len(U) /\ Len(S) - Len(H) \in Nat
  BY <1>1, <1>2
<1>5. ASSUME NEW k \in 1..Len(G) PROVE G[k] = U[Len(U) - Len(G) + k]
  <2>1. CASE k \in 1..Len(H)
    <3>1. G[k] = H[k] /\ H[k] = S[Len(S) - Len(H) + k]
      BY <2>1, <1>2 DEF Spoken
    <3>2. Len(S) - Len(H) + k \in 1..Len(S)
      BY <2>1, <1>1, <1>2
    <3>3. QED BY <3>1, <3>2, <1>1, <1>4
  <2>2. CASE k > Len(H)
    <3> PICK p \in 1..Len(U) : p = Len(S) - Len(H) + k /\ p > Len(S) /\ p - Len(S) = k - Len(H)
      <4>1. LET p == Len(S) - Len(H) + k
            IN  p \in 1..Len(U) /\ p > Len(S) /\ p - Len(S) = k - Len(H)
        BY <2>2, <1>1, <1>2
      <4>2. QED BY <4>1
    <3>1. U[p] = b[p - Len(S)] /\ G[k] = b[k - Len(H)]
      BY <2>2, <1>1, <1>2
    <3>2. QED BY <3>1, <1>4
  <2>3. QED BY <2>1, <2>2, <1>2
<1>6. Tells(P, U, Len(U) - Len(G))
  <2> PICK n \in Nat : n = Len(S) - Len(H)
    BY <1>4
  <2>1. Tells(P, S, n) /\ \A p \in 1..n : U[p] = S[p]
    BY <1>1, <1>2 DEF Spoken
  <2>2. Tells(P, U, n)
    BY <2>1, TellsSame
  <2>3. QED BY <2>2, <1>4
<1>7. P \in Seq(Deliveries)
  BY DEF Spoken
<1>8. Spoken(P, U, G)
  BY <1>1, <1>2, <1>3, <1>4, <1>5, <1>6, <1>7 DEF Spoken
<1>9. QED BY <1>8 DEF U, G

LEMMA SayFirst ==
  ASSUME NEW P, NEW S, Spoken(P, S, <<>>), NEW b \in Seq(Bodies),
         \A i, j \in 1..Len(b) : b[i] = b[j] => i = j,
         \A i \in 1..Len(b), p \in 1..Len(S) : b[i] # S[p]
  PROVE  Spoken(P, S \o b, b)
<1>1. <<>> \o b = b
  OBVIOUS
<1> PICK H : H = <<>>
  OBVIOUS
<1>2. Spoken(P, S \o b, H \o b)
  BY SayMore
<1>3. QED BY <1>1, <1>2

LEMMA PostOther ==
  ASSUME NEW P, NEW S, NEW H, Spoken(P, S, H), NEW Q \in Seq(Deliveries),
         \A k \in 1..Len(Q) : ~IsText(Q[k])
  PROVE  Spoken(P \o Q, S, H)
<1> PICK n \in Nat : n = Len(S) - Len(H)
  <2>1. Len(S) - Len(H) \in Nat
    BY DEF Spoken
  <2>2. QED BY <2>1
<1>1. P \in Seq(Deliveries) /\ Tells(P, S, n)
  BY DEF Spoken
<1>2. Tells(P \o Q, S, n) /\ P \o Q \in Seq(Deliveries)
  BY <1>1, TellsOther
<1>3. QED BY <1>2 DEF Spoken

LEMMA LoseHeld ==
  ASSUME NEW P, NEW S, NEW H, Spoken(P, S, H)
  PROVE  Spoken(P, SubSeq(S, 1, Len(S) - Len(H)), <<>>)
<1> PICK n \in Nat : n = Len(S) - Len(H)
  <2>1. Len(S) - Len(H) \in Nat
    BY DEF Spoken
  <2>2. QED BY <2>1
<1> DEFINE U == SubSeq(S, 1, n)
<1>1. S \in Seq(Bodies) /\ n <= Len(S) /\ Len(S) \in Nat /\ P \in Seq(Deliveries) /\ Tells(P, S, n)
  BY DEF Spoken
<1>2. U \in Seq(Bodies) /\ Len(U) = n /\ \A p \in 1..n : U[p] = S[p]
  BY <1>1
<1> HIDE DEF U
<1>3. Tells(P, U, n)
  BY <1>1, <1>2, TellsSame
<1>4. ASSUME NEW p \in 1..Len(U), NEW q \in 1..Len(U), U[p] = U[q] PROVE p = q
  <2>1. p \in 1..Len(S) /\ q \in 1..Len(S) /\ S[p] = S[q]
    BY <1>1, <1>2, <1>4
  <2>2. QED BY <2>1 DEF Spoken
<1>5. Spoken(P, U, <<>>)
  BY <1>1, <1>2, <1>3, <1>4 DEF Spoken
<1>6. QED BY <1>5 DEF U

----------------------------------------------------------------------------
(* The inductive invariant of Transcript *)

TranscriptIInv ==
  /\ TranscriptTypeOK
  /\ started \subseteq called
  /\ session # "running" => held = <<>>
  /\ Spoken(posted, said, held)
  /\ KeepsCalls(posted, started, called)

\* The items that are posted.
LEMMA ProgressTells ==
  ASSUME NEW b \in Seq(Bodies)
  PROVE  /\ Progress(b) \in Seq(Deliveries) /\ Len(Progress(b)) = Len(b)
         /\ \A k \in 1..Len(b) : IsText(Progress(b)[k]) /\ Progress(b)[k].body = b[k]
         /\ \A k \in 1..Len(Progress(b)) : Progress(b)[k].kind # "action"
<1>1. \A k \in 1..Len(b) : [kind |-> "progress", body |-> b[k]] \in Deliveries
  BY DEF Deliveries
<1>2. QED BY <1>1 DEF Progress, IsText

LEMMA ItemsAreNoText ==
  /\ [kind |-> "error"] \in Deliveries /\ ~IsText([kind |-> "error"])
  /\ \A c \in ToolUses, e \in BOOLEAN : Action(c, e) \in Deliveries /\ ~IsText(Action(c, e))
BY DEF Deliveries, Action, IsText

\* What was held goes out.
LEMMA ProgressGoes ==
  ASSUME NEW P, NEW S, NEW H, Spoken(P, S, H), NEW open, NEW made, KeepsCalls(P, open, made)
  PROVE  Spoken(P \o Progress(H), S, <<>>) /\ KeepsCalls(P \o Progress(H), open, made)
<1>1. P \in Seq(Deliveries) /\ H \in Seq(Bodies)
  BY DEF Spoken
<1> DEFINE Q == Progress(H)
<1>2. /\ Q \in Seq(Deliveries) /\ Len(Q) = Len(H)
      /\ \A k \in 1..Len(H) : IsText(Q[k]) /\ Q[k].body = H[k]
      /\ \A k \in 1..Len(Q) : Q[k].kind # "action"
  BY <1>1, ProgressTells
<1> HIDE DEF Q
<1>3. Spoken(P \o Q, S, <<>>)
  BY <1>2, LetGo
<1>4. KeepsCalls(P \o Q, open, made)
  BY <1>1, <1>2, KeepsOther
<1>5. QED BY <1>3, <1>4 DEF Q

\* An error, where there is one.
LEMMA ErrorGoes ==
  ASSUME NEW P, NEW S, NEW H, Spoken(P, S, H), NEW open, NEW made, KeepsCalls(P, open, made),
         NEW Q \in {<<>>, <<[kind |-> "error"]>>}
  PROVE  Spoken(P \o Q, S, H) /\ KeepsCalls(P \o Q, open, made)
<1>1. P \in Seq(Deliveries)
  BY DEF Spoken
<1> PICK x \in Deliveries : x = [kind |-> "error"]
  BY ItemsAreNoText
<1>2. Q = <<>> \/ Q = <<x>>
  OBVIOUS
<1>3. ~IsText(x) /\ x.kind # "action"
  BY ItemsAreNoText
<1>4. /\ Q \in Seq(Deliveries)
      /\ \A k \in 1..Len(Q) : ~IsText(Q[k]) /\ Q[k].kind # "action"
  <2>1. CASE Q = <<>>
    BY <2>1
  <2>2. CASE Q = <<x>>
    BY <2>2, <1>3
  <2>3. QED BY <1>2, <2>1, <2>2
<1>5. QED BY <1>1, <1>4, PostOther, KeepsOther

\* A call that starts, or the result of one that is open.
LEMMA CallGoes ==
  ASSUME NEW P, NEW S, NEW H, Spoken(P, S, H), NEW open, NEW made, KeepsCalls(P, open, made),
         NEW c \in ToolUses, NEW e \in BOOLEAN, NEW left, NEW all, made \subseteq all, c \in all,
         IF e THEN c \notin made /\ left = open \cup {c} ELSE c \in open /\ left = open \ {c}
  PROVE  /\ Spoken(P \o <<Action(c, e)>>, S, H)
         /\ KeepsCalls(P \o <<Action(c, e)>>, left, all)
<1>1. P \in Seq(Deliveries)
  BY DEF Spoken
<1> DEFINE x == Action(c, e)
<1>2. x \in Deliveries /\ ~IsText(x)
  BY ItemsAreNoText
<1>3. KeepsCalls(P \o <<x>>, left, all)
  BY <1>1, <1>2, KeepsCall
<1> HIDE DEF x
<1>4. <<x>> \in Seq(Deliveries) /\ \A k \in 1..Len(<<x>>) : ~IsText(<<x>>[k])
  BY <1>2
<1>5. Spoken(P \o <<x>>, S, H)
  BY <1>4, PostOther
<1>6. QED BY <1>3, <1>5 DEF x

LEMMA SayFresh ==
  ASSUME NEW b \in Seq(Bodies), Fresh(b), Spoken(posted, said, held)
  PROVE  /\ \A i, j \in 1..Len(b) : b[i] = b[j] => i = j
         /\ \A i \in 1..Len(b), p \in 1..Len(said) : b[i] # said[p]
<1>1. said \in Seq(Bodies)
  BY DEF Spoken
<1>2. DOMAIN b = 1..Len(b) /\ DOMAIN said = 1..Len(said)
  BY <1>1
<1>3. QED BY <1>2 DEF Fresh, IsInjective, ToSet

----------------------------------------------------------------------------
(* The steps of Transcript *)

LEMMA TypesStay ==
  ASSUME TranscriptIInv, Spoken(posted, said, held)',
         session' \in {"queued", "running", "completed", "failed", "interrupted"},
         begun' \in 0..Turns, failed' \in BOOLEAN,
         started' \subseteq called', called' \subseteq ToolUses
  PROVE  TranscriptTypeOK'
BY DEF Spoken, TranscriptTypeOK

LEMMA StaysSpoken ==
  ASSUME Spoken(posted, said, held), NEW P, NEW S, NEW H, Spoken(P, S, H),
         posted' = P, said' = S, held' = H
  PROVE  Spoken(posted, said, held)'
BY DEF Spoken, Tells

LEMMA StaysKept ==
  ASSUME NEW P, NEW open, NEW made, KeepsCalls(P, open, made),
         posted' = P, started' = open, called' = made
  PROVE  KeepsCalls(posted, started, called)'
BY DEF KeepsCalls

LEMMA StartTurnKeeps ==
  ASSUME TranscriptIInv, StartTurn
  PROVE  TranscriptIInv'
<1> USE DEF StartTurn
<1>1. held = <<>> /\ begun + 1 \in 0..Turns
  BY TurnsAssumption DEF TranscriptIInv, TranscriptTypeOK
<1>2. Spoken(posted, said, held)'
  BY <1>1, StaysSpoken DEF TranscriptIInv
<1>3. KeepsCalls(posted, {}, called)
  BY KeepsFewer DEF TranscriptIInv
<1>4. KeepsCalls(posted, started, called)'
  BY <1>3, StaysKept
<1>5. TranscriptTypeOK'
  BY <1>1, <1>2, TypesStay DEF TranscriptIInv, TranscriptTypeOK
<1>6. QED BY <1>2, <1>4, <1>5 DEF TranscriptIInv

LEMMA ResumeSessionKeeps ==
  ASSUME TranscriptIInv, ResumeSession
  PROVE  TranscriptIInv'
<1> USE DEF ResumeSession, turnVars
<1>1. Spoken(posted, said, held)' /\ KeepsCalls(posted, started, called)'
  BY StaysSpoken, StaysKept DEF TranscriptIInv
<1>2. TranscriptTypeOK'
  BY <1>1, TypesStay DEF TranscriptIInv, TranscriptTypeOK
<1>3. QED BY <1>1, <1>2 DEF TranscriptIInv

\* A turn fails, and what was held is lost.
LEMMA LoseKeeps ==
  ASSUME TranscriptIInv, Lose, posted' = Append(posted, [kind |-> "error"]), held' = <<>>,
         UNCHANGED <<started, called>>
  PROVE  Spoken(posted, said, held)' /\ KeepsCalls(posted, started, called)'
<1> DEFINE E == <<[kind |-> "error"]>>  S == SubSeq(said, 1, Len(said) - Len(held))
<1>1. Spoken(posted, S, <<>>) /\ KeepsCalls(posted, started, called)
  BY LoseHeld DEF TranscriptIInv
<1>2. E \in {<<>>, <<[kind |-> "error"]>>} /\ posted' = posted \o E /\ said' = S
  BY DEF TranscriptIInv, TranscriptTypeOK, Lose
<1> HIDE DEF E, S
<1>3. Spoken(posted \o E, S, <<>>) /\ KeepsCalls(posted \o E, started, called)
  BY <1>1, <1>2, ErrorGoes
<1>4. QED BY <1>2, <1>3, StaysSpoken, StaysKept DEF TranscriptIInv

LEMMA ThrowKeeps ==
  ASSUME TranscriptIInv, Throw
  PROVE  TranscriptIInv'
<1> USE DEF Throw
<1>1. Spoken(posted, said, held)' /\ KeepsCalls(posted, started, called)'
  BY LoseKeeps
<1>2. TranscriptTypeOK'
  BY <1>1, TypesStay DEF TranscriptIInv, TranscriptTypeOK
<1>3. QED BY <1>1, <1>2 DEF TranscriptIInv

LEMMA ResultErrorKeeps ==
  ASSUME TranscriptIInv, ResultError
  PROVE  TranscriptIInv'
<1> USE DEF ResultError
<1>1. Spoken(posted, said, held)' /\ KeepsCalls(posted, started, called)'
  BY LoseKeeps
<1>2. TranscriptTypeOK'
  BY <1>1, TypesStay DEF TranscriptIInv, TranscriptTypeOK
<1>3. QED BY <1>1, <1>2 DEF TranscriptIInv

LEMMA AssistantTextKeeps ==
  ASSUME TranscriptIInv, NEW b \in Seq(Bodies), NEW error \in BOOLEAN, AssistantText(b, error)
  PROVE  TranscriptIInv'
<1> USE DEF AssistantText, Hold
<1> PICK P, S : P = posted \o Progress(held) /\ S = said \o b
  OBVIOUS
<1>1. Spoken(P, said, <<>>) /\ KeepsCalls(P, started, called)
  BY ProgressGoes DEF TranscriptIInv
<1>2. /\ \A i, j \in 1..Len(b) : b[i] = b[j] => i = j
      /\ \A i \in 1..Len(b), p \in 1..Len(said) : b[i] # said[p]
  BY SayFresh DEF TranscriptIInv
<1>3. Spoken(P, S, b)
  BY <1>1, <1>2, SayFirst
<1>4. Spoken(posted, said, held)' /\ KeepsCalls(posted, started, called)'
  BY <1>1, <1>3, StaysSpoken, StaysKept DEF TranscriptIInv
<1>5. TranscriptTypeOK'
  BY <1>4, TypesStay DEF TranscriptIInv, TranscriptTypeOK
<1>6. QED BY <1>4, <1>5 DEF TranscriptIInv

LEMMA AssistantCallsKeeps ==
  ASSUME TranscriptIInv, NEW b \in Seq(Bodies), NEW c \in ToolUses, NEW error \in BOOLEAN,
         AssistantCalls(b, c, error)
  PROVE  TranscriptIInv'
<1> USE DEF AssistantCalls
<1> PICK P, S : P = posted \o Progress(held) /\ S = said \o b
  OBVIOUS
<1>1. Spoken(P, said, <<>>) /\ KeepsCalls(P, started, called)
  BY ProgressGoes DEF TranscriptIInv
<1>2. /\ \A i, j \in 1..Len(b) : b[i] = b[j] => i = j
      /\ \A i \in 1..Len(b), p \in 1..Len(said) : b[i] # said[p]
  BY SayFresh DEF TranscriptIInv
<1>3. Spoken(P, S, b)
  BY <1>1, <1>2, SayFirst
<1> PICK P2 : P2 = P \o Progress(b)
  OBVIOUS
<1>4. Spoken(P2, S, <<>>) /\ KeepsCalls(P2, started, called)
  BY <1>1, <1>3, ProgressGoes
<1>5. c \notin called
  OBVIOUS
<1> PICK e \in BOOLEAN : e = TRUE
  OBVIOUS
<1> PICK left, all : left = started \cup {c} /\ all = called \cup {c}
  OBVIOUS
<1>6. Spoken(P2 \o <<Action(c, e)>>, S, <<>>) /\ KeepsCalls(P2 \o <<Action(c, e)>>, left, all)
  <2>1. IF e THEN c \notin called /\ left = started \cup {c}
             ELSE c \in started /\ left = started \ {c}
    BY <1>5
  <2>2. called \subseteq all /\ c \in all
    OBVIOUS
  <2>3. QED BY ONLY <1>4, <2>1, <2>2, CallGoes, c \in ToolUses, e \in BOOLEAN
<1>7. Spoken(posted, said, held)' /\ KeepsCalls(posted, started, called)'
  BY <1>6, StaysSpoken, StaysKept DEF TranscriptIInv
<1>8. TranscriptTypeOK'
  BY <1>7, TypesStay DEF TranscriptIInv, TranscriptTypeOK
<1>9. QED BY <1>7, <1>8 DEF TranscriptIInv

LEMMA UserMessageKeeps ==
  ASSUME TranscriptIInv, NEW c \in ToolUses, UserMessage(c)
  PROVE  TranscriptIInv'
<1> USE DEF UserMessage, Finish
<1> PICK Q : Q = IF c \in started THEN <<Action(c, FALSE)>> ELSE <<>>
  OBVIOUS
<1>1. Spoken(posted, said, held) /\ KeepsCalls(posted, started, called) /\ c \in called
  BY DEF TranscriptIInv
<1>2. Spoken(posted \o Q, said, held) /\ KeepsCalls(posted \o Q, started \ {c}, called)
  <2>1. CASE c \in started
    <3> PICK e \in BOOLEAN : e = FALSE
      OBVIOUS
    <3> PICK left : left = started \ {c}
      OBVIOUS
    <3>1. IF e THEN c \notin called /\ left = started \cup {c}
               ELSE c \in started /\ left = started \ {c}
      BY <2>1
    <3>2. called \subseteq called /\ c \in called
      BY <1>1
    <3>3. /\ Spoken(posted \o <<Action(c, e)>>, said, held)
          /\ KeepsCalls(posted \o <<Action(c, e)>>, left, called)
      BY ONLY <1>1, <3>1, <3>2, CallGoes, c \in ToolUses, e \in BOOLEAN
    <3>4. QED BY <2>1, <3>3
  <2>2. CASE c \notin started
    <3>1. posted \o Q = posted /\ started \ {c} = started
      BY <2>2 DEF TranscriptIInv, TranscriptTypeOK
    <3>2. QED BY <3>1, <1>1
  <2>3. QED BY <2>1, <2>2
<1> PICK P : P = posted \o Q
  OBVIOUS
<1>3. /\ Spoken(P \o Progress(held), said, <<>>)
      /\ KeepsCalls(P \o Progress(held), started \ {c}, called)
  BY <1>2, ProgressGoes
<1>4. Spoken(posted, said, held)' /\ KeepsCalls(posted, started, called)'
  BY <1>1, <1>3, StaysSpoken, StaysKept
<1>5. TranscriptTypeOK'
  BY <1>4, TypesStay DEF TranscriptIInv, TranscriptTypeOK
<1>6. QED BY <1>4, <1>5 DEF TranscriptIInv

LEMMA OtherMessageKeeps ==
  ASSUME TranscriptIInv, OtherMessage
  PROVE  TranscriptIInv'
<1> USE DEF OtherMessage, Hold
<1>1. /\ Spoken(posted \o Progress(held), said, <<>>)
      /\ KeepsCalls(posted \o Progress(held), started, called)
  BY ProgressGoes DEF TranscriptIInv
<1>2. Spoken(posted, said, held)' /\ KeepsCalls(posted, started, called)'
  BY <1>1, StaysSpoken, StaysKept DEF TranscriptIInv
<1>3. TranscriptTypeOK'
  BY <1>2, TypesStay DEF TranscriptIInv, TranscriptTypeOK
<1>4. QED BY <1>2, <1>3 DEF TranscriptIInv

\* How a turn ends, whatever of the held text is posted.
LEMMA ConcludeKeeps ==
  ASSUME TranscriptIInv, NEW items, Conclude(items),
         Spoken(posted \o items, said', <<>>), KeepsCalls(posted \o items, started, called)
  PROVE  TranscriptIInv'
<1> USE DEF Conclude
<1> PICK Q : Q = IF failed THEN <<[kind |-> "error"]>> ELSE <<>>
  OBVIOUS
<1> PICK P : P = posted \o items
  OBVIOUS
<1>1. Q \in {<<>>, <<[kind |-> "error"]>>} /\ posted' = P \o Q
  OBVIOUS
<1> PICK S : S = said'
  OBVIOUS
<1>2. Spoken(P \o Q, S, <<>>) /\ KeepsCalls(P \o Q, started, called)
  BY <1>1, ErrorGoes
<1>3. Spoken(posted, said, held)' /\ KeepsCalls(posted, started, called)'
  BY <1>1, <1>2, StaysSpoken, StaysKept DEF TranscriptIInv
<1>4. TranscriptTypeOK'
  BY <1>3, TypesStay DEF TranscriptIInv, TranscriptTypeOK
<1>5. QED BY <1>3, <1>4 DEF TranscriptIInv

LEMMA StreamEndsKeeps ==
  ASSUME TranscriptIInv, StreamEnds
  PROVE  TranscriptIInv'
<1> USE DEF StreamEnds
<1>1. /\ Spoken(posted \o Progress(held), said, <<>>)
      /\ KeepsCalls(posted \o Progress(held), started, called)
  BY ProgressGoes DEF TranscriptIInv
<1>2. Spoken(posted \o Progress(held), said', <<>>)
  BY <1>1
<1>3. QED BY <1>1, <1>2, ConcludeKeeps

\* A result that succeeds: the texts before it, and the final text.
LEMMA ItemsOfResult ==
  ASSUME NEW g \in Seq(Bodies), NEW body \in Bodies
  PROVE  LET Q == Progress(g) \o <<[kind |-> "final", body |-> body]>>
         IN  /\ Q \in Seq(Deliveries) /\ Len(Q) = Len(g) + 1
             /\ \A k \in 1..Len(g) : IsText(Q[k]) /\ Q[k].body = g[k]
             /\ IsText(Q[Len(g) + 1]) /\ Q[Len(g) + 1].body = body
             /\ \A k \in 1..Len(Q) : Q[k].kind # "action"
<1> PICK x \in Deliveries : x = [kind |-> "final", body |-> body]
  BY DEF Deliveries
<1> PICK R : R = Progress(g)
  OBVIOUS
<1>1. /\ R \in Seq(Deliveries) /\ Len(R) = Len(g)
      /\ \A k \in 1..Len(g) : IsText(R[k]) /\ R[k].body = g[k]
      /\ \A k \in 1..Len(R) : R[k].kind # "action"
  BY ProgressTells
<1>2. IsText(x) /\ x.body = body /\ x.kind # "action"
  BY DEF IsText
<1> DEFINE Q == R \o <<x>>
<1>3. /\ Q \in Seq(Deliveries) /\ Len(Q) = Len(g) + 1 /\ Len(g) \in Nat
      /\ \A k \in 1..Len(g) : Q[k] = R[k]
      /\ Q[Len(g) + 1] = x
  BY <1>1
<1> HIDE DEF Q
<1>4. \A k \in 1..Len(Q) : Q[k].kind # "action"
  <2> TAKE k \in 1..Len(Q)
  <2>1. CASE k \in 1..Len(g)
    BY <2>1, <1>1, <1>3
  <2>2. CASE k = Len(g) + 1
    BY <2>2, <1>2, <1>3
  <2>3. QED BY <2>1, <2>2, <1>3
<1>5. \A k \in 1..Len(g) : IsText(Q[k]) /\ Q[k].body = g[k]
  BY <1>1, <1>3
<1>6. QED BY <1>2, <1>3, <1>4, <1>5 DEF Q

\* The text that a result repeats is the last that was held: the others are posted before it.
LEMMA RepeatedGoes ==
  ASSUME TranscriptIInv, held # <<>>, NEW body \in Bodies, body = held[Len(held)]
  PROVE  \E g \in Seq(Bodies) : /\ HeldBut(body) = g /\ Len(held) = Len(g) + 1
                                /\ \A k \in 1..Len(g) : g[k] = held[k]
<1>1. held \in Seq(Bodies) /\ Len(held) \in Nat \ {0}
  BY DEF TranscriptIInv, TranscriptTypeOK
<1>2. ASSUME NEW k \in 1..Len(held), held[k] = body PROVE k = Len(held)
  <2>1. Len(said) \in Nat /\ Len(held) <= Len(said)
    BY <1>1 DEF TranscriptIInv, Spoken
  <2> PICK n \in Nat : n = Len(said) - Len(held)
    <3>1. Len(said) - Len(held) \in Nat
      BY <1>1, <2>1
    <3>2. QED BY <3>1
  <2>2. n + k \in 1..Len(said) /\ n + Len(held) \in 1..Len(said)
    BY <1>1, <2>1
  <2>3. held[k] = said[n + k] /\ held[Len(held)] = said[n + Len(held)]
    BY <1>1 DEF TranscriptIInv, Spoken
  <2>4. n + k = n + Len(held)
    BY <1>2, <2>2, <2>3 DEF TranscriptIInv, Spoken
  <2>5. QED BY <2>4, <1>1
<1> DEFINE I == {k \in 1..Len(held) : held[k] = body}
<1>3. I = {Len(held)}
  BY <1>1, <1>2
<1>4. I # {} /\ Min(I) = Len(held)
  BY <1>1, <1>3 DEF Min
<1>5. HeldBut(body) = RemoveAt(held, Min(I))
  BY <1>4 DEF HeldBut, RemoveFirst, SelectInSeq
<1>6. HeldBut(body) = SubSeq(held, 1, Len(held) - 1) \o SubSeq(held, Len(held) + 1, Len(held))
  BY <1>4, <1>5 DEF RemoveAt
<1> PICK m \in Nat : m = Len(held) - 1
  <2>1. Len(held) - 1 \in Nat
    BY <1>1
  <2>2. QED BY <2>1
<1> DEFINE g == SubSeq(held, 1, m)
<1>7. SubSeq(held, Len(held) + 1, Len(held)) = <<>>
  BY <1>1
<1>8. g \in Seq(Bodies) /\ Len(g) = m /\ \A k \in 1..Len(g) : g[k] = held[k]
  BY <1>1
<1>9. g \o <<>> = g
  BY <1>8
<1>10. QED BY <1>1, <1>6, <1>7, <1>8, <1>9

LEMMA ResultSuccessKeeps ==
  ASSUME TranscriptIInv, NEW body \in Bodies, ResultSuccess(body)
  PROVE  TranscriptIInv'
<1>1. Spoken(posted, said, held) /\ KeepsCalls(posted, started, called) /\ held \in Seq(Bodies)
      /\ posted \in Seq(Deliveries)
  BY DEF TranscriptIInv, TranscriptTypeOK
<1> PICK items : items = Progress(HeldBut(body)) \o <<[kind |-> "final", body |-> body]>>
  OBVIOUS
<1>2. Conclude(items)
  BY DEF ResultSuccess
<1>3. Spoken(posted \o items, said', <<>>) /\ KeepsCalls(posted \o items, started, called)
  <2>1. CASE held # <<>> /\ body = Last(held) /\ UNCHANGED said
    <3>1. body = held[Len(held)]
      BY <2>1 DEF Last
    <3> PICK g \in Seq(Bodies) : /\ HeldBut(body) = g /\ Len(held) = Len(g) + 1
                                 /\ \A k \in 1..Len(g) : g[k] = held[k]
      BY <2>1, <3>1, RepeatedGoes
    <3>2. /\ items \in Seq(Deliveries) /\ Len(items) = Len(g) + 1
          /\ \A k \in 1..Len(g) : IsText(items[k]) /\ items[k].body = g[k]
          /\ IsText(items[Len(g) + 1]) /\ items[Len(g) + 1].body = body
          /\ \A k \in 1..Len(items) : items[k].kind # "action"
      BY ItemsOfResult
    <3>3. \A k \in 1..Len(held) : IsText(items[k]) /\ items[k].body = held[k]
      <4> TAKE k \in 1..Len(held)
      <4>1. CASE k \in 1..Len(g)
        BY <4>1, <3>2
      <4>2. CASE k = Len(g) + 1
        BY <4>2, <3>1, <3>2
      <4>3. Len(g) \in Nat
        OBVIOUS
      <4>4. k \in 1..Len(g) \/ k = Len(g) + 1
        BY <4>3
      <4>5. QED BY <4>1, <4>2, <4>4
    <3>4. Spoken(posted \o items, said, <<>>)
      BY <1>1, <3>2, <3>3, LetGo
    <3>5. KeepsCalls(posted \o items, started, called)
      BY <1>1, <3>2, KeepsOther
    <3>6. QED BY <2>1, <3>4, <3>5
  <2>2. CASE Fresh(<<body>>) /\ said' = Append(said, body)
    <3> PICK b \in Seq(Bodies) : b = <<body>>
      <4>1. <<body>> \in Seq(Bodies)
        OBVIOUS
      <4>2. QED BY <4>1
    <3>1. /\ \A i, j \in 1..Len(b) : b[i] = b[j] => i = j
          /\ \A i \in 1..Len(b), p \in 1..Len(said) : b[i] # said[p]
      BY <1>1, <2>2, SayFresh
    <3>2. Spoken(posted, said \o b, held \o b)
      BY <1>1, <3>1, SayMore
    <3>3. said' = said \o b
      BY <1>1, <2>2 DEF Spoken
    <3>4. \A p \in 1..Len(said) : body # said[p]
      <4>1. Len(b) = 1 /\ b[1] = body
        OBVIOUS
      <4>2. QED BY <3>1, <4>1
    <3>5. \A k \in 1..Len(held) : held[k] # body
      <4> TAKE k \in 1..Len(held)
      <4>1. held[k] = said[Len(said) - Len(held) + k] /\ Len(held) <= Len(said)
        BY <1>1 DEF Spoken
      <4>2. Len(said) - Len(held) + k \in 1..Len(said)
        BY <1>1, <4>1 DEF Spoken
      <4>3. QED BY <3>4, <4>1, <4>2
    <3>6. HeldBut(body) = held
      BY <3>5 DEF HeldBut, RemoveFirst
    <3>7. /\ items \in Seq(Deliveries) /\ Len(items) = Len(held) + 1
          /\ \A k \in 1..Len(held) : IsText(items[k]) /\ items[k].body = held[k]
          /\ IsText(items[Len(held) + 1]) /\ items[Len(held) + 1].body = body
          /\ \A k \in 1..Len(items) : items[k].kind # "action"
      BY <1>1, <3>6, ItemsOfResult
    <3> PICK H : H = held \o b
      OBVIOUS
    <3>8. /\ H \in Seq(Bodies) /\ Len(H) = Len(held) + 1 /\ Len(held) \in Nat
          /\ \A k \in 1..Len(held) : H[k] = held[k]
          /\ H[Len(held) + 1] = body
      BY <1>1
    <3>9. \A k \in 1..Len(H) : IsText(items[k]) /\ items[k].body = H[k]
      <4> TAKE k \in 1..Len(H)
      <4>1. CASE k \in 1..Len(held)
        BY <4>1, <3>7, <3>8
      <4>2. CASE k = Len(held) + 1
        BY <4>2, <3>7, <3>8
      <4>3. k \in 1..Len(held) \/ k = Len(held) + 1
        BY <3>8
      <4>4. QED BY <4>1, <4>2, <4>3
    <3>10. Spoken(posted \o items, said \o b, <<>>)
      BY <3>2, <3>7, <3>8, <3>9, LetGo
    <3>11. KeepsCalls(posted \o items, started, called)
      BY <1>1, <3>7, KeepsOther
    <3>12. QED BY <3>3, <3>10, <3>11
  <2>3. QED BY <2>1, <2>2 DEF ResultSuccess
<1>4. QED BY <1>2, <1>3, ConcludeKeeps

----------------------------------------------------------------------------
(* The theorems on Transcript *)

LEMMA TranscriptInitially ==
  ASSUME TranscriptInit
  PROVE  TranscriptIInv
<1> USE DEF TranscriptInit
<1>1. TranscriptTypeOK
  <2>1. 0 \in 0..Turns
    BY TurnsAssumption
  <2>2. <<>> \in Seq(Bodies) /\ <<>> \in Seq(Deliveries)
    OBVIOUS
  <2>3. QED BY <2>1, <2>2 DEF TranscriptTypeOK
<1>2. Spoken(posted, said, held)
  BY DEF Spoken, Tells
<1>3. KeepsCalls(posted, started, called)
  BY DEF KeepsCalls
<1>4. QED BY <1>1, <1>2, <1>3 DEF TranscriptIInv

LEMMA TranscriptStays ==
  ASSUME TranscriptIInv, [TranscriptNext]_transcriptVars
  PROVE  TranscriptIInv'
<1>1. CASE StartTurn
  BY <1>1, StartTurnKeeps
<1>2. CASE ResumeSession
  BY <1>2, ResumeSessionKeeps
<1>3. CASE Throw
  BY <1>3, ThrowKeeps
<1>4. ASSUME NEW n \in 0..2, NEW b \in [1..n -> Bodies], NEW error \in BOOLEAN,
             AssistantText(b, error) \/ \E c \in ToolUses : AssistantCalls(b, c, error)
      PROVE  TranscriptIInv'
  <2>1. b \in Seq(Bodies)
    OBVIOUS
  <2>2. QED BY <2>1, <1>4, AssistantTextKeeps, AssistantCallsKeeps
<1>5. CASE \E c \in ToolUses : UserMessage(c)
  BY <1>5, UserMessageKeeps
<1>6. CASE OtherMessage
  BY <1>6, OtherMessageKeeps
<1>7. CASE \E body \in Bodies : ResultSuccess(body)
  BY <1>7, ResultSuccessKeeps
<1>8. CASE ResultError \/ StreamEnds
  BY <1>8, ResultErrorKeeps, StreamEndsKeeps
<1>9. CASE UNCHANGED transcriptVars
  <2>1. Spoken(posted, said, held)' /\ KeepsCalls(posted, started, called)'
    BY <1>9, StaysSpoken, StaysKept DEF TranscriptIInv, transcriptVars, turnVars
  <2>2. TranscriptTypeOK'
    BY <1>9, <2>1, TypesStay DEF TranscriptIInv, TranscriptTypeOK, transcriptVars, turnVars
  <2>3. QED BY <1>9, <2>1, <2>2 DEF TranscriptIInv, transcriptVars, turnVars
<1>10. QED BY <1>1, <1>2, <1>3, <1>4, <1>5, <1>6, <1>7, <1>8, <1>9 DEF TranscriptNext

\* The inductive invariant: texts are said once and the last of them are held, only while a
\* turn runs; the open calls of events() have started and have no result.
THEOREM TranscriptInvariant == TranscriptSpec => []TranscriptIInv
BY TranscriptInitially, TranscriptStays, PTL DEF TranscriptSpec

\* The types of Transcript: the texts, the calls and the deliveries that events() and
\* execute() make are what their callers take them for.
THEOREM TranscriptTypes == TranscriptSpec => []TranscriptTypeOK
<1>1. TranscriptIInv => TranscriptTypeOK
  BY DEF TranscriptIInv
<1>2. QED BY <1>1, TranscriptInvariant, PTL

\* What a conversation gets is what the assistant said, each text once and in its order, over
\* all turns, of any texts and calls: events() holds one message's text back and posts it
\* ahead of what comes next, or as the result.
THEOREM TranscriptIsPosted == TranscriptSpec => []PostsWhatWasSaid
<1>1. ASSUME TranscriptIInv PROVE PostsWhatWasSaid
  <2>1. /\ posted \in Seq(Deliveries) /\ DOMAIN posted = 1..Len(posted)
        /\ held \in Seq(Bodies) /\ DOMAIN held = 1..Len(held)
        /\ Spoken(posted, said, held)
    BY <1>1 DEF TranscriptIInv, TranscriptTypeOK
  <2>2. \A i \in 1..Len(posted) : i \in TextsAt <=> IsText(posted[i])
    BY <2>1 DEF TextsAt, IsText
  <2>3. TextsAt \subseteq 1..Len(posted)
    BY <2>1 DEF TextsAt
  <2>4. \A k \in DOMAIN held : held[k] = said[Sent + k]
    BY <2>1 DEF Spoken, Sent
  <2>5. Tells(posted, said, Sent)
    BY <2>1 DEF Spoken, Sent
  <2> PICK n : n = Sent
    OBVIOUS
  <2>6. /\ \A p \in 1..n : \E i \in TextsAt : posted[i].body = said[p]
        /\ \A i \in TextsAt : \E p \in 1..n : posted[i].body = said[p]
    BY <2>2, <2>3, <2>5 DEF Tells
  <2>7. ASSUME NEW i \in TextsAt, NEW j \in TextsAt, NEW p \in 1..n, NEW q \in 1..n,
               posted[i].body = said[p], posted[j].body = said[q]
        PROVE  i < j <=> p < q
    BY <2>2, <2>3, <2>5, <2>7 DEF Tells
  <2>8. QED BY <2>4, <2>6, <2>7 DEF PostsWhatWasSaid
<1>2. QED BY <1>1, TranscriptInvariant, PTL

\* A tool call is kept once, by its result, which follows its start: events() forgets a call
\* with its result and skips results of calls it does not know, with Slack and with Linear.
THEOREM TranscriptKeepsCallsOnce == TranscriptSpec => []ToolCallsAreKeptOnce
<1>1. ASSUME TranscriptIInv PROVE ToolCallsAreKeptOnce
  <2>1. /\ posted \in Seq(Deliveries) /\ DOMAIN posted = 1..Len(posted)
        /\ KeepsCalls(posted, started, called)
    BY <1>1 DEF TranscriptIInv, TranscriptTypeOK
  <2>2. Visible \subseteq 1..Len(posted)
    BY <2>1 DEF Visible
  <2>3. ASSUME NEW i \in Visible, posted[i].kind = "action", ~posted[i].ephemeral
        PROVE  \E k \in 1..(i - 1) :
                 /\ posted[k] = Action(posted[i].call, TRUE)
                 /\ Provider = "linear" => k \in Visible
    <3>1. PICK k \in 1..(i - 1) : posted[k] = Action(posted[i].call, TRUE)
      BY <2>1, <2>2, <2>3 DEF KeepsCalls
    <3>2. k \in DOMAIN posted
      BY <2>1, <2>2
    <3>3. QED BY <3>1, <3>2 DEF Visible, Posts
  <2>4. QED BY <2>1, <2>2, <2>3 DEF ToolCallsAreKeptOnce, KeepsCalls
<1>2. QED BY <1>1, TranscriptInvariant, PTL
=============================================================================
