---------------------------- MODULE WebhookExchange ----------------------------
(***************************************************************************)
(* What the Relay promises to a provider that posts a webhook, whatever    *)
(* sockets, outboxes and timers stand between: the provider is answered    *)
(* once and the answer never changes, a local response is relayed only for *)
(* a webhook that was handed to the installation, and a webhook that no    *)
(* installation owns is never handed over.                                 *)
(***************************************************************************)
CONSTANT Requests

VARIABLES
  handed,   \* the requests whose frame a socket has taken
  answer    \* what the provider was answered, per request

vars == <<handed, answer>>

Unanswered == {r \in Requests : answer[r] = "none"}

Init ==
  /\ handed = {}
  /\ answer = [r \in Requests |-> "none"]

\* One flush of an outbox hands over several webhooks; when the socket fails in
\* the middle of it, every unanswered webhook of that socket is answered too.
HandOver(out, offline) ==
  /\ \A r \in out : answer[r] # "notFound"
  /\ handed' = handed \cup out
  /\ answer' = [r \in Requests |-> IF r \in offline THEN "offline" ELSE answer[r]]

Respond(r) ==
  /\ r \in handed
  /\ answer' = [answer EXCEPT ![r] = "response"]
  /\ UNCHANGED handed

NotFound(r) ==
  /\ r \notin handed
  /\ answer' = [answer EXCEPT ![r] = "notFound"]
  /\ UNCHANGED handed

Next ==
  \/ \E out \in SUBSET Requests, offline \in SUBSET Unanswered : HandOver(out, offline)
  \/ \E r \in Unanswered : Respond(r) \/ NotFound(r)

Spec == Init /\ [][Next]_vars
=============================================================================
