--------------------------- MODULE SerialConversation ---------------------------
(***************************************************************************)
(* What the coordinator promises to the people of a remote conversation,   *)
(* whatever pool, queue and tables stand between: one message at a time is *)
(* worked on, the messages that arrive meanwhile wait in their order, and  *)
(* none of those is skipped. A message whose work was abandoned stays at   *)
(* the head of the backlog and is worked on again later.                   *)
(***************************************************************************)
EXTENDS Sequences

CONSTANTS Conversations, Messages, None

VARIABLES
  current,   \* the message that is worked on, per conversation, or None
  backlog    \* the messages that wait, with the current one while it is one of them

vars == <<current, backlog>>

Init ==
  /\ current = [c \in Conversations |-> None]
  /\ backlog = [c \in Conversations |-> <<>>]

\* What waits behind the current message.
Behind(c) ==
  IF backlog[c] # <<>> /\ Head(backlog[c]) = current[c] THEN Tail(backlog[c]) ELSE backlog[c]

Begin(c, m) ==
  /\ current[c] = None
  /\ current' = [current EXCEPT ![c] = m]
  /\ UNCHANGED backlog

Queue(c, m) ==
  /\ current[c] # None
  /\ backlog' = [backlog EXCEPT ![c] = Append(@, m)]
  /\ UNCHANGED current

Continue(c) ==
  /\ current[c] # None
  /\ Behind(c) # <<>>
  /\ current' = [current EXCEPT ![c] = Head(Behind(c))]
  /\ backlog' = [backlog EXCEPT ![c] = Behind(c)]

Complete(c) ==
  /\ current[c] # None
  /\ Behind(c) = <<>>
  /\ current' = [current EXCEPT ![c] = None]
  /\ backlog' = [backlog EXCEPT ![c] = <<>>]

Abandon(c) ==
  /\ current[c] # None
  /\ current' = [current EXCEPT ![c] = None]
  /\ UNCHANGED backlog

Next ==
  \E c \in Conversations :
    \/ Continue(c) \/ Complete(c) \/ Abandon(c)
    \/ \E m \in Messages : Begin(c, m) \/ Queue(c, m)

Spec == Init /\ [][Next]_vars
=============================================================================
