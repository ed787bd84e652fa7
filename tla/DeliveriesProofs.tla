----------------------------- MODULE DeliveriesProofs -----------------------------
(***************************************************************************)
(* Proofs about Deliveries, and about SlackMessage, which a connector      *)
(* renders a delivery to.                                                  *)
(*                                                                         *)
(* Deliveries, for any finite set of daemons that share the store, any     *)
(* limits, crashes, restarts and retired sessions: how often a message may *)
(* be tried and posted, that what failed for good is announced and what    *)
(* was settled stays so, that what is being sent is in a worker's hands,   *)
(* and that first attempts come in the order of creation.                  *)
(*                                                                         *)
(* The bound on attempts is a count of claims that are about. A claim that *)
(* has used up the attempts is the last of its kind: what it settles stays *)
(* settled. Any other gives its row back when it fails. Only the start of  *)
(* a daemon makes two of one: it gives back a row that another still       *)
(* sends. So a row's attempts beyond the limit, the row itself while it    *)
(* waits, and the claims of it that have attempts left are together no     *)
(* more than the starts there were.                                        *)
(*                                                                         *)
(* SlackMessage, for any messages and any limits of Slack: that a person   *)
(* can answer with each option, and that the body is shown. Both are about *)
(* sequences that are joined: the controls of one question after another,  *)
(* the units of one line after another, the letters of one chunk after     *)
(* another. FlattenJoins describes FlattenSeq() by the sequences it goes   *)
(* through, whose properties follow by induction over a set of numbers.    *)
(* The letters of a text depend on the fences before them; LettersConcat   *)
(* says how those of two parts combine, which is what cutting a text,      *)
(* repairing its fences and rendering its lines come down to.              *)
(***************************************************************************)
EXTENDS Deliveries, SlackMessage, FiniteSetTheorems, SequenceTheorems, WellFoundedInduction, TLAPS

----------------------------------------------------------------------------
(* The inductive invariant *)

\* What the batch b of a worker says of row d, where t tells whether the provider took its first.
Holds(b, d) == \E k \in 1..Len(b) : b[k].id = d
FreshIn(b, d) == \E k \in 1..Len(b) : b[k].id = d /\ b[k].attempts < MaxAttempts
UntakenIn(b, t, d) == Holds(b, d) /\ ~(t /\ b[1].id = d)

\* The workers that may still post row d, and those whose claim of it has attempts left.
Held(bs, ts, d) == {w \in Workers : UntakenIn(bs[w], ts[w], d)}
Fresh(bs, d) == {w \in Workers : FreshIn(bs[w], d)}

Waits(row) == IF row.status \in {"pending", "retrying"} THEN 1 ELSE 0
Over(row) == IF row.attempts >= MaxAttempts THEN row.attempts - MaxAttempts + 1 ELSE 0

Types ==
  /\ rows \in Seq(Delivery)
  /\ posted \in Seq(Nat) /\ Len(posted) = Len(rows)
  /\ up \in [Workers -> BOOLEAN] /\ taken \in [Workers -> BOOLEAN]
  /\ starts \in Nat
  /\ batch \in [Workers -> Seq(Claim)]

\* A batch has rows of the table, each once.
BatchOK(b, t, n) ==
  /\ \A k \in 1..Len(b) : b[k].id \in 1..n
  /\ \A k, l \in 1..Len(b) : b[k].id = b[l].id => k = l
  /\ t => b # <<>>

Batches == \A w \in Workers : BatchOK(batch[w], taken[w], Len(rows))

Started == (\E w \in Workers : up[w]) => starts >= 1

PostsAreCharged ==
  \A d \in 1..Len(rows) : posted[d] + Cardinality(Held(batch, taken, d)) <= rows[d].attempts

ClaimsAreCounted ==
  \A d \in 1..Len(rows) :
    Over(rows[d]) + Waits(rows[d]) + Cardinality(Fresh(batch, d)) <= starts

\* An error message that announces a failure is of a row that announces none itself.
Fallbacks ==
  \A f \in 1..Len(rows) : rows[f].fallbackFor # None =>
    rows[f].fallbackFor \in 1..Len(rows) /\ rows[rows[f].fallbackFor].fallbackFor = None

IInv ==
  /\ Types /\ Batches /\ Started
  /\ PostsAreCharged /\ ClaimsAreCounted
  /\ Fallbacks

----------------------------------------------------------------------------
(* Lemmas about the operators *)

LEMMA Constants == MaxAttempts \in Nat \ {0} /\ Limit \in Nat \ {0} /\ None \notin Nat
BY AttemptsAssumption, NoneAssumption

\* Workers are finite, and so are those that hold a row.
LEMMA FiniteWorkers ==
  ASSUME NEW S \in SUBSET Workers
  PROVE  IsFiniteSet(S) /\ Cardinality(S) \in Nat
BY WorkersAssumption, FS_Subset, FS_CardinalityType

LEMMA FewerWorkers ==
  ASSUME NEW S \in SUBSET Workers, NEW T \in SUBSET Workers, T \subseteq S
  PROVE  Cardinality(T) <= Cardinality(S)
BY FiniteWorkers, FS_Subset

LEMMA OneWorkerLess ==
  ASSUME NEW S \in SUBSET Workers, NEW T \in SUBSET Workers, NEW w \in S, T \subseteq S \ {w}
  PROVE  Cardinality(T) + 1 <= Cardinality(S)
<1>1. Cardinality(S \ {w}) = Cardinality(S) - 1 /\ IsFiniteSet(S \ {w})
  BY FiniteWorkers, FS_RemoveElement
<1>2. Cardinality(T) <= Cardinality(S \ {w})
  BY <1>1, FS_Subset
<1>3. Cardinality(T) \in Nat /\ Cardinality(S) \in Nat
  BY FiniteWorkers
<1>4. QED BY <1>1, <1>2, <1>3

LEMMA OneWorkerMore ==
  ASSUME NEW S \in SUBSET Workers, NEW T \in SUBSET Workers, NEW w, T \subseteq S \cup {w}
  PROVE  Cardinality(T) <= Cardinality(S) + 1
<1>1. IsFiniteSet(S \cup {w}) /\ Cardinality(S \cup {w}) <= Cardinality(S) + 1
  BY FiniteWorkers, FS_AddElement
<1>2. Cardinality(T) <= Cardinality(S \cup {w})
  BY <1>1, FS_Subset
<1>3. Cardinality(T) \in Nat /\ Cardinality(S) \in Nat /\ Cardinality(S \cup {w}) \in Nat
  BY <1>1, FiniteWorkers, FS_CardinalityType
<1>4. QED BY <1>1, <1>2, <1>3

LEMMA HeldAndFresh ==
  \A bs, ts, d : Held(bs, ts, d) \in SUBSET Workers /\ Fresh(bs, d) \in SUBSET Workers
BY DEF Held, Fresh

LEMMA RowType ==
  ASSUME NEW table \in Seq(Delivery), NEW d \in 1..Len(table)
  PROVE  /\ table[d] \in Delivery /\ table[d].attempts \in Nat
         /\ Waits(table[d]) \in {0, 1} /\ Over(table[d]) \in Nat
<1>1. table[d] \in Delivery
  BY ElementOfSeq
<1>2. QED BY <1>1, Constants DEF Delivery, Waits, Over

\* What is left of a batch when its first row is dealt with.
LEMMA TailOfBatch ==
  ASSUME NEW b \in Seq(Claim), NEW t \in BOOLEAN, NEW n \in Nat, BatchOK(b, t, n), b # <<>>
  PROVE  /\ Head(b) \in Claim /\ Head(b) = b[1] /\ Head(b).id \in 1..n
         /\ Tail(b) \in Seq(Claim) /\ BatchOK(Tail(b), FALSE, n)
         /\ ~Holds(Tail(b), Head(b).id)
         /\ \A d : Holds(Tail(b), d) => UntakenIn(b, t, d)
         /\ \A d : FreshIn(Tail(b), d) => FreshIn(b, d)
<1>1. /\ Head(b) \in Claim /\ Tail(b) \in Seq(Claim) /\ Len(Tail(b)) = Len(b) - 1
      /\ \A i \in 1..Len(Tail(b)) : Tail(b)[i] = b[i + 1]
  BY HeadTailProperties
<1>2. Len(b) \in Nat \ {0} /\ Head(b) = b[1]
  BY EmptySeq
<1>3. ASSUME NEW i \in 1..Len(Tail(b))
      PROVE  i + 1 \in 1..Len(b) /\ i + 1 # 1 /\ Tail(b)[i] = b[i + 1]
  BY <1>1, <1>2
<1>4. 1 \in 1..Len(b)
  BY <1>2
<1>5. BatchOK(Tail(b), FALSE, n)
  <2>1. \A i \in 1..Len(Tail(b)) : Tail(b)[i].id \in 1..n
    BY <1>3 DEF BatchOK
  <2>2. ASSUME NEW i \in 1..Len(Tail(b)), NEW j \in 1..Len(Tail(b)), Tail(b)[i].id = Tail(b)[j].id
        PROVE  i = j
    <3>1. i + 1 = j + 1
      BY <1>3, <2>2 DEF BatchOK
    <3>2. QED BY <1>1, <3>1
  <2>3. QED BY <2>1, <2>2 DEF BatchOK
<1>6. ~Holds(Tail(b), Head(b).id)
  BY <1>2, <1>3, <1>4 DEF BatchOK, Holds
<1>7. \A d : Holds(Tail(b), d) => UntakenIn(b, t, d)
  BY <1>2, <1>3, <1>6 DEF Holds, UntakenIn
<1>8. \A d : FreshIn(Tail(b), d) => FreshIn(b, d)
  BY <1>3 DEF FreshIn
<1>9. Head(b).id \in 1..n
  BY <1>2, <1>4 DEF BatchOK
<1>10. QED BY <1>1, <1>2, <1>5, <1>6, <1>7, <1>8, <1>9

LEMMA EmptyBatch ==
  ASSUME NEW n \in Nat
  PROVE  /\ <<>> \in Seq(Claim) /\ BatchOK(<<>>, FALSE, n)
         /\ \A d : ~Holds(<<>>, d) /\ ~FreshIn(<<>>, d)
<1>1. <<>> \in Seq(Claim) /\ Len(<<>>) = 0
  BY EmptySeq
<1>2. QED BY <1>1 DEF BatchOK, Holds, FreshIn

----------------------------------------------------------------------------
(* It holds initially *)

LEMMA InitInv == Init => IInv
<1> SUFFICES ASSUME Init PROVE IInv
  OBVIOUS
<1>1. /\ rows = <<>> /\ posted = <<>> /\ Len(rows) = 0 /\ Len(posted) = 0
      /\ rows \in Seq(Delivery) /\ posted \in Seq(Nat)
  BY EmptySeq DEF Init
<1>2. Types /\ Batches
  BY <1>1, EmptyBatch DEF Init, Types, Batches
<1>3. Started
  BY DEF Init, Started
<1>4. 1..Len(rows) = {}
  BY <1>1
<1>5. PostsAreCharged /\ ClaimsAreCounted /\ Fallbacks
  BY <1>4 DEF PostsAreCharged, ClaimsAreCounted, Fallbacks
<1>6. QED BY <1>2, <1>3, <1>5 DEF IInv

----------------------------------------------------------------------------
(* What marking a row does *)

LEMMA SequenceOfRows ==
  ASSUME rows \in Seq(Delivery), NEW f, f = [d \in Ids |-> f[d]], \A d \in 1..Len(rows) : f[d] \in Delivery
  PROVE  f \in Seq(Delivery) /\ Len(f) = Len(rows)
<1>1. Len(rows) \in Nat /\ Ids = 1..Len(rows)
  BY LenProperties DEF Ids
<1>2. f \in [1..Len(rows) -> Delivery]
  BY <1>1
<1>3. QED BY <1>1, <1>2, SeqDef, LenProperties

LEMMA MarkChanges ==
  ASSUME rows \in Seq(Delivery), NEW c \in 1..Len(rows), NEW from,
         NEW to \in {"pending", "sending", "retrying", "delivered", "failed"}
  PROVE  LET m == Mark(c, from, to)
         IN  /\ m \in Seq(Delivery) /\ Len(m) = Len(rows)
             /\ \A d \in 1..Len(rows) : d # c => m[d] = rows[d]
             /\ \A d \in 1..Len(rows) :
                  m[d].attempts = rows[d].attempts /\ m[d].fallbackFor = rows[d].fallbackFor
             /\ m[c].status = IF rows[c].status \in from THEN to ELSE rows[c].status
<1> DEFINE m == Mark(c, from, to)
           st == IF rows[c].status \in from THEN to ELSE rows[c].status
<1>1. Ids = 1..Len(rows) /\ rows = [d \in Ids |-> rows[d]]
  BY LenProperties, SeqDef DEF Ids
<1>2. rows[c] \in Delivery
  BY ElementOfSeq
<1>3. st \in {"pending", "sending", "retrying", "delivered", "failed"}
  BY <1>2 DEF Delivery
<1>4. m = [rows EXCEPT ![c] = [rows[c] EXCEPT !.status = st]]
  BY DEF Mark
<1> HIDE DEF m, st
<1>5. /\ m = [d \in Ids |-> m[d]] /\ m[c] = [rows[c] EXCEPT !.status = st]
      /\ \A d \in 1..Len(rows) : d # c => m[d] = rows[d]
  BY <1>1, <1>4
<1>6. /\ m[c] \in Delivery /\ m[c].status = st
      /\ m[c].attempts = rows[c].attempts /\ m[c].fallbackFor = rows[c].fallbackFor
  <2> DEFINE r == rows[c]
  <2>1. r \in Delivery /\ m[c] = [r EXCEPT !.status = st]
    BY <1>2, <1>5
  <2> HIDE DEF r
  <2>2. /\ m[c] \in Delivery /\ m[c].status = st
        /\ m[c].attempts = r.attempts /\ m[c].fallbackFor = r.fallbackFor
    BY ONLY <2>1, <1>3 DEF Delivery
  <2>3. QED BY <2>2 DEF r
<1>7. \A d \in 1..Len(rows) : m[d] \in Delivery
  BY <1>5, <1>6, ElementOfSeq
<1>8. m \in Seq(Delivery) /\ Len(m) = Len(rows)
  BY <1>5, <1>7, SequenceOfRows
<1>9. QED BY <1>5, <1>6, <1>8 DEF m, st

----------------------------------------------------------------------------
(* Steps that charge nothing, post nothing and fail nothing *)

SameRows ==
  /\ Len(rows') = Len(rows)
  /\ \A d \in 1..Len(rows) :
       rows'[d].attempts = rows[d].attempts /\ rows'[d].fallbackFor = rows[d].fallbackFor

LEMMA PostsStay ==
  ASSUME Types, Types', SameRows, PostsAreCharged, posted' = posted,
         \A w \in Workers, d \in 1..Len(rows) :
           UntakenIn(batch'[w], taken'[w], d) => UntakenIn(batch[w], taken[w], d)
  PROVE  PostsAreCharged'
<1> SUFFICES ASSUME NEW d \in 1..Len(rows)
             PROVE  posted'[d] + Cardinality(Held(batch', taken', d)) <= rows'[d].attempts
  BY DEF PostsAreCharged, SameRows
<1>1. Held(batch', taken', d) \subseteq Held(batch, taken, d)
  BY DEF Held
<1>2. Cardinality(Held(batch', taken', d)) <= Cardinality(Held(batch, taken, d))
  BY <1>1, HeldAndFresh, FewerWorkers
<1>3. Cardinality(Held(batch', taken', d)) \in Nat /\ Cardinality(Held(batch, taken, d)) \in Nat
  BY HeldAndFresh, FiniteWorkers
<1>4. posted[d] \in Nat /\ rows[d].attempts \in Nat
  BY RowType, ElementOfSeq DEF Types
<1>5. QED BY <1>2, <1>3, <1>4 DEF PostsAreCharged, SameRows

LEMMA TokensStay ==
  ASSUME Types, Types', SameRows, ClaimsAreCounted,
         \A d \in 1..Len(rows) : Waits(rows'[d]) + starts <= Waits(rows[d]) + starts',
         \A w \in Workers, d \in 1..Len(rows) : FreshIn(batch'[w], d) => FreshIn(batch[w], d)
  PROVE  ClaimsAreCounted'
<1> SUFFICES ASSUME NEW d \in 1..Len(rows)
             PROVE  Over(rows'[d]) + Waits(rows'[d]) + Cardinality(Fresh(batch', d)) <= starts'
  BY DEF ClaimsAreCounted, SameRows
<1>1. Fresh(batch', d) \subseteq Fresh(batch, d)
  BY DEF Fresh
<1>2. Cardinality(Fresh(batch', d)) <= Cardinality(Fresh(batch, d))
  BY <1>1, HeldAndFresh, FewerWorkers
<1>3. Cardinality(Fresh(batch', d)) \in Nat /\ Cardinality(Fresh(batch, d)) \in Nat
  BY HeldAndFresh, FiniteWorkers
<1>4. Over(rows'[d]) = Over(rows[d])
  BY DEF SameRows, Over
<1>5. Over(rows[d]) \in Nat /\ Waits(rows[d]) \in {0, 1} /\ starts \in Nat
  BY RowType DEF Types
<1>6. Waits(rows'[d]) \in {0, 1} /\ starts' \in Nat
  BY DEF Types, Waits
<1>7. Over(rows[d]) + Waits(rows[d]) + Cardinality(Fresh(batch, d)) <= starts
  BY DEF ClaimsAreCounted
<1>8. Waits(rows'[d]) + starts <= Waits(rows[d]) + starts'
  OBVIOUS
<1>9. QED BY <1>2, <1>3, <1>4, <1>5, <1>6, <1>7, <1>8

LEMMA FallbacksStay ==
  ASSUME SameRows, Fallbacks
  PROVE  Fallbacks'
BY DEF SameRows, Fallbacks

\* A worker is done with the first row of its batch.
LEMMA Popped ==
  ASSUME Types, Batches, NEW w \in Workers, batch[w] # <<>>, Pop(w), Len(rows) \in Nat
  PROVE  /\ batch' \in [Workers -> Seq(Claim)] /\ taken' \in [Workers -> BOOLEAN]
         /\ \A v \in Workers : BatchOK(batch'[v], taken'[v], Len(rows))
         /\ \A v \in Workers, d \in 1..Len(rows) :
              /\ UntakenIn(batch'[v], taken'[v], d) => UntakenIn(batch[v], taken[v], d)
              /\ FreshIn(batch'[v], d) => FreshIn(batch[v], d)
         /\ ~Holds(batch'[w], Head(batch[w]).id)
         /\ Head(batch[w]) = batch[w][1] /\ 1 \in 1..Len(batch[w])
         /\ Head(batch[w]).id \in 1..Len(rows) /\ Head(batch[w]).attempts \in Nat
<1> DEFINE b == batch[w]  t == taken[w]  n == Len(rows)
<1>1. b \in Seq(Claim) /\ t \in BOOLEAN /\ BatchOK(b, t, n)
  BY DEF Types, Batches
<1>2. /\ batch' = [batch EXCEPT ![w] = Tail(b)] /\ taken' = [taken EXCEPT ![w] = FALSE]
  BY DEF Pop, ContinueWith
<1>3. /\ Head(b) \in Claim /\ Head(b) = b[1] /\ Head(b).id \in 1..n
      /\ Tail(b) \in Seq(Claim) /\ BatchOK(Tail(b), FALSE, n)
      /\ ~Holds(Tail(b), Head(b).id)
      /\ \A d : Holds(Tail(b), d) => UntakenIn(b, t, d)
      /\ \A d : FreshIn(Tail(b), d) => FreshIn(b, d)
  <2> HIDE DEF b, t, n
  <2>1. b # <<>> /\ n \in Nat
    BY DEF b, n
  <2>2. QED BY <1>1, <2>1, TailOfBatch
<1>4. 1 \in 1..Len(b)
  BY <1>1, EmptySeq
<1>5. batch'[w] = Tail(b) /\ taken'[w] = FALSE
  BY <1>2 DEF Types
<1>6. \A v \in Workers : v # w => batch'[v] = batch[v] /\ taken'[v] = taken[v]
  BY <1>2 DEF Types
<1>7. batch' \in [Workers -> Seq(Claim)] /\ taken' \in [Workers -> BOOLEAN]
  BY <1>2, <1>3 DEF Types
<1>8. \A v \in Workers : BatchOK(batch'[v], taken'[v], n)
  BY <1>3, <1>5, <1>6 DEF Batches
<1>9. \A d : UntakenIn(Tail(b), FALSE, d) => UntakenIn(b, t, d)
  BY <1>3 DEF UntakenIn
<1>10. Head(b).attempts \in Nat
  BY <1>3 DEF Claim
<1>11. QED BY <1>3, <1>4, <1>5, <1>6, <1>7, <1>8, <1>9, <1>10

\* A worker loses its batch.
LEMMA Dropped ==
  ASSUME Types, Batches, NEW w \in Workers, Len(rows) \in Nat,
         batch' = [batch EXCEPT ![w] = <<>>], taken' = [taken EXCEPT ![w] = FALSE]
  PROVE  /\ batch' \in [Workers -> Seq(Claim)] /\ taken' \in [Workers -> BOOLEAN]
         /\ \A v \in Workers : BatchOK(batch'[v], taken'[v], Len(rows))
         /\ \A v \in Workers, d \in 1..Len(rows) :
              /\ UntakenIn(batch'[v], taken'[v], d) => UntakenIn(batch[v], taken[v], d)
              /\ FreshIn(batch'[v], d) => FreshIn(batch[v], d)
<1>1. /\ <<>> \in Seq(Claim) /\ BatchOK(<<>>, FALSE, Len(rows))
      /\ \A d : ~Holds(<<>>, d) /\ ~FreshIn(<<>>, d)
  BY EmptyBatch
<1>2. /\ batch'[w] = <<>> /\ taken'[w] = FALSE
      /\ \A v \in Workers : v # w => batch'[v] = batch[v] /\ taken'[v] = taken[v]
      /\ batch' \in [Workers -> Seq(Claim)] /\ taken' \in [Workers -> BOOLEAN]
  BY <1>1 DEF Types
<1>3. QED BY <1>1, <1>2 DEF Batches, UntakenIn

----------------------------------------------------------------------------
(* Every action preserves it *)

\* What a step proves that changes the rows and batches in a regular way.
LEMMA QuietStep ==
  ASSUME IInv, Types', Batches', Started', SameRows, posted' = posted,
         \A w \in Workers, d \in 1..Len(rows) :
           UntakenIn(batch'[w], taken'[w], d) => UntakenIn(batch[w], taken[w], d),
         \A w \in Workers, d \in 1..Len(rows) : FreshIn(batch'[w], d) => FreshIn(batch[w], d),
         \A d \in 1..Len(rows) : Waits(rows'[d]) + starts <= Waits(rows[d]) + starts'
  PROVE  IInv'
<1>1. PostsAreCharged'
  BY PostsStay DEF IInv
<1>2. ClaimsAreCounted'
  BY TokensStay DEF IInv
<1>3. Fallbacks'
  BY FallbacksStay DEF IInv
<1>4. QED BY <1>1, <1>2, <1>3 DEF IInv

LEMMA DeliverInv ==
  ASSUME IInv, NEW w \in Workers, Deliver(w)
  PROVE  IInv'
<1> DEFINE b == batch[w]  c == Head(b).id
<1>1. /\ b # <<>> /\ ~taken[w] /\ up[w] /\ rows' = rows /\ batch' = batch
      /\ up' = up /\ starts' = starts
      /\ taken' = [taken EXCEPT ![w] = TRUE] /\ posted' = [posted EXCEPT ![c] = @ + 1]
  BY DEF Deliver, IsDelivering, InLoop
<1>2. Types /\ Batches /\ Started /\ PostsAreCharged /\ ClaimsAreCounted /\ Fallbacks
  BY DEF IInv
<1>3. /\ b \in Seq(Claim) /\ BatchOK(b, taken[w], Len(rows)) /\ Len(rows) \in Nat
  BY <1>2, LenProperties DEF Types, Batches
<1>4. Head(b) = b[1] /\ 1 \in 1..Len(b) /\ c \in 1..Len(rows)
  <2>1. Len(b) \in Nat \ {0} /\ Head(b) = b[1]
    BY <1>1, <1>3, EmptySeq
  <2>2. 1 \in 1..Len(b)
    BY <2>1
  <2>3. QED BY <1>3, <2>1, <2>2 DEF BatchOK
<1>5. posted' \in Seq(Nat) /\ Len(posted') = Len(posted) /\ posted[c] \in Nat /\ posted'[c] = posted[c] + 1
      /\ \A d \in 1..Len(rows) : d # c => posted'[d] = posted[d]
  <2>1. posted \in Seq(Nat) /\ c \in 1..Len(posted)
    BY <1>2, <1>4 DEF Types
  <2>2. posted[c] \in Nat /\ posted[c] + 1 \in Nat
    BY <2>1, ElementOfSeq
  <2>3. posted' = [posted EXCEPT ![c] = posted[c] + 1]
    BY <1>1
  <2> HIDE DEF c
  <2>4. posted' \in Seq(Nat) /\ Len(posted') = Len(posted) /\ posted'[c] = posted[c] + 1
        /\ \A d \in 1..Len(posted) : d # c => posted'[d] = posted[d]
    BY <2>1, <2>2, <2>3, ExceptSeq
  <2>5. QED BY <1>2, <2>2, <2>4 DEF Types
<1>6. /\ taken' \in [Workers -> BOOLEAN] /\ taken'[w]
      /\ \A v \in Workers : v # w => taken'[v] = taken[v]
  BY <1>1, <1>2 DEF Types
<1>7. Types' /\ Batches' /\ Started'
  BY <1>1, <1>2, <1>5, <1>6 DEF Types, Batches, BatchOK, Started
<1>8. PostsAreCharged'
  <2> SUFFICES ASSUME NEW d \in 1..Len(rows)
               PROVE  posted'[d] + Cardinality(Held(batch, taken', d)) <= rows[d].attempts
    BY <1>1 DEF PostsAreCharged
  <2> DEFINE S == Held(batch, taken, d)  T == Held(batch, taken', d)
  <2>1. S \in SUBSET Workers /\ T \in SUBSET Workers
    BY HeldAndFresh
  <2>2. T \subseteq S
    BY <1>1, <1>6 DEF Held, UntakenIn
  <2>3. posted[d] + Cardinality(S) <= rows[d].attempts /\ posted[d] \in Nat /\ rows[d].attempts \in Nat
    BY <1>2, RowType, ElementOfSeq DEF PostsAreCharged, Types
  <2>4. Cardinality(S) \in Nat /\ Cardinality(T) \in Nat
    BY <2>1, FiniteWorkers
  <2>5. CASE d = c
    <3>1. w \in S
      BY <1>1, <1>4, <2>5 DEF Held, UntakenIn, Holds
    <3>2. w \notin T
      BY <1>4, <1>6, <2>5 DEF Held, UntakenIn
    <3>3. T \subseteq S \ {w}
      BY <2>2, <3>2
    <3> HIDE DEF S, T
    <3>4. Cardinality(T) + 1 <= Cardinality(S)
      BY <2>1, <3>1, <3>3, OneWorkerLess
    <3>5. posted'[d] = posted[d] + 1
      BY <1>5, <2>5
    <3>6. posted'[d] + Cardinality(T) <= rows[d].attempts
      BY <2>3, <2>4, <3>4, <3>5
    <3>7. QED BY <3>6 DEF T
  <2>6. CASE d # c
    <3>1. posted'[d] = posted[d]
      BY <1>5, <2>6
    <3>2. Cardinality(T) <= Cardinality(S)
      BY <2>1, <2>2, FewerWorkers
    <3>3. QED BY <2>3, <2>4, <3>1, <3>2
  <2>7. QED BY <2>5, <2>6
<1>9. ClaimsAreCounted' /\ Fallbacks'
  BY <1>1, <1>2 DEF ClaimsAreCounted, Fallbacks
<1>10. QED BY <1>7, <1>8, <1>9 DEF IInv

LEMMA DeliveredInv ==
  ASSUME IInv, NEW w \in Workers, Delivered(w)
  PROVE  IInv'
<1> DEFINE c == Head(batch[w]).id
<1>1. /\ batch[w] # <<>> /\ up' = up /\ starts' = starts /\ posted' = posted
      /\ rows' = Mark(c, Open, "delivered") /\ Pop(w)
  BY DEF Delivered, IsDelivering, InLoop
<1>2. Types /\ Batches /\ Started /\ Len(rows) \in Nat
  BY LenProperties DEF IInv, Types
<1>4. /\ batch' \in [Workers -> Seq(Claim)] /\ taken' \in [Workers -> BOOLEAN]
      /\ \A v \in Workers : BatchOK(batch'[v], taken'[v], Len(rows))
      /\ \A v \in Workers, d \in 1..Len(rows) :
           /\ UntakenIn(batch'[v], taken'[v], d) => UntakenIn(batch[v], taken[v], d)
           /\ FreshIn(batch'[v], d) => FreshIn(batch[v], d)
      /\ c \in 1..Len(rows)
  BY <1>1, <1>2, Popped
<1> HIDE DEF c
<1>5. /\ rows' \in Seq(Delivery) /\ Len(rows') = Len(rows)
      /\ \A d \in 1..Len(rows) : d # c => rows'[d] = rows[d]
      /\ \A d \in 1..Len(rows) :
           rows'[d].attempts = rows[d].attempts /\ rows'[d].fallbackFor = rows[d].fallbackFor
      /\ rows'[c].status = IF rows[c].status \in Open THEN "delivered" ELSE rows[c].status
  BY <1>1, <1>2, <1>4, MarkChanges DEF Types
<1>6. Types' /\ Batches' /\ Started' /\ SameRows
  BY <1>1, <1>2, <1>4, <1>5 DEF Types, Batches, Started, SameRows
<1>7. \A d \in 1..Len(rows) : Waits(rows[d]) \in {0, 1} /\ starts \in Nat
  BY <1>2 DEF Waits, Types
<1>8. \A d \in 1..Len(rows) : Waits(rows'[d]) + starts <= Waits(rows[d]) + starts'
  BY <1>1, <1>5, <1>7 DEF Waits, Open
<1>9. QED BY <1>1, <1>4, <1>6, <1>8, QuietStep

\* The row that falls due again takes the place of the claim that had attempts left.
LEMMA AttemptFailsInv ==
  ASSUME IInv, NEW w \in Workers, AttemptFails(w)
  PROVE  IInv'
<1> DEFINE claim == Head(batch[w])  c == claim.id
<1>1. /\ batch[w] # <<>> /\ up' = up /\ starts' = starts
      /\ posted' = posted /\ ~IsExhausted(claim)
      /\ rows' = Mark(c, {"sending"}, "retrying") /\ Pop(w)
  BY DEF AttemptFails, IsDelivering, InLoop
<1>2. Types /\ Batches /\ Started /\ Len(rows) \in Nat
  BY LenProperties DEF IInv, Types
<1>3. /\ batch' \in [Workers -> Seq(Claim)] /\ taken' \in [Workers -> BOOLEAN]
      /\ \A v \in Workers : BatchOK(batch'[v], taken'[v], Len(rows))
      /\ \A v \in Workers, d \in 1..Len(rows) :
           /\ UntakenIn(batch'[v], taken'[v], d) => UntakenIn(batch[v], taken[v], d)
           /\ FreshIn(batch'[v], d) => FreshIn(batch[v], d)
      /\ ~Holds(batch'[w], c)
      /\ claim = batch[w][1] /\ 1 \in 1..Len(batch[w])
      /\ c \in 1..Len(rows) /\ claim.attempts \in Nat
  BY <1>1, <1>2, Popped
<1>4. FreshIn(batch[w], c) /\ ~FreshIn(batch'[w], c)
  BY <1>1, <1>3, Constants DEF FreshIn, Holds, IsExhausted
<1> HIDE DEF claim, c
<1>5. /\ rows' \in Seq(Delivery) /\ Len(rows') = Len(rows)
      /\ \A d \in 1..Len(rows) : d # c => rows'[d] = rows[d]
      /\ \A d \in 1..Len(rows) :
           rows'[d].attempts = rows[d].attempts /\ rows'[d].fallbackFor = rows[d].fallbackFor
      /\ rows'[c].status = IF rows[c].status \in {"sending"} THEN "retrying" ELSE rows[c].status
  BY <1>1, <1>2, <1>3, MarkChanges DEF Types
<1>6. Types' /\ Batches' /\ Started' /\ SameRows
  BY <1>1, <1>2, <1>3, <1>5 DEF Types, Batches, Started, SameRows
<1>8. PostsAreCharged' /\ Fallbacks'
  BY <1>1, <1>2, <1>3, <1>6, PostsStay, FallbacksStay DEF IInv
<1>9. ClaimsAreCounted'
  <2> SUFFICES ASSUME NEW d \in 1..Len(rows)
               PROVE  Over(rows'[d]) + Waits(rows'[d]) + Cardinality(Fresh(batch', d)) <= starts'
    BY <1>5 DEF ClaimsAreCounted
  <2> DEFINE S == Fresh(batch, d)  T == Fresh(batch', d)
  <2>1. S \in SUBSET Workers /\ T \in SUBSET Workers
    BY HeldAndFresh
  <2>2. Cardinality(S) \in Nat /\ Cardinality(T) \in Nat
    BY <2>1, FiniteWorkers
  <2>3. T \subseteq S
    BY <1>3 DEF Fresh
  <2>4. Over(rows'[d]) = Over(rows[d])
    BY <1>5 DEF Over
  <2>5. /\ Over(rows[d]) \in Nat /\ Waits(rows[d]) \in {0, 1} /\ starts \in Nat
        /\ Over(rows[d]) + Waits(rows[d]) + Cardinality(S) <= starts
    BY <1>2, RowType DEF IInv, ClaimsAreCounted, Types
  <2>6. CASE d = c
    <3>1. w \in S /\ w \notin T
      BY <1>4, <2>6 DEF Fresh
    <3>2. T \subseteq S \ {w}
      BY <2>3, <3>1
    <3>3. Waits(rows'[d]) \in {0, 1} /\ Waits(rows'[d]) <= Waits(rows[d]) + 1
      BY DEF Waits
    <3> HIDE DEF S, T
    <3>4. Cardinality(T) + 1 <= Cardinality(S)
      BY <2>1, <3>1, <3>2, OneWorkerLess
    <3>5. Over(rows'[d]) + Waits(rows'[d]) + Cardinality(T) <= starts
      BY <2>2, <2>4, <2>5, <3>3, <3>4
    <3>6. QED BY <1>1, <3>5 DEF T
  <2>7. CASE d # c
    <3>1. Waits(rows'[d]) = Waits(rows[d])
      BY <1>5, <2>7
    <3>2. Cardinality(T) <= Cardinality(S)
      BY <2>1, <2>3, FewerWorkers
    <3>3. QED BY <1>1, <2>2, <2>4, <2>5, <3>1, <3>2
  <2>8. QED BY <2>6, <2>7
<1>10. QED BY <1>6, <1>8, <1>9 DEF IInv

\* A daemon dies, or an exception ends its drain().
LEMMA CrashInv ==
  ASSUME IInv, NEW w \in Workers, Crash(w) \/ Throw(w)
  PROVE  IInv'
<1>1. /\ rows' = rows /\ starts' = starts /\ posted' = posted
      /\ up' \in {up, [up EXCEPT ![w] = FALSE]}
      /\ batch' = [batch EXCEPT ![w] = <<>>] /\ taken' = [taken EXCEPT ![w] = FALSE]
  BY DEF Crash, Throw, EndDrain, ContinueWith
<1>2. Types /\ Batches /\ Started /\ Len(rows) \in Nat
  BY LenProperties DEF IInv, Types
<1>3. /\ batch' \in [Workers -> Seq(Claim)] /\ taken' \in [Workers -> BOOLEAN]
      /\ \A v \in Workers : BatchOK(batch'[v], taken'[v], Len(rows))
      /\ \A v \in Workers, d \in 1..Len(rows) :
           /\ UntakenIn(batch'[v], taken'[v], d) => UntakenIn(batch[v], taken[v], d)
           /\ FreshIn(batch'[v], d) => FreshIn(batch[v], d)
  BY <1>1, <1>2, Dropped
<1>4. up' \in [Workers -> BOOLEAN] /\ \A v \in Workers : up'[v] => up[v]
  BY <1>1, <1>2 DEF Types
<1>5. Types' /\ Batches' /\ Started' /\ SameRows
  BY <1>1, <1>2, <1>3, <1>4 DEF Types, Batches, Started, SameRows
<1>6. \A d \in 1..Len(rows) : Waits(rows'[d]) + starts <= Waits(rows[d]) + starts'
  <2>1. \A d \in 1..Len(rows) : Waits(rows[d]) \in {0, 1} /\ starts \in Nat
    BY <1>2 DEF Waits, Types
  <2>2. QED BY <1>1, <2>1
<1>7. QED BY <1>1, <1>3, <1>5, <1>6, QuietStep

LEMMA FallsDueInv ==
  ASSUME IInv, NEW d \in Ids, FallsDue(d)
  PROVE  IInv'
BY DEF IInv, FallsDue, workerVars, Types, Batches, Started, PostsAreCharged, ClaimsAreCounted,
       Fallbacks

LEMMA RetireInv ==
  ASSUME IInv, NEW s \in Sessions, Retire(s)
  PROVE  IInv'
<1>1. /\ posted' = posted
      /\ up' = up /\ starts' = starts /\ batch' = batch /\ taken' = taken
      /\ rows' = [d \in Ids |-> [rows[d] EXCEPT !.session = IF rows[d].session = s THEN None ELSE rows[d].session]]
  BY DEF Retire, workerVars
<1>2. Types /\ Batches /\ Started /\ Len(rows) \in Nat /\ Ids = 1..Len(rows)
  BY LenProperties DEF IInv, Types, Ids
<1>3. ASSUME NEW d \in 1..Len(rows)
      PROVE  /\ rows'[d] \in Delivery /\ rows'[d].status = rows[d].status
             /\ rows'[d].attempts = rows[d].attempts /\ rows'[d].fallbackFor = rows[d].fallbackFor
  <2> DEFINE r == rows[d]  t == IF r.session = s THEN None ELSE r.session
  <2>1. r \in Delivery /\ t \in Sessions \cup {None} /\ rows'[d] = [r EXCEPT !.session = t]
    BY <1>1, <1>2, RowType DEF Types, Delivery
  <2> HIDE DEF r, t
  <2>2. /\ rows'[d] \in Delivery /\ rows'[d].status = r.status
        /\ rows'[d].attempts = r.attempts /\ rows'[d].fallbackFor = r.fallbackFor
    BY ONLY <2>1 DEF Delivery
  <2>3. QED BY <2>2 DEF r
<1>4. rows' \in Seq(Delivery) /\ Len(rows') = Len(rows)
  <2> DEFINE f == rows'
  <2>1. f = [d \in Ids |-> f[d]] /\ \A d \in 1..Len(rows) : f[d] \in Delivery
    BY <1>1, <1>3
  <2>2. rows \in Seq(Delivery)
    BY <1>2 DEF Types
  <2> HIDE DEF f
  <2>3. f \in Seq(Delivery) /\ Len(f) = Len(rows)
    BY <2>1, <2>2, SequenceOfRows
  <2>4. QED BY <2>3 DEF f
<1>5. Types' /\ Batches' /\ Started' /\ SameRows
  BY <1>1, <1>2, <1>3, <1>4 DEF Types, Batches, Started, SameRows
<1>6. \A v \in Workers, d \in 1..Len(rows) :
           /\ UntakenIn(batch'[v], taken'[v], d) => UntakenIn(batch[v], taken[v], d)
           /\ FreshIn(batch'[v], d) => FreshIn(batch[v], d)
  BY <1>1
<1>7. \A d \in 1..Len(rows) : Waits(rows'[d]) + starts <= Waits(rows[d]) + starts'
  <2>1. \A d \in 1..Len(rows) : Waits(rows[d]) \in {0, 1} /\ starts \in Nat
    BY <1>2 DEF Waits, Types
  <2>2. \A d \in 1..Len(rows) : Waits(rows'[d]) = Waits(rows[d])
    BY <1>3 DEF Waits
  <2>3. ASSUME NEW d \in 1..Len(rows)
        PROVE  Waits(rows'[d]) + starts <= Waits(rows[d]) + starts'
    <3>1. Waits(rows'[d]) = Waits(rows[d]) /\ starts' = starts
      BY <1>1, <2>2
    <3>2. QED BY <2>1, <3>1
  <2>4. QED BY <2>3
<1>8. QED BY <1>1, <1>5, <1>6, <1>7, QuietStep

\* The start of a daemon is what pays for the rows it gives back.
LEMMA StartInv ==
  ASSUME IInv, NEW w \in Workers, Start(w)
  PROVE  IInv'
<1> DEFINE sending == {d \in Ids : rows[d].status = "sending"}
<1>1. /\ posted' = posted /\ starts' = starts + 1
      /\ up' = [up EXCEPT ![w] = TRUE] /\ batch' = batch /\ taken' = taken
      /\ rows' = [d \in Ids |->
           IF d \in sending THEN [rows[d] EXCEPT !.status = "retrying"] ELSE rows[d]]
  BY DEF Start, RecoverSendingDeliveries
<1>2. Types /\ Batches /\ Started /\ Len(rows) \in Nat /\ Ids = 1..Len(rows) /\ starts \in Nat
  BY LenProperties DEF IInv, Types, Ids
<1>3. ASSUME NEW d \in 1..Len(rows)
      PROVE  /\ rows'[d] \in Delivery
             /\ rows'[d].attempts = rows[d].attempts /\ rows'[d].fallbackFor = rows[d].fallbackFor
  <2> DEFINE r == rows[d]
  <2>1. r \in Delivery /\ rows'[d] \in {r, [r EXCEPT !.status = "retrying"]}
    BY <1>1, <1>2, RowType DEF Types
  <2> HIDE DEF r
  <2>2. /\ rows'[d] \in Delivery
        /\ rows'[d].attempts = r.attempts /\ rows'[d].fallbackFor = r.fallbackFor
    BY ONLY <2>1 DEF Delivery
  <2>3. QED BY <2>2 DEF r
<1>4. rows' \in Seq(Delivery) /\ Len(rows') = Len(rows)
  <2> DEFINE f == rows'
  <2>1. f = [d \in Ids |-> f[d]] /\ \A d \in 1..Len(rows) : f[d] \in Delivery
    BY <1>1, <1>3
  <2>2. rows \in Seq(Delivery)
    BY <1>2 DEF Types
  <2> HIDE DEF f
  <2>3. f \in Seq(Delivery) /\ Len(f) = Len(rows)
    BY <2>1, <2>2, SequenceOfRows
  <2>4. QED BY <2>3 DEF f
<1>5. Types' /\ Batches' /\ Started' /\ SameRows
  BY <1>1, <1>2, <1>3, <1>4 DEF Types, Batches, Started, SameRows
<1>6. \A v \in Workers, d \in 1..Len(rows) :
           /\ UntakenIn(batch'[v], taken'[v], d) => UntakenIn(batch[v], taken[v], d)
           /\ FreshIn(batch'[v], d) => FreshIn(batch[v], d)
  BY <1>1
<1>7. ASSUME NEW d \in 1..Len(rows)
      PROVE  Waits(rows'[d]) + starts <= Waits(rows[d]) + starts'
  <2>1. Waits(rows[d]) \in {0, 1} /\ Waits(rows'[d]) \in {0, 1}
    BY DEF Waits
  <2>2. QED BY <1>1, <1>2, <2>1
<1>8. QED BY <1>1, <1>3, <1>5, <1>6, <1>7, QuietStep

\* What a row that is appended does not change.
LEMMA Appended ==
  ASSUME NEW table \in Seq(Delivery), NEW s \in Sessions \cup {None}, NEW origin \in Nat \cup {None},
         EnqueueDelivery(table, s, origin), Len(table) = Len(posted), posted \in Seq(Nat)
  PROVE  /\ rows' \in Seq(Delivery) /\ Len(rows') = Len(table) + 1
         /\ \A d \in 1..Len(table) : rows'[d] = table[d] /\ posted'[d] = posted[d]
         /\ rows'[Len(table) + 1] =
              [status |-> "pending", attempts |-> 0, session |-> s, fallbackFor |-> origin]
         /\ posted' \in Seq(Nat) /\ Len(posted') = Len(table) + 1 /\ posted'[Len(table) + 1] = 0
<1> DEFINE r == [status |-> "pending", attempts |-> 0, session |-> s, fallbackFor |-> origin]
<1>1. r \in Delivery /\ rows' = Append(table, r) /\ posted' = Append(posted, 0)
  BY DEF Delivery, EnqueueDelivery
<1> HIDE DEF r
<1>2. /\ rows' \in Seq(Delivery) /\ Len(rows') = Len(table) + 1 /\ rows'[Len(table) + 1] = r
      /\ \A d \in 1..Len(table) : rows'[d] = table[d]
  BY <1>1, AppendProperties
<1>3. /\ posted' \in Seq(Nat) /\ Len(posted') = Len(posted) + 1 /\ posted'[Len(posted) + 1] = 0
      /\ \A d \in 1..Len(posted) : posted'[d] = posted[d]
  BY <1>1, AppendProperties
<1>4. QED BY <1>2, <1>3 DEF r

\* A message the coordinator or a failure enqueues, after the rows were changed into `table`.
LEMMA AppendInv ==
  ASSUME IInv, NEW table \in Seq(Delivery), NEW s \in Sessions \cup {None}, NEW origin \in Nat \cup {None},
         EnqueueDelivery(table, s, origin), Len(table) = Len(rows), 
         \A d \in 1..Len(rows) :
           /\ table[d].attempts = rows[d].attempts /\ table[d].fallbackFor = rows[d].fallbackFor
           /\ Waits(table[d]) <= Waits(rows[d]),
         \E w \in Workers : up[w], up' = up, starts' = starts,
         batch' \in [Workers -> Seq(Claim)], taken' \in [Workers -> BOOLEAN],
         \A w \in Workers : BatchOK(batch'[w], taken'[w], Len(rows)),
         \A w \in Workers, d \in 1..Len(rows) :
           /\ UntakenIn(batch'[w], taken'[w], d) => UntakenIn(batch[w], taken[w], d)
           /\ FreshIn(batch'[w], d) => FreshIn(batch[w], d)
  PROVE  Types' /\ Batches' /\ Started' /\ PostsAreCharged' /\ ClaimsAreCounted'
<1> DEFINE n == Len(rows)
<1>1. Types /\ Started /\ PostsAreCharged /\ ClaimsAreCounted /\ n \in Nat /\ n = Len(posted)
      /\ posted \in Seq(Nat) /\ starts \in Nat
  BY LenProperties DEF IInv, Types
<1>2. /\ rows' \in Seq(Delivery) /\ Len(rows') = n + 1
      /\ \A d \in 1..n : rows'[d] = table[d] /\ posted'[d] = posted[d]
      /\ rows'[n + 1] = [status |-> "pending", attempts |-> 0, session |-> s, fallbackFor |-> origin]
      /\ posted' \in Seq(Nat) /\ Len(posted') = n + 1 /\ posted'[n + 1] = 0
  <2>1. Len(table) = Len(posted) /\ posted \in Seq(Nat) /\ Len(table) = n
    BY <1>1
  <2> HIDE DEF n
  <2>2. QED BY <2>1, Appended
<1>3. Types' /\ Started'
  BY <1>1, <1>2 DEF Types, Started
<1>4. 1..Len(rows') = (1..n) \cup {n + 1}
  BY <1>1, <1>2
<1>5. Batches'
  BY <1>4 DEF Batches, BatchOK
<1>6. \A w \in Workers : ~Holds(batch'[w], n + 1) /\ ~FreshIn(batch'[w], n + 1)
  BY <1>1 DEF BatchOK, Holds, FreshIn
<1>7. Held(batch', taken', n + 1) = {} /\ Fresh(batch', n + 1) = {}
  BY <1>6 DEF Held, Fresh, UntakenIn
<1>8. Cardinality(Held(batch', taken', n + 1)) = 0 /\ Cardinality(Fresh(batch', n + 1)) = 0
  BY <1>7, FS_EmptySet
<1>9. PostsAreCharged'
  <2>1. ASSUME NEW d \in 1..n
        PROVE  posted'[d] + Cardinality(Held(batch', taken', d)) <= rows'[d].attempts
    <3>1. Held(batch', taken', d) \subseteq Held(batch, taken, d)
      BY DEF Held
    <3>2. Cardinality(Held(batch', taken', d)) <= Cardinality(Held(batch, taken, d))
      BY <3>1, HeldAndFresh, FewerWorkers
    <3>3. Cardinality(Held(batch', taken', d)) \in Nat /\ Cardinality(Held(batch, taken, d)) \in Nat
      BY HeldAndFresh, FiniteWorkers
    <3>4. posted[d] \in Nat /\ rows[d].attempts \in Nat /\ posted'[d] = posted[d]
          /\ rows'[d].attempts = rows[d].attempts
      BY <1>1, <1>2, RowType, ElementOfSeq DEF Types
    <3>5. QED BY <1>1, <3>2, <3>3, <3>4 DEF PostsAreCharged
  <2>2. posted'[n + 1] + Cardinality(Held(batch', taken', n + 1)) <= rows'[n + 1].attempts
    BY <1>2, <1>8
  <2>3. QED BY <1>4, <2>1, <2>2 DEF PostsAreCharged
<1>10. ClaimsAreCounted'
  <2>1. ASSUME NEW d \in 1..n
        PROVE  Over(rows'[d]) + Waits(rows'[d]) + Cardinality(Fresh(batch', d)) <= starts'
    <3>1. Fresh(batch', d) \subseteq Fresh(batch, d)
      BY DEF Fresh
    <3>2. Cardinality(Fresh(batch', d)) <= Cardinality(Fresh(batch, d))
      BY <3>1, HeldAndFresh, FewerWorkers
    <3>3. Cardinality(Fresh(batch', d)) \in Nat /\ Cardinality(Fresh(batch, d)) \in Nat
      BY HeldAndFresh, FiniteWorkers
    <3>4. Over(rows'[d]) = Over(rows[d]) /\ Waits(rows'[d]) <= Waits(rows[d])
      BY <1>2 DEF Over
    <3>5. Over(rows[d]) \in Nat /\ Waits(rows[d]) \in {0, 1}
      BY <1>1, RowType DEF Types
    <3>6. Waits(rows'[d]) \in {0, 1}
      BY DEF Waits
    <3>7. Over(rows[d]) + Waits(rows[d]) + Cardinality(Fresh(batch, d)) <= starts /\ starts' = starts
      BY <1>1 DEF ClaimsAreCounted
    <3>8. QED BY <1>1, <3>2, <3>3, <3>4, <3>5, <3>6, <3>7
  <2>2. Over(rows'[n + 1]) + Waits(rows'[n + 1]) + Cardinality(Fresh(batch', n + 1)) <= starts'
    <3>1. Over(rows'[n + 1]) = 0 /\ Waits(rows'[n + 1]) = 1
      BY <1>2, Constants DEF Over, Waits
    <3>2. starts' >= 1
      BY <1>1 DEF Started
    <3>3. QED BY <1>1, <1>8, <3>1, <3>2
  <2>3. QED BY <1>4, <2>1, <2>2 DEF ClaimsAreCounted
<1>11. QED BY <1>3, <1>5, <1>9, <1>10

LEMMA EnqueueInv ==
  ASSUME IInv, NEW s \in Sessions \cup {None}, Enqueue(s)
  PROVE  IInv'
<1>1. /\ EnqueueDelivery(rows, s, None) /\ \E w \in Workers : up[w]
      /\ up' = up /\ starts' = starts /\ batch' = batch /\ taken' = taken
  BY DEF Enqueue, workerVars
<1>2. Types /\ Batches /\ Fallbacks /\ Len(rows) \in Nat
  BY LenProperties DEF IInv, Types
<1>3. rows \in Seq(Delivery) /\ \A d \in 1..Len(rows) : Waits(rows[d]) \in {0, 1}
  BY <1>2 DEF Types, Waits
<1>4. batch' \in [Workers -> Seq(Claim)] /\ taken' \in [Workers -> BOOLEAN]
      /\ \A w \in Workers : BatchOK(batch'[w], taken'[w], Len(rows))
  BY <1>1, <1>2 DEF Types, Batches
<1>5. Types' /\ Batches' /\ Started' /\ PostsAreCharged' /\ ClaimsAreCounted'
  <2>1. \A d \in 1..Len(rows) :
           /\ rows[d].attempts = rows[d].attempts /\ rows[d].fallbackFor = rows[d].fallbackFor
           /\ Waits(rows[d]) <= Waits(rows[d])
    BY <1>3
  <2>2. \A w \in Workers, d \in 1..Len(rows) :
           /\ UntakenIn(batch'[w], taken'[w], d) => UntakenIn(batch[w], taken[w], d)
           /\ FreshIn(batch'[w], d) => FreshIn(batch[w], d)
    BY <1>1
  <2>3. None \in Nat \cup {None} /\ Len(rows) = Len(rows)
    OBVIOUS
  <2>4. QED BY <1>1, <1>3, <1>4, <2>1, <2>2, <2>3, AppendInv
<1>6. /\ Len(rows') = Len(rows) + 1
      /\ \A d \in 1..Len(rows) : rows'[d] = rows[d]
      /\ rows'[Len(rows) + 1].fallbackFor = None /\ rows'[Len(rows) + 1].status = "pending"
  <2>1. posted \in Seq(Nat) /\ Len(rows) = Len(posted) /\ None \in Nat \cup {None}
    BY <1>2 DEF Types
  <2>2. /\ Len(rows') = Len(rows) + 1
        /\ \A d \in 1..Len(rows) : rows'[d] = rows[d]
        /\ rows'[Len(rows) + 1] = [status |-> "pending", attempts |-> 0, session |-> s, fallbackFor |-> None]
    BY <1>1, <1>3, <2>1, Appended
  <2>3. QED BY <2>2
<1>7. 1..Len(rows') = (1..Len(rows)) \cup {Len(rows) + 1}
  BY <1>2, <1>6
<1>8. Fallbacks'
  BY <1>2, <1>6, <1>7 DEF Fallbacks
<1>9. QED BY <1>5, <1>8 DEF IInv

\* What failed for good was claimed for the last time.
LEMMA DeliveryFailsInv ==
  ASSUME IInv, NEW w \in Workers, DeliveryFails(w)
  PROVE  IInv'
<1> DEFINE c == Head(batch[w]).id
<1>1. /\ batch[w] # <<>> /\ up' = up /\ starts' = starts /\ posted' = posted
      /\ batch' = batch /\ taken' = taken /\ rows' = Mark(c, Open, "failed")
  BY DEF DeliveryFails, IsDelivering, InLoop
<1>2. Types /\ Batches /\ Started /\ Len(rows) \in Nat
  BY LenProperties DEF IInv, Types
<1>3. c \in 1..Len(rows)
  BY <1>1, <1>2, TailOfBatch DEF Types, Batches
<1> HIDE DEF c
<1>4. /\ rows' \in Seq(Delivery) /\ Len(rows') = Len(rows)
      /\ \A d \in 1..Len(rows) : d # c => rows'[d] = rows[d]
      /\ \A d \in 1..Len(rows) :
           rows'[d].attempts = rows[d].attempts /\ rows'[d].fallbackFor = rows[d].fallbackFor
      /\ rows'[c].status = IF rows[c].status \in Open THEN "failed" ELSE rows[c].status
  <2>1. rows \in Seq(Delivery) /\ rows' = Mark(c, Open, "failed")
    BY <1>1, <1>2 DEF Types
  <2>2. QED BY <1>3, <2>1, MarkChanges
<1>5. Types' /\ Batches' /\ Started' /\ SameRows
  BY <1>1, <1>2, <1>4 DEF Types, Batches, Started, SameRows
<1>6. \A d \in 1..Len(rows) : Waits(rows[d]) \in {0, 1} /\ starts \in Nat
  BY <1>2 DEF Waits, Types
<1>7. \A d \in 1..Len(rows) : Waits(rows'[d]) + starts <= Waits(rows[d]) + starts'
  BY <1>1, <1>4, <1>6 DEF Waits, Open
<1>8. QED BY <1>1, <1>5, <1>7, QuietStep

\* What announceFailure() enqueues is a new row, of one that announces nothing itself.
LEMMA AnnounceFailureInv ==
  ASSUME IInv, NEW w \in Workers, AnnounceFailure(w)
  PROVE  IInv'
<1> DEFINE claim == Head(batch[w])  c == claim.id  n == Len(rows)
<1>1. batch[w] # <<>> /\ up[w] /\ up' = up /\ starts' = starts
  BY DEF AnnounceFailure, InLoop
<1>2. Types /\ Batches /\ Started /\ Fallbacks /\ n \in Nat /\ rows \in Seq(Delivery)
  BY LenProperties DEF IInv, Types
<1>3. Head(batch[w]) \in Claim /\ c \in 1..n
  BY <1>1, <1>2, TailOfBatch DEF Types, Batches
<1>4. \A d \in 1..n : Waits(rows[d]) \in {0, 1}
  BY DEF Waits
<1>5. /\ batch' \in [Workers -> Seq(Claim)] /\ taken' \in [Workers -> BOOLEAN]
      /\ \A v \in Workers : BatchOK(batch'[v], taken'[v], n)
      /\ \A v \in Workers, d \in 1..n :
           /\ UntakenIn(batch'[v], taken'[v], d) => UntakenIn(batch[v], taken[v], d)
           /\ FreshIn(batch'[v], d) => FreshIn(batch[v], d)
  <2>1. CASE Pop(w)
    BY <1>1, <1>2, <2>1, Popped
  <2>2. CASE EndDrain(w)
    BY <1>2, <2>2, Dropped DEF EndDrain, ContinueWith
  <2>3. QED BY <2>1, <2>2 DEF AnnounceFailure
<1>6. CASE posted' = posted /\ rows' = rows
  <2>1. Types' /\ Batches' /\ Started' /\ SameRows
    BY <1>1, <1>2, <1>5, <1>6 DEF Types, Batches, Started, SameRows
  <2>2. starts \in Nat
    BY <1>2 DEF Types
  <2>3. \A d \in 1..n : Waits(rows'[d]) + starts <= Waits(rows[d]) + starts'
    BY <1>1, <1>4, <1>6, <2>2
  <2>4. QED BY <1>5, <1>6, <2>1, <2>3, QuietStep
<1>7. CASE Announces(claim) /\ EnqueueDelivery(rows, claim.session, c)
  <2>1. claim.session \in Sessions \cup {None} /\ c \in Nat \cup {None} /\ rows[c].fallbackFor = None
    BY <1>3, <1>7 DEF Claim, Announces
  <2>2. posted \in Seq(Nat) /\ n = Len(posted)
    BY <1>2 DEF Types
  <2> HIDE DEF claim, c
  <2>3. \A d \in 1..n : /\ rows[d].attempts = rows[d].attempts /\ rows[d].fallbackFor = rows[d].fallbackFor
                        /\ Waits(rows[d]) <= Waits(rows[d])
    BY <1>4
  <2>4. Types' /\ Batches' /\ Started' /\ PostsAreCharged' /\ ClaimsAreCounted'
    BY <1>1, <1>2, <1>5, <1>7, <2>1, <2>3, AppendInv
  <2>5. /\ Len(rows') = n + 1
        /\ \A d \in 1..n : rows'[d] = rows[d]
        /\ rows'[n + 1].fallbackFor = c
    <3>1. /\ Len(rows') = Len(rows) + 1
          /\ \A d \in 1..Len(rows) : rows'[d] = rows[d]
          /\ rows'[Len(rows) + 1] =
               [status |-> "pending", attempts |-> 0, session |-> claim.session, fallbackFor |-> c]
      BY <1>2, <1>7, <2>1, <2>2, Appended
    <3>2. QED BY <3>1
  <2>6. 1..Len(rows') = (1..n) \cup {n + 1}
    BY <1>2, <2>5
  <2>7. Fallbacks'
    BY <1>2, <1>3, <2>1, <2>5, <2>6 DEF Fallbacks
  <2>8. QED BY <2>4, <2>7 DEF IInv
<1>8. QED BY <1>6, <1>7 DEF AnnounceFailure

\* A claim takes rows that wait, charges an attempt, and is fresh unless that was the last.
LEMMA DrainInv ==
  ASSUME IInv, NEW w \in Workers, Drain(w)
  PROVE  IInv'
<1> DEFINE n == Len(rows)
<1>1. /\ up[w] /\ batch[w] = <<>> /\ up' = up /\ starts' = starts
      /\ taken' = taken /\ posted' = posted
  BY DEF Drain
<1>2. Types /\ Batches /\ Started /\ n \in Nat /\ Ids = 1..n /\ ~taken[w] /\ starts \in Nat
  BY <1>1, LenProperties DEF IInv, Types, Batches, BatchOK, Ids
<1>3. PICK ds \in Claims :
        /\ rows' = [d \in Ids |-> IF d \in {ds[k] : k \in 1..Len(ds)} THEN Charge(rows[d]) ELSE rows[d]]
        /\ batch' = [batch EXCEPT ![w] =
             [k \in 1..Len(ds) |->
                [id |-> ds[k], attempts |-> rows[ds[k]].attempts + 1, session |-> rows[ds[k]].session]]]
  BY DEF Drain, ClaimDueDeliveries
<1> DEFINE claimed == {ds[k] : k \in 1..Len(ds)}
           nb == [k \in 1..Len(ds) |->
                [id |-> ds[k], attempts |-> rows[ds[k]].attempts + 1, session |-> rows[ds[k]].session]]
<1>4. PICK m \in 1..Limit : ds \in [1..m -> Pending \cup Retries]
  BY <1>3 DEF Claims
<1>5. Len(ds) = m /\ m \in Nat /\ \A k, l \in 1..Len(ds) : ds[k] = ds[l] => k = l
  <2>1. m \in Nat /\ ds \in Seq(Pending \cup Retries)
    BY <1>4, Constants, SeqDef
  <2>2. Len(ds) \in Nat /\ DOMAIN ds = 1..Len(ds)
    BY <2>1, LenProperties
  <2>3. DOMAIN ds = 1..m
    BY <1>4
  <2>4. Len(ds) = m
    <3>1. 1 \in 1..m /\ m \in 1..m
      BY <2>1
    <3>2. m <= Len(ds) /\ Len(ds) \in 1..Len(ds)
      BY <2>1, <2>2, <2>3, <3>1
    <3>3. 1..Len(ds) = 1..m
      BY <2>2, <2>3
    <3>4. Len(ds) \in 1..m
      BY <3>2, <3>3
    <3>5. Len(ds) <= m
      BY <2>1, <2>2, <3>4
    <3> DEFINE length == Len(ds)
    <3>6. m \in Nat /\ length \in Nat /\ m <= length /\ length <= m
      BY <2>1, <2>2, <3>2, <3>5
    <3> HIDE DEF length
    <3>7. length = m
      BY ONLY <3>6
    <3>8. QED BY <3>7 DEF length
  <2>5. \A k, l \in 1..Len(ds) : k < l => ds[k] # ds[l]
    BY <1>3 DEF Claims
  <2>6. QED BY <2>1, <2>2, <2>4, <2>5
<1>6. \A k \in 1..Len(ds) : ds[k] \in 1..n /\ rows[ds[k]].status \in {"pending", "retrying"}
  BY <1>2, <1>4, <1>5 DEF Pending, Retries
<1>7. ASSUME NEW d \in 1..n
      PROVE  /\ rows'[d] \in Delivery /\ rows'[d].fallbackFor = rows[d].fallbackFor
             /\ rows'[d].status = "failed" => rows[d].status = "failed"
             /\ d \in claimed => rows'[d].status = "sending" /\ rows'[d].attempts = rows[d].attempts + 1
             /\ d \notin claimed => rows'[d] = rows[d]
  <2> DEFINE r == rows[d]
  <2>1. r \in Delivery /\ rows'[d] = IF d \in claimed THEN Charge(r) ELSE r
    BY <1>2, <1>3, RowType DEF Types
  <2> HIDE DEF r, claimed
  <2> DEFINE a == r.attempts + 1  q == [r EXCEPT !.status = "sending", !.attempts = a]
  <2>2. r \in Delivery /\ a \in Nat
    BY <2>1 DEF Delivery
  <2> HIDE DEF a
  <2>3. q \in Delivery /\ q.fallbackFor = r.fallbackFor /\ q.status = "sending" /\ q.attempts = a
    BY ONLY <2>2 DEF Delivery
  <2>4. Charge(r) \in Delivery /\ Charge(r).fallbackFor = r.fallbackFor /\ Charge(r).status = "sending"
        /\ Charge(r).attempts = r.attempts + 1
    BY <2>3 DEF Charge, a
  <2>5. QED BY <2>1, <2>4 DEF r
<1>8. rows' \in Seq(Delivery) /\ Len(rows') = n
  <2> DEFINE f == rows'
  <2>1. f = [d \in Ids |-> f[d]] /\ \A d \in 1..Len(rows) : f[d] \in Delivery
    BY <1>3, <1>7
  <2>2. rows \in Seq(Delivery)
    BY <1>2 DEF Types
  <2> HIDE DEF f
  <2>3. f \in Seq(Delivery) /\ Len(f) = Len(rows)
    BY <2>1, <2>2, SequenceOfRows
  <2>4. QED BY <2>3 DEF f
<1>9. nb \in Seq(Claim) /\ Len(nb) = m
  <2>1. ASSUME NEW k \in 1..Len(ds)
        PROVE  nb[k] \in Claim
    <3>1. ds[k] \in 1..n /\ rows[ds[k]] \in Delivery
      BY <1>2, <1>6, RowType DEF Types
    <3>2. ds[k] \in Nat /\ rows[ds[k]].attempts + 1 \in Nat /\ rows[ds[k]].session \in Sessions \cup {None}
      BY <1>2, <3>1 DEF Delivery
    <3>3. QED BY <3>2 DEF Claim
  <2>2. nb \in [1..m -> Claim]
    BY <1>5, <2>1
  <2> HIDE DEF nb
  <2>3. QED BY <1>5, <2>2, SeqDef, LenProperties
<1>10. /\ \A k \in 1..m : nb[k].id = ds[k] /\ nb[k].attempts = rows[ds[k]].attempts + 1
       /\ batch'[w] = nb /\ \A v \in Workers : v # w => batch'[v] = batch[v]
       /\ batch' \in [Workers -> Seq(Claim)]
  BY <1>2, <1>3, <1>5, <1>9 DEF Types
<1>11. BatchOK(nb, taken[w], n)
  BY <1>2, <1>5, <1>6, <1>9, <1>10 DEF BatchOK
<1> HIDE DEF nb
<1>12. Types' /\ Batches' /\ Started'
  BY <1>1, <1>2, <1>8, <1>10, <1>11 DEF Types, Batches, Started
<1>13. \A d : /\ Holds(nb, d) => d \in claimed
              /\ FreshIn(nb, d) => d \in claimed /\ rows[d].attempts + 1 < MaxAttempts
  BY <1>5, <1>9, <1>10 DEF Holds, FreshIn
<1>14. /\ \A d \in claimed : d \in 1..n /\ Waits(rows[d]) = 1 /\ Waits(rows'[d]) = 0
  <2>1. \A d \in claimed : d \in 1..n /\ rows[d].status \in {"pending", "retrying"}
    BY <1>6
  <2>2. QED BY <1>7, <2>1 DEF Waits
<1>15. ASSUME NEW d \in 1..n
       PROVE  /\ Held(batch', taken', d) \subseteq Held(batch, taken, d) \cup {w}
              /\ Fresh(batch', d) \subseteq Fresh(batch, d) \cup {w}
              /\ d \notin claimed => Held(batch', taken', d) \subseteq Held(batch, taken, d)
              /\ ~(d \in claimed /\ rows[d].attempts + 1 < MaxAttempts) =>
                   Fresh(batch', d) \subseteq Fresh(batch, d)
  BY <1>1, <1>10, <1>13 DEF Held, Fresh, UntakenIn
<1> HIDE DEF claimed
<1>16. PostsAreCharged'
  <2> SUFFICES ASSUME NEW d \in 1..n
               PROVE  posted'[d] + Cardinality(Held(batch', taken', d)) <= rows'[d].attempts
    BY <1>8 DEF PostsAreCharged
  <2> DEFINE S == Held(batch, taken, d)  T == Held(batch', taken', d)
  <2>1. S \in SUBSET Workers /\ T \in SUBSET Workers
    BY HeldAndFresh
  <2>2. Cardinality(S) \in Nat /\ Cardinality(T) \in Nat
    BY <2>1, FiniteWorkers
  <2>3. posted[d] + Cardinality(S) <= rows[d].attempts /\ posted[d] \in Nat /\ rows[d].attempts \in Nat
    BY <1>2, RowType, ElementOfSeq DEF IInv, PostsAreCharged, Types
  <2>4. T \subseteq S \cup {w} /\ (d \notin claimed => T \subseteq S)
    BY <1>15
  <2> HIDE DEF S, T
  <2>5. CASE d \in claimed
    <3>1. Cardinality(T) <= Cardinality(S) + 1
      BY <2>1, <2>4, OneWorkerMore
    <3>2. rows'[d].attempts = rows[d].attempts + 1
      BY <1>7, <2>5
    <3>3. posted[d] + Cardinality(T) <= rows'[d].attempts
      BY <2>2, <2>3, <3>1, <3>2
    <3>4. QED BY <1>1, <3>3 DEF T
  <2>6. CASE d \notin claimed
    <3>1. Cardinality(T) <= Cardinality(S)
      BY <2>1, <2>4, <2>6, FewerWorkers
    <3>2. posted[d] + Cardinality(T) <= rows[d].attempts /\ rows'[d] = rows[d]
      BY <1>7, <2>2, <2>3, <2>6, <3>1
    <3>3. QED BY <1>1, <3>2 DEF T
  <2>7. QED BY <2>5, <2>6
<1>17. ClaimsAreCounted'
  <2> SUFFICES ASSUME NEW d \in 1..n
               PROVE  Over(rows'[d]) + Waits(rows'[d]) + Cardinality(Fresh(batch', d)) <= starts
    BY <1>1, <1>8 DEF ClaimsAreCounted
  <2> DEFINE S == Fresh(batch, d)  T == Fresh(batch', d)
  <2>1. S \in SUBSET Workers /\ T \in SUBSET Workers
    BY HeldAndFresh
  <2>2. Cardinality(S) \in Nat /\ Cardinality(T) \in Nat
    BY <2>1, FiniteWorkers
  <2>3. /\ Over(rows[d]) \in Nat /\ Waits(rows[d]) \in {0, 1} /\ rows[d].attempts \in Nat
        /\ Over(rows[d]) + Waits(rows[d]) + Cardinality(S) <= starts
    BY <1>2, RowType DEF IInv, ClaimsAreCounted, Types
  <2>4. /\ T \subseteq S \cup {w}
        /\ ~(d \in claimed /\ rows[d].attempts + 1 < MaxAttempts) => T \subseteq S
    BY <1>15
  <2> HIDE DEF S, T
  <2>5. CASE d \in claimed /\ rows[d].attempts + 1 < MaxAttempts
    <3>1. Cardinality(T) <= Cardinality(S) + 1
      BY <2>1, <2>4, OneWorkerMore
    <3>2. Over(rows'[d]) = 0 /\ Waits(rows'[d]) = 0 /\ Waits(rows[d]) = 1
      BY <1>7, <1>14, <2>3, <2>5, Constants DEF Over
    <3>3. Over(rows'[d]) + Waits(rows'[d]) + Cardinality(T) <= starts
      BY <1>2, <2>2, <2>3, <3>1, <3>2
    <3>4. QED BY <3>3 DEF T
  <2>6. CASE d \in claimed /\ ~(rows[d].attempts + 1 < MaxAttempts)
    <3>1. Cardinality(T) <= Cardinality(S)
      BY <2>1, <2>4, <2>6, FewerWorkers
    <3>2. Waits(rows'[d]) = 0 /\ Waits(rows[d]) = 1
      BY <1>14, <2>6
    <3>3. rows'[d].attempts = rows[d].attempts + 1
      BY <1>7, <2>6
    <3>4. Over(rows'[d]) = Over(rows[d]) + 1
      BY <2>3, <2>6, <3>3, Constants DEF Over
    <3>5. Over(rows'[d]) + Waits(rows'[d]) + Cardinality(T) <= starts
      BY <1>2, <2>2, <2>3, <3>1, <3>2, <3>4
    <3>6. QED BY <3>5 DEF T
  <2>7. CASE d \notin claimed
    <3>1. Cardinality(T) <= Cardinality(S)
      BY <2>1, <2>4, <2>7, FewerWorkers
    <3>2. rows'[d] = rows[d]
      BY <1>7, <2>7
    <3>3. Over(rows'[d]) + Waits(rows'[d]) + Cardinality(T) <= starts
      BY <1>2, <2>2, <2>3, <3>1, <3>2
    <3>4. QED BY <3>3 DEF T
  <2>8. QED BY <2>5, <2>6, <2>7
<1>18. Fallbacks'
  BY <1>1, <1>7, <1>8 DEF IInv, Fallbacks
<1>19. QED BY <1>12, <1>16, <1>17, <1>18 DEF IInv

LEMMA StepInv == IInv /\ [Next]_vars => IInv'
<1> SUFFICES ASSUME IInv, [Next]_vars PROVE IInv'
  OBVIOUS
<1>1. CASE \E s \in Sessions \cup {None} : Enqueue(s)
  BY <1>1, EnqueueInv
<1>2. ASSUME NEW w \in Workers, Drain(w) \/ Deliver(w) \/ Settle(w) \/ Throw(w) \/ Crash(w) \/ Start(w)
      PROVE  IInv'
  BY <1>2, DrainInv, DeliverInv, DeliveredInv, AttemptFailsInv, DeliveryFailsInv,
     AnnounceFailureInv, CrashInv, StartInv
     DEF Settle
<1>3. CASE \E d \in Ids : FallsDue(d)
  BY <1>3, FallsDueInv
<1>4. CASE \E s \in Sessions : Retire(s)
  BY <1>4, RetireInv
<1>5. CASE UNCHANGED vars
  BY <1>5 DEF vars, workerVars, IInv, Types, Batches, Started, PostsAreCharged, ClaimsAreCounted,
              Fallbacks
<1>6. QED BY <1>1, <1>2, <1>3, <1>4, <1>5 DEF Next

----------------------------------------------------------------------------
(* The theorems *)

\* The invariant holds whatever daemons start, die and share the store.
THEOREM DeliveriesInvariant == Spec => []IInv
<1>1. QED BY InitInv, StepInv, PTL DEF Spec

\* A row is never posted more often than it was charged, and charged beyond maxAttempts only
\* as often as a daemon started (claimDueDeliveries() and recoverSendingDeliveries()).
THEOREM DeliveriesAttemptsBounded == Spec => []AttemptsBounded
<1>1. IInv => AttemptsBounded
  <2> SUFFICES ASSUME IInv, NEW d \in Ids
               PROVE  /\ posted[d] <= rows[d].attempts
                      /\ rows[d].attempts < MaxAttempts + starts \/ rows[d].attempts = 0
    BY RowType, LenProperties DEF AttemptsBounded, Ids, IInv, Types
  <2>1. d \in 1..Len(rows) /\ Types
    BY LenProperties DEF IInv, Types, Ids
  <2>2. /\ posted[d] \in Nat /\ rows[d].attempts \in Nat /\ starts \in Nat
        /\ Waits(rows[d]) \in {0, 1} /\ Over(rows[d]) \in Nat
    BY <2>1, RowType, ElementOfSeq DEF Types
  <2>3. /\ Cardinality(Held(batch, taken, d)) \in Nat /\ Cardinality(Fresh(batch, d)) \in Nat
    BY HeldAndFresh, FiniteWorkers
  <2>4. posted[d] + Cardinality(Held(batch, taken, d)) <= rows[d].attempts
    BY <2>1 DEF IInv, PostsAreCharged
  <2>5. Over(rows[d]) + Waits(rows[d]) + Cardinality(Fresh(batch, d)) <= starts
    BY <2>1 DEF IInv, ClaimsAreCounted
  <2>6. Over(rows[d]) <= starts
    BY <2>2, <2>3, <2>5
  <2>7. rows[d].attempts < MaxAttempts + starts \/ rows[d].attempts = 0
    <3>1. CASE rows[d].attempts >= MaxAttempts
      BY <2>2, <2>6, <3>1, Constants DEF Over
    <3>2. CASE ~(rows[d].attempts >= MaxAttempts)
      BY <2>2, <3>2, Constants
    <3>3. QED BY <3>1, <3>2
  <2>8. QED BY <2>2, <2>3, <2>4, <2>7
<1>2. QED BY <1>1, DeliveriesInvariant, PTL

----------------------------------------------------------------------------
(* What is settled stays, and what is being sent is in somebody's hands *)

Settled(row) == row.status \in {"delivered", "failed"}

SettledStay == \A d \in 1..Len(rows) : Settled(rows[d]) => rows'[d].status = rows[d].status

\* Every daemon runs and no exception or retired session ended a drain().
NothingLost == (\A w \in Workers : up[w]) /\ Undisturbed

\* Between the two statements of a failure the worker is at a row that is settled.
FailingIsSettled ==
  /\ failing \in [Workers -> BOOLEAN] /\ faults \in Nat
  /\ \A w \in Workers : failing[w] => batch[w] # <<>> /\ Settled(rows[Head(batch[w]).id])

HeldInv == SendingIsHeld /\ FailingIsSettled

LEMMA RowsAre ==
  ASSUME Types
  PROVE  Ids = 1..Len(rows) /\ Len(rows) \in Nat /\ \A d \in Ids : rows[d] \in Delivery
  BY LenProperties, ElementOfSeq DEF Types, Ids

LEMMA HeldByMeans ==
  SendingIsHeld <=> (NothingLost => \A d \in Ids : rows[d].status = "sending" =>
                       \E w \in Workers : Holds(batch[w], d))
  BY DEF SendingIsHeld, NothingLost, Holds

\* Steps that send nothing new and let nobody go.
LEMMA HeldKeeps ==
  ASSUME SendingIsHeld, NothingLost' => NothingLost,
         \A d \in Ids' : rows'[d].status = "sending" /\ NothingLost' =>
           /\ d \in Ids /\ rows[d].status = "sending"
           /\ \A v \in Workers : Holds(batch[v], d) => Holds(batch'[v], d)
  PROVE  SendingIsHeld'
  BY DEF SendingIsHeld, NothingLost, Holds

\* claimDueDeliveries(): a row is claimed or stays as it is.
LEMMA DrainedRows ==
  ASSUME IInv, IInv', NEW w \in Workers, Drain(w)
  PROVE  /\ Ids' = Ids
         /\ \A d \in Ids : \/ rows'[d] = rows[d]
                           \/ /\ rows[d].status \in {"pending", "retrying"}
                              /\ Holds(batch'[w], d)
         /\ \A v \in Workers : v # w => batch'[v] = batch[v]
         /\ \A d : ~Holds(batch[w], d)
         /\ UNCHANGED <<up, faults, retired>>
<1>1. batch[w] = <<>> /\ UNCHANGED <<up, faults, retired>>
  BY DEF Drain
<1>2. PICK ds \in Claims :
        /\ rows' = [d \in Ids |-> IF d \in {ds[k] : k \in 1..Len(ds)} THEN Charge(rows[d]) ELSE rows[d]]
        /\ batch' = [batch EXCEPT ![w] =
             [k \in 1..Len(ds) |->
                [id |-> ds[k], attempts |-> rows[ds[k]].attempts + 1, session |-> rows[ds[k]].session]]]
  BY DEF Drain, ClaimDueDeliveries
<1>3. PICK m \in 1..Limit : ds \in [1..m -> Pending \cup Retries]
  BY <1>2 DEF Claims
<1>4. \A k \in 1..Len(ds) : ds[k] \in Pending \cup Retries
  <2>1. m \in Nat /\ ds \in Seq(Pending \cup Retries)
    BY <1>3, Constants, SeqDef
  <2>2. QED BY <2>1, ElementOfSeq
<1>5. batch \in [Workers -> Seq(Claim)] /\ batch'[w] \in Seq(Claim)
  BY DEF IInv, Types
<1>6. batch'[w] = [k \in 1..Len(ds) |->
        [id |-> ds[k], attempts |-> rows[ds[k]].attempts + 1, session |-> rows[ds[k]].session]]
  BY <1>2, <1>5
<1>7. \A k \in 1..Len(ds) : k \in 1..Len(batch'[w]) /\ batch'[w][k].id = ds[k]
  <2>1. DOMAIN batch'[w] = 1..Len(ds)
    BY <1>6
  <2>2. DOMAIN batch'[w] = 1..Len(batch'[w])
    BY <1>5, LenProperties
  <2>3. QED BY <1>6, <2>1, <2>2
<1>8. \A d \in Ids : \/ rows'[d] = rows[d]
                     \/ rows[d].status \in {"pending", "retrying"} /\ Holds(batch'[w], d)
  <2>1. TAKE d \in Ids
  <2>2. CASE d \in {ds[k] : k \in 1..Len(ds)}
    <3>1. PICK k \in 1..Len(ds) : d = ds[k]
      BY <2>2
    <3>2. rows[d].status \in {"pending", "retrying"}
      BY <1>4, <3>1 DEF Pending, Retries
    <3>3. QED BY <1>7, <3>1, <3>2 DEF Holds
  <2>3. CASE d \notin {ds[k] : k \in 1..Len(ds)}
    BY <1>2, <2>3
  <2>4. QED BY <2>2, <2>3
<1>9. Ids' = Ids
  BY <1>2 DEF Ids
<1>10. \A v \in Workers : v # w => batch'[v] = batch[v]
  BY <1>2, <1>5
<1>11. \A d : ~Holds(batch[w], d)
  BY <1>1, EmptyBatch
<1>12. QED BY <1>1, <1>8, <1>9, <1>10, <1>11

\* What is in a batch and not its first row stays in it.
LEMMA TailHolds ==
  ASSUME NEW b \in Seq(Claim), b # <<>>, NEW d, Holds(b, d), d # Head(b).id
  PROVE  Holds(Tail(b), d)
<1>1. PICK k \in 1..Len(b) : b[k].id = d
  BY DEF Holds
<1>2. /\ Len(b) \in Nat /\ Head(b) = b[1] /\ Len(Tail(b)) = Len(b) - 1
      /\ \A i \in 1..Len(Tail(b)) : Tail(b)[i] = b[i + 1]
  BY HeadTailProperties, LenProperties
<1>3. k # 1
  BY <1>1, <1>2
<1>4. k - 1 \in 1..Len(Tail(b)) /\ (k - 1) + 1 = k
  BY <1>2, <1>3
<1>5. QED BY <1>1, <1>2, <1>4 DEF Holds

\* A worker is done with the first row of its batch: it is not being sent any more.
LEMMA PoppedHeld ==
  ASSUME IInv, SendingIsHeld, NEW w \in Workers, batch[w] # <<>>, Pop(w),
         UNCHANGED <<up, faults, retired>>,
         \A d \in Ids' : rows'[d].status = "sending" =>
           d \in Ids /\ d # Head(batch[w]).id /\ rows[d].status = "sending"
  PROVE  SendingIsHeld'
<1>1. batch[w] \in Seq(Claim) /\ batch' = [batch EXCEPT ![w] = Tail(batch[w])]
      /\ batch \in [Workers -> Seq(Claim)]
  BY DEF IInv, Types, Pop, ContinueWith
<1>2. ASSUME NEW v \in Workers, NEW d, d # Head(batch[w]).id, Holds(batch[v], d)
      PROVE  Holds(batch'[v], d)
  <2>1. CASE v = w
    BY <1>1, <1>2, <2>1, TailHolds
  <2>2. CASE v # w
    BY <1>1, <1>2, <2>2
  <2>3. QED BY <2>1, <2>2
<1>3. NothingLost' => NothingLost
  BY DEF NothingLost, Undisturbed
<1>4. QED BY <1>2, <1>3, HeldKeeps

\* The first row of a batch is marked.
LEMMA MarkedRows ==
  ASSUME IInv, NEW w \in Workers, batch[w] # <<>>, NEW from \in SUBSET Open,
         NEW to \in {"retrying", "delivered", "failed"}, "sending" \in from
  PROVE  LET c == Head(batch[w]).id
             m == Mark(c, from, to)
         IN  /\ c \in Ids /\ m \in Seq(Delivery) /\ Len(m) = Len(rows)
             /\ \A d \in Ids : d # c => m[d] = rows[d]
             /\ m[c].status # "sending"
             /\ Settled(rows[c]) => m[c].status = rows[c].status
<1>1. PICK c \in Ids : c = Head(batch[w]).id
  <2>1. batch[w] \in Seq(Claim) /\ taken[w] \in BOOLEAN /\ BatchOK(batch[w], taken[w], Len(rows))
    BY DEF IInv, Types, Batches
  <2>2. Head(batch[w]).id \in 1..Len(rows)
    BY <2>1, RowsAre, TailOfBatch DEF IInv
  <2>3. QED BY <2>2, RowsAre DEF IInv
<1>2. c \in 1..Len(rows) /\ rows \in Seq(Delivery)
  BY RowsAre DEF IInv, Types
<1>3. PICK m : m = Mark(c, from, to)
  OBVIOUS
<1>4. /\ m \in Seq(Delivery) /\ Len(m) = Len(rows)
      /\ \A d \in 1..Len(rows) : d # c => m[d] = rows[d]
      /\ m[c].status = IF rows[c].status \in from THEN to ELSE rows[c].status
  BY <1>2, <1>3, MarkChanges
<1>5. Settled(rows[c]) => rows[c].status \notin from
  BY DEF Settled, Open
<1>6. Ids = 1..Len(rows)
  BY RowsAre DEF IInv
<1>7. QED BY <1>1, <1>3, <1>4, <1>5, <1>6

LEMMA MarkStep ==
  ASSUME IInv, SendingIsHeld, NEW w \in Workers, batch[w] # <<>>, Pop(w),
         UNCHANGED <<up, faults, retired>>, NEW from \in SUBSET Open,
         NEW to \in {"retrying", "delivered", "failed"}, "sending" \in from,
         rows' = Mark(Head(batch[w]).id, from, to)
  PROVE  SettledStay /\ SendingIsHeld'
<1>1. PICK c \in Ids : c = Head(batch[w]).id
  BY MarkedRows
<1>2. /\ rows' \in Seq(Delivery) /\ Len(rows') = Len(rows)
      /\ \A d \in Ids : d # c => rows'[d] = rows[d]
      /\ rows'[c].status # "sending"
      /\ Settled(rows[c]) => rows'[c].status = rows[c].status
  BY <1>1, MarkedRows
<1>3. Ids = 1..Len(rows) /\ Ids' = 1..Len(rows)
  <2>1. Ids' = 1..Len(rows')
    BY <1>2, LenProperties DEF Ids
  <2>2. QED BY <1>2, <2>1, RowsAre DEF IInv
<1>4. SettledStay
  BY <1>2, <1>3 DEF SettledStay
<1>5. SendingIsHeld'
  BY <1>1, <1>2, <1>3, PoppedHeld
<1>6. QED BY <1>4, <1>5

\* The row that enqueueDelivery() adds is due.
LEMMA AppendedWaits ==
  ASSUME NEW table \in Seq(Delivery), NEW s \in Sessions \cup {None}, NEW origin \in Nat \cup {None},
         EnqueueDelivery(table, s, origin), Len(table) = Len(posted), posted \in Seq(Nat)
  PROVE  /\ rows' \in Seq(Delivery) /\ Len(rows') = Len(table) + 1
         /\ \A d \in 1..Len(table) : rows'[d] = table[d]
         /\ rows'[Len(table) + 1].status = "pending" /\ rows'[Len(table) + 1].attempts = 0
<1>1. /\ rows' \in Seq(Delivery) /\ Len(rows') = Len(table) + 1
      /\ \A d \in 1..Len(table) : rows'[d] = table[d] /\ posted'[d] = posted[d]
      /\ rows'[Len(table) + 1] =
           [status |-> "pending", attempts |-> 0, session |-> s, fallbackFor |-> origin]
  BY Appended
<1>2. QED BY <1>1

\* The last attempt failed: the row is still the first of the batch, but not sent any more.
LEMMA FailStep ==
  ASSUME IInv, SendingIsHeld, NEW w \in Workers, DeliveryFails(w)
  PROVE  /\ SettledStay /\ SendingIsHeld'
         /\ Head(batch[w]).id \in Ids /\ Settled(rows'[Head(batch[w]).id])
<1>1. /\ batch[w] # <<>> /\ UNCHANGED <<up, faults, retired, batch>>
      /\ rows' = Mark(Head(batch[w]).id, Open, "failed")
  BY DEF DeliveryFails, IsDelivering, InLoop
<1>2. "sending" \in Open /\ Open \in SUBSET Open
  BY DEF Open
<1>3. PICK c \in Ids : c = Head(batch[w]).id
  BY <1>1, <1>2, MarkedRows
<1>4. /\ rows' \in Seq(Delivery) /\ Len(rows') = Len(rows)
      /\ \A d \in Ids : d # c => rows'[d] = rows[d]
      /\ rows'[c].status # "sending"
      /\ Settled(rows[c]) => rows'[c].status = rows[c].status
  BY <1>1, <1>2, <1>3, MarkedRows
<1>5. Ids = 1..Len(rows) /\ Ids' = Ids /\ \A d \in Ids : rows[d] \in Delivery
  <2>1. Ids' = 1..Len(rows')
    BY <1>4, LenProperties DEF Ids
  <2>2. QED BY <1>4, <2>1, RowsAre DEF IInv
<1>6. SettledStay
  BY <1>4, <1>5 DEF SettledStay
<1>7. SendingIsHeld'
  BY <1>1, <1>4, <1>5, HeldKeeps DEF NothingLost, Undisturbed
<1>8. Settled(rows'[c])
  <2>1. rows \in Seq(Delivery) /\ c \in 1..Len(rows)
    BY <1>5 DEF IInv, Types
  <2>2. rows'[c].status = IF rows[c].status \in Open THEN "failed" ELSE rows[c].status
    BY <1>1, <1>3, <2>1, MarkChanges
  <2>3. rows[c].status \in Open \/ Settled(rows[c])
    BY <1>5 DEF Delivery, Open, Settled
  <2>4. QED BY <2>2, <2>3 DEF Settled
<1>9. QED BY <1>3, <1>6, <1>7, <1>8

\* The announcement, if there is one, waits.
LEMMA AnnounceStep ==
  ASSUME IInv, HeldInv, NEW w \in Workers, AnnounceFailure(w)
  PROVE  SettledStay /\ SendingIsHeld'
<1>1. batch[w] # <<>> /\ UNCHANGED <<up, faults, retired>> /\ Settled(rows[Head(batch[w]).id])
  BY DEF AnnounceFailure, InLoop, HeldInv, FailingIsSettled
<1>2. Ids = 1..Len(rows) /\ Len(rows) \in Nat /\ rows \in Seq(Delivery)
  BY RowsAre DEF IInv, Types
<1>3. CASE rows' = rows /\ Pop(w)
  <2>1. Ids' = Ids /\ SettledStay
    BY <1>3 DEF Ids, SettledStay
  <2>2. \A d \in Ids' : rows'[d].status = "sending" =>
           d \in Ids /\ d # Head(batch[w]).id /\ rows[d].status = "sending"
    BY <1>1, <1>3, <2>1 DEF Settled
  <2>3. QED BY <1>1, <1>3, <2>1, <2>2, PoppedHeld DEF HeldInv
<1>4. CASE rows' = rows /\ Head(batch[w]).session \in retired
  <2>1. ~NothingLost'
    BY <1>1, <1>4 DEF NothingLost, Undisturbed
  <2>2. QED BY <1>4, <2>1 DEF SettledStay, SendingIsHeld, NothingLost
<1>5. CASE EnqueueDelivery(rows, Head(batch[w]).session, Head(batch[w]).id) /\ Pop(w)
  <2>1. batch[w] \in Seq(Claim)
    BY DEF IInv, Types
  <2>2. Head(batch[w]) \in Claim
    BY <1>1, <2>1, HeadTailProperties
  <2>3. PICK s \in Sessions \cup {None}, origin \in Nat \cup {None} :
          s = Head(batch[w]).session /\ origin = Head(batch[w]).id
    BY <2>2 DEF Claim
  <2>4. EnqueueDelivery(rows, s, origin) /\ Len(rows) = Len(posted) /\ posted \in Seq(Nat)
    BY <1>5, <2>3 DEF IInv, Types
  <2>5. /\ rows' \in Seq(Delivery) /\ Len(rows') = Len(rows) + 1
        /\ \A d \in 1..Len(rows) : rows'[d] = rows[d]
        /\ rows'[Len(rows) + 1].status = "pending"
    BY <1>2, <2>4, AppendedWaits
  <2>6. Ids' = 1..(Len(rows) + 1)
    BY <2>5, LenProperties DEF Ids
  <2>7. \A d \in Ids' : rows'[d].status = "sending" =>
           d \in Ids /\ d # Head(batch[w]).id /\ rows[d].status = "sending"
    BY <1>1, <1>2, <2>5, <2>6 DEF Settled
  <2>8. SettledStay
    BY <2>5 DEF SettledStay
  <2>9. QED BY <1>1, <1>5, <2>7, <2>8, PoppedHeld DEF HeldInv
<1>6. QED BY <1>3, <1>4, <1>5 DEF AnnounceFailure

\* A message that is enqueued waits.
LEMMA EnqueueStep ==
  ASSUME IInv, SendingIsHeld, NEW s \in Sessions \cup {None}, Enqueue(s)
  PROVE  SettledStay /\ SendingIsHeld'
<1>1. /\ EnqueueDelivery(rows, s, None) /\ UNCHANGED <<up, faults, retired, batch>>
  BY DEF Enqueue, workerVars
<1>2. rows \in Seq(Delivery) /\ posted \in Seq(Nat) /\ Len(posted) = Len(rows)
  BY DEF IInv, Types
<1>3. /\ rows' \in Seq(Delivery) /\ Len(rows') = Len(rows) + 1
      /\ \A d \in 1..Len(rows) : rows'[d] = rows[d]
      /\ rows'[Len(rows) + 1].status = "pending"
  <2>1. PICK origin \in Nat \cup {None} : origin = None
    OBVIOUS
  <2>2. EnqueueDelivery(rows, s, origin)
    BY <1>1, <2>1
  <2>3. QED BY <1>2, <2>2, AppendedWaits
<1>4. Ids = 1..Len(rows) /\ Len(rows) \in Nat /\ Ids' = 1..(Len(rows) + 1)
  <2>1. Ids' = 1..Len(rows')
    BY <1>3, LenProperties DEF Ids
  <2>2. QED BY <1>3, <2>1, RowsAre DEF IInv
<1>5. SettledStay
  BY <1>3 DEF SettledStay
<1>6. \A d \in Ids' : rows'[d].status = "sending" => d \in Ids /\ rows[d].status = "sending"
  BY <1>3, <1>4
<1>7. QED BY <1>1, <1>5, <1>6, HeldKeeps DEF NothingLost, Undisturbed

LEMMA DrainStep ==
  ASSUME IInv, SendingIsHeld, NEW w \in Workers, Drain(w)
  PROVE  SettledStay /\ SendingIsHeld'
<1>1. /\ Ids' = Ids
      /\ \A d \in Ids : \/ rows'[d] = rows[d]
                        \/ /\ rows[d].status \in {"pending", "retrying"}
                           /\ Holds(batch'[w], d)
      /\ \A v \in Workers : v # w => batch'[v] = batch[v]
      /\ \A d : ~Holds(batch[w], d)
      /\ UNCHANGED <<up, faults, retired>>
  BY DrainInv, DrainedRows
<1>2. Ids = 1..Len(rows)
  BY RowsAre DEF IInv
<1>3. SettledStay
  BY <1>1, <1>2 DEF SettledStay, Settled
<1>4. SendingIsHeld'
  <2> SUFFICES ASSUME NothingLost', NEW d \in Ids', rows'[d].status = "sending"
               PROVE  \E v \in Workers : Holds(batch'[v], d)
    BY DEF SendingIsHeld, NothingLost, Holds
  <2>1. CASE Holds(batch'[w], d)
    BY <2>1
  <2>2. CASE rows'[d] = rows[d]
    <3>1. PICK v \in Workers : Holds(batch[v], d)
      BY <1>1, <2>2, HeldByMeans DEF NothingLost, Undisturbed
    <3>2. QED BY <1>1, <3>1
  <2>3. QED BY <1>1, <2>1, <2>2
<1>5. QED BY <1>3, <1>4

\* Steps that leave the table and the batches alone.
LEMMA IdleStep ==
  ASSUME IInv, SendingIsHeld, UNCHANGED <<rows, batch, up, faults, retired>>
  PROVE  SettledStay /\ SendingIsHeld'
BY DEF SettledStay, SendingIsHeld, Undisturbed, Ids

LEMMA DeliveredStep ==
  ASSUME IInv, SendingIsHeld, NEW w \in Workers, Delivered(w)
  PROVE  SettledStay /\ SendingIsHeld'
<1>1. /\ rows' = Mark(Head(batch[w]).id, Open, "delivered") /\ Pop(w) /\ batch[w] # <<>>
      /\ UNCHANGED <<up, faults, retired>>
  BY DEF Delivered, IsDelivering, InLoop
<1>3. Open \in SUBSET Open /\ "sending" \in Open
  BY DEF Open
<1>4. QED BY <1>1, <1>3, MarkStep

LEMMA AttemptFailsStep ==
  ASSUME IInv, SendingIsHeld, NEW w \in Workers, AttemptFails(w)
  PROVE  SettledStay /\ SendingIsHeld'
<1>1. /\ rows' = Mark(Head(batch[w]).id, {"sending"}, "retrying") /\ Pop(w) /\ batch[w] # <<>>
      /\ UNCHANGED <<up, faults, retired>>
  BY DEF AttemptFails, IsDelivering, InLoop
<1>2. {"sending"} \in SUBSET Open
  BY DEF Open
<1>3. QED BY <1>1, <1>2, MarkStep

\* A daemon that goes down leaves rows behind until it starts, and so does an exception.
LEMMA CrashStep ==
  ASSUME IInv, HeldInv, NEW w \in Workers, Crash(w) \/ Throw(w)
  PROVE  SettledStay /\ SendingIsHeld'
<1>1. rows' = rows /\ up \in [Workers -> BOOLEAN] /\ faults \in Nat
  BY DEF Crash, Throw, IInv, Types, HeldInv, FailingIsSettled
<1>2. ~NothingLost'
  <2>1. CASE Crash(w)
    BY <1>1, <2>1 DEF Crash, NothingLost
  <2>2. CASE Throw(w)
    BY <1>1, <2>2 DEF Throw, NothingLost, Undisturbed
  <2>3. QED BY <2>1, <2>2
<1>3. QED BY <1>1, <1>2 DEF SettledStay, SendingIsHeld, NothingLost

\* Its start recovers them.
LEMMA StartStep ==
  ASSUME IInv, SendingIsHeld, NEW w \in Workers, Start(w)
  PROVE  SettledStay /\ SendingIsHeld'
<1>1. rows' = [d \in Ids |-> IF d \in {e \in Ids : rows[e].status = "sending"}
                              THEN [rows[d] EXCEPT !.status = "retrying"] ELSE rows[d]]
  BY DEF Start, RecoverSendingDeliveries
<1>2. Ids' = Ids /\ Ids = 1..Len(rows) /\ \A d \in Ids : rows[d] \in Delivery
  BY <1>1, RowsAre DEF Ids, IInv
<1>3. ASSUME NEW d \in Ids
      PROVE  /\ rows'[d].status # "sending"
             /\ rows[d].status # "sending" => rows'[d] = rows[d]
  BY <1>1, <1>2 DEF Delivery
<1>4. SettledStay
  BY <1>2, <1>3 DEF SettledStay, Settled
<1>5. SendingIsHeld'
  BY <1>2, <1>3 DEF SendingIsHeld
<1>6. QED BY <1>4, <1>5

LEMMA RetireStep ==
  ASSUME IInv, SendingIsHeld, NEW s \in Sessions, Retire(s)
  PROVE  SettledStay /\ SendingIsHeld'
<1>1. /\ rows' = [d \in Ids |-> [rows[d] EXCEPT !.session = IF rows[d].session = s THEN None ELSE rows[d].session]]
      /\ retired' = retired \cup {s}
  BY DEF Retire
<1>2. Ids = 1..Len(rows) /\ \A d \in Ids : rows[d] \in Delivery
  BY RowsAre DEF IInv
<1>3. \A d \in Ids : rows'[d].status = rows[d].status
  BY <1>1, <1>2 DEF Delivery
<1>4. ~NothingLost'
  BY <1>1 DEF NothingLost, Undisturbed
<1>5. QED BY <1>2, <1>3, <1>4 DEF SettledStay, SendingIsHeld, NothingLost

LEMMA HeldStep ==
  ASSUME IInv, HeldInv, [Next]_vars
  PROVE  SettledStay /\ SendingIsHeld'
<1> USE DEF HeldInv
<1>1. CASE \E s \in Sessions \cup {None} : Enqueue(s)
  BY <1>1, EnqueueStep
<1>2. ASSUME NEW w \in Workers, Drain(w) \/ Deliver(w) \/ Settle(w) \/ Throw(w) \/ Crash(w) \/ Start(w)
      PROVE  SettledStay /\ SendingIsHeld'
  <2>1. CASE Deliver(w)
    BY <2>1, IdleStep DEF Deliver
  <2>2. CASE Settle(w)
    BY <2>2, DeliveredStep, AttemptFailsStep, FailStep, AnnounceStep DEF Settle
  <2>3. QED BY <1>2, <2>1, <2>2, DrainStep, CrashStep, StartStep
<1>3. CASE \E d \in Ids : FallsDue(d)
  BY <1>3, IdleStep DEF FallsDue, workerVars
<1>4. CASE \E s \in Sessions : Retire(s)
  BY <1>4, RetireStep
<1>5. CASE UNCHANGED vars
  BY <1>5, IdleStep DEF vars, workerVars
<1>6. QED BY <1>1, <1>2, <1>3, <1>4, <1>5 DEF Next

\* The row that is first in a batch is one of the table.
LEMMA FirstIsRow ==
  ASSUME IInv, NEW w \in Workers, batch[w] # <<>>
  PROVE  Head(batch[w]).id \in Ids /\ Head(batch[w]).id \in 1..Len(rows)
<1>1. batch[w] \in Seq(Claim) /\ taken[w] \in BOOLEAN /\ BatchOK(batch[w], taken[w], Len(rows))
  BY DEF IInv, Types, Batches
<1>2. QED BY <1>1, RowsAre, TailOfBatch DEF IInv

\* A worker that stays between the two statements stays at its row, which stays settled.
LEMMA FailingKeeps ==
  ASSUME IInv, FailingIsSettled, SettledStay, failing' \in [Workers -> BOOLEAN], faults' \in Nat,
         \A v \in Workers : failing'[v] => failing[v] /\ batch'[v] = batch[v]
  PROVE  FailingIsSettled'
<1> SUFFICES ASSUME NEW v \in Workers, failing'[v]
             PROVE  batch'[v] # <<>> /\ Settled(rows'[Head(batch'[v]).id])
  BY DEF FailingIsSettled, Settled
<1>1. batch'[v] = batch[v] /\ batch[v] # <<>> /\ Settled(rows[Head(batch[v]).id])
  BY DEF FailingIsSettled
<1>2. QED BY <1>1, FirstIsRow DEF SettledStay, Settled

LEMMA FailingMovesOn ==
  ASSUME IInv, FailingIsSettled, SettledStay, faults' \in Nat,
         NEW w \in Workers, NEW left, ContinueWith(w, left)
  PROVE  FailingIsSettled'
<1>1. /\ failing' = [failing EXCEPT ![w] = FALSE] /\ failing \in [Workers -> BOOLEAN]
      /\ batch' = [batch EXCEPT ![w] = left] /\ batch \in [Workers -> Seq(Claim)]
  BY DEF ContinueWith, FailingIsSettled, IInv, Types
<1>2. QED BY <1>1, FailingKeeps

LEMMA FailingStep ==
  ASSUME IInv, HeldInv, [Next]_vars
  PROVE  FailingIsSettled'
<1>1. SettledStay /\ FailingIsSettled /\ faults \in Nat /\ failing \in [Workers -> BOOLEAN]
  BY HeldStep DEF HeldInv, FailingIsSettled
<1>2. CASE UNCHANGED <<batch, failing, faults>>
  BY <1>1, <1>2, FailingKeeps
<1>3. ASSUME NEW w \in Workers, Drain(w)
      PROVE  FailingIsSettled'
  <2>1. /\ batch[w] = <<>> /\ failing' = failing /\ faults' = faults
        /\ \A v \in Workers : v # w => batch'[v] = batch[v]
    BY <1>3 DEF Drain, ClaimDueDeliveries, IInv, Types
  <2>2. QED BY <1>1, <2>1, FailingKeeps DEF FailingIsSettled
<1>4. ASSUME NEW w \in Workers, DeliveryFails(w)
      PROVE  FailingIsSettled'
  <2>1. /\ batch[w] # <<>> /\ batch' = batch /\ faults' = faults
        /\ failing' = [failing EXCEPT ![w] = TRUE]
    BY <1>4 DEF DeliveryFails, IsDelivering, InLoop
  <2>2. Settled(rows'[Head(batch[w]).id])
    BY <1>4, FailStep DEF HeldInv
  <2>3. \A v \in Workers : v # w /\ failing[v] => Settled(rows'[Head(batch[v]).id])
    BY <1>1, FirstIsRow DEF FailingIsSettled, SettledStay, Settled
  <2>4. QED BY <1>1, <2>1, <2>2, <2>3 DEF FailingIsSettled, Settled
<1>5. ASSUME NEW w \in Workers,
             Delivered(w) \/ AttemptFails(w) \/ AnnounceFailure(w) \/ Throw(w) \/ Crash(w)
      PROVE  FailingIsSettled'
  <2>1. faults' \in Nat /\ \E left : ContinueWith(w, left)
    BY <1>1, <1>5 DEF Delivered, AttemptFails, AnnounceFailure, Throw, Crash, Pop, EndDrain
  <2>2. QED BY <1>1, <2>1, FailingMovesOn
<1>6. QED
  BY <1>2, <1>3, <1>4, <1>5
     DEF Next, vars, workerVars, Settle, Enqueue, Deliver, Start, FallsDue, Retire

LEMMA HeldInit == Init => HeldInv
BY DEF Init, HeldInv, SendingIsHeld, FailingIsSettled, Ids

LEMMA HeldInvariant == Spec => []HeldInv
<1>1. IInv /\ HeldInv /\ [Next]_vars => HeldInv'
  BY HeldStep, FailingStep DEF HeldInv
<1>2. QED BY <1>1, HeldInit, DeliveriesInvariant, PTL DEF Spec

\* What is settled stays settled, whatever a second daemon that holds an older copy of the
\* row reports (the `from` states of markDeliveryDelivered(), markDeliveryRetry() and
\* markDeliveryFailed()), and through crashes, starts and retirements.
THEOREM DeliveriesSettledIsFinal == Spec => SettledIsFinal
<1>1. IInv /\ HeldInv /\ [Next]_vars =>
        [\A d \in Ids : rows[d].status \in {"delivered", "failed"} => rows'[d].status = rows[d].status]_vars
  BY HeldStep, RowsAre DEF IInv, SettledStay, Settled
<1>2. QED BY <1>1, HeldInvariant, DeliveriesInvariant, PTL DEF Spec, SettledIsFinal

\* No row is stranded while every daemon runs and no exception or retired session ended a
\* drain() (claimDueDeliveries(), drain(), recoverSendingDeliveries()).
THEOREM DeliveriesSendingIsHeld == Spec => []SendingIsHeld
<1>1. HeldInv => SendingIsHeld
  BY DEF HeldInv
<1>2. QED BY <1>1, HeldInvariant, PTL

----------------------------------------------------------------------------
(* First attempts come in the order of creation *)

\* A row is pending until its first attempt and never again; what is claimed was tried.
Tried ==
  /\ \A d \in 1..Len(rows) : rows[d].status = "pending" <=> rows[d].attempts = 0
  /\ \A w \in Workers : \A d : Holds(batch[w], d) => rows[d].attempts > 0

OrderInv == Tried /\ FirstAttemptsInOrder

LEMMA PoppedKeeps ==
  ASSUME IInv, NEW w \in Workers, batch[w] # <<>>, Pop(w)
  PROVE  \A v \in Workers : \A d : Holds(batch'[v], d) => Holds(batch[v], d)
<1>1. /\ batch[w] \in Seq(Claim) /\ taken[w] \in BOOLEAN /\ BatchOK(batch[w], taken[w], Len(rows))
      /\ batch' = [batch EXCEPT ![w] = Tail(batch[w])] /\ batch \in [Workers -> Seq(Claim)]
  BY DEF IInv, Types, Batches, Pop, ContinueWith
<1>2. \A d : Holds(Tail(batch[w]), d) => UntakenIn(batch[w], taken[w], d)
  BY <1>1, RowsAre, TailOfBatch DEF IInv
<1>3. \A d : Holds(Tail(batch[w]), d) => Holds(batch[w], d)
  BY <1>2 DEF UntakenIn
<1>4. batch'[w] = Tail(batch[w]) /\ \A v \in Workers : v # w => batch'[v] = batch[v]
  BY <1>1
<1>5. QED BY <1>3, <1>4

\* Steps that charge nothing, and may append a row that waits.
LEMMA OrderKeeps ==
  ASSUME IInv, IInv', OrderInv, NEW table \in Seq(Delivery), Len(table) = Len(rows),
         \A d \in 1..Len(rows) : /\ table[d].attempts = rows[d].attempts
                                 /\ table[d].status = "pending" <=> rows[d].status = "pending",
         \/ rows' = table
         \/ /\ Len(rows') = Len(rows) + 1
            /\ \A d \in 1..Len(rows) : rows'[d] = table[d]
            /\ rows'[Len(rows) + 1].status = "pending" /\ rows'[Len(rows) + 1].attempts = 0,
         \A v \in Workers : \A d : Holds(batch'[v], d) => Holds(batch[v], d)
  PROVE  OrderInv'
<1>1. Ids = 1..Len(rows) /\ Len(rows) \in Nat
  BY RowsAre DEF IInv
<1>2. Ids' = 1..Len(rows') /\ Len(rows') \in Nat
  BY LenProperties DEF IInv, Types, Ids
<1>3. \A d \in 1..Len(rows) :
        /\ d \in 1..Len(rows')
        /\ rows'[d].attempts = rows[d].attempts
        /\ rows'[d].status = "pending" <=> rows[d].status = "pending"
  BY <1>1, <1>2
<1>4. \A d \in 1..Len(rows') : d \notin 1..Len(rows) =>
        /\ d = Len(rows) + 1
        /\ rows'[d].status = "pending" /\ rows'[d].attempts = 0
  BY <1>1, <1>2
<1>5. Tried'
  <2>1. \A d \in 1..Len(rows') : rows'[d].status = "pending" <=> rows'[d].attempts = 0
    BY <1>3, <1>4 DEF OrderInv, Tried
  <2>2. ASSUME NEW v \in Workers, NEW d, Holds(batch'[v], d)
        PROVE  rows'[d].attempts > 0
    <3>1. Holds(batch[v], d)
      BY <2>2
    <3>2. d \in 1..Len(rows)
      BY <3>1 DEF Holds, IInv, Batches, BatchOK
    <3>3. QED BY <1>3, <3>1, <3>2 DEF OrderInv, Tried
  <2>3. QED BY <2>1, <2>2 DEF Tried
<1>6. FirstAttemptsInOrder'
  <2> SUFFICES ASSUME NEW d \in Ids', NEW e \in Ids', d < e, rows'[e].attempts > 0
               PROVE  rows'[d].attempts > 0
    BY DEF FirstAttemptsInOrder
  <2>1. e \in Ids
    BY <1>1, <1>2, <1>4
  <2>2. d \in Ids
    BY <1>1, <1>2, <2>1
  <2>3. QED BY <1>1, <1>3, <2>1, <2>2 DEF OrderInv, FirstAttemptsInOrder
<1>7. QED BY <1>5, <1>6 DEF OrderInv

\* A claimed row that is marked was tried, so it is not pending before or after.
LEMMA MarkOrder ==
  ASSUME IInv, OrderInv, NEW w \in Workers, batch[w] # <<>>, NEW from,
         NEW to \in {"retrying", "delivered", "failed"}
  PROVE  LET m == Mark(Head(batch[w]).id, from, to)
         IN  /\ m \in Seq(Delivery) /\ Len(m) = Len(rows)
             /\ \A d \in 1..Len(rows) : /\ m[d].attempts = rows[d].attempts
                                        /\ m[d].status = "pending" <=> rows[d].status = "pending"
<1>1. /\ batch[w] \in Seq(Claim) /\ taken[w] \in BOOLEAN /\ BatchOK(batch[w], taken[w], Len(rows))
      /\ rows \in Seq(Delivery)
  BY DEF IInv, Types, Batches
<1>2. Head(batch[w]) = batch[w][1] /\ Head(batch[w]).id \in 1..Len(rows) /\ 1 \in 1..Len(batch[w])
  <2>1. Len(rows) \in Nat
    BY RowsAre DEF IInv
  <2>2. Head(batch[w]) = batch[w][1] /\ Head(batch[w]).id \in 1..Len(rows)
    BY <1>1, <2>1, TailOfBatch
  <2>3. 1 \in 1..Len(batch[w])
    BY <1>1, EmptySeq
  <2>4. QED BY <2>2, <2>3
<1>3. PICK c \in 1..Len(rows) : c = Head(batch[w]).id
  BY <1>2
<1>4. Holds(batch[w], c)
  BY <1>2, <1>3 DEF Holds
<1>5. rows[c].status # "pending"
  BY <1>4, RowsAre DEF OrderInv, Tried, IInv
<1>6. PICK m : m = Mark(c, from, to)
  OBVIOUS
<1>7. /\ m \in Seq(Delivery) /\ Len(m) = Len(rows)
      /\ \A d \in 1..Len(rows) : d # c => m[d] = rows[d]
      /\ \A d \in 1..Len(rows) :
           m[d].attempts = rows[d].attempts /\ m[d].fallbackFor = rows[d].fallbackFor
      /\ m[c].status = IF rows[c].status \in from THEN to ELSE rows[c].status
  BY <1>1, <1>3, <1>6, MarkChanges
<1>8. m[c].status # "pending"
  BY <1>5, <1>7
<1>9. QED BY <1>3, <1>5, <1>6, <1>7, <1>8

LEMMA SameOrder ==
  ASSUME IInv, IInv', OrderInv, Len(rows') = Len(rows),
         \A d \in 1..Len(rows) : /\ rows'[d].attempts = rows[d].attempts
                                 /\ rows'[d].status = "pending" <=> rows[d].status = "pending",
         \A v \in Workers : \A d : Holds(batch'[v], d) => Holds(batch[v], d)
  PROVE  OrderInv'
<1>1. PICK table \in Seq(Delivery) : table = rows'
  BY DEF IInv, Types
<1>2. QED BY <1>1, OrderKeeps

LEMMA EnqueueOrder ==
  ASSUME IInv, IInv', OrderInv, NEW s \in Sessions \cup {None}, Enqueue(s)
  PROVE  OrderInv'
<1>1. EnqueueDelivery(rows, s, None) /\ batch' = batch
  BY DEF Enqueue, workerVars
<1>2. PICK origin \in Nat \cup {None} : origin = None
  OBVIOUS
<1>3. rows \in Seq(Delivery) /\ posted \in Seq(Nat) /\ Len(posted) = Len(rows)
  BY DEF IInv, Types
<1>4. /\ rows' \in Seq(Delivery) /\ Len(rows') = Len(rows) + 1
      /\ \A d \in 1..Len(rows) : rows'[d] = rows[d]
      /\ rows'[Len(rows) + 1].status = "pending" /\ rows'[Len(rows) + 1].attempts = 0
  BY <1>1, <1>2, <1>3, AppendedWaits
<1>5. QED BY <1>1, <1>3, <1>4, OrderKeeps

LEMMA SettleOrder ==
  ASSUME IInv, IInv', OrderInv, NEW w \in Workers, Settle(w)
  PROVE  OrderInv'
<1>1. batch[w] # <<>>
  BY DEF Settle, Delivered, AttemptFails, DeliveryFails, AnnounceFailure, IsDelivering, InLoop
<1>2. Pop(w) => \A v \in Workers : \A d : Holds(batch'[v], d) => Holds(batch[v], d)
  BY <1>1, PoppedKeeps
<1>3. CASE \E from, to : /\ to \in {"retrying", "delivered", "failed"}
                         /\ rows' = Mark(Head(batch[w]).id, from, to)
                         /\ Pop(w) \/ batch' = batch
  <2>1. PICK from, to : /\ to \in {"retrying", "delivered", "failed"}
                        /\ rows' = Mark(Head(batch[w]).id, from, to)
                        /\ Pop(w) \/ batch' = batch
    BY <1>3
  <2>2. /\ Len(rows') = Len(rows)
        /\ \A d \in 1..Len(rows) : /\ rows'[d].attempts = rows[d].attempts
                                   /\ rows'[d].status = "pending" <=> rows[d].status = "pending"
    BY <1>1, <2>1, MarkOrder
  <2>3. QED BY <1>2, <2>1, <2>2, SameOrder
<1>4. CASE rows' = rows /\ (Pop(w) \/ batch' = [batch EXCEPT ![w] = <<>>])
  <2>1. batch' = [batch EXCEPT ![w] = <<>>] =>
          \A v \in Workers : \A d : Holds(batch'[v], d) => Holds(batch[v], d)
    BY EmptyBatch DEF IInv, Types
  <2>2. QED BY <1>2, <1>4, <2>1, SameOrder
<1>5. CASE EnqueueDelivery(rows, Head(batch[w]).session, Head(batch[w]).id) /\ Pop(w)
  <2>1. batch[w] \in Seq(Claim) /\ rows \in Seq(Delivery)
    BY DEF IInv, Types
  <2>2. Head(batch[w]) \in Claim
    BY <1>1, <2>1, HeadTailProperties
  <2>3. PICK s \in Sessions \cup {None}, origin \in Nat \cup {None} :
          s = Head(batch[w]).session /\ origin = Head(batch[w]).id
    BY <2>2 DEF Claim
  <2>4. EnqueueDelivery(rows, s, origin) /\ Len(rows) = Len(posted) /\ posted \in Seq(Nat)
    BY <1>5, <2>3 DEF IInv, Types
  <2>5. /\ Len(rows') = Len(rows) + 1 /\ \A d \in 1..Len(rows) : rows'[d] = rows[d]
        /\ rows'[Len(rows) + 1].status = "pending" /\ rows'[Len(rows) + 1].attempts = 0
    BY <2>1, <2>4, AppendedWaits
  <2>6. QED BY <1>2, <1>5, <2>1, <2>5, OrderKeeps
<1>6. QED
  BY <1>3, <1>4, <1>5
     DEF Settle, Delivered, AttemptFails, DeliveryFails, AnnounceFailure, EndDrain, ContinueWith

LEMMA CrashOrder ==
  ASSUME IInv, IInv', OrderInv, NEW w \in Workers, Crash(w) \/ Throw(w)
  PROVE  OrderInv'
<1>1. rows' = rows /\ batch' = [batch EXCEPT ![w] = <<>>]
  BY DEF Crash, Throw, EndDrain, ContinueWith
<1>2. \A v \in Workers : \A d : Holds(batch'[v], d) => Holds(batch[v], d)
  BY <1>1, EmptyBatch DEF IInv, Types
<1>3. QED BY <1>1, <1>2, SameOrder

LEMMA StartOrder ==
  ASSUME IInv, IInv', OrderInv, NEW w \in Workers, Start(w)
  PROVE  OrderInv'
<1>1. batch' = batch
      /\ rows' = [d \in Ids |-> IF d \in {e \in Ids : rows[e].status = "sending"}
                                THEN [rows[d] EXCEPT !.status = "retrying"] ELSE rows[d]]
  BY DEF Start, RecoverSendingDeliveries
<1>2. /\ Ids = 1..Len(rows) /\ \A d \in Ids : rows[d] \in Delivery
      /\ Len(rows) \in Nat /\ rows' \in Seq(Delivery)
  BY RowsAre DEF IInv, Types
<1>3. \A d \in 1..Len(rows) : /\ rows'[d].attempts = rows[d].attempts
                              /\ rows'[d].status = "pending" <=> rows[d].status = "pending"
  BY <1>1, <1>2 DEF Delivery
<1>4. Len(rows') = Len(rows)
  <2>1. DOMAIN rows' = 1..Len(rows)
    BY <1>1, <1>2
  <2>2. QED BY <1>2, <2>1, LenProperties
<1>5. QED BY <1>1, <1>3, <1>4, SameOrder

LEMMA RetireOrder ==
  ASSUME IInv, IInv', OrderInv, NEW s \in Sessions, Retire(s)
  PROVE  OrderInv'
<1>1. batch' = batch
      /\ rows' = [d \in Ids |-> [rows[d] EXCEPT !.session = IF rows[d].session = s THEN None ELSE rows[d].session]]
  BY DEF Retire, workerVars
<1>2. /\ Ids = 1..Len(rows) /\ \A d \in Ids : rows[d] \in Delivery
      /\ Len(rows) \in Nat /\ rows' \in Seq(Delivery)
  BY RowsAre DEF IInv, Types
<1>3. \A d \in 1..Len(rows) : /\ rows'[d].attempts = rows[d].attempts
                              /\ rows'[d].status = "pending" <=> rows[d].status = "pending"
  BY <1>1, <1>2 DEF Delivery
<1>4. Len(rows') = Len(rows)
  <2>1. DOMAIN rows' = 1..Len(rows)
    BY <1>1, <1>2
  <2>2. QED BY <1>2, <2>1, LenProperties
<1>5. QED BY <1>1, <1>3, <1>4, SameOrder

\* A claim passes over no row that was pending longer (ORDER BY and LIMIT).
LEMMA DrainOrder ==
  ASSUME IInv, IInv', OrderInv, NEW w \in Workers, Drain(w)
  PROVE  OrderInv'
<1>1. PICK ds \in Claims :
        /\ rows' = [d \in Ids |-> IF d \in {ds[k] : k \in 1..Len(ds)} THEN Charge(rows[d]) ELSE rows[d]]
        /\ batch' = [batch EXCEPT ![w] =
             [k \in 1..Len(ds) |->
                [id |-> ds[k], attempts |-> rows[ds[k]].attempts + 1, session |-> rows[ds[k]].session]]]
  BY DEF Drain, ClaimDueDeliveries
<1>2. PICK claimed : claimed = {ds[k] : k \in 1..Len(ds)}
  OBVIOUS
<1>3. /\ Ids = 1..Len(rows) /\ Ids' = Ids /\ \A d \in Ids : rows[d] \in Delivery
      /\ Len(rows') = Len(rows) /\ Len(rows) \in Nat
  <2>1. Ids = 1..Len(rows) /\ \A d \in Ids : rows[d] \in Delivery
    BY RowsAre DEF IInv
  <2>2. Ids' = Ids /\ Ids' = 1..Len(rows') /\ Len(rows') \in Nat
    BY <1>1, LenProperties DEF IInv, Types, Ids
  <2>3. Len(rows') = Len(rows) /\ Len(rows) \in Nat
    BY <2>1, <2>2, LenProperties DEF IInv, Types, Ids
  <2>4. QED BY <2>1, <2>2, <2>3
<1>4. ASSUME NEW d \in Ids
      PROVE  /\ d \in claimed => rows'[d].status = "sending" /\ rows'[d].attempts > 0
             /\ d \notin claimed => rows'[d] = rows[d]
             /\ rows'[d].attempts >= rows[d].attempts
  <2>1. PICK r \in Delivery : r = rows[d]
    BY <1>3
  <2>2. PICK a \in Nat : a = r.attempts + 1
    BY <2>1 DEF Delivery
  <2>3. PICK q : q = [r EXCEPT !.status = "sending", !.attempts = a]
    OBVIOUS
  <2>4. q.status = "sending" /\ q.attempts = a
    BY ONLY <2>1, <2>2, <2>3 DEF Delivery
  <2>5. Charge(r) = q
    BY <2>2, <2>3 DEF Charge
  <2>6. rows'[d] = IF d \in claimed THEN q ELSE r
    BY <1>1, <1>2, <2>1, <2>5
  <2>7. r.attempts \in Nat /\ a > 0 /\ a >= r.attempts /\ r.attempts >= r.attempts
    BY <2>1, <2>2 DEF Delivery
  <2>8. QED BY <2>1, <2>4, <2>6, <2>7
<1>5. ASSUME NEW v \in Workers, NEW d, Holds(batch'[v], d)
      PROVE  d \in claimed \/ Holds(batch[v], d)
  <2>1. CASE v = w
    <3>1. batch'[w] = [k \in 1..Len(ds) |->
            [id |-> ds[k], attempts |-> rows[ds[k]].attempts + 1, session |-> rows[ds[k]].session]]
      BY <1>1 DEF IInv, Types
    <3>2. DOMAIN batch'[w] = 1..Len(batch'[w])
      BY LenProperties DEF IInv, Types
    <3>3. DOMAIN batch'[w] = 1..Len(ds)
      BY <3>1
    <3>4. PICK k \in 1..Len(ds) : batch'[w][k].id = d
      BY <1>5, <2>1, <3>2, <3>3 DEF Holds
    <3>5. d = ds[k]
      BY <3>1, <3>4
    <3>6. QED BY <1>2, <3>4, <3>5
  <2>2. CASE v # w
    BY <1>1, <1>5, <2>2 DEF IInv, Types
  <2>3. QED BY <2>1, <2>2
<1>6. Tried'
  <2>1. \A d \in 1..Len(rows') : rows'[d].status = "pending" <=> rows'[d].attempts = 0
    <3>1. TAKE d \in 1..Len(rows')
    <3>2. d \in Ids
      BY <1>3
    <3>3. CASE d \in claimed
      BY <1>4, <3>2, <3>3
    <3>4. CASE d \notin claimed
      BY <1>3, <1>4, <3>2, <3>4 DEF OrderInv, Tried
    <3>5. QED BY <3>3, <3>4
  <2>2. ASSUME NEW v \in Workers, NEW d, Holds(batch'[v], d)
        PROVE  rows'[d].attempts > 0
    <3>1. d \in Ids
      <4>1. d \in 1..Len(rows')
        BY <2>2 DEF Holds, IInv, Batches, BatchOK
      <4>2. QED BY <1>3, <4>1
    <3>2. CASE d \in claimed
      BY <1>4, <3>1, <3>2
    <3>3. CASE Holds(batch[v], d)
      <4>1. rows[d].attempts > 0 /\ rows[d].attempts \in Nat
        BY <1>3, <3>1, <3>3 DEF OrderInv, Tried, Delivery
      <4>2. d \in claimed \/ rows'[d] = rows[d]
        BY <1>4, <3>1
      <4>3. QED BY <1>4, <3>1, <4>1, <4>2
    <3>4. QED BY <1>5, <2>2, <3>2, <3>3
  <2>3. QED BY <2>1, <2>2 DEF Tried
<1>7. FirstAttemptsInOrder'
  <2> SUFFICES ASSUME NEW d \in Ids, NEW e \in Ids, d < e, rows'[e].attempts > 0
               PROVE  rows'[d].attempts > 0
    BY <1>3 DEF FirstAttemptsInOrder
  <2>1. CASE d \in claimed
    BY <1>4, <2>1
  <2>2. CASE d \notin claimed /\ rows[d].status # "pending"
    BY <1>3, <1>4, <2>2 DEF OrderInv, Tried, Delivery
  <2>3. CASE rows[e].attempts > 0
    <3>1. rows[d].attempts > 0
      BY <2>3 DEF OrderInv, FirstAttemptsInOrder
    <3>2. QED BY <1>4, <2>1, <3>1
  <2>4. CASE d \notin claimed /\ rows[d].status = "pending" /\ ~(rows[e].attempts > 0)
    <3>1. d \in Pending /\ d \in (Pending \cup Retries) \ claimed
      BY <2>4 DEF Pending
    <3>2. e \in claimed
      BY <1>4, <2>4
    <3>3. e \in Pending
      <4>1. rows[e].attempts \in Nat
        BY <1>3 DEF Delivery
      <4>2. rows[e].attempts = 0
        BY <2>4, <4>1
      <4>3. QED BY <1>3, <4>2 DEF Pending, OrderInv, Tried
    <3>4. PICK k \in 1..Len(ds) : e = ds[k]
      BY <1>2, <3>2
    <3>5. Precedes(e, d)
      BY <1>2, <3>1, <3>4 DEF Claims
    <3>6. e < d
      BY <3>1, <3>3, <3>5 DEF Precedes
    <3>7. d \in Nat /\ e \in Nat
      BY <1>3
    <3>8. QED BY <3>6, <3>7
  <2>5. QED BY <2>1, <2>2, <2>3, <2>4
<1>8. QED BY <1>6, <1>7 DEF OrderInv

LEMMA StepOrder == IInv /\ IInv' /\ OrderInv /\ [Next]_vars => OrderInv'
<1> SUFFICES ASSUME IInv, IInv', OrderInv, [Next]_vars PROVE OrderInv'
  OBVIOUS
<1>1. UNCHANGED <<rows, batch>> => OrderInv'
  BY DEF OrderInv, Tried, FirstAttemptsInOrder, Ids
<1>2. CASE \E s \in Sessions \cup {None} : Enqueue(s)
  BY <1>2, EnqueueOrder
<1>3. ASSUME NEW w \in Workers, Drain(w) \/ Deliver(w) \/ Settle(w) \/ Throw(w) \/ Crash(w) \/ Start(w)
      PROVE  OrderInv'
  <2>1. CASE Deliver(w)
    BY <1>1, <2>1 DEF Deliver
  <2>2. QED BY <1>3, <2>1, DrainOrder, SettleOrder, CrashOrder, StartOrder
<1>4. CASE \E d \in Ids : FallsDue(d)
  BY <1>1, <1>4 DEF FallsDue, workerVars
<1>5. CASE \E s \in Sessions : Retire(s)
  BY <1>5, RetireOrder
<1>6. CASE UNCHANGED vars
  BY <1>1, <1>6 DEF vars, workerVars
<1>7. QED BY <1>2, <1>3, <1>4, <1>5, <1>6 DEF Next

\* A message is first tried after every older one was, whatever retries, limits, restarts and
\* other daemons do to the claims (the ORDER BY and LIMIT of claimDueDeliveries()).
THEOREM DeliveriesFirstAttemptsInOrder == Spec => []FirstAttemptsInOrder
<1>1. Init => OrderInv
  <2> SUFFICES ASSUME Init PROVE OrderInv
    OBVIOUS
  <2>1. Len(rows) = 0 /\ Ids = {}
    BY DEF Init, Ids
  <2>2. \A w \in Workers : \A d : ~Holds(batch[w], d)
    BY EmptyBatch DEF Init
  <2>3. QED BY <2>1, <2>2 DEF OrderInv, Tried, FirstAttemptsInOrder
<1>2. OrderInv => FirstAttemptsInOrder
  BY DEF OrderInv
<1>3. QED BY <1>1, <1>2, StepOrder, DeliveriesInvariant, PTL DEF Spec

----------------------------------------------------------------------------
(* A failure is announced but for what crashes and exceptions cost *)

LostAreCounted == retired = {} => Cardinality(Unannounced) <= crashes + faults

AnnounceInv == crashes \in Nat /\ LostAreCounted

\* Steps that give up no row but those in X, and mark none failed but where a worker stays.
Announcing(X) ==
  /\ Len(rows) <= Len(rows')
  /\ \A d \in 1..Len(rows') : rows'[d].status = "failed" => d \in 1..Len(rows)
  /\ \A d \in 1..Len(rows) :
       /\ rows'[d].fallbackFor = rows[d].fallbackFor
       /\ rows'[d].status = "failed" =>
            rows[d].status = "failed" \/ \E w \in Workers : failing'[w] /\ Head(batch'[w]).id = d
  /\ \A w \in Workers : failing[w] =>
       \/ failing'[w] /\ batch'[w] = batch[w]
       \/ rows[Head(batch[w]).id].fallbackFor # None
       \/ \E f \in 1..Len(rows') : rows'[f].fallbackFor = Head(batch[w]).id
       \/ Head(batch[w]).id \in X

LEMMA UnannouncedRows ==
  ASSUME IInv
  PROVE  /\ Ids = 1..Len(rows) /\ Len(rows) \in Nat
         /\ IsFiniteSet(Unannounced) /\ Cardinality(Unannounced) \in Nat
<1>1. Ids = 1..Len(rows) /\ Len(rows) \in Nat
  BY RowsAre DEF IInv
<1>2. IsFiniteSet(1..Len(rows)) /\ Unannounced \subseteq 1..Len(rows)
  BY <1>1, FS_Interval DEF Unannounced
<1>3. QED BY <1>1, <1>2, FS_Subset, FS_CardinalityType

LEMMA LostAre ==
  ASSUME IInv, IInv', NEW X, Announcing(X)
  PROVE  Unannounced' \subseteq Unannounced \cup X
<1> SUFFICES ASSUME NEW d \in Unannounced', d \notin X
             PROVE  d \in Unannounced
  OBVIOUS
<1>1. Ids = 1..Len(rows) /\ Len(rows) \in Nat /\ Ids' = 1..Len(rows') /\ Len(rows') \in Nat
  <2>1. Ids' = 1..Len(rows') /\ Len(rows') \in Nat
    BY LenProperties DEF IInv, Types, Ids
  <2>2. QED BY <2>1, RowsAre DEF IInv
<1>2. /\ d \in Ids' /\ rows'[d].status = "failed" /\ rows'[d].fallbackFor = None
      /\ \A f \in Ids' : rows'[f].fallbackFor # d
      /\ \A w \in Workers : failing'[w] => Head(batch'[w]).id # d
  BY DEF Unannounced, IsAnnounced
<1>3. d \in Ids /\ rows[d].fallbackFor = None /\ rows[d].status = "failed"
  BY <1>1, <1>2 DEF Announcing
<1>4. \A f \in Ids : rows[f].fallbackFor # d
  <2>1. ASSUME NEW f \in Ids, rows[f].fallbackFor = d
        PROVE  FALSE
    <3>1. f \in Ids' /\ rows'[f].fallbackFor = d
      BY <1>1, <2>1 DEF Announcing
    <3>2. QED BY <1>2, <3>1
  <2>2. QED BY <2>1
<1>5. \A w \in Workers : failing[w] => Head(batch[w]).id # d
  BY <1>1, <1>2, <1>3 DEF Announcing
<1>6. QED BY <1>3, <1>4, <1>5 DEF Unannounced, IsAnnounced

LEMMA NoneLost ==
  ASSUME IInv, IInv', HeldInv, AnnounceInv, Announcing({}),
         UNCHANGED <<crashes, faults>>, retired \subseteq retired'
  PROVE  AnnounceInv'
<1>1. Unannounced' \subseteq Unannounced
  BY LostAre
<1>2. IsFiniteSet(Unannounced) /\ Cardinality(Unannounced) \in Nat
  BY UnannouncedRows
<1>3. Cardinality(Unannounced') <= Cardinality(Unannounced) /\ Cardinality(Unannounced') \in Nat
  BY <1>1, <1>2, FS_Subset, FS_CardinalityType
<1>4. crashes \in Nat /\ faults \in Nat
  BY DEF AnnounceInv, HeldInv, FailingIsSettled
<1>5. retired' = {} => Cardinality(Unannounced) <= crashes + faults
  BY DEF AnnounceInv, LostAreCounted
<1>6. retired' = {} => Cardinality(Unannounced') <= crashes' + faults'
  BY <1>2, <1>3, <1>4, <1>5
<1>7. QED BY <1>4, <1>6 DEF AnnounceInv, LostAreCounted

\* A crash or an exception hits one worker, which is at one row.
LEMMA OneLost ==
  ASSUME IInv, IInv', HeldInv, AnnounceInv, NEW w \in Workers, Crash(w) \/ Throw(w)
  PROVE  AnnounceInv'
<1> DEFINE c == Head(batch[w]).id
<1>1. /\ rows' = rows /\ retired' = retired
      /\ batch' = [batch EXCEPT ![w] = <<>>] /\ failing' = [failing EXCEPT ![w] = FALSE]
      /\ (crashes' = crashes + 1 /\ faults' = faults) \/ (crashes' = crashes /\ faults' = faults + 1)
  BY DEF Crash, Throw, EndDrain, ContinueWith
<1>2. /\ crashes \in Nat /\ faults \in Nat /\ failing \in [Workers -> BOOLEAN]
      /\ batch \in [Workers -> Seq(Claim)]
  BY DEF AnnounceInv, HeldInv, FailingIsSettled, IInv, Types
<1>3. Len(rows) \in Nat
  BY UnannouncedRows
<1>4. Announcing({c})
  BY <1>1, <1>2, <1>3 DEF Announcing
<1> HIDE DEF c
<1>5. Unannounced' \subseteq Unannounced \cup {c}
  BY <1>4, LostAre
<1>6. IsFiniteSet(Unannounced) /\ Cardinality(Unannounced) \in Nat
  BY UnannouncedRows
<1>7. /\ IsFiniteSet(Unannounced \cup {c})
      /\ Cardinality(Unannounced \cup {c}) <= Cardinality(Unannounced) + 1
      /\ Cardinality(Unannounced \cup {c}) \in Nat
  <2>1. /\ IsFiniteSet(Unannounced \cup {c})
        /\ Cardinality(Unannounced \cup {c}) =
             IF c \in Unannounced THEN Cardinality(Unannounced) ELSE Cardinality(Unannounced) + 1
    BY <1>6, FS_AddElement
  <2>2. QED BY <1>6, <2>1
<1>8. Cardinality(Unannounced') <= Cardinality(Unannounced \cup {c}) /\ Cardinality(Unannounced') \in Nat
  BY <1>5, <1>7, FS_Subset, FS_CardinalityType
<1>9. retired = {} => Cardinality(Unannounced) <= crashes + faults
  BY DEF AnnounceInv, LostAreCounted
<1>10. retired' = {} => Cardinality(Unannounced') <= crashes' + faults'
  BY <1>1, <1>2, <1>6, <1>7, <1>8, <1>9
<1>11. QED BY <1>1, <1>2, <1>10 DEF AnnounceInv, LostAreCounted

\* Rows that change in their place: none of them fails, but perhaps the one w stays at.
LEMMA InPlace ==
  ASSUME IInv, IInv', HeldInv, AnnounceInv, Len(rows') = Len(rows),
         \A d \in 1..Len(rows) :
           /\ rows'[d].fallbackFor = rows[d].fallbackFor
           /\ rows'[d].status = "failed" =>
                rows[d].status = "failed" \/ \E w \in Workers : failing'[w] /\ Head(batch'[w]).id = d,
         \A w \in Workers : failing[w] => failing'[w] /\ batch'[w] = batch[w],
         UNCHANGED <<crashes, faults>>, retired \subseteq retired'
  PROVE  AnnounceInv'
<1>1. Len(rows) \in Nat
  BY UnannouncedRows
<1>2. Announcing({})
  BY <1>1 DEF Announcing
<1>3. QED BY <1>2, NoneLost

\* The row a worker is at is marked.
LEMMA MarkAnnounced ==
  ASSUME IInv, IInv', HeldInv, AnnounceInv, NEW w \in Workers,
         Delivered(w) \/ AttemptFails(w) \/ DeliveryFails(w)
  PROVE  AnnounceInv'
<1>1. /\ batch[w] # <<>> /\ ~failing[w] /\ UNCHANGED <<crashes, faults, retired>>
  BY DEF Delivered, AttemptFails, DeliveryFails, IsDelivering, InLoop
<1>2. PICK c \in 1..Len(rows) : c = Head(batch[w]).id
  BY <1>1, FirstIsRow
<1>3. /\ failing \in [Workers -> BOOLEAN] /\ batch \in [Workers -> Seq(Claim)]
      /\ rows \in Seq(Delivery)
  BY DEF HeldInv, FailingIsSettled, IInv, Types
<1>4. ASSUME NEW from \in SUBSET {"pending", "sending", "retrying"},
             NEW to \in {"pending", "sending", "retrying", "delivered", "failed"},
             rows' = Mark(c, from, to)
      PROVE  /\ Len(rows') = Len(rows)
             /\ \A d \in 1..Len(rows) : d # c => rows'[d] = rows[d]
             /\ \A d \in 1..Len(rows) : rows'[d].fallbackFor = rows[d].fallbackFor
             /\ rows'[c].status = to \/ rows'[c].status = rows[c].status
  <2> DEFINE m == Mark(c, from, to)
  <2>1. /\ Len(m) = Len(rows)
        /\ \A d \in 1..Len(rows) : d # c => m[d] = rows[d]
        /\ \A d \in 1..Len(rows) :
             m[d].attempts = rows[d].attempts /\ m[d].fallbackFor = rows[d].fallbackFor
        /\ m[c].status = IF rows[c].status \in from THEN to ELSE rows[c].status
    BY <1>3, MarkChanges
  <2>2. rows' = m
    BY <1>4
  <2> HIDE DEF m
  <2>3. QED BY <2>1, <2>2
<1>5. CASE DeliveryFails(w)
  <2>1. /\ batch' = batch /\ failing' = [failing EXCEPT ![w] = TRUE]
        /\ rows' = Mark(c, Open, "failed")
    BY <1>2, <1>5 DEF DeliveryFails
  <2>2. /\ Len(rows') = Len(rows)
        /\ \A d \in 1..Len(rows) : d # c => rows'[d] = rows[d]
        /\ \A d \in 1..Len(rows) : rows'[d].fallbackFor = rows[d].fallbackFor
    BY <1>4, <2>1 DEF Open
  <2>3. failing'[w] /\ Head(batch'[w]).id = c /\ \A v \in Workers : failing[v] => failing'[v]
    BY <1>2, <1>3, <2>1
  <2>4. \A d \in 1..Len(rows) : rows'[d].status = "failed" =>
          rows[d].status = "failed" \/ \E v \in Workers : failing'[v] /\ Head(batch'[v]).id = d
    BY <2>2, <2>3
  <2>5. QED BY <1>1, <2>1, <2>2, <2>3, <2>4, InPlace
<1>6. CASE Delivered(w) \/ AttemptFails(w)
  <2>1. \A v \in Workers : v # w => failing'[v] = failing[v] /\ batch'[v] = batch[v]
    BY <1>3, <1>6 DEF Delivered, AttemptFails, Pop, ContinueWith
  <2>2. /\ Len(rows') = Len(rows)
        /\ \A d \in 1..Len(rows) : d # c => rows'[d] = rows[d]
        /\ \A d \in 1..Len(rows) : rows'[d].fallbackFor = rows[d].fallbackFor
        /\ rows'[c].status = "failed" => rows[c].status = "failed"
    <3>1. CASE Delivered(w)
      <4>1. rows' = Mark(c, Open, "delivered")
        BY <1>2, <3>1 DEF Delivered
      <4>2. QED BY <1>4, <4>1 DEF Open
    <3>2. CASE AttemptFails(w)
      <4>1. rows' = Mark(c, {"sending"}, "retrying")
        BY <1>2, <3>2 DEF AttemptFails
      <4>2. QED BY <1>4, <4>1
    <3>3. QED BY <1>6, <3>1, <3>2
  <2>3. \A d \in 1..Len(rows) : rows'[d].status = "failed" => rows[d].status = "failed"
    BY <2>2
  <2>4. QED BY <1>1, <2>1, <2>2, <2>3, InPlace
<1>7. QED BY <1>5, <1>6

\* A row that is appended waits, and may be the announcement that w owes.
LEMMA AppendAnnounced ==
  ASSUME IInv, IInv', HeldInv, AnnounceInv, NEW s \in Sessions \cup {None},
         NEW origin \in Nat \cup {None}, EnqueueDelivery(rows, s, origin),
         \A w \in Workers : failing[w] =>
           \/ failing'[w] /\ batch'[w] = batch[w]
           \/ Head(batch[w]).id = origin,
         UNCHANGED <<crashes, faults, retired>>
  PROVE  AnnounceInv'
<1>1. rows \in Seq(Delivery) /\ posted \in Seq(Nat) /\ Len(rows) = Len(posted) /\ Len(rows) \in Nat
  BY UnannouncedRows DEF IInv, Types
<1>2. /\ Len(rows') = Len(rows) + 1
      /\ \A d \in 1..Len(rows) : rows'[d] = rows[d]
      /\ rows'[Len(rows) + 1].status = "pending" /\ rows'[Len(rows) + 1].fallbackFor = origin
  <2>1. /\ Len(rows') = Len(rows) + 1
        /\ \A d \in 1..Len(rows) : rows'[d] = rows[d]
        /\ rows'[Len(rows) + 1] =
             [status |-> "pending", attempts |-> 0, session |-> s, fallbackFor |-> origin]
    BY <1>1, Appended
  <2>2. QED BY <2>1
<1>3. 1..Len(rows') = (1..Len(rows)) \cup {Len(rows) + 1}
  BY <1>1, <1>2
<1>4. Announcing({})
  BY <1>1, <1>2, <1>3 DEF Announcing
<1>5. QED BY <1>4, NoneLost

LEMMA AnnounceAnnounced ==
  ASSUME IInv, IInv', HeldInv, AnnounceInv, NEW w \in Workers, AnnounceFailure(w)
  PROVE  AnnounceInv'
<1>1. /\ batch[w] # <<>> /\ UNCHANGED <<crashes, faults, retired>>
      /\ failing \in [Workers -> BOOLEAN] /\ batch \in [Workers -> Seq(Claim)]
  BY DEF AnnounceFailure, InLoop, HeldInv, FailingIsSettled, IInv, Types
<1>2. \A v \in Workers : v # w => failing'[v] = failing[v] /\ batch'[v] = batch[v]
  BY <1>1 DEF AnnounceFailure, Pop, EndDrain, ContinueWith
<1>3. CASE rows' = rows /\ rows[Head(batch[w]).id].fallbackFor # None
  <2>1. Len(rows) \in Nat
    BY UnannouncedRows
  <2>2. Announcing({})
    BY <1>2, <1>3, <2>1 DEF Announcing
  <2>3. QED BY <1>1, <2>2, NoneLost
<1>4. CASE EnqueueDelivery(rows, Head(batch[w]).session, Head(batch[w]).id)
  <2>1. batch[w] \in Seq(Claim)
    BY <1>1
  <2>2. Head(batch[w]) \in Claim
    BY <1>1, <2>1, HeadTailProperties
  <2>3. PICK s \in Sessions \cup {None}, origin \in Nat \cup {None} :
          s = Head(batch[w]).session /\ origin = Head(batch[w]).id
    BY <2>2 DEF Claim
  <2>4. EnqueueDelivery(rows, s, origin)
    BY <1>4, <2>3
  <2>5. \A v \in Workers : failing[v] =>
           (failing'[v] /\ batch'[v] = batch[v]) \/ Head(batch[v]).id = origin
    BY <1>2, <2>3
  <2>6. QED BY <1>1, <2>4, <2>5, AppendAnnounced
<1>5. CASE Head(batch[w]).session \in retired
  BY <1>1, <1>5 DEF AnnounceInv, LostAreCounted
<1>6. QED BY <1>3, <1>4, <1>5 DEF AnnounceFailure, Announces

LEMMA AnnounceStepInv == IInv /\ IInv' /\ HeldInv /\ AnnounceInv /\ [Next]_vars => AnnounceInv'
<1> SUFFICES ASSUME IInv, IInv', HeldInv, AnnounceInv, [Next]_vars PROVE AnnounceInv'
  OBVIOUS
<1>1. /\ Ids = 1..Len(rows) /\ rows \in Seq(Delivery) /\ rows' \in Seq(Delivery)
      /\ \A d \in Ids : rows[d] \in Delivery
  BY RowsAre DEF IInv, Types
<1>2. CASE UNCHANGED <<rows, batch, failing, crashes, faults, retired>>
  BY <1>2, InPlace
<1>3. ASSUME NEW s \in Sessions \cup {None}, Enqueue(s)
      PROVE  AnnounceInv'
  <2>1. EnqueueDelivery(rows, s, None) /\ UNCHANGED <<batch, failing, crashes, faults, retired>>
    BY <1>3 DEF Enqueue, workerVars
  <2>2. PICK origin \in Nat \cup {None} : origin = None
    OBVIOUS
  <2>3. QED BY <2>1, <2>2, AppendAnnounced
<1>4. ASSUME UNCHANGED <<crashes, faults>>, retired \subseteq retired',
             \A w \in Workers : failing[w] => failing'[w] /\ batch'[w] = batch[w],
             DOMAIN rows' = Ids,
             \A d \in Ids : /\ rows'[d].fallbackFor = rows[d].fallbackFor
                            /\ rows'[d].status = "failed" => rows[d].status = "failed"
      PROVE  AnnounceInv'
  <2>1. Len(rows') = Len(rows)
    BY <1>1, <1>4, LenProperties DEF Ids
  <2>2. QED BY <1>1, <1>4, <2>1, InPlace
<1>5. ASSUME NEW w \in Workers, Drain(w)
      PROVE  AnnounceInv'
  <2>1. /\ batch[w] = <<>> /\ UNCHANGED <<crashes, faults, retired, failing>>
        /\ \A v \in Workers : v # w => batch'[v] = batch[v]
        /\ DOMAIN rows' = Ids
        /\ \A d \in Ids : rows'[d] = rows[d] \/ rows'[d] = Charge(rows[d])
    BY <1>5 DEF Drain, ClaimDueDeliveries, IInv, Types
  <2>2. ~failing[w]
    BY <2>1 DEF HeldInv, FailingIsSettled
  <2>3. ASSUME NEW r \in Delivery
        PROVE  Charge(r).fallbackFor = r.fallbackFor /\ Charge(r).status = "sending"
    BY DEF Charge, Delivery
  <2>4. \A d \in Ids : /\ rows'[d].fallbackFor = rows[d].fallbackFor
                       /\ rows'[d].status = "failed" => rows[d].status = "failed"
    BY <1>1, <2>1, <2>3
  <2>5. QED BY <1>4, <2>1, <2>2, <2>4
<1>6. ASSUME NEW w \in Workers, Start(w)
      PROVE  AnnounceInv'
  <2>1. /\ UNCHANGED <<crashes, faults, retired, failing, batch>>
        /\ DOMAIN rows' = Ids
        /\ \A d \in Ids : rows'[d] = rows[d] \/ rows'[d] = [rows[d] EXCEPT !.status = "retrying"]
    BY <1>6 DEF Start, RecoverSendingDeliveries
  <2>2. \A r \in Delivery : LET q == [r EXCEPT !.status = "retrying"]
                            IN  q.fallbackFor = r.fallbackFor /\ q.status = "retrying"
    BY DEF Delivery
  <2>3. \A d \in Ids : /\ rows'[d].fallbackFor = rows[d].fallbackFor
                       /\ rows'[d].status = "failed" => rows[d].status = "failed"
    BY <1>1, <2>1, <2>2
  <2>4. QED BY <1>4, <2>1, <2>3
<1>7. ASSUME NEW s \in Sessions, Retire(s)
      PROVE  AnnounceInv'
  <2>1. /\ UNCHANGED <<crashes, faults, failing, batch>> /\ retired \subseteq retired'
        /\ DOMAIN rows' = Ids
        /\ rows' = [d \in Ids |-> [rows[d] EXCEPT !.session = IF @ = s THEN None ELSE @]]
    BY <1>7 DEF Retire, workerVars
  <2>2. \A r \in Delivery : LET q == [r EXCEPT !.session = IF @ = s THEN None ELSE @]
                            IN  q.fallbackFor = r.fallbackFor /\ q.status = r.status
    BY DEF Delivery
  <2>3. \A d \in Ids : /\ rows'[d].fallbackFor = rows[d].fallbackFor
                       /\ rows'[d].status = "failed" => rows[d].status = "failed"
    BY <1>1, <2>1, <2>2
  <2>4. QED BY <1>4, <2>1, <2>3
<1>8. CASE \/ \E w \in Workers : Deliver(w)
           \/ \E d \in Ids : FallsDue(d)
           \/ UNCHANGED vars
  BY <1>2, <1>8 DEF Deliver, FallsDue, vars, workerVars
<1>9. QED
  BY <1>3, <1>5, <1>6, <1>7, <1>8, MarkAnnounced, AnnounceAnnounced, OneLost DEF Next, Settle

\* What failed for good is announced, but for one message per crash and exception at most,
\* while no session is retired, and an announcement is announced by none: the two statements
\* of a failure in drain() and announceFailure(), for any daemons on one store.
THEOREM DeliveriesFailureSurfaced == Spec => []FailureSurfacedUnlessLost
<1>1. Init => AnnounceInv
  <2> SUFFICES ASSUME Init PROVE AnnounceInv
    OBVIOUS
  <2>1. Ids = {} /\ crashes = 0 /\ faults = 0
    BY DEF Init, Ids
  <2>2. Unannounced = {}
    BY <2>1 DEF Unannounced
  <2>3. QED BY <2>1, <2>2, FS_EmptySet DEF AnnounceInv, LostAreCounted
<1>2. IInv /\ AnnounceInv => FailureSurfacedUnlessLost
  <2> SUFFICES ASSUME IInv, NEW f \in Ids, rows[f].fallbackFor # None,
                      NEW g \in Ids, rows[g].fallbackFor = f
               PROVE  FALSE
    BY DEF AnnounceInv, LostAreCounted, FailureSurfacedUnlessLost, IsAnnounced
  <2>1. Ids = 1..Len(rows) /\ f \in Nat
    BY RowsAre DEF IInv
  <2>2. QED BY <2>1, Constants DEF IInv, Fallbacks
<1>3. QED BY <1>1, <1>2, AnnounceStepInv, HeldInvariant, DeliveriesInvariant, PTL DEF Spec

----------------------------------------------------------------------------
(* SlackMessage: numbers, and sequences that are joined *)

\* A set of numbers has a least.
LEMMA NatMin ==
  ASSUME NEW T \in SUBSET Nat, T # {}
  PROVE  \E x \in T : \A y \in T : ~(y < x)
<1> DEFINE Less == {ss \in Nat \X Nat : ss[1] < ss[2]}
<1>1. IsWellFoundedOn(Less, Nat)
  BY NatLessThanWellFounded DEF OpToRel
<1> HIDE DEF Less
<1>2. \E x \in T : \A y \in T : ~(<<y, x>> \in Less)
  BY <1>1, WFMin
<1>3. QED BY <1>2 DEF Less

\* Induction, for a set of numbers.
LEMMA SetInduction ==
  ASSUME NEW T \in SUBSET Nat, 0 \in T, \A n \in T : n + 1 \in T
  PROVE  T = Nat
<1>1. SUFFICES ASSUME Nat \ T # {} PROVE FALSE
  OBVIOUS
<1>2. PICK x \in Nat \ T : \A y \in Nat \ T : ~(y < x)
  BY <1>1, NatMin
<1>3. QED BY <1>2

\* The sequences that begin with those of S.
Joins(S, g, n) == /\ g[0] = <<>>
                  /\ \A i \in 1..n : g[i] = g[i - 1] \o S[i]

\* What the sequences of S join to, one after another, exists.
LEMMA JoinsExist ==
  ASSUME NEW D, NEW S \in Seq(Seq(D)), NEW m \in 0..Len(S)
  PROVE  \E g \in [0..m -> Seq(D)] : Joins(S, g, m)
<1> DEFINE T == {n \in Nat : n <= Len(S) => \E g \in [0..n -> Seq(D)] : Joins(S, g, n)}
<1>1. 0 \in T
  <2>1. <<>> \in Seq(D)
    OBVIOUS
  <2>2. PICK g \in [0..0 -> Seq(D)] : g = [i \in 0..0 |-> <<>>]
    BY <2>1
  <2>3. Joins(S, g, 0)
    BY <2>2 DEF Joins
  <2>4. QED BY <2>3
<1>2. ASSUME NEW n \in T
      PROVE  n + 1 \in T
  <2>1. SUFFICES ASSUME n + 1 <= Len(S)
                 PROVE  \E g \in [0..(n + 1) -> Seq(D)] : Joins(S, g, n + 1)
    OBVIOUS
  <2>2. n \in Nat /\ n <= Len(S) /\ Len(S) \in Nat
    BY <2>1
  <2>3. PICK g \in [0..n -> Seq(D)] : Joins(S, g, n)
    BY <2>2
  <2>4. n + 1 \in 1..Len(S)
    BY <2>1, <2>2
  <2> HIDE DEF T
  <2>5. S[n + 1] \in Seq(D) /\ g[n] \in Seq(D)
    BY <2>2, <2>3, <2>4
  <2>6. g[n] \o S[n + 1] \in Seq(D)
    BY <2>5
  <2>7. PICK l \in Seq(D) : l = g[n] \o S[n + 1]
    BY <2>6
  <2>8. ASSUME NEW i \in 0..(n + 1)
        PROVE  (IF i = n + 1 THEN l ELSE g[i]) \in Seq(D)
    BY <2>2, <2>3, <2>7
  <2> DEFINE h == [i \in 0..(n + 1) |-> IF i = n + 1 THEN l ELSE g[i]]
  <2>9. h \in [0..(n + 1) -> Seq(D)]
    BY <2>8
  <2>10. h[n + 1] = l /\ \A i \in 0..n : h[i] = g[i]
    BY <2>2
  <2> HIDE DEF h
  <2>11. ASSUME NEW i \in 1..(n + 1)
        PROVE  h[i] = h[i - 1] \o S[i]
    <3>1. i - 1 \in 0..n
      BY <2>2
    <3>2. CASE i = n + 1
      <4>1. i - 1 = n /\ h[i - 1] = g[n]
        BY <2>2, <2>10, <3>2
      <4>2. QED BY <2>7, <2>10, <3>2, <4>1
    <3>3. CASE i # n + 1
      <4>1. i \in 1..n /\ i \in 0..n
        BY <2>2, <3>3
      <4>2. g[i] = g[i - 1] \o S[i]
        BY <2>3, <4>1 DEF Joins
      <4>3. QED BY <2>10, <3>1, <4>1, <4>2
    <3>4. QED BY <3>2, <3>3
  <2>12. h[0] = <<>>
    BY <2>2, <2>3, <2>10 DEF Joins
  <2>13. Joins(S, h, n + 1)
    BY <2>11, <2>12 DEF Joins
  <2>14. QED BY <2>9, <2>13
<1> HIDE DEF T
<1>3. T = Nat
  <2>1. T \in SUBSET Nat
    BY DEF T
  <2>2. QED BY <1>1, <1>2, <2>1, SetInduction
<1>4. m \in T /\ m <= Len(S)
  BY <1>3
<1>5. QED BY <1>4 DEF T

\* FlattenSeq() joins them.
LEMMA FlattenJoins ==
  ASSUME NEW D, NEW S \in Seq(Seq(D))
  PROVE  \E g \in [0..Len(S) -> Seq(D)] : Joins(S, g, Len(S)) /\ FlattenSeq(S) = g[Len(S)]
<1>1. PICK n \in Nat : n = Len(S)
  OBVIOUS
<1>2. PICK g \in [0..n -> Seq(D)] : Joins(S, g, n)
  BY <1>1, JoinsExist
<1>3. g[0] = <<>>
  BY <1>2 DEF Joins
<1>4. \A i \in 1..n : g[i] = g[i - 1] \o S[i]
  BY <1>2 DEF Joins
<1>5. CASE n = 0
  <2>1. FlattenSeq(S) = <<>>
    <3>1. S = <<>>
      BY <1>1, <1>5, EmptySeq
    <3>2. QED BY <3>1 DEF FlattenSeq
  <2>2. QED BY <1>1, <1>2, <1>5, <2>1 DEF Joins
<1>6. CASE n # 0
  <2> DEFINE f == CHOOSE f : f = [i \in 1..Len(S) |-> IF i = 1 THEN S[i] ELSE f[i - 1] \o S[i]]
             k == [i \in 1..Len(S) |-> g[i]]
  <2>1. FlattenSeq(S) = f[Len(S)]
    BY <1>1, <1>6 DEF FlattenSeq
  <2>2. ASSUME NEW i \in 1..n
        PROVE  k[i] = IF i = 1 THEN S[i] ELSE k[i - 1] \o S[i]
    <3>1. g[i] = g[i - 1] \o S[i]
      BY <1>4
    <3>2. S[i] \in Seq(D)
      BY <1>1
    <3>3. CASE i = 1
      <4>1. i - 1 = 0
        BY <3>3
      <4>2. g[i] = <<>> \o S[i]
        BY <3>1, <4>1, <1>3
      <4>3. g[i] = S[i]
        BY <3>2, <4>2, ConcatEmptySeq
      <4>4. QED BY <1>1, <3>3, <4>3
    <3>4. CASE i # 1
      <4>1. i - 1 \in 1..n /\ i \in 1..n
        BY <3>4
      <4>2. k[i] = g[i] /\ k[i - 1] = g[i - 1]
        BY <1>1, <4>1
      <4>3. QED BY <3>1, <3>4, <4>2
    <3>5. QED BY <3>3, <3>4
  <2>3. k = [i \in 1..Len(S) |-> IF i = 1 THEN S[i] ELSE k[i - 1] \o S[i]]
    BY <1>1, <2>2
  <2>4. f = [i \in 1..Len(S) |-> IF i = 1 THEN S[i] ELSE f[i - 1] \o S[i]]
    <3> HIDE DEF k
    <3>1. \E l : l = [i \in 1..Len(S) |-> IF i = 1 THEN S[i] ELSE l[i - 1] \o S[i]]
      BY <2>3
    <3>2. QED BY <3>1
  <2> HIDE DEF f, k
  <2> DEFINE T == {m \in Nat : m + 1 <= n => f[m + 1] = g[m + 1]}
  <2>5. 0 \in T
    <3>1. 1 \in 1..Len(S) /\ 1 \in 1..n
      BY <1>1, <1>6
    <3>2. f[1] = S[1]
      BY <2>4, <3>1
    <3>3. S[1] \in Seq(D)
      BY <3>1
    <3>4. g[1] = S[1]
      <4>1. PICK i \in 1..n : i = 1
        BY <3>1
      <4>2. g[i] = g[i - 1] \o S[i]
        BY <1>4
      <4>3. i - 1 = 0
        BY <4>1
      <4>4. g[1] = <<>> \o S[1]
        BY <1>3, <4>1, <4>2, <4>3
      <4>5. QED BY <3>3, <4>4, ConcatEmptySeq
    <3>5. QED BY <3>2, <3>4
  <2>6. ASSUME NEW m \in T
        PROVE  m + 1 \in T
    <3>1. SUFFICES ASSUME m + 2 <= n PROVE f[m + 2] = g[m + 2]
      OBVIOUS
    <3>2. m \in Nat /\ m + 2 \in 1..n /\ m + 1 \in 1..n /\ (m + 2) - 1 = m + 1 /\ m + 2 # 1
      BY <1>1, <3>1
    <3>3. f[m + 2] = f[m + 1] \o S[m + 2]
      BY <1>1, <2>4, <3>2
    <3>4. g[m + 2] = g[m + 1] \o S[m + 2]
      BY <1>2, <3>2 DEF Joins
    <3>5. f[m + 1] = g[m + 1]
      BY <3>2
    <3>6. QED BY <3>3, <3>4, <3>5
  <2> HIDE DEF T
  <2>7. T = Nat
    <3>1. T \in SUBSET Nat
      BY DEF T
    <3>2. QED BY <2>5, <2>6, <3>1, SetInduction
  <2>8. f[n] = g[n]
    <3>1. n - 1 \in T /\ (n - 1) + 1 = n
      BY <1>6, <2>7
    <3>2. QED BY <3>1 DEF T
  <2>9. QED BY <1>1, <1>2, <2>1, <2>8
<1>7. QED BY <1>5, <1>6

\* Division, from below and from above.
LEMMA DivBounds ==
  ASSUME NEW a \in Nat, NEW c \in Nat \ {0}
  PROVE  /\ a \div c \in Nat
         /\ c * (a \div c) <= a
         /\ a < c * (a \div c) + c
<1>1. a = c * (a \div c) + (a % c) /\ a % c \in 0..(c - 1) /\ a \div c \in Int
  OBVIOUS
<1>2. QED BY <1>1

\* The last place of n falls into the last row of as many as hold n.
LEMMA LastRow ==
  ASSUME NEW a \in Nat, NEW n \in Nat, a < n, NEW c \in Nat \ {0}
  PROVE  (a \div c) + 1 <= (n + c - 1) \div c
<1>1. PICK q \in Nat : q = a \div c /\ c * q <= a
  BY DivBounds
<1>2. PICK m \in Nat : m = n + c - 1
  OBVIOUS
<1>3. PICK r \in Nat : r = m \div c /\ m < c * r + c
  BY <1>2, DivBounds
<1>4. c * q < c * r
  BY <1>1, <1>2, <1>3
<1>5. q < r
  BY <1>4
<1>6. QED BY <1>1, <1>2, <1>3, <1>5

----------------------------------------------------------------------------
(* SlackMessage: controls *)

\* A row keeps to the limits of the controls.
Fits(c) ==
  /\ c.type = "actions" => IsFiniteSet(c.options) /\ Cardinality(c.options) <= ActionsElements
  /\ c.type = "select" => IsFiniteSet(c.options) /\ Cardinality(c.options) <= SelectOptions

\* The size of an option's envelope.
SizeOf(p) == message.questions[p[1]].options[p[2]]

\* An option that is too long for a button has none, and only short ones are in a select.
Suits(c) ==
  /\ c.type = "actions" => \A p \in c.options : SizeOf(p) # "long"
  /\ c.type = "select" => \A p \in c.options : SizeOf(p) = "short"

\* What an interaction puts into a message to be answered.
Control ==
  [type : {"notice"}, options : SUBSET (Nat \X Nat), question : Nat, cut : BOOLEAN]
    \cup [type : {"actions", "select"}, options : SUBSET (Nat \X Nat)]

\* A list whose end is cut off leaves out an option that is too long for a button.
CutsOff(c, p) == c.type = "notice" /\ c.cut /\ c.question = p[1] /\ SizeOf(p) = "long"

\* The controls C offer the options P, each of them once, but for those cut off a list.
Offered(C, P) ==
  /\ C \in Seq(Control)
  /\ \A i \in 1..Len(C) : C[i].options \subseteq P /\ Fits(C[i]) /\ Suits(C[i])
  /\ \A p \in P : \E i \in 1..Len(C) : p \in C[i].options \/ CutsOff(C[i], p)
  /\ \A i, j \in 1..Len(C) : C[i].options \cap C[j].options # {} => i = j

\* A question's options, with its number.
Pairs(q, X) == {<<q, o>> : o \in X}

\* The buttons take places of their own, from 0.
LEMMA PlacesDiffer ==
  ASSUME NEW n \in Nat, NEW B \in SUBSET (1..n)
  PROVE  /\ IsFiniteSet(B) /\ Cardinality(B) \in Nat
         /\ \A o \in B : Place(o, B) \in Nat /\ Place(o, B) < Cardinality(B)
         /\ \A o, p \in B : Place(o, B) = Place(p, B) => o = p
<1>1. IsFiniteSet(B) /\ Cardinality(B) \in Nat
  <2>1. IsFiniteSet(1..n)
    BY FS_Interval
  <2>2. IsFiniteSet(B)
    BY <2>1, FS_Subset
  <2>3. QED BY <2>2, FS_CardinalityType
<1>2. ASSUME NEW S \in SUBSET B, NEW T \in SUBSET S, S # T
      PROVE  Cardinality(T) \in Nat /\ Cardinality(T) < Cardinality(S)
  <2>1. IsFiniteSet(S) /\ Cardinality(S) \in Nat
    BY <1>1, FS_Subset, FS_CardinalityType
  <2>2. IsFiniteSet(T) /\ Cardinality(T) \in Nat /\ Cardinality(T) <= Cardinality(S)
    BY <2>1, FS_Subset, FS_CardinalityType
  <2>3. Cardinality(S) # Cardinality(T)
    BY <1>2, <2>1, FS_Subset
  <2>4. QED BY <2>1, <2>2, <2>3
<1>3. ASSUME NEW o \in B
      PROVE  Place(o, B) \in Nat /\ Place(o, B) < Cardinality(B)
  <2>1. PICK T \in SUBSET B : T = {b \in B : b < o}
    OBVIOUS
  <2>2. o \notin T
    BY <2>1
  <2>3. QED BY <1>2, <2>1, <2>2 DEF Place
<1>4. ASSUME NEW o \in B, NEW p \in B, o < p
      PROVE  Place(o, B) < Place(p, B)
  <2>1. PICK S \in SUBSET B : S = {b \in B : b < p}
    OBVIOUS
  <2>2. PICK T \in SUBSET S : T = {b \in B : b < o}
    <3>1. ASSUME NEW b \in B, b < o
          PROVE  b < p
      <4>1. b \in Nat /\ o \in Nat /\ p \in Nat
        OBVIOUS
      <4>2. QED BY <1>4, <3>1, <4>1
    <3>2. {b \in B : b < o} \in SUBSET S
      BY <2>1, <3>1
    <3>3. QED BY <3>2
  <2>3. o \in S /\ o \notin T
    BY <1>4, <2>1, <2>2
  <2>4. QED BY <1>2, <2>1, <2>2, <2>3 DEF Place
<1>5. ASSUME NEW o \in B, NEW p \in B, Place(o, B) = Place(p, B)
      PROVE  o = p
  <2>1. o \in Nat /\ p \in Nat
    OBVIOUS
  <2>2. Place(o, B) \in Nat
    BY <1>3
  <2>3. ~(o < p) /\ ~(p < o)
    BY <1>4, <1>5, <2>2
  <2>4. QED BY <2>1, <2>3
<1>6. QED BY <1>1, <1>3, <1>5

\* The options of row k.
Row(q, B, k) == {<<q, o>> : o \in {b \in B : Place(b, B) \div ActionsElements = k}}

\* A row has at most as many buttons as Slack allows.
LEMMA RowFits ==
  ASSUME NEW n \in Nat, NEW B \in SUBSET (1..n), NEW k \in Nat, NEW q \in Nat,
         NEW R, R = Row(q, B, k)
  PROVE  IsFiniteSet(R) /\ Cardinality(R) <= ActionsElements
<1>1. PICK a \in Nat \ {0} : a = ActionsElements
  BY LimitsAssumption
<1>2. PICK low \in Nat : low = a * k
  OBVIOUS
<1> DEFINE f == [p \in R |-> Place(p[2], B)]
           T == low..(low + a - 1)
<1>3. ASSUME NEW p \in R
      PROVE  p[2] \in B /\ p = <<q, p[2]>> /\ Place(p[2], B) \in T
  <2>1. PICK o \in B : p = <<q, o>> /\ Place(o, B) \div a = k
    BY <1>1 DEF Row
  <2>2. PICK m \in Nat : m = Place(o, B)
    BY PlacesDiffer
  <2>3. a * k <= m /\ m < a * k + a
    BY <2>1, <2>2, DivBounds
  <2>4. m \in T
    BY <1>2, <2>3
  <2>5. QED BY <2>1, <2>2, <2>4
<1>4. f \in Injection(R, T)
  <2>1. f \in [R -> T]
    BY <1>3
  <2>2. ASSUME NEW p \in R, NEW r \in R, f[p] = f[r]
        PROVE  p = r
    <3>1. p[2] \in B /\ r[2] \in B /\ p = <<q, p[2]>> /\ r = <<q, r[2]>>
      BY <1>3
    <3>2. Place(p[2], B) = Place(r[2], B)
      BY <2>2
    <3>3. p[2] = r[2]
      BY <3>1, <3>2, PlacesDiffer
    <3>4. QED BY <3>1, <3>3
  <2>3. QED BY <2>1, <2>2 DEF Injection, IsInjective
<1>5. IsFiniteSet(T) /\ Cardinality(T) = a
  BY <1>2, FS_Interval
<1> HIDE DEF f, T
<1>6. QED BY <1>1, <1>4, <1>5, FS_Injection

\* actionsBlocks() offers every option that has a button, once.
LEMMA RowsOffer ==
  ASSUME NEW n \in Nat, NEW B \in SUBSET (1..n), NEW q \in Nat,
         \A o \in B : SizeOf(<<q, o>>) # "long"
  PROVE  Offered(ActionsBlocks(q, B), Pairs(q, B))
<1>1. PICK a \in Nat \ {0} : a = ActionsElements
  BY LimitsAssumption
<1>2. PICK c \in Nat : c = Cardinality(B)
  BY PlacesDiffer
<1>3. PICK l \in Nat : l = (c + a - 1) \div a
  <2>1. c + a - 1 \in Nat
    OBVIOUS
  <2>2. QED BY <2>1, DivBounds
<1>4. PICK C : C = ActionsBlocks(q, B)
  OBVIOUS
<1>5. C = [k \in 1..l |-> [type |-> "actions", options |-> Row(q, B, k - 1)]]
  BY <1>1, <1>2, <1>3, <1>4 DEF ActionsBlocks, Row
<1>6. ASSUME NEW k \in 1..l
      PROVE  /\ C[k] \in Control /\ C[k].options = Row(q, B, k - 1) /\ C[k].type = "actions"
             /\ Row(q, B, k - 1) \subseteq Pairs(q, B)
  <2>1. Row(q, B, k - 1) \subseteq Nat \X Nat
    BY DEF Row
  <2>2. Row(q, B, k - 1) \subseteq Pairs(q, B)
    BY DEF Pairs, Row
  <2>3. C[k] = [type |-> "actions", options |-> Row(q, B, k - 1)]
    BY <1>5
  <2>4. QED BY <2>1, <2>2, <2>3 DEF Control
<1>7. C \in Seq(Control) /\ Len(C) = l
  <2>1. C \in [1..l -> Control]
    BY <1>5, <1>6
  <2>2. QED BY <2>1
<1>8. ASSUME NEW k \in 1..l
      PROVE  Fits(C[k]) /\ Suits(C[k])
  <2>1. PICK m \in Nat : m = k - 1
    OBVIOUS
  <2>2. PICK R : R = Row(q, B, m) /\ R = Row(q, B, k - 1)
    BY <2>1
  <2>3. IsFiniteSet(R) /\ Cardinality(R) <= ActionsElements
    BY <2>1, <2>2, RowFits
  <2>4. \A p \in R : SizeOf(p) # "long"
    BY <2>2 DEF Row
  <2>5. C[k].options = R /\ C[k].type = "actions"
    BY <1>6, <2>2
  <2>6. QED BY <2>3, <2>4, <2>5 DEF Fits, Suits
<1>9. ASSUME NEW p \in Pairs(q, B)
      PROVE  \E k \in 1..l : p \in C[k].options
  <2>1. PICK o \in B : p = <<q, o>>
    BY DEF Pairs
  <2>2. PICK m \in Nat : m = Place(o, B) /\ m < c
    BY <1>2, PlacesDiffer
  <2>3. PICK k \in Nat : k = m \div a /\ k + 1 <= (c + a - 1) \div a
    BY <2>2, LastRow, DivBounds
  <2>4. k + 1 \in 1..l /\ (k + 1) - 1 = k
    BY <1>3, <2>3
  <2>5. p \in Row(q, B, (k + 1) - 1)
    BY <1>1, <2>1, <2>2, <2>3, <2>4 DEF Row
  <2>6. QED BY <1>6, <2>4, <2>5
<1>10. ASSUME NEW j \in 1..l, NEW k \in 1..l, C[j].options \cap C[k].options # {}
       PROVE  j = k
  <2>1. PICK p : p \in Row(q, B, j - 1) /\ p \in Row(q, B, k - 1)
    BY <1>6, <1>10
  <2>2. PICK o \in B : p = <<q, o>> /\ Place(o, B) \div ActionsElements = j - 1
    BY <2>1 DEF Row
  <2>3. PICK r \in B : p = <<q, r>> /\ Place(r, B) \div ActionsElements = k - 1
    BY <2>1 DEF Row
  <2>4. o = r
    BY <2>2, <2>3
  <2>5. j - 1 = k - 1
    BY <2>2, <2>3, <2>4
  <2>6. QED BY <2>5
<1>11. QED BY <1>4, <1>6, <1>7, <1>8, <1>9, <1>10 DEF Offered

\* Controls for some options, and controls for others.
LEMMA OffersJoin ==
  ASSUME NEW C, NEW P, NEW D, NEW Q, Offered(C, P), Offered(D, Q), P \cap Q = {}
  PROVE  Offered(C \o D, P \cup Q)
<1>1. C \in Seq(Control) /\ D \in Seq(Control)
  BY DEF Offered
<1>2. PICK m \in Nat, n \in Nat : m = Len(C) /\ n = Len(D)
  BY <1>1
<1>3. PICK E \in Seq(Control) : E = C \o D
  <2>1. C \o D \in Seq(Control)
    BY <1>1
  <2>2. QED BY <2>1
<1>4. Len(E) = m + n
  BY <1>1, <1>2, <1>3
<1>5. \A i \in 1..m : E[i] = C[i]
  BY <1>1, <1>2, <1>3
<1>6. \A i \in 1..n : E[m + i] = D[i] /\ m + i \in 1..(m + n)
  BY <1>1, <1>2, <1>3
<1>7. \A i \in 1..(m + n) : i \in 1..m \/ \E j \in 1..n : i = m + j
  <2>1. SUFFICES ASSUME NEW i \in 1..(m + n), i \notin 1..m
                 PROVE  \E j \in 1..n : i = m + j
    OBVIOUS
  <2>2. i - m \in 1..n /\ i = m + (i - m)
    BY <2>1
  <2>3. QED BY <2>2
<1>8. /\ \A i \in 1..m : C[i].options \subseteq P /\ Fits(C[i]) /\ Suits(C[i])
      /\ \A i \in 1..n : D[i].options \subseteq Q /\ Fits(D[i]) /\ Suits(D[i])
  BY <1>2 DEF Offered
<1>9. ASSUME NEW i \in 1..(m + n)
      PROVE  E[i].options \subseteq P \cup Q /\ Fits(E[i]) /\ Suits(E[i])
  BY <1>5, <1>6, <1>7, <1>8
<1>10. ASSUME NEW p \in P \cup Q
       PROVE  \E i \in 1..(m + n) : p \in E[i].options \/ CutsOff(E[i], p)
  <2>1. CASE p \in P
    <3>1. PICK i \in 1..m : p \in C[i].options \/ CutsOff(C[i], p)
      BY <1>2, <2>1 DEF Offered
    <3>2. i \in 1..(m + n)
      OBVIOUS
    <3>3. QED BY <1>5, <3>1, <3>2
  <2>2. CASE p \in Q
    <3>1. PICK i \in 1..n : p \in D[i].options \/ CutsOff(D[i], p)
      BY <1>2, <2>2 DEF Offered
    <3>2. QED BY <1>6, <3>1
  <2>3. QED BY <2>1, <2>2
<1>11. ASSUME NEW i \in 1..(m + n), NEW j \in 1..(m + n), E[i].options \cap E[j].options # {}
       PROVE  i = j
  <2>1. CASE i \in 1..m /\ j \in 1..m
    BY <1>2, <1>5, <1>11, <2>1 DEF Offered
  <2>2. CASE i \notin 1..m /\ j \notin 1..m
    <3>1. PICK k \in 1..n, l \in 1..n : i = m + k /\ j = m + l
      BY <1>7, <2>2
    <3>2. D[k].options \cap D[l].options # {}
      BY <1>6, <1>11, <3>1
    <3>3. k = l
      BY <1>2, <3>2 DEF Offered
    <3>4. QED BY <3>1, <3>3
  <2>3. CASE i \in 1..m /\ j \notin 1..m
    <3>1. E[i].options \subseteq P /\ E[j].options \subseteq Q
      BY <1>5, <1>6, <1>7, <1>8, <2>3
    <3>2. QED BY <1>11, <3>1
  <2>4. CASE i \notin 1..m /\ j \in 1..m
    <3>1. E[i].options \subseteq Q /\ E[j].options \subseteq P
      BY <1>5, <1>6, <1>7, <1>8, <2>4
    <3>2. QED BY <1>11, <3>1
  <2>5. QED BY <2>1, <2>2, <2>3, <2>4
<1>12. QED BY <1>3, <1>4, <1>9, <1>10, <1>11 DEF Offered

\* One control alone.
LEMMA OneOffers ==
  ASSUME NEW c \in Control, Fits(c), Suits(c), NEW P, c.options \subseteq P,
         \A p \in P : p \in c.options \/ CutsOff(c, p)
  PROVE  Offered(<<c>>, P)
<1>1. PICK C \in Seq(Control) : C = <<c>>
  <2>1. <<c>> \in Seq(Control)
    OBVIOUS
  <2>2. QED BY <2>1
<1>2. Len(C) = 1 /\ C[1] = c
  BY <1>1
<1>3. QED BY <1>1, <1>2 DEF Offered

\* The options of question q.
Asked(q) == Pairs(q, DOMAIN message.questions[q].options)

\* The questions of a message.
LEMMA QuestionTypes ==
  ASSUME message \in Messages
  PROVE  /\ message \in Message
         /\ Len(message.questions) \in Nat
         /\ DOMAIN message.questions = 1..Len(message.questions)
         /\ \A q \in DOMAIN message.questions : message.questions[q] \in Question
         /\ message.kind = "permission" => Len(message.questions) = 1
<1>1. message \in Message /\ (message.kind = "permission" => Len(message.questions) = 1)
  BY MessagesAssumption
<1>2. message.questions \in Seq(Question)
  BY <1>1 DEF Message
<1>3. QED BY <1>1, <1>2

\* Buttons, and a list of the options that have none, are all of the options.
LEMMA LadderOffers ==
  ASSUME message \in Messages, NEW q \in DOMAIN message.questions,
         NEW options, options = message.questions[q].options
  PROVE  /\ Offered(ButtonLadder(q), Pairs(q, Buttons(options)))
         /\ Offered(<<Listing(q)>>, Pairs(q, Unreachable(options)))
         /\ Pairs(q, Buttons(options)) \cap Pairs(q, Unreachable(options)) = {}
         /\ Pairs(q, Buttons(options)) \cup Pairs(q, Unreachable(options)) = Asked(q)
         /\ q \in Nat
<1>1. options \in Seq({"short", "medium", "long"}) /\ q \in Nat
  BY QuestionTypes DEF Question
<1>2. PICK n \in Nat : DOMAIN options = 1..n
  BY <1>1
<1>3. PICK B \in SUBSET (1..n) : B = Buttons(options)
  BY <1>2 DEF Buttons
<1>4. Unreachable(options) = (1..n) \ B
  BY <1>2, <1>3 DEF Unreachable
<1>5. Offered(ButtonLadder(q), Pairs(q, Buttons(options)))
  <2>1. ASSUME NEW o \in B
        PROVE  SizeOf(<<q, o>>) # "long"
    <3>1. options[o] # "long"
      BY <1>3 DEF Buttons, HasButton
    <3>2. QED BY <3>1 DEF SizeOf
  <2>2. Offered(ActionsBlocks(q, B), Pairs(q, B))
    BY <1>1, <2>1, RowsOffer
  <2>3. QED BY <1>3, <2>2 DEF ButtonLadder
<1>6. Offered(<<Listing(q)>>, Pairs(q, Unreachable(options)))
  <2>1. PICK U \in SUBSET (1..n) : U = Unreachable(options)
    BY <1>4
  <2>2. PICK shown \in SUBSET U : shown = {o \in U : Place(o, U) < message.questions[q].room}
    OBVIOUS
  <2>3. PICK c : c = [type |-> "notice", options |-> Pairs(q, shown), question |-> q,
                      cut |-> shown # U]
    OBVIOUS
  <2>4. c = Listing(q)
    BY <2>1, <2>2, <2>3 DEF Listing, Pairs
  <2>5. /\ c.type = "notice" /\ c.options = Pairs(q, shown) /\ c.question = q
        /\ c.cut = (shown # U) /\ c \in Control
    <3>1. Pairs(q, shown) \in SUBSET (Nat \X Nat)
      BY <1>1, <2>1 DEF Pairs
    <3>2. QED BY <1>1, <2>3, <3>1 DEF Control
  <2>6. Fits(c) /\ Suits(c) /\ c.options \subseteq Pairs(q, U)
    BY <2>5 DEF Fits, Suits, Pairs
  <2>7. ASSUME NEW p \in Pairs(q, U), p \notin c.options
        PROVE  CutsOff(c, p)
    <3>1. PICK o \in U : p = <<q, o>> /\ o \notin shown
      BY <2>5, <2>7 DEF Pairs
    <3>2. options[o] = "long"
      BY <1>4, <2>1, <3>1, <1>2, <1>3 DEF Buttons, HasButton
    <3>3. QED BY <2>5, <3>1, <3>2 DEF CutsOff, SizeOf
  <2>8. Offered(<<c>>, Pairs(q, U))
    BY <2>5, <2>6, <2>7, OneOffers
  <2>9. QED BY <2>1, <2>4, <2>8
<1>7. /\ Pairs(q, Buttons(options)) \cap Pairs(q, Unreachable(options)) = {}
      /\ Pairs(q, Buttons(options)) \cup Pairs(q, Unreachable(options)) = Asked(q)
  BY <1>2, <1>3, <1>4 DEF Pairs, Asked
<1>8. QED BY <1>1, <1>5, <1>6, <1>7

\* A title offers nothing.
LEMMA TitleOffers ==
  ASSUME NEW q \in Nat
  PROVE  Offered(<<Title(q)>>, {})
<1>1. PICK c \in Control : c = Title(q)
  BY DEF Control, Title
<1>2. Fits(c) /\ Suits(c) /\ c.options = {}
  BY <1>1 DEF Fits, Suits, Title
<1>3. QED BY <1>1, <1>2, OneOffers

\* questionBlocks() offers every option of its question, once.
LEMMA QuestionOffers ==
  ASSUME message \in Messages, NEW q \in DOMAIN message.questions
  PROVE  Offered(QuestionBlocks(q), Asked(q))
<1>1. PICK options : options = message.questions[q].options
  OBVIOUS
<1>2. options \in Seq({"short", "medium", "long"}) /\ q \in Nat
  BY <1>1, QuestionTypes DEF Question
<1>3. PICK n \in Nat : n = Len(options) /\ DOMAIN options = 1..n
  BY <1>2
<1>4. PICK title : title = Title(q)
  OBVIOUS
<1>5. Offered(<<title>>, {})
  BY <1>2, <1>4, TitleOffers
<1>6. CASE options = <<>>
  <2>1. Asked(q) = {}
    BY <1>1, <1>6 DEF Asked, Pairs
  <2>2. QuestionBlocks(q) = <<title>>
    BY <1>1, <1>4, <1>6 DEF QuestionBlocks
  <2>3. QED BY <1>5, <2>1, <2>2
<1>7. CASE options # <<>> /\ FitsSelect(message.questions[q])
  <2>1. PICK c : c = [type |-> "select", options |-> Asked(q)]
    OBVIOUS
  <2>2. QuestionBlocks(q) = <<title, c>>
    BY <1>1, <1>4, <1>7, <2>1 DEF QuestionBlocks, Asked, Pairs
  <2>3. c.type = "select" /\ c.options = Asked(q) /\ c \in Control
    BY <1>1, <1>2, <1>3, <2>1 DEF Asked, Pairs, Control
  <2>4. IsFiniteSet(Asked(q)) /\ Cardinality(Asked(q)) <= SelectOptions
    <3>1. IsFiniteSet(1..n) /\ Cardinality(1..n) = n
      BY FS_Interval
    <3>2. PICK f : f = [p \in Asked(q) |-> p[2]]
      OBVIOUS
    <3>3. f \in Injection(Asked(q), 1..n)
      BY <1>1, <1>3, <3>2 DEF Asked, Pairs, Injection, IsInjective
    <3>4. IsFiniteSet(Asked(q)) /\ Cardinality(Asked(q)) <= Cardinality(1..n)
      BY <3>1, <3>3, FS_Injection
    <3>5. n <= SelectOptions
      BY <1>1, <1>3, <1>7 DEF FitsSelect
    <3>6. Cardinality(Asked(q)) \in Nat /\ SelectOptions \in Nat
      BY <3>4, FS_CardinalityType, LimitsAssumption
    <3>7. QED BY <3>1, <3>4, <3>5, <3>6
  <2>5. Fits(c)
    BY <2>3, <2>4 DEF Fits
  <2>6. Suits(c)
    <3>1. \A o \in DOMAIN options : options[o] = "short"
      BY <1>1, <1>7 DEF FitsSelect, ToSet
    <3>2. \A p \in Asked(q) : SizeOf(p) = "short"
      BY <1>1, <3>1 DEF Asked, Pairs, SizeOf
    <3>3. QED BY <2>3, <3>2 DEF Suits
  <2>7. Offered(<<c>>, Asked(q))
    BY <2>3, <2>5, <2>6, OneOffers
  <2>8. Offered(<<title>> \o <<c>>, {} \cup Asked(q))
    BY <1>5, <2>7, OffersJoin
  <2>9. <<title>> \o <<c>> = <<title, c>>
    <3>1. <<title>> \in Seq({title, c}) /\ <<c>> \in Seq({title, c})
      OBVIOUS
    <3>2. PICK t \in Seq({title, c}) : t = <<title, c>>
      <4>1. <<title, c>> \in Seq({title, c})
        OBVIOUS
      <4>2. QED BY <4>1
    <3>3. Len(t) = 2 /\ t[1] = title /\ t[2] = c
      BY <3>2
    <3>4. PICK s \in Seq({title, c}) : s = <<title>> \o <<c>>
      BY <3>1, ConcatProperties
    <3>5. Len(s) = 2 /\ s[1] = title /\ s[2] = c
      BY <3>1, <3>4
    <3>6. \A i \in 1..Len(s) : s[i] = t[i]
      BY <3>3, <3>5
    <3>7. s = t
      BY <3>2, <3>3, <3>4, <3>5, <3>6, SeqEqual
    <3>8. QED BY <3>2, <3>4, <3>7
  <2>10. QED BY <2>2, <2>8, <2>9
<1>8. CASE options # <<>> /\ ~FitsSelect(message.questions[q])
  <2>1. QuestionBlocks(q) = <<Listing(q)>> \o ButtonLadder(q)
    BY <1>1, <1>8 DEF QuestionBlocks
  <2>2. PICK P, R : P = Pairs(q, Buttons(options)) /\ R = Pairs(q, Unreachable(options))
    OBVIOUS
  <2>3. /\ Offered(ButtonLadder(q), P) /\ Offered(<<Listing(q)>>, R)
        /\ R \cap P = {} /\ R \cup P = Asked(q)
    BY <1>1, <2>2, LadderOffers
  <2>4. QED BY <2>1, <2>3, OffersJoin
<1>9. QED BY <1>6, <1>7, <1>8

\* The options of the first n questions.
AskedUpto(n) == UNION {Asked(q) : q \in 1..n}

\* All questions together.
LEMMA QuestionsOffer ==
  ASSUME message \in Messages
  PROVE  Offered(FlattenSeq([q \in DOMAIN message.questions |-> QuestionBlocks(q)]),
                 AskedUpto(Len(message.questions)))
<1>1. PICK n \in Nat : n = Len(message.questions) /\ DOMAIN message.questions = 1..n
  BY QuestionTypes
<1>2. \A q \in 1..n : Offered(QuestionBlocks(q), Asked(q))
  BY <1>1, QuestionOffers
<1>3. PICK S \in Seq(Seq(Control)) :
        /\ S = [q \in DOMAIN message.questions |-> QuestionBlocks(q)]
        /\ Len(S) = n /\ \A q \in 1..n : S[q] = QuestionBlocks(q)
  <2>1. \A q \in 1..n : QuestionBlocks(q) \in Seq(Control)
    BY <1>2 DEF Offered
  <2>2. PICK S : S = [q \in 1..n |-> QuestionBlocks(q)]
    OBVIOUS
  <2>3. S \in [1..n -> Seq(Control)]
    BY <2>1, <2>2
  <2>4. S \in Seq(Seq(Control)) /\ Len(S) = n
    BY <2>3
  <2>5. \A q \in 1..n : S[q] = QuestionBlocks(q)
    BY <2>2
  <2>6. QED BY <1>1, <2>2, <2>4, <2>5
<1>4. PICK g \in [0..n -> Seq(Control)] : Joins(S, g, n) /\ FlattenSeq(S) = g[n]
  BY <1>3, FlattenJoins
<1>5. g[0] = <<>> /\ \A i \in 1..n : g[i] = g[i - 1] \o S[i]
  BY <1>4 DEF Joins
<1> DEFINE T == {i \in Nat : i <= n => Offered(g[i], AskedUpto(i))}
<1>6. 0 \in T
  <2>1. AskedUpto(0) = {}
    BY DEF AskedUpto
  <2>2. PICK C \in Seq(Control) : C = <<>>
    BY EmptySeq
  <2>3. Offered(C, {})
    BY <2>2 DEF Offered
  <2>4. QED BY <1>5, <2>1, <2>2, <2>3
<1>7. ASSUME NEW i \in T
      PROVE  i + 1 \in T
  <2>1. SUFFICES ASSUME i + 1 <= n PROVE Offered(g[i + 1], AskedUpto(i + 1))
    OBVIOUS
  <2>2. PICK q \in 1..n : q = i + 1 /\ i = q - 1 /\ i \in Nat /\ i <= n
    BY <2>1
  <2>3. Offered(g[i], AskedUpto(i))
    BY <2>2
  <2> HIDE DEF T
  <2>4. Offered(QuestionBlocks(q), Asked(q))
    BY <1>2
  <2>5. g[q] = g[i] \o QuestionBlocks(q)
    BY <1>3, <1>5, <2>2
  <2>6. AskedUpto(q) = AskedUpto(i) \cup Asked(q)
    <3>1. (\A k \in 1..q : k \in 1..i \/ k = q) /\ (\A k \in 1..i : k \in 1..q) /\ q \in 1..q
      BY <2>2
    <3>2. QED BY <3>1 DEF AskedUpto
  <2>7. AskedUpto(i) \cap Asked(q) = {}
    <3>1. \A p \in Asked(q) : p[1] = q
      BY DEF Asked, Pairs
    <3>2. \A p \in AskedUpto(i) : p[1] \in 1..i
      BY DEF AskedUpto, Asked, Pairs
    <3>3. q \notin 1..i
      BY <2>2
    <3>4. QED BY <3>1, <3>2, <3>3
  <2>8. Offered(g[i] \o QuestionBlocks(q), AskedUpto(i) \cup Asked(q))
    BY <2>3, <2>4, <2>7, OffersJoin
  <2>9. QED BY <2>2, <2>5, <2>6, <2>8
<1> HIDE DEF T
<1>8. T = Nat
  <2>1. T \in SUBSET Nat
    BY DEF T
  <2>2. QED BY <1>6, <1>7, <2>1, SetInduction
<1>9. n \in T
  BY <1>8
<1>10. QED BY <1>1, <1>3, <1>4, <1>9 DEF T

\* controlBlocks() offers every option of every question, once.
LEMMA ControlsOffer ==
  ASSUME message \in Messages, message.kind # "progress"
  PROVE  Offered(ControlBlocks, AskedUpto(Len(message.questions)))
<1>1. message.kind \in {"permission", "question"}
  BY QuestionTypes DEF Message
<1>2. CASE message.kind = "question"
  BY <1>2, QuestionsOffer DEF ControlBlocks
<1>3. CASE message.kind = "permission"
  <2>1. Len(message.questions) = 1 /\ 1 \in DOMAIN message.questions
    BY <1>3, QuestionTypes
  <2>2. AskedUpto(Len(message.questions)) = Asked(1)
    BY <2>1 DEF AskedUpto
  <2>3. PICK options : options = message.questions[1].options
    OBVIOUS
  <2>4. PICK P, R : P = Pairs(1, Buttons(options)) /\ R = Pairs(1, Unreachable(options))
    OBVIOUS
  <2>5. PICK C, c : C = ButtonLadder(1) /\ c = <<Listing(1)>>
    OBVIOUS
  <2>6. Offered(C, P) /\ Offered(c, R) /\ P \cap R = {} /\ P \cup R = Asked(1)
    BY <2>1, <2>3, <2>4, <2>5, LadderOffers
  <2>7. CASE Unreachable(options) = {}
    <3>1. R = {}
      BY <2>4, <2>7 DEF Pairs
    <3>2. ControlBlocks = C \o <<>>
      BY <1>3, <2>3, <2>5, <2>7 DEF ControlBlocks
    <3>3. C \in Seq(Control)
      BY <2>6 DEF Offered
    <3>4. ControlBlocks = C
      BY <3>2, <3>3, ConcatEmptySeq
    <3>5. P = Asked(1)
      BY <2>6, <3>1
    <3>6. QED BY <2>2, <2>6, <3>4, <3>5
  <2>8. CASE Unreachable(options) # {}
    <3>1. ControlBlocks = C \o c
      BY <1>3, <2>3, <2>5, <2>8 DEF ControlBlocks
    <3>2. QED BY <2>2, <2>6, <3>1, OffersJoin
  <2>9. QED BY <2>7, <2>8
<1>4. QED BY <1>1, <1>2, <1>3

----------------------------------------------------------------------------
(* SlackMessage: assemble() *)

\* The lesser of two.
LEMMA MinOfTwo ==
  ASSUME NEW a \in Nat, NEW b \in Nat
  PROVE  Min({a, b}) = IF a <= b THEN a ELSE b
BY DEF Min

\* The greater of two.
LEMMA MaxOfTwo ==
  ASSUME NEW a \in Nat, NEW b \in Nat
  PROVE  Max({a, b}) = IF a >= b THEN a ELSE b
BY DEF Max

\* slice() takes a beginning.
LEMMA SliceBegins ==
  ASSUME NEW D, NEW s \in Seq(D), NEW n \in Nat
  PROVE  /\ Slice(s, n) \in Seq(D)
         /\ Len(Slice(s, n)) = IF n <= Len(s) THEN n ELSE Len(s)
         /\ \A i \in 1..Len(Slice(s, n)) : Slice(s, n)[i] = s[i]
<1>1. PICK m \in 0..Len(s) : m = (IF n <= Len(s) THEN n ELSE Len(s)) /\ m = Min({n, Len(s)})
  BY MinOfTwo
<1>2. SubSeq(s, 1, m) \in Seq(D) /\ Len(SubSeq(s, 1, m)) = m
      /\ \A i \in 1..m : SubSeq(s, 1, m)[i] = s[i]
  BY <1>1
<1>3. QED BY <1>1, <1>2 DEF Slice

\* The blocks bs are those of a body, the first controls of C, perhaps a notice, and Stop.
MadeOf(bs, body, C, l, kept) ==
  /\ Len(bs) \in Nat /\ DOMAIN bs = 1..Len(bs)
  /\ Len(bs) <= BlocksPerMessage /\ l + kept < Len(bs)
  /\ l <= Len(body)
  /\ \A i \in 1..l : bs[i] = body[i] /\ bs[i].type \in {"section", "omission"}
  /\ \A i \in 1..kept : bs[l + i] = C[i]
  /\ \A i \in (l + kept + 1)..(Len(bs) - 1) : bs[i].type = "dropped"
  /\ bs[Len(bs)].type = "stop"
  /\ kept < Len(C) => l + kept + 1 < Len(bs)
  /\ Len(C) <= BlocksPerMessage - 3 /\ Len(body) + Len(C) < BlocksPerMessage => l = Len(body)

\* assemble() for an interaction: the limit leaves the Stop button its place, and a notice, when
\* controls are dropped, its own.
LEMMA Assembled ==
  ASSUME NEW C \in Seq(Control), C = ControlBlocks, message.kind # "progress",
         NEW Body, \A b \in Body : b.type \in {"section", "omission"},
         NEW body \in Seq(Body)
  PROVE  \E l \in Nat : \E kept \in 0..Len(C) : MadeOf(Assemble(body), body, C, l, kept)
<1>1. PICK B \in Nat : B = BlocksPerMessage /\ B > 3
  BY LimitsAssumption
<1>2. PICK c \in Nat : c = Len(C)
  OBVIOUS
<1>3. PICK stop : stop = [type |-> "stop"]
  OBVIOUS
<1>4. PICK b \in Nat : b = B - 3
  BY <1>1
<1>5. PICK kept \in Nat : kept = (IF c <= b THEN c ELSE b)
  OBVIOUS
<1>6. kept <= c /\ kept <= b /\ b + 3 = B
  BY <1>4, <1>5
<1>7. PICK dropped : dropped = [type |-> "dropped", controls |-> c - kept]
  OBVIOUS
<1> DEFINE D == Body \cup Control \cup {stop, dropped}
           notice == IF kept = c THEN <<>> ELSE <<dropped>>
           few == IF kept = c THEN 0 ELSE 1
           room == Max({1, Minus(B, kept + Len(notice) + 1)})
           s == Slice(body, room)
           t == Slice(C, kept)
           x == s \o t
           y == x \o notice
           all == y \o <<stop>>
<1>8. Trailer = <<stop>> /\ Len(Trailer) = 1
  BY <1>3 DEF Trailer
<1>9. Min({Len(C), BlocksPerMessage - Len(Trailer) - 2}) = kept
  <2>1. (BlocksPerMessage - Len(Trailer)) - 2 = b
    BY <1>1, <1>8, <1>4
  <2>2. QED BY <1>2, <1>5, <2>1, MinOfTwo
<1>10. Assemble(body) = Slice(all, BlocksPerMessage)
  BY <1>1, <1>7, <1>8, <1>9, <1>2 DEF Assemble
<1>11. notice \in Seq(D) /\ Len(notice) = few /\ (few = 1 => notice[1] = dropped)
  <2>1. CASE kept = c
    <3>1. notice = <<>> /\ few = 0
      BY <2>1
    <3>2. QED BY <3>1, EmptySeq
  <2>2. CASE kept # c
    <3>1. notice = <<dropped>> /\ few = 1 /\ dropped \in D
      BY <2>2
    <3> HIDE DEF D, notice, few
    <3>2. QED BY <3>1
  <2>3. QED BY <2>1, <2>2
<1>12. few \in 0..1 /\ (few = 0 <=> kept = c)
  OBVIOUS
<1>13. room \in Nat /\ kept + few + 1 + room = B /\ room > 0
  <2> HIDE DEF D, notice, few
  <2>1. PICK u \in Nat : u = kept + few + 1
    BY <1>12
  <2>2. u < B
    BY <1>1, <1>6, <1>12, <2>1
  <2>3. PICK r \in Nat : r = B - u
    BY <2>2
  <2>4. Minus(B, u) = r /\ r > 0
    BY <2>2, <2>3 DEF Minus
  <2>5. Max({1, r}) = r
    BY <2>4, MaxOfTwo
  <2>6. room = r
    BY <1>11, <2>1, <2>4, <2>5
  <2>7. QED BY <2>1, <2>2, <2>3, <2>4, <2>6
<1> HIDE DEF notice, few, room
<1>14. /\ s \in Seq(D) /\ Len(s) \in Nat /\ Len(s) = (IF room <= Len(body) THEN room ELSE Len(body))
       /\ \A i \in 1..Len(s) : s[i] = body[i] /\ s[i].type \in {"section", "omission"}
  <2>1. s \in Seq(Body)
    BY <1>13, SliceBegins
  <2>2. Len(s) = (IF room <= Len(body) THEN room ELSE Len(body)) /\ \A i \in 1..Len(s) : s[i] = body[i]
    BY <1>13, SliceBegins
  <2> HIDE DEF s
  <2>3. s \in Seq(D)
    BY <2>1, SeqMonotonic
  <2>4. \A i \in 1..Len(s) : s[i] \in Body
    BY <2>1
  <2> HIDE DEF D
  <2>5. QED BY <2>2, <2>3, <2>4
<1>15. /\ t \in Seq(D) /\ Len(t) = kept
       /\ \A i \in 1..kept : t[i] = C[i]
  <2>1. t \in Seq(Control) /\ Len(t) = kept /\ \A i \in 1..Len(t) : t[i] = C[i]
    BY <1>2, <1>6, SliceBegins
  <2> HIDE DEF t
  <2>2. t \in Seq(D)
    BY <2>1, SeqMonotonic
  <2>3. QED BY <2>1, <2>2
<1>16. <<stop>> \in Seq(D) /\ Len(<<stop>>) = 1 /\ <<stop>>[1] = stop
  OBVIOUS
<1>17. PICK l \in Nat, e \in Seq(D) : l = Len(s) /\ e = <<stop>>
  BY <1>14, <1>16
<1>18. Len(e) = 1 /\ e[1] = stop
  BY <1>16, <1>17
<1> HIDE DEF s, t, D
<1>19. /\ x \in Seq(D) /\ Len(x) = l + kept
       /\ \A i \in 1..l : x[i] = s[i]
       /\ \A i \in 1..kept : x[l + i] = t[i]
  <2>1. /\ x \in Seq(D) /\ Len(x) = l + kept
        /\ \A i \in 1..(l + kept) : x[i] = IF i <= l THEN s[i] ELSE t[i - l]
    <3>1. s \in Seq(D) /\ Len(s) = l /\ t \in Seq(D) /\ Len(t) = kept
      BY <1>14, <1>15, <1>17
    <3>2. QED BY <3>1, ConcatProperties
  <2> HIDE DEF x
  <2>2. ASSUME NEW i \in 1..kept
        PROVE  x[l + i] = t[i]
    <3>1. l + i \in 1..(l + kept) /\ ~(l + i <= l) /\ (l + i) - l = i
      OBVIOUS
    <3>2. QED BY <2>1, <3>1
  <2>3. \A i \in 1..l : i \in 1..(l + kept) /\ i <= l
    OBVIOUS
  <2>4. QED BY <2>1, <2>2, <2>3
<1> HIDE DEF x
<1>20. PICK m \in Nat : m = l + kept
  OBVIOUS
<1>21. /\ y \in Seq(D) /\ Len(y) = m + few
       /\ \A i \in 1..m : y[i] = x[i]
       /\ few = 1 => y[m + 1] = dropped
  <2>1. /\ y \in Seq(D) /\ Len(y) = Len(x) + Len(notice)
        /\ \A i \in 1..(Len(x) + Len(notice)) : y[i] = IF i <= Len(x) THEN x[i] ELSE notice[i - Len(x)]
    BY <1>11, <1>19, ConcatProperties
  <2>2. Len(x) = m /\ Len(notice) = few /\ few \in Nat
    BY <1>11, <1>19, <1>12, <1>20
  <2> HIDE DEF y
  <2>3. ASSUME few = 1
        PROVE  y[m + 1] = dropped
    <3>1. m + 1 \in 1..(m + few) /\ ~(m + 1 <= m) /\ (m + 1) - m = 1
      BY <2>3
    <3>2. y[m + 1] = notice[1]
      BY <2>1, <2>2, <3>1
    <3>3. QED BY <1>11, <2>3, <3>2
  <2>4. \A i \in 1..m : i \in 1..(m + few) /\ i <= m
    BY <1>12
  <2>5. QED BY <2>1, <2>2, <2>3, <2>4
<1> HIDE DEF y
<1>22. PICK v \in Nat : v = Len(body)
  OBVIOUS
<1>23. l = (IF room <= v THEN room ELSE v)
  BY <1>14, <1>17, <1>22
<1>24. PICK n \in Nat : n = l + kept + few /\ n + 1 <= B
  <2>1. PICK n \in Nat : n = l + kept + few
    BY <1>12
  <2>2. n + 1 <= B
    BY <1>1, <1>13, <1>23, <1>12, <2>1
  <2>3. QED BY <2>1, <2>2
<1>25. /\ all \in Seq(D) /\ Len(all) = n + 1
       /\ \A i \in 1..n : all[i] = y[i]
       /\ all[n + 1] = stop
  <2>1. Len(y) = n /\ Len(e) = 1 /\ y \in Seq(D) /\ e \in Seq(D) /\ all = y \o e
    BY <1>17, <1>18, <1>21, <1>24, <1>20
  <2>2. all \in Seq(D) /\ Len(all) = Len(y) + Len(e)
    BY <2>1, ConcatProperties
  <2>3. \A i \in 1..(Len(y) + Len(e)) : all[i] = IF i <= Len(y) THEN y[i] ELSE e[i - Len(y)]
    BY <2>1, ConcatProperties
  <2>4. /\ all \in Seq(D) /\ Len(all) = n + 1
        /\ \A i \in 1..(n + 1) : all[i] = IF i <= n THEN y[i] ELSE e[i - n]
    BY <2>1, <2>2, <2>3
  <2> HIDE DEF all
  <2>5. n + 1 \in 1..(n + 1) /\ ~(n + 1 <= n) /\ (n + 1) - n = 1
    OBVIOUS
  <2>6. \A i \in 1..n : i \in 1..(n + 1) /\ i <= n
    OBVIOUS
  <2>7. QED BY <1>18, <2>4, <2>5, <2>6
<1> HIDE DEF all
<1>26. PICK bs \in Seq(D) : bs = Assemble(body) /\ Len(bs) = n + 1 /\ \A i \in 1..(n + 1) : bs[i] = all[i]
  <2>1. Slice(all, B) \in Seq(D)
    BY <1>25, SliceBegins
  <2>2. Len(Slice(all, B)) = n + 1
    BY <1>24, <1>25, SliceBegins
  <2>3. \A i \in 1..(n + 1) : Slice(all, B)[i] = all[i]
    BY <1>25, <2>2, SliceBegins
  <2>4. QED BY <1>1, <1>10, <2>1, <2>2, <2>3
<1>27. \A i \in 1..l : bs[i] = body[i] /\ bs[i].type \in {"section", "omission"}
  <2>1. ASSUME NEW i \in 1..l
        PROVE  bs[i] = s[i]
    <3>1. i \in 1..(l + kept) /\ i \in 1..n /\ i \in 1..(n + 1)
      BY <1>24, <1>12, <1>20
    <3>2. QED BY <1>19, <1>21, <1>25, <1>26, <1>20, <3>1
  <2>2. QED BY <1>14, <1>17, <2>1
<1>28. ASSUME NEW i \in 1..kept
       PROVE  bs[l + i] = C[i]
  <2>1. l + i \in 1..(l + kept) /\ l + i \in 1..n /\ l + i \in 1..(n + 1)
    BY <1>24, <1>12, <1>20
  <2>2. QED BY <1>15, <1>19, <1>21, <1>25, <1>26, <1>20, <2>1
<1>29. bs[n + 1].type = "stop"
  BY <1>3, <1>25, <1>26
<1>30. ASSUME NEW i \in (l + kept + 1)..n
       PROVE  bs[i].type = "dropped"
  <2>1. few = 1 /\ i = l + kept + 1 /\ i \in 1..n /\ i \in 1..(n + 1)
    BY <1>24, <1>12, <1>20
  <2>2. bs[i] = dropped
    BY <1>21, <1>25, <1>26, <1>20, <2>1
  <2>3. QED BY <1>7, <2>2
<1>31. l + kept < n + 1 /\ (kept < c => l + kept + 1 < n + 1)
  BY <1>24, <1>12, <1>20
<1>32. MadeOf(bs, body, C, l, kept)
  <2>1. (n + 1) - 1 = n /\ DOMAIN bs = 1..(n + 1) /\ Len(bs) = n + 1 /\ n + 1 \in Nat
    BY <1>26
  <2>2. l <= Len(body)
    BY <1>13, <1>22, <1>23
  <2>3. ASSUME Len(C) <= BlocksPerMessage - 3, Len(body) + Len(C) < BlocksPerMessage
        PROVE  l = Len(body)
    <3>1. c <= B - 3 /\ v + c < B
      BY <1>1, <1>2, <1>22, <2>3
    <3>2. kept = c /\ few = 0
      BY <1>5, <1>4, <1>12, <3>1
    <3>3. v <= room
      BY <1>13, <3>1, <3>2
    <3>4. QED BY <1>13, <1>22, <1>23, <3>3
  <2>4. QED BY <1>1, <1>24, <1>27, <1>28, <1>29, <1>30, <1>31, <1>2, <2>1, <2>2, <2>3 DEF MadeOf
<1>33. QED BY <1>26, <1>32, <1>2, <1>6

\* assemble() for progress, which has no controls.
LEMMA AssembledProgress ==
  ASSUME message.kind = "progress", NEW Body, NEW body \in Seq(Body)
  PROVE  /\ Assemble(body) \in Seq(Body)
         /\ Len(Assemble(body)) <= BlocksPerMessage /\ Len(Assemble(body)) <= Len(body)
         /\ \A i \in 1..Len(Assemble(body)) : Assemble(body)[i] = body[i]
         /\ Len(body) <= BlocksPerMessage => Len(Assemble(body)) = Len(body)
<1>1. PICK B \in Nat : B = BlocksPerMessage /\ B > 3
  BY LimitsAssumption
<1>2. ControlBlocks = <<>> /\ Trailer = <<>> /\ Len(ControlBlocks) = 0 /\ Len(Trailer) = 0
  BY EmptySeq DEF ControlBlocks, Trailer
<1>3. Min({Len(ControlBlocks), BlocksPerMessage - Len(Trailer) - 2}) = 0
  <2>1. PICK b \in Nat : b = BlocksPerMessage - 2 /\ b > 0
    BY <1>1
  <2>2. (BlocksPerMessage - Len(Trailer)) - 2 = b
    BY <1>1, <1>2, <2>1
  <2>3. Min({0, b}) = 0
    BY <2>1, MinOfTwo
  <2>4. QED BY <1>2, <2>2, <2>3
<1> DEFINE room == Max({1, Minus(B, 0)})
           s == Slice(body, room)
<1>4. Slice(<<>>, 0) = <<>>
  <2>1. <<>> \in Seq(Body) /\ Len(<<>>) = 0
    BY EmptySeq
  <2>2. Slice(<<>>, 0) \in Seq(Body) /\ Len(Slice(<<>>, 0)) = 0
    BY <2>1, SliceBegins
  <2>3. QED BY <2>2, EmptySeq
<1>5. room = B
  BY <1>1, MaxOfTwo DEF Minus
<1>6. s \in Seq(Body)
  BY <1>1, <1>5, SliceBegins
<1>7. Assemble(body) = Slice(s \o <<>> \o <<>> \o <<>>, BlocksPerMessage)
  <2>1. 0 + Len(<<>>) + Len(<<>>) = 0
    BY EmptySeq
  <2>2. QED BY <1>1, <1>2, <1>3, <1>4, <2>1 DEF Assemble
<1> HIDE DEF s
<1>8. Assemble(body) = Slice(s, B)
  <2>1. s \o <<>> = s
    BY <1>6, ConcatEmptySeq
  <2>2. QED BY <1>1, <1>7, <2>1
<1>9. PICK a, v \in Nat : a = Len(s) /\ v = Len(body)
  BY <1>6
<1>10. /\ Slice(s, B) \in Seq(Body)
       /\ Len(Slice(s, B)) = (IF B <= a THEN B ELSE a)
       /\ \A i \in 1..Len(Slice(s, B)) : Slice(s, B)[i] = s[i]
  BY <1>1, <1>6, <1>9, SliceBegins
<1>11. a = (IF B <= v THEN B ELSE v) /\ \A i \in 1..a : s[i] = body[i]
  <2>1. s = Slice(body, B)
    BY <1>5 DEF s
  <2>2. Len(Slice(body, B)) = IF B <= Len(body) THEN B ELSE Len(body)
    BY <1>1, SliceBegins
  <2>3. \A i \in 1..Len(Slice(body, B)) : Slice(body, B)[i] = body[i]
    BY <1>1, SliceBegins
  <2>4. QED BY <1>9, <2>1, <2>2, <2>3
<1>12. PICK r : r = Slice(s, B)
  OBVIOUS
<1>13. /\ Len(r) = a /\ a <= v /\ a <= B /\ (v <= B => a = v)
       /\ \A i \in 1..Len(r) : r[i] = body[i]
  BY <1>1, <1>10, <1>11, <1>12
<1>14. QED BY <1>1, <1>8, <1>9, <1>10, <1>12, <1>13

\* A body consists of sections, and of the notice that some of it is missing.
LEMMA SectionsTypes ==
  ASSUME NEW S, chunks \in Seq(S)
  PROVE  \E Body : /\ \A b \in Body : b.type \in {"section", "omission"}
                   /\ Sections \in Seq(Body)
<1> DEFINE om == [type |-> "omission", omitted |-> Len(rest)]
           Section(c) == [type |-> "section", text |-> Clamp(c)]
           Body == {Section(c) : c \in S} \cup {om}
           first == [i \in DOMAIN chunks |-> Section(chunks[i])]
           second == IF pc = "whole" THEN <<>> ELSE <<om>>
<1>1. \A b \in Body : b.type \in {"section", "omission"}
  OBVIOUS
<1>2. PICK n \in Nat : n = Len(chunks) /\ DOMAIN chunks = 1..n
  OBVIOUS
<1>3. Sections = first \o second
  BY DEF Sections
<1>4. \A i \in 1..n : Section(chunks[i]) \in Body
  <2>1. \A i \in 1..n : chunks[i] \in S
    BY <1>2
  <2>2. QED BY <2>1
<1>5. om \in Body
  OBVIOUS
<1> HIDE DEF Body, Section, om
<1>6. first \in Seq(Body)
  <2>1. first \in [1..n -> Body]
    BY <1>2, <1>4
  <2> HIDE DEF first
  <2>2. QED BY <2>1
<1>7. second \in Seq(Body)
  BY <1>5, EmptySeq
<1> HIDE DEF first, second
<1>8. first \o second \in Seq(Body)
  BY <1>6, <1>7, ConcatProperties
<1>9. QED BY <1>1, <1>3, <1>8

\* The blocks of bs that may offer something.
OffersOf(bs) == {i \in DOMAIN bs : bs[i].type \in {"notice", "actions", "select"}}

\* The blocks of bs that answer question q with option o.
AnswersBy(bs, q, o) == {i \in OffersOf(bs) : <<q, o>> \in bs[i].options}

\* Option o is offered once, in a form that is fit for it, or it is cut off a list, or the
\* message says that controls are missing.
CutOffIn(bs, q) ==
  \E i \in OffersOf(bs) : bs[i].type = "notice" /\ bs[i].question = q /\ bs[i].cut

Answerable(bs, q, o) ==
  /\ AnswersBy(bs, q, o) = {} =>
       \/ \E i \in DOMAIN bs : bs[i].type = "dropped"
       \/ message.questions[q].options[o] = "long" /\ CutOffIn(bs, q)
  /\ Cardinality(AnswersBy(bs, q, o)) <= 1
  /\ \A i \in AnswersBy(bs, q, o) :
       /\ bs[i].type = "actions" => message.questions[q].options[o] # "long"
       /\ bs[i].type = "select" => message.questions[q].options[o] = "short"

\* What OptionsAreReachable says of the blocks bs.
Reaches(bs) ==
  /\ Len(bs) <= BlocksPerMessage
  /\ message.kind # "progress" =>
       /\ bs[Len(bs)].type = "stop"
       /\ \A q \in DOMAIN message.questions : \A o \in DOMAIN message.questions[q].options :
            Answerable(bs, q, o)
  /\ \A i \in OffersOf(bs) :
       /\ bs[i].type = "actions" => Cardinality(bs[i].options) <= ActionsElements
       /\ bs[i].type = "select" => Cardinality(bs[i].options) <= SelectOptions

\* Controls that offer each option once make a message whose options are reachable.
LEMMA MessageReaches ==
  ASSUME message \in Messages, message.kind # "progress",
         NEW C, Offered(C, AskedUpto(Len(message.questions))),
         NEW l \in Nat, NEW kept \in 0..Len(C), NEW bs, NEW body, MadeOf(bs, body, C, l, kept)
  PROVE  Reaches(bs)
<1>1. PICK n \in Nat : n = Len(bs) /\ DOMAIN bs = 1..n
  BY DEF MadeOf
<1>2. PICK c \in Nat : c = Len(C) /\ kept <= c /\ kept \in Nat
  BY DEF Offered
<1>3. C \in Seq(Control)
  BY DEF Offered
<1>4. l + kept < n /\ bs[n].type = "stop"
  BY <1>1 DEF MadeOf
<1>5. ASSUME NEW i \in OffersOf(bs)
      PROVE  \E k \in 1..kept : i = l + k /\ bs[i] = C[k]
  <2>1. i \in 1..n /\ bs[i].type \in {"notice", "actions", "select"}
    BY <1>1 DEF OffersOf
  <2>2. i \notin 1..l
    BY <2>1 DEF MadeOf
  <2>3. i # n
    BY <1>4, <2>1
  <2>4. i \notin (l + kept + 1)..(n - 1)
    BY <1>1, <2>1 DEF MadeOf
  <2>5. i - l \in 1..kept /\ i = l + (i - l)
    BY <1>2, <2>1, <2>2, <2>3, <2>4
  <2>6. PICK k \in 1..kept : i = l + k
    BY <2>5
  <2>7. QED BY <2>6 DEF MadeOf
<1>6. ASSUME NEW k \in 1..kept
      PROVE  /\ l + k \in OffersOf(bs) /\ bs[l + k] = C[k] /\ k \in 1..c
  <2>1. k \in 1..c /\ l + k \in 1..n
    BY <1>2, <1>4
  <2>2. bs[l + k] = C[k]
    BY DEF MadeOf
  <2>3. C[k].type \in {"notice", "actions", "select"}
    <3>1. C[k] \in Control
      BY <1>2, <1>3, <2>1
    <3>2. QED BY <3>1 DEF Control
  <2>4. QED BY <1>1, <2>1, <2>2, <2>3 DEF OffersOf
<1>7. ASSUME NEW q \in DOMAIN message.questions,
             NEW o \in DOMAIN message.questions[q].options
      PROVE  Answerable(bs, q, o)
  <2>1. PICK p : p = <<q, o>> /\ p \in AskedUpto(Len(message.questions))
    <3>1. <<q, o>> \in Asked(q) /\ q \in 1..Len(message.questions)
      BY QuestionTypes DEF Asked, Pairs
    <3>2. QED BY <3>1 DEF AskedUpto
  <2>2. PICK by : by = AnswersBy(bs, q, o)
    OBVIOUS
  <2>3. \A i \in by : i \in OffersOf(bs) /\ p \in bs[i].options
    BY <2>1, <2>2 DEF AnswersBy
  <2>4. ASSUME by = {}
        PROVE  \/ \E i \in DOMAIN bs : bs[i].type = "dropped"
               \/ message.questions[q].options[o] = "long" /\ CutOffIn(bs, q)
    <3>1. PICK k \in 1..c : p \in C[k].options \/ CutsOff(C[k], p)
      BY <1>2, <2>1 DEF Offered
    <3>2. CASE k \in 1..kept
      <4>1. l + k \in OffersOf(bs) /\ bs[l + k] = C[k]
        BY <1>6, <3>2
      <4>2. p \notin C[k].options
        BY <2>1, <2>2, <2>4, <4>1 DEF AnswersBy
      <4>3. CutsOff(C[k], p)
        BY <3>1, <4>2
      <4>4. message.questions[q].options[o] = "long" /\ p[1] = q
        BY <2>1, <4>3 DEF CutsOff, SizeOf
      <4>5. CutOffIn(bs, q)
        BY <4>1, <4>3, <4>4 DEF CutsOff, CutOffIn
      <4>6. QED BY <4>4, <4>5
    <3>3. SUFFICES ASSUME kept < c PROVE \E i \in DOMAIN bs : bs[i].type = "dropped"
      BY <1>2, <3>1, <3>2
    <3>4. l + kept + 1 < n
      BY <1>1, <1>2, <3>3 DEF MadeOf
    <3>5. PICK i \in 1..n : i = l + kept + 1 /\ i \in (l + kept + 1)..(n - 1)
      BY <1>2, <3>4
    <3>6. bs[i].type = "dropped"
      BY <1>1, <3>5 DEF MadeOf
    <3>7. QED BY <1>1, <3>6
  <2>5. ASSUME NEW i \in by, NEW j \in by
        PROVE  i = j
    <3>1. PICK k \in 1..kept : i = l + k /\ bs[i] = C[k] /\ k \in 1..c
      BY <1>5, <1>6, <2>3
    <3>2. PICK m \in 1..kept : j = l + m /\ bs[j] = C[m] /\ m \in 1..c
      BY <1>5, <1>6, <2>3
    <3>3. C[k].options \cap C[m].options # {}
      BY <2>3, <3>1, <3>2
    <3>4. k = m
      BY <1>2, <3>1, <3>2, <3>3 DEF Offered
    <3>5. QED BY <3>1, <3>2, <3>4
  <2>6. Cardinality(by) <= 1
    <3>1. CASE by = {}
      BY <3>1, FS_EmptySet
    <3>2. CASE by # {}
      <4>1. PICK i : i \in by
        BY <3>2
      <4>2. by = {i}
        BY <2>5, <4>1
      <4>3. Cardinality({i}) = 1
        BY FS_Singleton
      <4>4. QED BY <4>2, <4>3
    <3>3. QED BY <3>1, <3>2
  <2>7. ASSUME NEW i \in by
        PROVE  /\ bs[i].type = "actions" => message.questions[q].options[o] # "long"
               /\ bs[i].type = "select" => message.questions[q].options[o] = "short"
    <3>1. PICK k \in 1..kept : bs[i] = C[k] /\ k \in 1..c
      BY <1>5, <1>6, <2>3
    <3>2. Suits(C[k])
      BY <1>2, <3>1 DEF Offered
    <3>3. SizeOf(p) = message.questions[q].options[o]
      BY <2>1 DEF SizeOf
    <3>4. QED BY <2>3, <3>1, <3>2, <3>3 DEF Suits
  <2>8. QED BY <2>2, <2>4, <2>6, <2>7 DEF Answerable
<1>8. ASSUME NEW i \in OffersOf(bs)
      PROVE  /\ bs[i].type = "actions" => Cardinality(bs[i].options) <= ActionsElements
             /\ bs[i].type = "select" => Cardinality(bs[i].options) <= SelectOptions
  <2>1. PICK k \in 1..kept : bs[i] = C[k] /\ k \in 1..c
    BY <1>5, <1>6
  <2>2. Fits(C[k])
    BY <1>2, <2>1 DEF Offered
  <2>3. QED BY <2>1, <2>2 DEF Fits
<1>9. Len(bs) <= BlocksPerMessage /\ bs[Len(bs)].type = "stop"
  BY DEF MadeOf
<1>10. QED BY <1>7, <1>8, <1>9 DEF Reaches

\* The options of what is rendered are reachable, whatever the body's chunks are.
LEMMA RenderReaches ==
  ASSUME message \in Messages, NEW S, chunks \in Seq(S)
  PROVE  Reaches(Assemble(Sections))
<1>1. PICK Body : /\ \A b \in Body : b.type \in {"section", "omission"}
                  /\ Sections \in Seq(Body)
  BY SectionsTypes
<1>2. PICK body \in Seq(Body) : body = Sections
  BY <1>1
<1>3. CASE message.kind = "progress"
  <2>1. PICK bs \in Seq(Body) : bs = Assemble(body) /\ Len(bs) <= BlocksPerMessage
    BY <1>2, <1>3, AssembledProgress
  <2>2. OffersOf(bs) = {}
    <3>1. \A i \in DOMAIN bs : bs[i] \in Body
      OBVIOUS
    <3>2. QED BY <1>1, <3>1 DEF OffersOf
  <2>3. Reaches(bs)
    BY <1>3, <2>1, <2>2 DEF Reaches
  <2>4. QED BY <1>2, <2>1, <2>3
<1>4. CASE message.kind # "progress"
  <2>1. PICK C : C = ControlBlocks /\ Offered(C, AskedUpto(Len(message.questions)))
    BY <1>4, ControlsOffer
  <2>2. C \in Seq(Control)
    BY <2>1 DEF Offered
  <2>3. PICK l \in Nat, kept \in 0..Len(C) : MadeOf(Assemble(body), body, C, l, kept)
    BY <1>1, <1>2, <1>4, <2>1, <2>2, Assembled
  <2>4. Reaches(Assemble(body))
    BY <1>4, <2>1, <2>3, MessageReaches
  <2>5. QED BY <1>2, <2>4
<1>5. QED BY <1>3, <1>4

----------------------------------------------------------------------------
(* SlackMessage: options are reachable *)

\* The inductive invariant: chunks are a sequence, and what has been rendered is answerable.
SlackInv ==
  /\ message \in Messages
  /\ pc \in {"whole", "trimmed", "done"}
  /\ \E S : chunks \in Seq(S)
  /\ pc = "done" => Reaches(blocks)

\* What has been rendered stays as answerable as it is.
LEMMA SameReach ==
  ASSUME NEW bs, Reaches(bs), message' = message, blocks' = bs
  PROVE  Reaches(blocks)'
<1>1. OffersOf(blocks)' = OffersOf(bs)
  BY DEF OffersOf
<1>2. ASSUME NEW q, NEW o
      PROVE  /\ AnswersBy(blocks, q, o)' = AnswersBy(bs, q, o)
             /\ CutOffIn(blocks, q)' <=> CutOffIn(bs, q)
  BY <1>1 DEF AnswersBy, CutOffIn
<1>3. ASSUME NEW q, NEW o, Answerable(bs, q, o)
      PROVE  Answerable(blocks, q, o)'
  BY <1>2, <1>3 DEF Answerable
<1>4. QED BY <1>1, <1>3 DEF Reaches

\* SlackInv holds throughout a rendering.
THEOREM SlackInvariant == SlackSpec => []SlackInv
<1>1. SlackInit => SlackInv
  <2>1. SUFFICES ASSUME SlackInit PROVE SlackInv
    OBVIOUS
  <2>2. message \in Messages /\ pc = "whole" /\ chunks = <<>>
    BY <2>1 DEF SlackInit
  <2>3. chunks \in Seq({})
    BY <2>2, EmptySeq
  <2>4. QED BY <2>2, <2>3 DEF SlackInv
<1>2. SlackInv /\ [SlackNext]_slackVars => SlackInv'
  <2>1. SUFFICES ASSUME SlackInv, [SlackNext]_slackVars PROVE SlackInv'
    OBVIOUS
  <2>2. PICK S : message \in Messages /\ chunks \in Seq(S)
    BY <2>1 DEF SlackInv
  <2>3. CASE Split
    <3>1. /\ message' = message /\ pc' = pc /\ pc \in {"whole", "trimmed"}
          /\ chunks' = chunks \/ \E piece : chunks' = Append(chunks, piece)
      BY <2>3 DEF Split
    <3>2. \E R : chunks' \in Seq(R)
      <4>1. CASE chunks' = chunks
        BY <2>2, <4>1
      <4>2. CASE \E piece : chunks' = Append(chunks, piece)
        <5>1. PICK piece : chunks' = Append(chunks, piece)
          BY <4>2
        <5>2. chunks \in Seq(S \cup {piece})
          BY <2>2, SeqMonotonic
        <5>3. Append(chunks, piece) \in Seq(S \cup {piece})
          BY <5>2
        <5>4. QED BY <5>1, <5>3
      <4>3. QED BY <3>1, <4>1, <4>2
    <3>3. QED BY <2>2, <3>1, <3>2 DEF SlackInv
  <2>4. CASE Trim
    <3>1. message' = message /\ pc' = "trimmed" /\ chunks' = <<>>
      BY <2>4 DEF Trim
    <3>2. chunks' \in Seq({})
      BY <3>1, EmptySeq
    <3>3. QED BY <2>2, <3>1, <3>2 DEF SlackInv
  <2>5. CASE Render
    <3>1. PICK bs : bs = Assemble(Sections) /\ blocks' = bs
      BY <2>5 DEF Render
    <3>2. message' = message /\ chunks' = chunks /\ pc' = "done"
      BY <2>5 DEF Render
    <3>3. Reaches(bs)
      BY <2>2, <3>1, RenderReaches
    <3>4. Reaches(blocks)'
      BY <3>1, <3>2, <3>3, SameReach
    <3>5. QED BY <2>2, <3>2, <3>4 DEF SlackInv
  <2>6. CASE UNCHANGED slackVars
    <3>1. message' = message /\ chunks' = chunks /\ pc' = pc /\ blocks' = blocks
      BY <2>6 DEF slackVars
    <3>2. pc = "done" => Reaches(blocks)'
      BY <2>1, <3>1, SameReach DEF SlackInv
    <3>3. QED BY <2>1, <2>2, <3>1, <3>2 DEF SlackInv
  <2>7. QED BY <2>1, <2>3, <2>4, <2>5, <2>6 DEF SlackNext
<1>3. QED BY <1>1, <1>2, PTL DEF SlackSpec

\* OptionsAreReachable: for any message and any limits of Slack, a rendered interaction fits them,
\* offers each option by one control, ends its list with an ellipsis or says that controls are
\* missing, and ends with Stop.
THEOREM SlackOptionsAreReachable == SlackSpec => []OptionsAreReachable
<1>1. SlackInv => OptionsAreReachable
  BY DEF SlackInv, Reaches, OffersOf, Answerable, AnswersBy, CutOffIn, OptionsAreReachable, Offers,
     IsCutOff
<1>2. QED BY <1>1, SlackInvariant, PTL

----------------------------------------------------------------------------
(* SlackMessage: what joined sequences begin with *)

\* g holds what the first sequences of S make, one after another.
Steps(D, S, g) ==
  /\ g \in [0..Len(S) -> Seq(D)]
  /\ g[0] = <<>> /\ g[Len(S)] = FlattenSeq(S)
  /\ \A m \in Nat : m < Len(S) => g[m + 1] = g[m] \o S[m + 1]

\* Such a function exists.
LEMMA FlattenSteps ==
  ASSUME NEW D, NEW S \in Seq(Seq(D))
  PROVE  \E g : Steps(D, S, g)
<1>1. PICK n \in Nat : n = Len(S)
  OBVIOUS
<1>2. PICK g \in [0..Len(S) -> Seq(D)] : Joins(S, g, Len(S)) /\ FlattenSeq(S) = g[Len(S)]
  BY FlattenJoins
<1>3. g[0] = <<>>
  BY <1>2 DEF Joins
<1>4. \A i \in 1..n : g[i] = g[i - 1] \o S[i]
  BY <1>1, <1>2 DEF Joins
<1>5. ASSUME NEW m \in Nat, m < n
      PROVE  g[m + 1] = g[m] \o S[m + 1]
  <2>1. PICK i \in 1..n : i = m + 1 /\ i - 1 = m
    BY <1>5
  <2>2. g[i] = g[i - 1] \o S[i]
    BY <1>4
  <2>3. QED BY <2>1, <2>2
<1>6. QED BY <1>1, <1>2, <1>3, <1>5 DEF Steps

\* Sets of numbers for an induction up to n.
LEMMA UptoInduction ==
  ASSUME NEW n \in Nat, NEW M, 0 \in M, \A m \in Nat : m < n /\ m \in M => m + 1 \in M
  PROVE  \A m \in 0..n : m \in M
<1> DEFINE T == {m \in Nat : m <= n => m \in M}
<1>1. 0 \in T
  OBVIOUS
<1>2. \A m \in T : m + 1 \in T
  OBVIOUS
<1>3. T \in SUBSET Nat
  OBVIOUS
<1> HIDE DEF T
<1>4. T = Nat
  BY <1>1, <1>2, <1>3, SetInduction
<1>5. QED BY <1>4 DEF T

\* S and T begin with the same n sequences.
Agree(S, T, n) == n <= Len(S) /\ n <= Len(T) /\ \A i \in 1..n : S[i] = T[i]

\* Sequences that begin alike join alike.
LEMMA StepsAgree ==
  ASSUME NEW D, NEW S \in Seq(Seq(D)), NEW T \in Seq(Seq(D)), NEW n \in Nat, Agree(S, T, n),
         NEW g, NEW h, Steps(D, S, g), Steps(D, T, h)
  PROVE  \A i \in 0..n : g[i] = h[i]
<1>1. Len(S) \in Nat /\ Len(T) \in Nat /\ n <= Len(S) /\ n <= Len(T)
  BY DEF Agree
<1> DEFINE M == {m \in Nat : g[m] = h[m]}
<1>2. 0 \in M
  BY DEF Steps
<1>3. ASSUME NEW m \in Nat, m < n, m \in M
      PROVE  m + 1 \in M
  <2>1. m < Len(S) /\ m < Len(T) /\ m + 1 \in 1..n
    BY <1>1, <1>3
  <2>2. g[m + 1] = g[m] \o S[m + 1] /\ h[m + 1] = h[m] \o T[m + 1]
    BY <2>1 DEF Steps
  <2>3. S[m + 1] = T[m + 1]
    BY <2>1 DEF Agree
  <2>4. g[m] = h[m]
    BY <1>3
  <2> HIDE DEF M
  <2>5. g[m + 1] = h[m + 1]
    BY <2>2, <2>3, <2>4
  <2>6. m + 1 \in Nat
    OBVIOUS
  <2>7. QED BY <2>5, <2>6 DEF M
<1> HIDE DEF M
<1>4. \A m \in 0..n : m \in M
  BY <1>2, <1>3, UptoInduction
<1>5. QED BY <1>4 DEF M

\* FlattenSeq() of a concatenation.
LEMMA FlattenConcat ==
  ASSUME NEW D, NEW S \in Seq(Seq(D)), NEW T \in Seq(Seq(D))
  PROVE  FlattenSeq(S \o T) = FlattenSeq(S) \o FlattenSeq(T)
<1>1. PICK U \in Seq(Seq(D)) : U = S \o T
  <2>1. S \o T \in Seq(Seq(D))
    OBVIOUS
  <2>2. QED BY <2>1
<1>2. PICK m \in Nat : m = Len(S) /\ \A i \in 1..m : U[i] = S[i]
  BY <1>1
<1>3. PICK n \in Nat : n = Len(T)
  OBVIOUS
<1>4. Len(U) = m + n /\ \A i \in 1..n : U[m + i] = T[i]
  BY <1>1, <1>2, <1>3
<1>5. PICK g, h, k : Steps(D, S, g) /\ Steps(D, T, h) /\ Steps(D, U, k)
  BY FlattenSteps
<1>6. k[m] = g[m] /\ g[m] \in Seq(D)
  <2>1. m <= Len(U) /\ m <= Len(S) /\ m \in 0..m
    BY <1>2, <1>3, <1>4
  <2>2. Steps(D, U, k) /\ Steps(D, S, g)
    BY <1>5
  <2>3. Agree(U, S, m)
    BY <1>2, <2>1 DEF Agree
  <2>4. \A i \in 0..m : k[i] = g[i]
    BY <2>2, <2>3, StepsAgree
  <2>5. QED BY <1>2, <1>5, <2>1, <2>4 DEF Steps
<1> DEFINE M == {i \in Nat : k[m + i] = g[m] \o h[i]}
<1>7. 0 \in M
  <2>1. g[m] \o <<>> = g[m]
    BY <1>6, ConcatEmptySeq
  <2>2. m + 0 = m /\ h[0] = <<>>
    BY <1>5 DEF Steps
  <2>3. QED BY <1>6, <2>1, <2>2
<1>8. ASSUME NEW i \in Nat, i < n, i \in M
      PROVE  i + 1 \in M
  <2>1. k[m + i] = g[m] \o h[i]
    BY <1>8
  <2> HIDE DEF M
  <2>2. PICK j \in Nat : j = m + i /\ j < m + n /\ j + 1 = m + (i + 1) /\ i + 1 \in 1..n /\ i \in 0..n
    BY <1>8
  <2>3. k[j + 1] = k[j] \o U[j + 1]
    BY <1>4, <1>5, <2>2 DEF Steps
  <2>4. U[j + 1] = T[i + 1]
    BY <1>4, <2>2
  <2>5. h[i + 1] = h[i] \o T[i + 1]
    BY <1>3, <1>5, <1>8 DEF Steps
  <2>6. h[i] \in Seq(D)
    BY <1>3, <1>5, <2>2 DEF Steps
  <2>7. T[i + 1] \in Seq(D)
    BY <1>3, <2>2
  <2>8. PICK a \in Seq(D), b \in Seq(D), c \in Seq(D) : a = g[m] /\ b = h[i] /\ c = T[i + 1]
    BY <1>6, <2>6, <2>7
  <2>9. (a \o b) \o c = a \o (b \o c)
    BY ConcatAssociative
  <2>10. k[m + (i + 1)] = g[m] \o h[i + 1]
    BY <2>1, <2>2, <2>3, <2>4, <2>5, <2>8, <2>9
  <2>11. i + 1 \in Nat
    OBVIOUS
  <2>12. QED BY <2>10, <2>11 DEF M
<1> HIDE DEF M
<1>9. \A i \in 0..n : i \in M
  BY <1>7, <1>8, UptoInduction
<1>10. n \in M
  BY <1>9
<1>11. k[m + n] = g[m] \o h[n]
  BY <1>10 DEF M
<1>12. k[m + n] = FlattenSeq(U) /\ g[m] = FlattenSeq(S) /\ h[n] = FlattenSeq(T)
  BY <1>2, <1>3, <1>4, <1>5 DEF Steps
<1>13. QED BY <1>1, <1>11, <1>12

\* FlattenSeq() of one sequence.
LEMMA FlattenOne ==
  ASSUME NEW D, NEW x \in Seq(D)
  PROVE  FlattenSeq(<<x>>) = x
<1>1. PICK S \in Seq(Seq(D)) : S = <<x>>
  <2>1. <<x>> \in Seq(Seq(D))
    OBVIOUS
  <2>2. QED BY <2>1
<1>2. Len(S) = 1 /\ S[1] = x
  BY <1>1
<1>3. PICK g : Steps(D, S, g)
  BY FlattenSteps
<1>4. PICK z \in Nat : z = 0
  OBVIOUS
<1>5. z < Len(S) /\ z + 1 = 1
  BY <1>2, <1>4
<1>6. g[z + 1] = g[z] \o S[z + 1]
  BY <1>3, <1>5 DEF Steps
<1>7. g[0] = <<>> /\ g[1] = FlattenSeq(S)
  BY <1>2, <1>3 DEF Steps
<1>8. g[1] = <<>> \o x
  BY <1>2, <1>4, <1>5, <1>6, <1>7
<1>9. <<>> \o x = x
  BY ConcatEmptySeq
<1>10. QED BY <1>1, <1>7, <1>8, <1>9

\* FlattenSeq() of empty sequences.
LEMMA FlattenEmpty ==
  ASSUME NEW D, NEW S \in Seq(Seq(D)), \A i \in 1..Len(S) : S[i] = <<>>
  PROVE  FlattenSeq(S) = <<>>
<1>1. PICK n \in Nat : n = Len(S)
  OBVIOUS
<1>2. PICK g : Steps(D, S, g)
  BY FlattenSteps
<1> DEFINE M == {m \in Nat : g[m] = <<>>}
<1>3. 0 \in M
  BY <1>2 DEF Steps
<1>4. ASSUME NEW m \in Nat, m < n, m \in M
      PROVE  m + 1 \in M
  <2>1. m + 1 \in 1..Len(S)
    BY <1>1, <1>4
  <2>2. S[m + 1] = <<>> /\ g[m] = <<>>
    BY <1>4, <2>1
  <2>3. g[m + 1] = g[m] \o S[m + 1]
    BY <1>1, <1>2, <1>4 DEF Steps
  <2>4. <<>> \o <<>> = <<>>
    <3>1. <<>> \in Seq(D)
      BY EmptySeq
    <3>2. QED BY <3>1, ConcatEmptySeq
  <2>5. QED BY <2>2, <2>3, <2>4
<1> HIDE DEF M
<1>5. \A m \in 0..n : m \in M
  BY <1>3, <1>4, UptoInduction
<1>6. n \in M
  BY <1>5
<1>7. QED BY <1>1, <1>2, <1>6 DEF M, Steps

\* Sequences of at most one element join to a sequence that is no longer than there are of them.
LEMMA FlattenIsNoLonger ==
  ASSUME NEW D, NEW S \in Seq(Seq(D)), \A i \in 1..Len(S) : Len(S[i]) <= 1
  PROVE  FlattenSeq(S) \in Seq(D) /\ Len(FlattenSeq(S)) <= Len(S)
<1>1. PICK n \in Nat : n = Len(S)
  OBVIOUS
<1>2. PICK g : Steps(D, S, g)
  BY FlattenSteps
<1> DEFINE M == {m \in Nat : Len(g[m]) <= m}
<1>3. 0 \in M
  <2>1. g[0] = <<>> /\ Len(<<>>) = 0
    BY <1>2, EmptySeq DEF Steps
  <2>2. QED BY <2>1
<1>4. ASSUME NEW m \in Nat, m < n, m \in M
      PROVE  m + 1 \in M
  <2>1. m + 1 \in 1..Len(S) /\ m \in 0..Len(S) /\ m < Len(S)
    BY <1>1, <1>4
  <2>2. Len(g[m]) <= m
    BY <1>4
  <2> HIDE DEF M
  <2>3. PICK s \in Seq(D) : s = g[m]
    BY <1>2, <2>1 DEF Steps
  <2>4. PICK t \in Seq(D) : t = S[m + 1] /\ Len(t) <= 1
    BY <2>1
  <2>5. Len(s \o t) = Len(s) + Len(t) /\ Len(s) \in Nat /\ Len(t) \in Nat
    OBVIOUS
  <2>6. g[m + 1] = s \o t
    BY <1>2, <2>1, <2>3, <2>4 DEF Steps
  <2>7. Len(g[m + 1]) = Len(s) + Len(t)
    BY <2>5, <2>6
  <2>8. Len(s) <= m /\ Len(t) <= 1
    BY <2>2, <2>3, <2>4
  <2>9. Len(g[m + 1]) <= m + 1
    BY <2>5, <2>7, <2>8
  <2>10. QED BY <2>9 DEF M
<1> HIDE DEF M
<1>5. \A m \in 0..n : m \in M
  BY <1>3, <1>4, UptoInduction
<1>6. n \in M /\ n \in 0..Len(S)
  BY <1>1, <1>5
<1>7. Len(g[n]) <= n
  BY <1>6 DEF M
<1>8. g[n] \in Seq(D) /\ g[n] = FlattenSeq(S)
  BY <1>1, <1>2, <1>6 DEF Steps
<1>9. QED BY <1>1, <1>7, <1>8

\* A sequence is its first k elements, and the others.
LEMMA SplitAt ==
  ASSUME NEW D, NEW s \in Seq(D), NEW k \in 0..Len(s)
  PROVE  /\ SubSeq(s, 1, k) \in Seq(D) /\ SubSeq(s, k + 1, Len(s)) \in Seq(D)
         /\ SubSeq(s, 1, k) \o SubSeq(s, k + 1, Len(s)) = s
         /\ Len(SubSeq(s, 1, k)) = k /\ Len(SubSeq(s, k + 1, Len(s))) = Len(s) - k
         /\ \A i \in 1..k : SubSeq(s, 1, k)[i] = s[i]
         /\ \A i \in 1..(Len(s) - k) : SubSeq(s, k + 1, Len(s))[i] = s[k + i]
<1>1. PICK n \in Nat : n = Len(s)
  OBVIOUS
<1>2. k \in Nat /\ k <= n
  BY <1>1
<1>3. SubSeq(s, 1, k) \o SubSeq(s, k + 1, Len(s)) = SubSeq(s, 1, Len(s))
  <2>1. 1 \in 1..(Len(s) + 1) /\ k \in (1 - 1)..Len(s) /\ Len(s) \in k..Len(s)
    BY <1>1, <1>2
  <2>2. QED BY <2>1, ConcatAdjacentSubSeq
<1>4. SubSeq(s, 1, Len(s)) = s
  BY SubSeqFull
<1>5. /\ SubSeq(s, 1, k) \in Seq(D) /\ Len(SubSeq(s, 1, k)) = k
      /\ \A i \in 1..k : SubSeq(s, 1, k)[i] = s[i]
  BY <1>1, <1>2
<1>6. /\ SubSeq(s, k + 1, n) \in Seq(D) /\ Len(SubSeq(s, k + 1, n)) = n - k
      /\ \A i \in 1..(n - k) : SubSeq(s, k + 1, n)[i] = s[k + i]
  BY <1>1, <1>2
<1>7. QED BY <1>1, <1>3, <1>4, <1>5, <1>6

\* a is the first k elements of s, and b the others.
Splits(s, k, a, b) ==
  /\ a = SubSeq(s, 1, k) /\ b = SubSeq(s, k + 1, Len(s)) /\ a \o b = s
  /\ Len(a) = k /\ \A i \in 1..k : a[i] = s[i]
  /\ Len(b) = Len(s) - k /\ \A i \in 1..(Len(s) - k) : b[i] = s[k + i]

\* A sequence can be split anywhere.
LEMMA SplitExists ==
  ASSUME NEW D, NEW s \in Seq(D), NEW k \in 0..Len(s)
  PROVE  \E a \in Seq(D) : \E b \in Seq(D) : Splits(s, k, a, b)
<1>1. PICK a, b : a = SubSeq(s, 1, k) /\ b = SubSeq(s, k + 1, Len(s))
  OBVIOUS
<1>2. a \in Seq(D) /\ b \in Seq(D) /\ Splits(s, k, a, b)
  BY <1>1, SplitAt DEF Splits
<1>3. QED BY <1>2

\* The type of FlattenSeq().
LEMMA FlattenIsSeq ==
  ASSUME NEW D, NEW S \in Seq(Seq(D))
  PROVE  FlattenSeq(S) \in Seq(D)
<1>1. PICK g : Steps(D, S, g)
  BY FlattenSteps
<1>2. Len(S) \in 0..Len(S)
  OBVIOUS
<1>3. QED BY <1>1, <1>2 DEF Steps

\* FlattenSeq() of one sequence more.
LEMMA FlattenAppend ==
  ASSUME NEW D, NEW S \in Seq(Seq(D)), NEW x \in Seq(D)
  PROVE  FlattenSeq(Append(S, x)) = FlattenSeq(S) \o x
<1>1. PICK T \in Seq(Seq(D)) : T = <<x>>
  <2>1. <<x>> \in Seq(Seq(D))
    OBVIOUS
  <2>2. QED BY <2>1
<1>2. Append(S, x) = S \o T
  BY <1>1, AppendIsConcat
<1>3. FlattenSeq(S \o T) = FlattenSeq(S) \o FlattenSeq(T)
  BY FlattenConcat
<1>4. FlattenSeq(T) = x
  BY <1>1, FlattenOne
<1>5. QED BY <1>2, <1>3, <1>4

\* What only the first of some sequences make begins what all of them make.
LEMMA FlattenFirst ==
  ASSUME NEW D, NEW S \in Seq(Seq(D)), NEW T \in Seq(Seq(D)), NEW k \in Nat, Agree(S, T, k),
         \A i \in 1..Len(S) : i > k => S[i] = <<>>
  PROVE  \E b \in Seq(D) : /\ FlattenSeq(T) = FlattenSeq(S) \o b
                           /\ k = Len(T) => b = <<>>
<1>1. k \in 0..Len(S) /\ k \in 0..Len(T)
  BY DEF Agree
<1>2. PICK A \in Seq(Seq(D)), E \in Seq(Seq(D)) : Splits(S, k, A, E)
  BY <1>1, SplitExists
<1>3. PICK B \in Seq(Seq(D)), F \in Seq(Seq(D)) : Splits(T, k, B, F)
  BY <1>1, SplitExists
<1>4. A = B
  <2>1. \A i \in 1..k : A[i] = B[i]
    BY <1>2, <1>3 DEF Agree, Splits
  <2>2. QED BY <1>2, <1>3, <2>1, SeqEqual DEF Splits
<1>5. FlattenSeq(E) = <<>>
  <2>1. ASSUME NEW i \in 1..Len(E)
        PROVE  E[i] = <<>>
    <3>1. i \in 1..(Len(S) - k) /\ k + i \in 1..Len(S) /\ k + i > k
      BY <1>1, <1>2 DEF Splits
    <3>2. QED BY <1>2, <3>1 DEF Splits
  <2>2. QED BY <2>1, FlattenEmpty
<1>6. PICK a \in Seq(D), b \in Seq(D) : a = FlattenSeq(A) /\ b = FlattenSeq(F)
  BY FlattenIsSeq
<1>7. FlattenSeq(S) = a
  <2>1. FlattenSeq(A \o E) = FlattenSeq(A) \o FlattenSeq(E)
    BY FlattenConcat
  <2>2. a \o <<>> = a
    BY ConcatEmptySeq
  <2>3. QED BY <1>2, <1>5, <1>6, <2>1, <2>2 DEF Splits
<1>8. FlattenSeq(T) = a \o b
  <2>1. FlattenSeq(B \o F) = FlattenSeq(B) \o FlattenSeq(F)
    BY FlattenConcat
  <2>2. QED BY <1>3, <1>4, <1>6, <2>1 DEF Splits
<1>9. ASSUME k = Len(T) PROVE b = <<>>
  <2>1. Len(F) = 0
    BY <1>3, <1>9 DEF Splits
  <2>2. \A i \in 1..Len(F) : F[i] = <<>>
    BY <2>1
  <2>3. QED BY <1>6, <2>2, FlattenEmpty
<1>10. QED BY <1>7, <1>8, <1>9

----------------------------------------------------------------------------
(* SlackMessage: fences *)

\* A unit of mrkdwn, and a letter with what Slack takes it for.
Unit == {"w", "d", "_", "/", "f", "t", "^", "e", "~"}
Letter == Unit \X BOOLEAN

\* countFences()
Fences(text) == Cardinality({i \in DOMAIN text : text[i] = "f"})

\* Fences are finitely many.
LEMMA FencesCount ==
  ASSUME NEW text \in Seq(Unit)
  PROVE  /\ IsFiniteSet({i \in DOMAIN text : text[i] = "f"}) /\ Fences(text) \in Nat
         /\ OddFences(text) \in BOOLEAN
<1>1. IsFiniteSet(1..Len(text)) /\ DOMAIN text = 1..Len(text)
  BY FS_Interval
<1>2. PICK A \in SUBSET (1..Len(text)) : A = {i \in DOMAIN text : text[i] = "f"}
  BY <1>1
<1>3. IsFiniteSet(A)
  BY <1>1, FS_Subset
<1>4. Cardinality(A) \in Nat
  BY <1>3, FS_CardinalityType
<1>5. OddFences(text) \in BOOLEAN
  BY DEF OddFences
<1>6. QED BY <1>2, <1>3, <1>4, <1>5 DEF Fences

\* The fences of a text are those of its parts.
LEMMA FencesAdd ==
  ASSUME NEW s \in Seq(Unit), NEW t \in Seq(Unit)
  PROVE  Fences(s \o t) = Fences(s) + Fences(t)
<1>1. PICK m \in Nat, n \in Nat : m = Len(s) /\ n = Len(t)
  OBVIOUS
<1>2. PICK A, B, C :
        /\ A = {i \in DOMAIN s : s[i] = "f"} /\ B = {i \in DOMAIN t : t[i] = "f"}
        /\ C = {m + i : i \in B}
  OBVIOUS
<1>3. A \subseteq 1..m /\ B \subseteq 1..n
  BY <1>1, <1>2
<1>4. IsFiniteSet(A) /\ IsFiniteSet(B)
  BY <1>2, FencesCount
<1>5. IsFiniteSet(C) /\ Cardinality(C) = Cardinality(B)
  <2> DEFINE f == [i \in B |-> m + i]
  <2>1. f \in Bijection(B, C)
    BY <1>2, <1>3 DEF Bijection, Injection, Surjection, IsInjective
  <2> HIDE DEF f
  <2>2. ExistsBijection(B, C)
    BY <2>1 DEF ExistsBijection
  <2>3. QED BY <1>4, <2>2, FS_Bijection
<1>6. A \cap C = {}
  BY <1>1, <1>2, <1>3
<1>7. {i \in DOMAIN (s \o t) : (s \o t)[i] = "f"} = A \cup C
  <2>1. DOMAIN (s \o t) = 1..(m + n)
    BY <1>1
  <2>2. \A i \in 1..m : (s \o t)[i] = s[i]
    BY <1>1
  <2>3. \A i \in 1..n : (s \o t)[m + i] = t[i]
    BY <1>1
  <2>4. PICK st : st = s \o t
    OBVIOUS
  <2>5. ASSUME NEW i \in 1..(m + n)
        PROVE  st[i] = "f" <=> i \in A \cup C
    <3>1. CASE i \in 1..m
      BY <1>1, <1>2, <1>3, <2>2, <2>4, <3>1
    <3>2. CASE i \notin 1..m
      <4>1. i - m \in 1..n /\ m + (i - m) = i
        BY <3>2
      <4>2. PICK j \in 1..n : m + j = i
        BY <4>1
      <4>3. st[i] = t[j]
        BY <2>3, <2>4, <4>2
      <4>4. i \notin A
        BY <1>3, <3>2
      <4>5. i \in C <=> j \in B
        BY <1>2, <1>3, <4>2
      <4>6. j \in B <=> t[j] = "f"
        BY <1>1, <1>2
      <4>7. QED BY <4>3, <4>4, <4>5, <4>6
    <3>3. QED BY <3>1, <3>2
  <2>6. A \cup C \subseteq 1..(m + n)
    BY <1>2, <1>3
  <2>7. QED BY <2>1, <2>4, <2>5, <2>6
<1>8. Cardinality(A \cup C) = Cardinality(A) + Cardinality(C) - Cardinality(A \cap C)
  BY <1>4, <1>5, FS_Union
<1>9. Cardinality(A \cap C) = 0 /\ Cardinality(A) \in Nat /\ Cardinality(C) \in Nat
  BY <1>4, <1>5, <1>6, FS_EmptySet, FS_CardinalityType
<1>10. Fences(s) = Cardinality(A) /\ Fences(t) = Cardinality(B)
  BY <1>2 DEF Fences
<1>11. Fences(s \o t) = Cardinality(A \cup C)
  BY <1>7 DEF Fences
<1>12. QED BY <1>5, <1>8, <1>9, <1>10, <1>11

\* Two parts make an odd number of fences when just one of them does.
LEMMA OddOfConcat ==
  ASSUME NEW s \in Seq(Unit), NEW t \in Seq(Unit)
  PROVE  OddFences(s \o t) <=> ~(OddFences(s) <=> OddFences(t))
<1>1. PICK m \in Nat, n \in Nat : m = Fences(s) /\ n = Fences(t)
  BY FencesCount
<1>2. Fences(s \o t) = m + n
  BY <1>1, FencesAdd
<1>3. (m + n) % 2 = 1 <=> ~(m % 2 = 1 <=> n % 2 = 1)
  OBVIOUS
<1>4. QED BY <1>1, <1>2, <1>3 DEF OddFences, Fences

----------------------------------------------------------------------------
(* SlackMessage: letters *)

\* What is no letter.
Hidden == {"f", "_", "/"}

\* The letters of a text one by one, from a place in code or not.
Marks(text, code) ==
  [i \in DOMAIN text |->
     IF text[i] \in {"f", "_", "/"} THEN <<>>
     ELSE <<<<text[i], code # OddFences(SubSeq(text, 1, i))>>>>]

\* The beginnings of a concatenation.
LEMMA BeginOfConcat ==
  ASSUME NEW D, NEW s \in Seq(D), NEW t \in Seq(D)
  PROVE  /\ \A i \in 1..Len(s) : (s \o t)[i] = s[i] /\ SubSeq(s \o t, 1, i) = SubSeq(s, 1, i)
         /\ \A j \in 1..Len(t) :
              /\ (s \o t)[Len(s) + j] = t[j]
              /\ SubSeq(s \o t, 1, Len(s) + j) = s \o SubSeq(t, 1, j)
<1>1. PICK u \in Seq(D) : u = s \o t
  <2>1. s \o t \in Seq(D)
    OBVIOUS
  <2>2. QED BY <2>1
<1>2. PICK m \in Nat, n \in Nat : m = Len(s) /\ n = Len(t)
  OBVIOUS
<1>3. u = s \o t /\ m = Len(s) /\ n = Len(t)
  BY <1>1, <1>2
<1>4. Len(u) = m + n
  BY <1>3
<1>5. \A i \in 1..m : u[i] = s[i]
  BY <1>3
<1>6. \A j \in 1..n : u[m + j] = t[j]
  BY <1>3
<1>7. ASSUME NEW i \in 1..m
      PROVE  SubSeq(u, 1, i) = SubSeq(s, 1, i)
  <2>1. i \in 0..Len(u) /\ i \in 0..Len(s)
    BY <1>3, <1>4
  <2>2. PICK a \in Seq(D) : \E e \in Seq(D) : Splits(u, i, a, e)
    BY <2>1, SplitExists
  <2>3. PICK b \in Seq(D) : \E e \in Seq(D) : Splits(s, i, b, e)
    BY <2>1, SplitExists
  <2>4. a = SubSeq(u, 1, i) /\ Len(a) = i /\ \A j \in 1..i : a[j] = u[j]
    BY <2>2 DEF Splits
  <2>5. b = SubSeq(s, 1, i) /\ Len(b) = i /\ \A j \in 1..i : b[j] = s[j]
    BY <2>3 DEF Splits
  <2>6. \A j \in 1..i : a[j] = b[j]
    BY <1>5, <2>4, <2>5
  <2>7. QED BY <2>4, <2>5, <2>6, SeqEqual
<1>8. ASSUME NEW j \in 1..n
      PROVE  SubSeq(u, 1, m + j) = s \o SubSeq(t, 1, j)
  <2>1. m + j \in 0..Len(u) /\ j \in 0..Len(t)
    BY <1>3, <1>4
  <2>2. PICK a \in Seq(D) : \E e \in Seq(D) : Splits(u, m + j, a, e)
    BY <2>1, SplitExists
  <2>3. PICK b \in Seq(D) : \E e \in Seq(D) : Splits(t, j, b, e)
    BY <2>1, SplitExists
  <2>4. a = SubSeq(u, 1, m + j) /\ Len(a) = m + j /\ \A i \in 1..(m + j) : a[i] = u[i]
    BY <2>2 DEF Splits
  <2>5. b = SubSeq(t, 1, j) /\ Len(b) = j /\ \A i \in 1..j : b[i] = t[i]
    BY <2>3 DEF Splits
  <2>6. PICK c \in Seq(D) : c = s \o b
    <3>1. s \o b \in Seq(D)
      OBVIOUS
    <3>2. QED BY <3>1
  <2>7. Len(c) = m + j /\ (\A i \in 1..m : c[i] = s[i]) /\ \A i \in 1..j : c[m + i] = b[i]
    BY <1>3, <2>5, <2>6
  <2>8. ASSUME NEW i \in 1..(m + j)
        PROVE  a[i] = c[i]
    <3>1. CASE i \in 1..m
      BY <1>5, <2>4, <2>7, <3>1
    <3>2. CASE i \notin 1..m
      <4>1. i - m \in 1..j /\ m + (i - m) = i
        BY <3>2
      <4>2. PICK k \in 1..j : m + k = i
        BY <4>1
      <4>3. k \in 1..n
        OBVIOUS
      <4>4. QED BY <1>6, <2>4, <2>5, <2>7, <4>2, <4>3
    <3>3. QED BY <3>1, <3>2
  <2>9. a = c
    BY <2>4, <2>7, <2>8, SeqEqual
  <2>10. QED BY <2>4, <2>5, <2>6, <2>9
<1>9. QED BY <1>3, <1>5, <1>6, <1>7, <1>8

\* The beginnings that reach into the second part.
LEMMA EndOfConcat ==
  ASSUME NEW s \in Seq(Unit), NEW t \in Seq(Unit), NEW j \in 1..Len(t)
  PROVE  /\ (s \o t)[Len(s) + j] = t[j]
         /\ SubSeq(s \o t, 1, Len(s) + j) = s \o SubSeq(t, 1, j)
BY BeginOfConcat

\* The type of Marks().
LEMMA MarksAre ==
  ASSUME NEW text \in Seq(Unit), NEW code \in BOOLEAN
  PROVE  /\ Marks(text, code) \in Seq(Seq(Letter))
         /\ Len(Marks(text, code)) = Len(text)
         /\ \A i \in 1..Len(text) :
              /\ text[i] \in Hidden => Marks(text, code)[i] = <<>>
              /\ text[i] \notin Hidden =>
                   Marks(text, code)[i] = <<<<text[i], code # OddFences(SubSeq(text, 1, i))>>>>
              /\ Len(Marks(text, code)[i]) <= 1
<1>1. PICK n \in Nat : n = Len(text) /\ DOMAIN text = 1..n
  OBVIOUS
<1>2. PICK M : M = Marks(text, code)
  OBVIOUS
<1>3. M = [i \in 1..n |->
            IF text[i] \in Hidden THEN <<>> ELSE <<<<text[i], code # OddFences(SubSeq(text, 1, i))>>>>]
  BY <1>1, <1>2 DEF Marks, Hidden
<1>4. ASSUME NEW i \in 1..n
      PROVE  /\ M[i] \in Seq(Letter) /\ Len(M[i]) <= 1
             /\ text[i] \in Hidden => M[i] = <<>>
             /\ text[i] \notin Hidden => M[i] = <<<<text[i], code # OddFences(SubSeq(text, 1, i))>>>>
  <2>1. CASE text[i] \in Hidden
    <3>1. M[i] = <<>>
      BY <1>3, <2>1
    <3>2. QED BY <2>1, <3>1, EmptySeq
  <2>2. CASE text[i] \notin Hidden
    <3>1. PICK c : c = (code # OddFences(SubSeq(text, 1, i)))
      OBVIOUS
    <3>2. c \in BOOLEAN
      BY <3>1
    <3>3. text[i] \in Unit
      BY <1>1
    <3>4. M[i] = <<<<text[i], c>>>>
      BY <1>3, <2>2, <3>1
    <3>5. <<text[i], c>> \in Letter
      BY <3>2, <3>3 DEF Letter
    <3>6. <<<<text[i], c>>>> \in Seq(Letter) /\ Len(<<<<text[i], c>>>>) = 1
      BY <3>5
    <3>7. QED BY <2>2, <3>1, <3>4, <3>6
  <2>3. QED BY <2>1, <2>2
<1>5. M \in Seq(Seq(Letter)) /\ Len(M) = n
  <2>1. \A i \in 1..n : M[i] \in Seq(Letter)
    BY <1>4
  <2>2. DOMAIN M = 1..n /\ M = [i \in 1..n |-> M[i]]
    BY <1>3
  <2>3. M \in [1..n -> Seq(Letter)]
    BY <2>1, <2>2
  <2>4. QED BY <2>3
<1>6. QED BY <1>1, <1>2, <1>4, <1>5

\* What a unit shows.
LEMMA MarkHidden ==
  ASSUME NEW text \in Seq(Unit), NEW code \in BOOLEAN, NEW i \in 1..Len(text), text[i] \in Hidden
  PROVE  Marks(text, code)[i] = <<>>
BY MarksAre

\* And a letter.
LEMMA MarkShown ==
  ASSUME NEW text \in Seq(Unit), NEW code \in BOOLEAN, NEW i \in 1..Len(text), text[i] \notin Hidden
  PROVE  Marks(text, code)[i] = <<<<text[i], code # OddFences(SubSeq(text, 1, i))>>>>
BY MarksAre

\* The type of Letters(), which are no more than the units.
LEMMA LettersAre ==
  ASSUME NEW text \in Seq(Unit), NEW code \in BOOLEAN
  PROVE  /\ Letters(text, code) = FlattenSeq(Marks(text, code))
         /\ Letters(text, code) \in Seq(Letter)
         /\ Len(Letters(text, code)) <= Len(text)
<1>1. Letters(text, code) = FlattenSeq(Marks(text, code))
  BY DEF Letters, Marks
<1>2. PICK M \in Seq(Seq(Letter)) : M = Marks(text, code)
  BY MarksAre
<1>3. Len(M) = Len(text) /\ \A i \in 1..Len(M) : Len(M[i]) <= 1
  BY <1>2, MarksAre
<1>4. QED BY <1>1, <1>2, <1>3, FlattenIsNoLonger

\* Fences and spaces show no letter.
LEMMA LettersHidden ==
  ASSUME NEW text \in Seq(Unit), NEW code \in BOOLEAN, \A i \in 1..Len(text) : text[i] \in Hidden
  PROVE  Letters(text, code) = <<>>
<1>1. PICK M \in Seq(Seq(Letter)) : M = Marks(text, code)
  BY MarksAre
<1>2. Len(M) = Len(text) /\ \A i \in 1..Len(M) : M[i] = <<>>
  BY <1>1, MarksAre
<1>3. FlattenSeq(M) = <<>>
  BY <1>2, FlattenEmpty
<1>4. QED BY <1>1, <1>3, LettersAre

\* The second part of a text begins as code when the first leaves a block open.
LEMMA LettersConcat ==
  ASSUME NEW s \in Seq(Unit), NEW t \in Seq(Unit), NEW code \in BOOLEAN,
         NEW then \in BOOLEAN, then = (code # OddFences(s))
  PROVE  Letters(s \o t, code) = Letters(s, code) \o Letters(t, then)
<1>1. PICK u \in Seq(Unit) : u = s \o t
  <2>1. s \o t \in Seq(Unit)
    OBVIOUS
  <2>2. QED BY <2>1
<1>2. PICK m \in Nat, n \in Nat : m = Len(s) /\ n = Len(t)
  OBVIOUS
<1>3. u = s \o t /\ m = Len(s) /\ n = Len(t)
  BY <1>1, <1>2
<1>4. Len(u) = m + n
  BY <1>3
<1>5. PICK K \in Seq(Seq(Letter)), M \in Seq(Seq(Letter)), N \in Seq(Seq(Letter)) :
        K = Marks(u, code) /\ M = Marks(s, code) /\ N = Marks(t, then)
  <2>1. Marks(u, code) \in Seq(Seq(Letter)) /\ Marks(s, code) \in Seq(Seq(Letter))
        /\ Marks(t, then) \in Seq(Seq(Letter))
    BY MarksAre
  <2>2. QED BY <2>1
<1>6. Len(K) = m + n /\ Len(M) = m /\ Len(N) = n
  BY <1>3, <1>4, <1>5, MarksAre
<1>7. ASSUME NEW i \in 1..m
      PROVE  K[i] = M[i]
  <2>1. i \in 1..Len(s) /\ i \in 1..Len(u)
    BY <1>3, <1>4
  <2>2. u[i] = s[i] /\ SubSeq(u, 1, i) = SubSeq(s, 1, i)
    BY <1>3, <2>1, BeginOfConcat
  <2>3. CASE s[i] \in Hidden
    <3>1. u[i] \in Hidden
      BY <2>2, <2>3
    <3>2. K[i] = <<>>
      BY <1>5, <2>1, <3>1, MarkHidden
    <3>3. M[i] = <<>>
      BY <1>5, <2>1, <2>3, MarkHidden
    <3>4. QED BY <3>2, <3>3
  <2>4. CASE s[i] \notin Hidden
    <3>1. u[i] \notin Hidden
      BY <2>2, <2>4
    <3>2. K[i] = <<<<u[i], code # OddFences(SubSeq(u, 1, i))>>>>
      BY <1>5, <2>1, <3>1, MarkShown
    <3>3. M[i] = <<<<s[i], code # OddFences(SubSeq(s, 1, i))>>>>
      BY <1>5, <2>1, <2>4, MarkShown
    <3>4. QED BY <2>2, <3>2, <3>3
  <2>5. QED BY <2>3, <2>4
<1>8. ASSUME NEW j \in 1..n
      PROVE  K[m + j] = N[j]
  <2>1. j \in 1..Len(t) /\ m + j \in 1..Len(u)
    <3>1. m + j \in 1..(m + n)
      OBVIOUS
    <3>2. j \in 1..Len(t)
      BY <1>2
    <3>3. m + j \in 1..Len(u)
      BY <1>4, <3>1
    <3>4. QED BY <3>2, <3>3
  <2>2. u[m + j] = t[j] /\ SubSeq(u, 1, m + j) = s \o SubSeq(t, 1, j)
    <3>1. /\ (s \o t)[Len(s) + j] = t[j]
          /\ SubSeq(s \o t, 1, Len(s) + j) = s \o SubSeq(t, 1, j)
      BY <2>1, EndOfConcat
    <3>2. QED BY <1>3, <3>1
  <2>3. CASE t[j] \in Hidden
    <3>1. N[j] = <<>>
      BY <1>5, <2>1, <2>3, MarkHidden
    <3>2. PICK k \in 1..Len(u) : k = m + j
      BY <2>1
    <3>3. u[k] \in Hidden
      BY <2>2, <2>3, <3>2
    <3>4. K[k] = <<>>
      BY <1>5, <3>3, MarkHidden
    <3>5. QED BY <3>1, <3>2, <3>4
  <2>4. CASE t[j] \notin Hidden
    <3>1. K[m + j] = <<<<u[m + j], code # OddFences(SubSeq(u, 1, m + j))>>>>
      <4>1. PICK k \in 1..Len(u) : k = m + j
        BY <2>1
      <4>2. u[k] \notin Hidden
        BY <2>2, <2>4, <4>1
      <4>3. K[k] = <<<<u[k], code # OddFences(SubSeq(u, 1, k))>>>>
        BY <1>5, <4>2, MarkShown
      <4>4. QED BY <4>1, <4>3
    <3>2. N[j] = <<<<t[j], then # OddFences(SubSeq(t, 1, j))>>>>
      BY <1>5, <2>1, <2>4, MarkShown
    <3>3. PICK b \in Seq(Unit) : b = SubSeq(t, 1, j)
      <4>1. j \in 0..Len(t)
        BY <2>1
      <4>2. SubSeq(t, 1, j) \in Seq(Unit)
        BY <4>1, SplitAt
      <4>3. QED BY <4>2
    <3>4. OddFences(s \o b) <=> ~(OddFences(s) <=> OddFences(b))
      BY OddOfConcat
    <3>5. PICK o \in BOOLEAN, p \in BOOLEAN, r \in BOOLEAN :
            o = OddFences(s) /\ p = OddFences(b) /\ r = OddFences(s \o b)
      BY DEF OddFences
    <3>6. (code # r) = (then # p)
      BY <3>4, <3>5
    <3>7. QED BY <2>2, <3>1, <3>2, <3>3, <3>5, <3>6
  <2>5. QED BY <2>3, <2>4
<1>9. K = M \o N
  <2>1. PICK L \in Seq(Seq(Letter)) : L = M \o N
    <3>1. M \o N \in Seq(Seq(Letter))
      OBVIOUS
    <3>2. QED BY <3>1
  <2>2. L = M \o N /\ Len(M) = m /\ Len(N) = n
    BY <1>6, <2>1
  <2>3. \A i \in 1..Len(M) : L[i] = M[i]
    BY <2>2, BeginOfConcat
  <2>4. \A j \in 1..Len(N) : L[Len(M) + j] = N[j]
    BY <2>2, BeginOfConcat
  <2>5. Len(L) = Len(M) + Len(N)
    BY <2>2, ConcatProperties
  <2>6. Len(L) = m + n /\ (\A i \in 1..m : L[i] = M[i]) /\ \A j \in 1..n : L[m + j] = N[j]
    BY <2>2, <2>3, <2>4, <2>5
  <2>7. ASSUME NEW i \in 1..(m + n)
        PROVE  K[i] = L[i]
    <3>1. CASE i \in 1..m
      BY <1>7, <2>6, <3>1
    <3>2. CASE i \notin 1..m
      <4>1. i - m \in 1..n /\ m + (i - m) = i
        BY <3>2
      <4>2. PICK j \in 1..n : m + j = i
        BY <4>1
      <4>3. QED BY <1>8, <2>6, <4>2
    <3>3. QED BY <3>1, <3>2
  <2>8. QED BY <1>6, <2>1, <2>6, <2>7, SeqEqual
<1>10. FlattenSeq(M \o N) = FlattenSeq(M) \o FlattenSeq(N)
  BY FlattenConcat
<1>11. /\ Letters(u, code) = FlattenSeq(K)
      /\ Letters(s, code) = FlattenSeq(M)
      /\ Letters(t, then) = FlattenSeq(N)
  BY <1>5, LettersAre
<1>12. QED BY <1>3, <1>9, <1>10, <1>11

----------------------------------------------------------------------------
(* SlackMessage: cutting *)

\* A bounded set of numbers has a greatest.
LEMMA HasMax ==
  ASSUME NEW S \in SUBSET Nat, S # {}, NEW n \in Nat, \A x \in S : x <= n
  PROVE  Max(S) \in S
<1> DEFINE T == {n - x : x \in S}
<1>1. T \in SUBSET Nat /\ T # {}
  <2>1. \A x \in S : n - x \in Nat
    OBVIOUS
  <2>2. QED BY <2>1
<1>2. PICK t \in T : \A y \in T : ~(y < t)
  BY <1>1, NatMin
<1>3. PICK m \in S : t = n - m
  BY <1>2
<1>4. \A x \in S : m >= x
  <2>1. SUFFICES ASSUME NEW x \in S, ~(m >= x) PROVE FALSE
    OBVIOUS
  <2>2. n - x \in T /\ n - x < t
    BY <1>3, <2>1
  <2>3. QED BY <1>2, <2>2
<1>5. QED BY <1>4 DEF Max

\* A set of numbers has a least.
LEMMA HasMin ==
  ASSUME NEW S \in SUBSET Nat, S # {}
  PROVE  Min(S) \in S
<1>1. PICK m \in S : \A y \in S : ~(y < m)
  BY NatMin
<1>2. \A y \in S : m <= y
  BY <1>1
<1>3. QED BY <1>2 DEF Min

\* The budget of a chunk leaves room for the fences.
LEMMA BudgetIs ==
  /\ Budget \in Nat /\ Budget > 0 /\ SectionText \in Nat /\ SectionText = Budget + 4
BY LimitsAssumption DEF Budget, FenceRepair

\* A separator within the window ends within the budget.
LEMMA CutsAreEarly ==
  ASSUME NEW text, NEW l \in {1, 2}, NEW separator, Len(separator) = l
  PROVE  /\ CutsAt(text, separator) \in SUBSET Nat
         /\ \A x \in CutsAt(text, separator) : x <= Budget
<1>1. PICK b \in Nat : b = Budget
  BY BudgetIs
<1>2. ASSUME NEW x \in CutsAt(text, separator)
      PROVE  x \in Nat /\ x <= b
  <2>1. PICK i \in 2..(b - l + 1) : x = i + l - 1
    BY <1>1 DEF CutsAt
  <2>2. QED BY <2>1
<1>3. QED BY <1>1, <1>2

\* cutSafely() finds a place within the budget.
LEMMA CutSafelyIs ==
  ASSUME NEW text \in Seq(Unit)
  PROVE  CutSafely(text) \in 0..Budget
<1>1. PICK b \in Nat : b = Budget
  BY BudgetIs
<1> DEFINE S == {e \in 0..b : e = 0 \/ text[e + 1] # "^"}
<1>2. S \in SUBSET Nat /\ S # {} /\ \A x \in S : x <= b
  <2>1. 0 \in S
    OBVIOUS
  <2>2. \A x \in S : x \in Nat /\ x <= b
    OBVIOUS
  <2> HIDE DEF S
  <2>3. QED BY <2>1, <2>2
<1> DEFINE T == {b - x : x \in S}
<1>3. T \in SUBSET Nat /\ T # {}
  <2>1. \A x \in S : b - x \in Nat
    <3> HIDE DEF S
    <3>1. \A x \in S : x \in Nat /\ x <= b
      BY <1>2
    <3>2. QED BY <3>1
  <2>2. 0 \in S
    OBVIOUS
  <2> HIDE DEF S
  <2>3. QED BY <2>1, <2>2
<1>4. PICK t \in T : \A y \in T : ~(y < t)
  BY <1>3, NatMin
<1>5. PICK m \in S : t = b - m
  BY <1>4
<1>6. \A later \in (m + 1)..b : text[later + 1] = "^"
  <2>1. SUFFICES ASSUME NEW later \in (m + 1)..b, text[later + 1] # "^" PROVE FALSE
    OBVIOUS
  <2>2. later \in S
    BY <2>1
  <2>3. b - later \in T /\ b - later < t
    BY <1>5, <2>2
  <2>4. QED BY <1>4, <2>3
<1>7. m \in 0..b /\ (m = 0 \/ text[m + 1] # "^")
  BY <1>5
<1> HIDE DEF S, T
<1>8. \E end \in 0..Budget :
        /\ end = 0 \/ text[end + 1] # "^"
        /\ \A later \in (end + 1)..Budget : text[later + 1] = "^"
  BY <1>1, <1>6, <1>7
<1>9. QED BY <1>8 DEF CutSafely

\* A cut is within the text and the budget.
LEMMA CutChunkIs ==
  ASSUME NEW text \in Seq(Unit)
  PROVE  CutChunk(text) \in 0..Len(text) /\ CutChunk(text) <= Budget
<1>1. PICK b \in Nat, n \in Nat : b = Budget /\ n = Len(text)
  BY BudgetIs
<1> DEFINE separators == <<<<"/", "/">>, <<"/">>, <<"_">>>>
           found == {k \in 1..3 : CutsAt(text, separators[k]) # {}}
<1>2. CASE n <= b
  <2>1. CutChunk(text) = n
    BY <1>1, <1>2 DEF CutChunk
  <2>2. n \in 0..n
    OBVIOUS
  <2> HIDE DEF separators, found
  <2>3. QED BY <1>1, <1>2, <2>1, <2>2
<1>3. CASE ~(n <= b) /\ found = {}
  <2>1. CutChunk(text) = CutSafely(text)
    BY <1>1, <1>3 DEF CutChunk
  <2>2. PICK c \in 0..b : c = CutSafely(text)
    BY <1>1, CutSafelyIs
  <2> HIDE DEF separators, found
  <2>3. c \in 0..n /\ c <= b
    BY <1>3
  <2>4. QED BY <1>1, <2>1, <2>2, <2>3
<1>4. CASE ~(n <= b) /\ found # {}
  <2>1. CutChunk(text) = Max(CutsAt(text, separators[Min(found)]))
    BY <1>1, <1>4 DEF CutChunk
  <2>2. found \in SUBSET Nat
    <3> HIDE DEF separators
    <3>1. \A k \in 1..3 : k \in Nat
      OBVIOUS
    <3>2. QED BY <3>1
  <2>3. PICK k \in 1..3 : k = Min(found) /\ CutsAt(text, separators[k]) # {}
    <3>1. Min(found) \in found
      BY <1>4, <2>2, HasMin
    <3>2. QED BY <3>1
  <2>4. PICK l \in {1, 2} : l = Len(separators[k])
    <3>1. PICK a, c, d : a = <<"/", "/">> /\ c = <<"/">> /\ d = <<"_">>
      OBVIOUS
    <3>2. Len(a) = 2 /\ Len(c) = 1 /\ Len(d) = 1
      BY <3>1
    <3>3. separators = <<a, c, d>>
      BY <3>1
    <3> HIDE DEF separators, found
    <3>4. separators[1] = a /\ separators[2] = c /\ separators[3] = d
      BY <3>3
    <3>5. k = 1 \/ k = 2 \/ k = 3
      OBVIOUS
    <3>6. Len(separators[k]) \in {1, 2}
      BY <3>2, <3>4, <3>5
    <3>7. QED BY <3>6
  <2>5. PICK S : S = CutsAt(text, separators[k])
    OBVIOUS
  <2> HIDE DEF separators, found
  <2>6. S \in SUBSET Nat /\ S # {} /\ \A x \in S : x <= b
    BY <1>1, <2>3, <2>4, <2>5, CutsAreEarly
  <2>7. Max(S) \in S
    BY <2>6, HasMax
  <2>8. CutChunk(text) = Max(S)
    BY <2>1, <2>3, <2>5
  <2>9. ~(n <= b)
    BY <1>4
  <2>10. Max(S) \in Nat /\ Max(S) <= b
    BY <2>6, <2>7
  <2>11. \A m \in Nat : m <= b => m \in 0..n
    BY <2>9
  <2>12. Max(S) \in 0..n /\ Max(S) <= b
    BY <2>10, <2>11
  <2>13. QED BY <1>1, <2>8, <2>12
<1>5. QED BY <1>2, <1>3, <1>4

\* A fence that is put before a chunk, or none.
LEMMA FenceBefore ==
  ASSUME NEW b \in BOOLEAN, NEW A, A = (IF b THEN <<"f", "/">> ELSE <<>>)
  PROVE  /\ A \in Seq(Unit) /\ Len(A) <= 2 /\ Len(A) \in Nat /\ (OddFences(A) <=> b)
         /\ \A i \in 1..Len(A) : A[i] \in Hidden
<1>1. CASE b
  <2>1. PICK s \in Seq(Unit) : s = A
    <3>1. <<"f", "/">> \in Seq(Unit)
      BY DEF Unit
    <3>2. QED BY <1>1, <3>1
  <2>2. s = <<"f", "/">>
    BY <1>1, <2>1
  <2>3. Len(s) = 2 /\ s[1] = "f" /\ s[2] = "/" /\ DOMAIN s = 1..2
    BY <2>2
  <2>4. {i \in DOMAIN s : s[i] = "f"} = {1}
    BY <2>3
  <2>5. Cardinality({1}) = 1
    BY FS_Singleton
  <2>6. OddFences(s)
    <3>1. Fences(s) = 1
      BY <2>4, <2>5 DEF Fences
    <3>2. Fences(s) % 2 = 1
      BY <3>1
    <3>3. QED BY <3>2 DEF OddFences, Fences
  <2>7. \A i \in 1..Len(s) : s[i] \in Hidden
    <3>1. "f" \in Hidden /\ "/" \in Hidden
      BY DEF Hidden
    <3>2. \A i \in 1..Len(s) : i = 1 \/ i = 2
      BY <2>3
    <3>3. QED BY <2>3, <3>1, <3>2
  <2>8. s \in Seq(Unit) /\ Len(s) <= 2 /\ Len(s) \in Nat
    BY <2>3
  <2>9. QED BY <1>1, <2>1, <2>6, <2>7, <2>8
<1>2. CASE ~b
  <2>1. A = <<>> /\ A \in Seq(Unit) /\ Len(A) = 0
    BY <1>2, EmptySeq
  <2>2. {i \in DOMAIN A : A[i] = "f"} = {}
    BY <2>1
  <2>3. ~OddFences(A)
    <3>1. Fences(A) = 0
      <4>1. Cardinality({}) = 0
        BY FS_EmptySet
      <4>2. QED BY <2>2, <4>1 DEF Fences
    <3>2. Fences(A) % 2 # 1
      BY <3>1
    <3>3. QED BY <3>2 DEF OddFences, Fences
  <2>4. \A i \in 1..Len(A) : A[i] \in Hidden
    BY <2>1
  <2>5. QED BY <1>2, <2>1, <2>3, <2>4
<1>3. QED BY <1>1, <1>2

\* A fence that is put behind a chunk, or none.
LEMMA FenceBehind ==
  ASSUME NEW b \in BOOLEAN, NEW A, A = (IF b THEN <<"/", "f">> ELSE <<>>)
  PROVE  /\ A \in Seq(Unit) /\ Len(A) <= 2 /\ Len(A) \in Nat /\ (OddFences(A) <=> b)
         /\ \A i \in 1..Len(A) : A[i] \in Hidden
<1>1. CASE b
  <2>1. PICK s \in Seq(Unit) : s = A
    <3>1. <<"/", "f">> \in Seq(Unit)
      BY DEF Unit
    <3>2. QED BY <1>1, <3>1
  <2>2. s = <<"/", "f">>
    BY <1>1, <2>1
  <2>3. Len(s) = 2 /\ s[1] = "/" /\ s[2] = "f" /\ DOMAIN s = 1..2
    BY <2>2
  <2>4. {i \in DOMAIN s : s[i] = "f"} = {2}
    BY <2>3
  <2>5. Cardinality({2}) = 1
    BY FS_Singleton
  <2>6. OddFences(s)
    <3>1. Fences(s) = 1
      BY <2>4, <2>5 DEF Fences
    <3>2. Fences(s) % 2 = 1
      BY <3>1
    <3>3. QED BY <3>2 DEF OddFences, Fences
  <2>7. \A i \in 1..Len(s) : s[i] \in Hidden
    <3>1. "f" \in Hidden /\ "/" \in Hidden
      BY DEF Hidden
    <3>2. \A i \in 1..Len(s) : i = 1 \/ i = 2
      BY <2>3
    <3>3. QED BY <2>3, <3>1, <3>2
  <2>8. s \in Seq(Unit) /\ Len(s) <= 2 /\ Len(s) \in Nat
    BY <2>3
  <2>9. QED BY <1>1, <2>1, <2>6, <2>7, <2>8
<1>2. CASE ~b
  <2>1. A = <<>> /\ A \in Seq(Unit) /\ Len(A) = 0
    BY <1>2, EmptySeq
  <2>2. {i \in DOMAIN A : A[i] = "f"} = {}
    BY <2>1
  <2>3. ~OddFences(A)
    <3>1. Fences(A) = 0
      <4>1. Cardinality({}) = 0
        BY FS_EmptySet
      <4>2. QED BY <2>2, <4>1 DEF Fences
    <3>2. Fences(A) % 2 # 1
      BY <3>1
    <3>3. QED BY <3>2 DEF OddFences, Fences
  <2>4. \A i \in 1..Len(A) : A[i] \in Hidden
    BY <2>1
  <2>5. QED BY <1>2, <2>1, <2>3, <2>4
<1>3. QED BY <1>1, <1>2

\* A chunk with the fences it lacked shows what it was cut from, and has its fences in pairs.
LEMMA PieceIs ==
  ASSUME NEW raw \in Seq(Unit), Len(raw) <= Budget, inFence \in BOOLEAN
  PROVE  /\ Piece(raw) \in Seq(Unit)
         /\ Len(Piece(raw)) <= SectionText
         /\ ~OddFences(Piece(raw))
         /\ Letters(Piece(raw), FALSE) = Letters(raw, inFence)
         /\ EndsInFence(raw) \in BOOLEAN
<1>1. PICK b \in BOOLEAN, e \in BOOLEAN : b = inFence /\ e = EndsInFence(raw)
  BY DEF EndsInFence
<1>2. PICK A, Z : A = (IF b THEN <<"f", "/">> ELSE <<>>) /\ Z = (IF e THEN <<"/", "f">> ELSE <<>>)
  OBVIOUS
<1>3. /\ A \in Seq(Unit) /\ Len(A) <= 2 /\ Len(A) \in Nat /\ (OddFences(A) <=> b)
      /\ \A i \in 1..Len(A) : A[i] \in Hidden
  BY <1>2, FenceBefore
<1>4. /\ Z \in Seq(Unit) /\ Len(Z) <= 2 /\ Len(Z) \in Nat /\ (OddFences(Z) <=> e)
      /\ \A i \in 1..Len(Z) : Z[i] \in Hidden
  BY <1>2, FenceBehind
<1>5. PICK X \in Seq(Unit) : X = A \o raw
  <2>1. A \o raw \in Seq(Unit)
    BY <1>3
  <2>2. QED BY <2>1
<1>6. PICK Y \in Seq(Unit) : Y = X \o Z
  <2>1. X \o Z \in Seq(Unit)
    BY <1>4
  <2>2. QED BY <2>1
<1>7. Piece(raw) = Y
  BY <1>1, <1>2, <1>5, <1>6 DEF Piece
<1>8. Len(Y) <= SectionText
  <2>1. Len(X) = Len(A) + Len(raw) /\ Len(Y) = Len(X) + Len(Z)
    BY <1>3, <1>4, <1>5, <1>6, ConcatProperties
  <2>2. QED BY <1>3, <1>4, <2>1, BudgetIs
<1>9. PICK r \in BOOLEAN, x \in BOOLEAN : r = OddFences(raw) /\ x = OddFences(X)
  BY DEF OddFences
<1>10. x <=> ~(b <=> r)
  BY <1>3, <1>5, <1>9, OddOfConcat
<1>11. e = (b # r)
  BY <1>1, <1>9 DEF EndsInFence
<1>12. ~OddFences(Y)
  <2>1. OddFences(Y) <=> ~(OddFences(X) <=> OddFences(Z))
    BY <1>4, <1>6, OddOfConcat
  <2>2. OddFences(Z) <=> e
    BY <1>4
  <2>3. QED BY <1>9, <1>10, <1>11, <2>1, <2>2
<1>13. Letters(Y, FALSE) = Letters(X, FALSE)
  <2>1. x = (FALSE # OddFences(X))
    BY <1>9
  <2>2. Letters(Y, FALSE) = Letters(X, FALSE) \o Letters(Z, x)
    BY <1>4, <1>6, <2>1, LettersConcat
  <2>3. Letters(Z, x) = <<>>
    BY <1>4, LettersHidden
  <2>4. Letters(X, FALSE) \in Seq(Letter)
    BY LettersAre
  <2>5. QED BY <2>2, <2>3, <2>4, ConcatEmptySeq
<1>14. Letters(X, FALSE) = Letters(raw, b)
  <2>1. b = (FALSE # OddFences(A))
    <3>1. PICK a \in BOOLEAN : a = OddFences(A)
      BY DEF OddFences
    <3>2. QED BY <1>3, <3>1
  <2>2. Letters(X, FALSE) = Letters(A, FALSE) \o Letters(raw, b)
    BY <1>3, <1>5, <2>1, LettersConcat
  <2>3. Letters(A, FALSE) = <<>>
    BY <1>3, LettersHidden
  <2>4. Letters(raw, b) \in Seq(Letter)
    BY LettersAre
  <2>5. QED BY <2>2, <2>3, <2>4, ConcatEmptySeq
<1>15. QED BY <1>1, <1>7, <1>8, <1>12, <1>13, <1>14

----------------------------------------------------------------------------
(* SlackMessage: Markdown lines *)

\* The fence that is open, or none.
Fence == {"none", "ticks", "tildes"}

\* The fence that is open after a line.
After(fence, line) ==
  IF fence # "none" THEN IF line = fence THEN "none" ELSE fence
  ELSE IF line \in {"ticks", "tildes"} THEN line ELSE "none"

\* The fences that are open along some lines.
FenceRun(lines, g) ==
  /\ g \in [0..Len(lines) -> Fence] /\ g[0] = "none"
  /\ \A i \in 1..Len(lines) : g[i] = After(g[i - 1], lines[i])

\* The type of After().
LEMMA AfterIs ==
  ASSUME NEW fence \in Fence, NEW line \in Lines
  PROVE  After(fence, line) \in Fence
BY DEF After, Fence, Lines

\* The fences along some lines can be computed.
LEMMA FenceRunExists ==
  ASSUME NEW lines \in Seq(Lines)
  PROVE  \E g : FenceRun(lines, g)
<1>1. PICK n \in Nat : n = Len(lines)
  OBVIOUS
<1> DEFINE Begun(m, g) ==
             /\ g \in [0..m -> Fence] /\ g[0] = "none"
             /\ \A i \in 1..m : g[i] = After(g[i - 1], lines[i])
           M == {m \in Nat : \E g : Begun(m, g)}
<1>2. 0 \in M
  <2>1. PICK g : g = [i \in 0..0 |-> "none"]
    OBVIOUS
  <2>2. Begun(0, g)
    BY <2>1 DEF Fence
  <2>3. QED BY <2>2
<1>3. \A m \in Nat : m < n /\ m \in M => m + 1 \in M
  <2>1. SUFFICES ASSUME NEW m \in Nat, m < n, m \in M PROVE m + 1 \in M
    OBVIOUS
  <2>2. PICK g : Begun(m, g)
    BY <2>1
  <2>3. PICK x \in Fence : x = After(g[m], lines[m + 1])
    <3>1. g[m] \in Fence /\ lines[m + 1] \in Lines
      BY <1>1, <2>1, <2>2
    <3>2. QED BY <3>1, AfterIs
  <2>4. PICK h : h = [i \in 0..(m + 1) |-> IF i = m + 1 THEN x ELSE g[i]]
    OBVIOUS
  <2>5. h \in [0..(m + 1) -> Fence] /\ h[0] = "none"
    BY <2>2, <2>4
  <2>6. \A i \in 1..(m + 1) : h[i] = After(h[i - 1], lines[i])
    <3>1. SUFFICES ASSUME NEW i \in 1..(m + 1) PROVE h[i] = After(h[i - 1], lines[i])
      OBVIOUS
    <3>2. PICK j \in 0..m : j = i - 1
      OBVIOUS
    <3>3. h[j] = g[j]
      BY <2>4
    <3>4. CASE i = m + 1
      <4>1. j = m /\ h[i] = x
        BY <2>4, <3>2, <3>4
      <4>2. QED BY <2>3, <3>2, <3>3, <3>4, <4>1
    <3>5. CASE i # m + 1
      <4>1. i \in 1..m /\ h[i] = g[i]
        BY <2>4, <3>5
      <4>2. g[i] = After(g[i - 1], lines[i])
        BY <2>2, <4>1
      <4>3. QED BY <3>2, <3>3, <4>1, <4>2
    <3>6. QED BY <3>4, <3>5
  <2>7. Begun(m + 1, h)
    BY <2>5, <2>6
  <2>8. QED BY <2>7
<1> HIDE DEF M
<1>4. \A m \in 0..n : m \in M
  BY <1>2, <1>3, UptoInduction
<1>5. n \in M
  BY <1>4
<1>6. \E g : Begun(n, g)
  BY <1>5 DEF M
<1>7. QED BY <1>1, <1>6 DEF FenceRun

\* FenceOf() computes them, as markdownToMrkdwn() does.
LEMMA FenceOfRuns ==
  ASSUME NEW lines \in Seq(Lines)
  PROVE  FenceRun(lines, FenceOf(lines))
<1>1. PICK n \in Nat : n = Len(lines)
  OBVIOUS
<1>2. PICK g : FenceRun(lines, g)
  BY FenceRunExists
<1> DEFINE Body(f) == [i \in 0..Len(lines) |->
        IF i = 0 THEN "none"
        ELSE IF f[i - 1] # "none"
        THEN IF lines[i] = f[i - 1] THEN "none" ELSE f[i - 1]
        ELSE IF lines[i] \in {"ticks", "tildes"} THEN lines[i] ELSE "none"]
<1>3. g = Body(g)
  <2>1. g = [i \in 0..n |-> g[i]]
    BY <1>1, <1>2 DEF FenceRun
  <2>2. \A i \in 0..n : g[i] = Body(g)[i]
    BY <1>1, <1>2 DEF FenceRun, After
  <2>3. QED BY <1>1, <2>1, <2>2
<1>4. FenceOf(lines) = CHOOSE f : f = Body(f)
  BY DEF FenceOf, Closes
<1>5. PICK h : h = FenceOf(lines) /\ h = Body(h)
  BY <1>3, <1>4
<1>6. h[0] = "none"
  BY <1>1, <1>5
<1>7. \A i \in 1..n : h[i] = After(h[i - 1], lines[i])
  BY <1>1, <1>5 DEF After
<1>8. \A i \in 0..n : h[i] \in Fence
  <2> DEFINE M == {m \in Nat : h[m] \in Fence}
  <2>1. 0 \in M
    BY <1>6 DEF Fence
  <2>2. \A m \in Nat : m < n /\ m \in M => m + 1 \in M
    <3>1. SUFFICES ASSUME NEW m \in Nat, m < n, h[m] \in Fence PROVE h[m + 1] \in Fence
      OBVIOUS
    <3>2. lines[m + 1] \in Lines
      BY <1>1, <3>1
    <3>3. h[m + 1] = After(h[m], lines[m + 1])
      <4>1. PICK i \in 1..n : i = m + 1 /\ i - 1 = m
        BY <3>1
      <4>2. QED BY <1>7, <4>1
    <3>4. QED BY <3>1, <3>2, <3>3, AfterIs
  <2> HIDE DEF M
  <2>3. \A m \in 0..n : m \in M
    BY <2>1, <2>2, UptoInduction
  <2>4. QED BY <2>3 DEF M
<1>9. h \in [0..n -> Fence]
  <2>1. h = [i \in 0..n |-> h[i]]
    BY <1>1, <1>5
  <2>2. QED BY <1>8, <2>1
<1>10. QED BY <1>1, <1>5, <1>6, <1>7, <1>9 DEF FenceRun

\* FenceAfter() computes them, as the property means them.
LEMMA FenceAfterRuns ==
  ASSUME NEW lines \in Seq(Lines)
  PROVE  FenceRun(lines, FenceAfter(lines))
<1>1. PICK n \in Nat : n = Len(lines)
  OBVIOUS
<1>2. PICK g : FenceRun(lines, g)
  BY FenceRunExists
<1> DEFINE Body(f) == [i \in 0..Len(lines) |->
        IF i = 0 THEN "none"
        ELSE IF f[i - 1] = "none" /\ lines[i] \in {"ticks", "tildes"} THEN lines[i]
        ELSE IF f[i - 1] = lines[i] THEN "none" ELSE f[i - 1]]
<1>3. g = Body(g)
  <2>1. g = [i \in 0..n |-> g[i]]
    BY <1>1, <1>2 DEF FenceRun
  <2>2. \A i \in 0..n : g[i] = Body(g)[i]
    <3>1. SUFFICES ASSUME NEW i \in 0..n PROVE g[i] = Body(g)[i]
      OBVIOUS
    <3>2. CASE i = 0
      BY <1>1, <1>2, <3>2 DEF FenceRun
    <3>3. CASE i # 0
      <4>1. i \in 1..n /\ lines[i] \in Lines /\ g[i] = After(g[i - 1], lines[i])
        BY <1>1, <1>2, <3>3 DEF FenceRun
      <4>2. lines[i] # "none"
        BY <4>1 DEF Lines
      <4>3. QED BY <1>1, <3>3, <4>1, <4>2 DEF After
    <3>4. QED BY <3>2, <3>3
  <2>3. QED BY <1>1, <2>1, <2>2
<1>4. FenceAfter(lines) = CHOOSE f : f = Body(f)
  BY DEF FenceAfter
<1>5. PICK h : h = FenceAfter(lines) /\ h = Body(h)
  BY <1>3, <1>4
<1>6. h[0] = "none"
  BY <1>1, <1>5
<1>7. \A i \in 1..n : h[i] = After(h[i - 1], lines[i])
  <2>1. SUFFICES ASSUME NEW i \in 1..n PROVE h[i] = After(h[i - 1], lines[i])
    OBVIOUS
  <2>2. lines[i] # "none"
    BY <1>1 DEF Lines
  <2>3. h[i] = Body(h)[i] /\ i \in 0..Len(lines) /\ i # 0
    BY <1>1, <1>5
  <2>4. QED BY <2>2, <2>3 DEF After
<1>8. \A i \in 0..n : h[i] \in Fence
  <2> DEFINE M == {m \in Nat : h[m] \in Fence}
  <2>1. 0 \in M
    BY <1>6 DEF Fence
  <2>2. \A m \in Nat : m < n /\ m \in M => m + 1 \in M
    <3>1. SUFFICES ASSUME NEW m \in Nat, m < n, h[m] \in Fence PROVE h[m + 1] \in Fence
      OBVIOUS
    <3>2. lines[m + 1] \in Lines
      BY <1>1, <3>1
    <3>3. h[m + 1] = After(h[m], lines[m + 1])
      <4>1. PICK i \in 1..n : i = m + 1 /\ i - 1 = m
        BY <3>1
      <4>2. QED BY <1>7, <4>1
    <3>4. QED BY <3>1, <3>2, <3>3, AfterIs
  <2> HIDE DEF M
  <2>3. \A m \in 0..n : m \in M
    BY <2>1, <2>2, UptoInduction
  <2>4. QED BY <2>3 DEF M
<1>9. h \in [0..n -> Fence]
  <2>1. h = [i \in 0..n |-> h[i]]
    BY <1>1, <1>5
  <2>2. QED BY <1>8, <2>1
<1>10. QED BY <1>1, <1>5, <1>6, <1>7, <1>9 DEF FenceRun

\* There is one way to compute them.
LEMMA FenceRunsAgree ==
  ASSUME NEW lines \in Seq(Lines), NEW g, NEW h, FenceRun(lines, g), FenceRun(lines, h)
  PROVE  g = h
<1>1. PICK n \in Nat : n = Len(lines)
  OBVIOUS
<1>2. \A i \in 1..n : g[i] = After(g[i - 1], lines[i]) /\ h[i] = After(h[i - 1], lines[i])
  BY <1>1 DEF FenceRun
<1> DEFINE M == {m \in Nat : g[m] = h[m]}
<1>3. 0 \in M
  BY DEF FenceRun
<1>4. \A m \in Nat : m < n /\ m \in M => m + 1 \in M
  <2>1. SUFFICES ASSUME NEW m \in Nat, m < n, g[m] = h[m] PROVE g[m + 1] = h[m + 1]
    OBVIOUS
  <2>2. PICK i \in 1..n : i = m + 1 /\ i - 1 = m
    BY <2>1
  <2>3. QED BY <1>2, <2>1, <2>2
<1> HIDE DEF M
<1>5. \A m \in 0..n : m \in M
  BY <1>3, <1>4, UptoInduction
<1>6. \A m \in 0..n : g[m] = h[m]
  BY <1>5 DEF M
<1>7. g \in [0..n -> Fence] /\ h \in [0..n -> Fence]
  BY <1>1 DEF FenceRun
<1>8. QED BY <1>6, <1>7

\* The letters of some units that are one prose or one code.
Plainly(units, code) ==
  FlattenSeq([k \in DOMAIN units |-> IF units[k] = "_" THEN <<>> ELSE <<<<units[k], code>>>>])

\* Units without a fence or a newline show their letters, all as prose or all as code.
LEMMA PlainLetters ==
  ASSUME NEW units \in Seq(Unit), NEW code \in BOOLEAN,
         \A i \in 1..Len(units) : units[i] # "f" /\ units[i] # "/"
  PROVE  Letters(units, code) = Plainly(units, code) /\ ~OddFences(units)
<1>1. PICK n \in Nat : n = Len(units) /\ DOMAIN units = 1..n
  OBVIOUS
<1>2. ~OddFences(units)
  <2>1. {i \in DOMAIN units : units[i] = "f"} = {}
    BY <1>1
  <2>2. Fences(units) = 0
    <3>1. Cardinality({}) = 0
      BY FS_EmptySet
    <3>2. QED BY <2>1, <3>1 DEF Fences
  <2>3. Fences(units) % 2 # 1
    BY <2>2
  <2>4. QED BY <2>3 DEF OddFences, Fences
<1>3. \A i \in 1..n : ~OddFences(SubSeq(units, 1, i))
  <2>1. SUFFICES ASSUME NEW i \in 1..n PROVE ~OddFences(SubSeq(units, 1, i))
    OBVIOUS
  <2>2. PICK s : s = SubSeq(units, 1, i)
    OBVIOUS
  <2>3. s \in Seq(Unit) /\ DOMAIN s = 1..i /\ \A j \in 1..i : s[j] = units[j]
    <3>1. i \in 0..Len(units)
      BY <1>1
    <3>2. /\ SubSeq(units, 1, i) \in Seq(Unit) /\ Len(SubSeq(units, 1, i)) = i
          /\ \A j \in 1..i : SubSeq(units, 1, i)[j] = units[j]
      BY <3>1, SplitAt
    <3>3. QED BY <2>2, <3>2
  <2>4. {j \in DOMAIN s : s[j] = "f"} = {}
    BY <1>1, <2>3
  <2>5. Fences(s) = 0
    <3>1. Cardinality({}) = 0
      BY FS_EmptySet
    <3>2. QED BY <2>4, <3>1 DEF Fences
  <2>6. Fences(s) % 2 # 1
    BY <2>5
  <2>7. QED BY <2>2, <2>6 DEF OddFences, Fences
<1>4. PICK S, T : /\ S = Marks(units, code)
                  /\ T = [k \in DOMAIN units |-> IF units[k] = "_" THEN <<>> ELSE <<<<units[k], code>>>>]
  OBVIOUS
<1>5. \A i \in 1..n : S[i] = T[i]
  <2>1. SUFFICES ASSUME NEW i \in 1..n PROVE S[i] = T[i]
    OBVIOUS
  <2>2. CASE units[i] = "_"
    <3>1. T[i] = <<>> /\ units[i] \in Hidden
      BY <1>1, <1>4, <2>2 DEF Hidden
    <3>2. QED BY <1>1, <1>4, <3>1, MarksAre
  <2>3. CASE units[i] # "_"
    <3>1. T[i] = <<<<units[i], code>>>> /\ units[i] \notin Hidden
      BY <1>1, <1>4, <2>3 DEF Hidden
    <3>2. S[i] = <<<<units[i], code # OddFences(SubSeq(units, 1, i))>>>>
      BY <1>1, <1>4, <3>1, MarksAre
    <3>3. PICK o \in BOOLEAN : o = OddFences(SubSeq(units, 1, i))
      BY DEF OddFences
    <3>4. o = FALSE
      BY <1>3, <3>3
    <3>5. (code # o) = code
      BY <3>4
    <3>6. QED BY <3>1, <3>2, <3>3, <3>5
  <2>4. QED BY <2>2, <2>3
<1>6. S = T
  <2>1. S = [i \in 1..n |-> S[i]] /\ T = [i \in 1..n |-> T[i]]
    <3>1. S \in Seq(Seq(Letter)) /\ Len(S) = n
      BY <1>1, <1>4, MarksAre
    <3>2. S = [i \in 1..n |-> S[i]]
      BY <3>1
    <3>3. T = [i \in 1..n |-> T[i]]
      BY <1>1, <1>4
    <3>4. QED BY <3>2, <3>3
  <2>2. QED BY <1>5, <2>1
<1>7. Letters(units, code) = Plainly(units, code)
  BY <1>4, <1>6, LettersAre DEF Plainly
<1>8. QED BY <1>2, <1>7

\* The units of a line.
LEMMA UnitsAre ==
  ASSUME NEW line \in Lines
  PROVE  /\ Units(line) \in Seq(Unit)
         /\ line # "ticks" => \A i \in 1..Len(Units(line)) : Units(line)[i] # "f" /\ Units(line)[i] # "/"
<1> DEFINE Good(u) == u \in Seq(Unit) /\ \A i \in 1..Len(u) : u[i] # "f" /\ u[i] # "/"
<1>1. Good(<<>>)
  OBVIOUS
<1>2. Good(<<"w">>) /\ Good(<<"d">>) /\ Good(<<"t">>)
  BY DEF Unit
<1>3. Good(<<"w", "w", "_", "w", "w", "w", "w", "w">>)
  <2>1. PICK u : u = <<"w", "w", "_", "w", "w", "w", "w", "w">>
    OBVIOUS
  <2>2. PICK w \in Unit, b \in Unit : w = "w" /\ b = "_"
    BY DEF Unit
  <2>3. u = <<w, w, b, w, w, w, w, w>>
    BY <2>1, <2>2
  <2>4. u \in Seq(Unit) /\ Len(u) = 8
    BY <2>3
  <2>5. \A i \in 1..8 : u[i] = w \/ u[i] = b
    BY <2>3
  <2>6. w # "f" /\ w # "/" /\ b # "f" /\ b # "/"
    BY <2>2
  <2>7. QED BY <2>1, <2>4, <2>5, <2>6
<1>4. Good(<<"w", "^", "^", "^", "^">>)
  BY DEF Unit
<1>5. <<"f">> \in Seq(Unit)
  BY DEF Unit
<1>6. CASE line = "ticks"
  BY <1>5, <1>6 DEF Units
<1>7. CASE line # "ticks"
  <2>1. Units(line) \in {<<>>, <<"w">>, <<"d">>, <<"t">>, <<"w", "w", "_", "w", "w", "w", "w", "w">>,
                         <<"w", "^", "^", "^", "^">>}
    BY <1>7 DEF Lines, Units
  <2>2. Good(Units(line))
    <3> HIDE DEF Good
    <3>1. QED BY <1>1, <1>2, <1>3, <1>4, <2>1
  <2>3. QED BY <1>7, <2>2
<1>8. QED BY <1>6, <1>7

\* What the body means by a line, with a fence open before it or none.
MeantBy(line, fence) ==
  IF \/ line \in {"ticks", "tildes"} /\ fence \in {"none", line}
     \/ line = "divider" /\ fence = "none"
  THEN <<>> ELSE Plainly(Units(line), fence # "none")

\* A line is rendered to the letters it means, and opens and closes the code it should.
LEMMA LineShows ==
  ASSUME NEW line \in Lines, NEW fence \in Fence, line = "ticks" => fence # "tildes",
         NEW code \in BOOLEAN, code <=> fence # "none"
  PROVE  /\ Rendered(line, fence) \in Seq(Unit)
         /\ Rendered(line, fence) = <<>> \/ Rendered(line, fence)[1] = "/"
         /\ (OddFences(Rendered(line, fence)) <=> ~(code <=> After(fence, line) # "none"))
         /\ Letters(Rendered(line, fence), code) = MeantBy(line, fence)
<1>1. CASE line \in {"ticks", "tildes"} /\ fence \in {"none", line}
  <2>1. PICK A : A = <<"/", "f">>
    OBVIOUS
  <2>2. /\ A \in Seq(Unit) /\ OddFences(A) /\ \A i \in 1..Len(A) : A[i] \in Hidden
    <3>1. A = (IF TRUE THEN <<"/", "f">> ELSE <<>>)
      BY <2>1
    <3>2. QED BY <3>1, FenceBehind
  <2>3. Rendered(line, fence) = A
    BY <1>1, <2>1 DEF Rendered, Closes
  <2>4. A[1] = "/"
    BY <2>1
  <2>5. ~(code <=> After(fence, line) # "none")
    BY <1>1 DEF After
  <2>6. Letters(A, code) = <<>>
    BY <2>2, LettersHidden
  <2>7. MeantBy(line, fence) = <<>>
    BY <1>1 DEF MeantBy
  <2>8. QED BY <2>2, <2>3, <2>4, <2>5, <2>6, <2>7
<1>2. CASE line = "divider" /\ fence = "none"
  <2>1. Rendered(line, fence) = <<>>
    BY <1>2 DEF Rendered, RenderLine
  <2>2. PICK A \in Seq(Unit) : A = <<>>
    BY EmptySeq
  <2>3. ~OddFences(A) /\ Letters(A, code) = <<>>
    <3>1. A = (IF FALSE THEN <<"/", "f">> ELSE <<>>)
      BY <2>2
    <3>2. ~OddFences(A) /\ \A i \in 1..Len(A) : A[i] \in Hidden
      BY <3>1, FenceBehind
    <3>3. QED BY <3>2, LettersHidden
  <2>4. code <=> After(fence, line) # "none"
    BY <1>2 DEF After
  <2>5. MeantBy(line, fence) = <<>>
    BY <1>2 DEF MeantBy
  <2>6. QED BY <2>1, <2>2, <2>3, <2>4, <2>5
<1>3. CASE ~(line \in {"ticks", "tildes"} /\ fence \in {"none", line}) /\ ~(line = "divider" /\ fence = "none")
  <2>1. line # "ticks"
    BY <1>3 DEF Fence
  <2>2. PICK U \in Seq(Unit) : U = Units(line)
    BY UnitsAre
  <2>3. \A i \in 1..Len(U) : U[i] # "f" /\ U[i] # "/"
    BY <2>1, <2>2, UnitsAre
  <2>4. PICK A \in Seq(Unit) : A = <<"/">>
    <3>1. "/" \in Unit
      BY DEF Unit
    <3>2. <<"/">> \in Seq(Unit)
      BY <3>1
    <3>3. QED BY <3>2
  <2>5. Len(A) = 1 /\ A[1] = "/" /\ DOMAIN A = 1..1
    BY <2>4
  <2>6. ~OddFences(A)
    <3>1. {i \in DOMAIN A : A[i] = "f"} = {}
      BY <2>5
    <3>2. Fences(A) = 0
      <4>1. Cardinality({}) = 0
        BY FS_EmptySet
      <4>2. QED BY <3>1, <4>1 DEF Fences
    <3>3. Fences(A) % 2 # 1
      BY <3>2
    <3>4. QED BY <3>3 DEF OddFences, Fences
  <2>7. Letters(A, code) = <<>>
    <3>1. "/" \in Hidden
      BY DEF Hidden
    <3>2. \A i \in 1..Len(A) : i = 1
      BY <2>5
    <3>3. \A i \in 1..Len(A) : A[i] \in Hidden
      BY <2>5, <3>1, <3>2
    <3>4. QED BY <3>3, LettersHidden
  <2>8. Letters(U, code) = Plainly(U, code) /\ ~OddFences(U)
    BY <2>3, PlainLetters
  <2>9. PICK X \in Seq(Unit) : X = A \o U
    <3>1. A \o U \in Seq(Unit)
      OBVIOUS
    <3>2. QED BY <3>1
  <2>10. Rendered(line, fence) = X
    <3>1. Rendered(line, fence) = <<"/">> \o Units(line)
      <4>1. CASE fence # "none"
        <5>1. line # fence
          BY <1>3, <4>1 DEF Fence
        <5>2. QED BY <4>1, <5>1 DEF Rendered, Closes
      <4>2. CASE fence = "none"
        BY <1>3, <4>2 DEF Rendered, RenderLine
      <4>3. QED BY <4>1, <4>2
    <3>2. QED BY <2>2, <2>4, <2>9, <3>1
  <2>11. X[1] = "/"
    <3>1. 1 \in 1..Len(A)
      BY <2>5
    <3>2. X[1] = A[1]
      BY <2>9, <3>1, BeginOfConcat
    <3>3. QED BY <2>5, <3>2
  <2>12. ~OddFences(X)
    <3>1. OddFences(X) <=> ~(OddFences(A) <=> OddFences(U))
      BY <2>9, OddOfConcat
    <3>2. QED BY <2>6, <2>8, <3>1
  <2>13. code <=> After(fence, line) # "none"
    <3>1. line # "none"
      BY DEF Lines
    <3>2. QED BY <1>3, <3>1 DEF After, Fence
  <2>14. Letters(X, code) = Plainly(U, code)
    <3>1. code = (code # OddFences(A))
      <4>1. PICK a \in BOOLEAN : a = OddFences(A)
        BY DEF OddFences
      <4>2. QED BY <2>6, <4>1
    <3>2. Letters(X, code) = Letters(A, code) \o Letters(U, code)
      BY <2>9, <3>1, LettersConcat
    <3>3. Letters(U, code) \in Seq(Letter)
      BY LettersAre
    <3>4. QED BY <2>7, <2>8, <3>2, <3>3, ConcatEmptySeq
  <2>15. MeantBy(line, fence) = Plainly(U, code)
    <3>1. code = (fence # "none")
      OBVIOUS
    <3>2. QED BY <1>3, <2>2, <3>1 DEF MeantBy
  <2>16. QED BY <2>10, <2>11, <2>12, <2>13, <2>14, <2>15
<1>4. QED BY <1>1, <1>2, <1>3

\* The first n lines' text shows the first n lines' letters.
LEMMA LinesShow ==
  ASSUME NEW lines \in Seq(Lines), ~ShowsBackticks(lines),
         NEW R, R = [i \in DOMAIN lines |-> Rendered(lines[i], FenceOf(lines)[i - 1])]
  PROVE  /\ R \in Seq(Seq(Unit)) /\ MeantByLine(lines) \in Seq(Seq(Letter))
         /\ FlattenSeq(R) \in Seq(Unit)
         /\ Letters(FlattenSeq(R), FALSE) = FlattenSeq(MeantByLine(lines))
         /\ FlattenSeq(R) = <<>> \/ FlattenSeq(R)[1] = "/"
<1>1. PICK n \in Nat : n = Len(lines) /\ DOMAIN lines = 1..n
  OBVIOUS
<1>2. PICK g : g = FenceOf(lines) /\ FenceRun(lines, g)
  BY FenceOfRuns
<1>3. FenceAfter(lines) = g
  BY <1>2, FenceAfterRuns, FenceRunsAgree
<1>4. PICK M : M = MeantByLine(lines)
  OBVIOUS
<1>5. ASSUME NEW i \in 1..n
      PROVE  /\ lines[i] \in Lines /\ g[i - 1] \in Fence /\ g[i] = After(g[i - 1], lines[i])
             /\ lines[i] = "ticks" => g[i - 1] # "tildes"
             /\ R[i] = Rendered(lines[i], g[i - 1])
             /\ M[i] = MeantBy(lines[i], g[i - 1])
  <2>1. lines[i] \in Lines /\ R[i] = Rendered(lines[i], g[i - 1])
    BY <1>1, <1>2
  <2>2. g[i - 1] \in Fence /\ g[i] = After(g[i - 1], lines[i])
    BY <1>1, <1>2 DEF FenceRun
  <2>3. lines[i] = "ticks" => g[i - 1] # "tildes"
    BY <1>1, <1>3 DEF ShowsBackticks
  <2>4. M[i] = MeantBy(lines[i], g[i - 1])
    BY <1>1, <1>3, <1>4 DEF MeantByLine, MeantBy, IsFence, Plainly
  <2>5. QED BY <2>1, <2>2, <2>3, <2>4
<1>6. ASSUME NEW i \in 1..n, NEW code \in BOOLEAN, code <=> g[i - 1] # "none"
      PROVE  /\ R[i] \in Seq(Unit) /\ M[i] \in Seq(Letter)
             /\ R[i] = <<>> \/ R[i][1] = "/"
             /\ OddFences(R[i]) <=> ~(code <=> g[i] # "none")
             /\ Letters(R[i], code) = M[i]
  <2>1. PICK line \in Lines, fence \in Fence : line = lines[i] /\ fence = g[i - 1]
    BY <1>5
  <2>2. /\ Rendered(line, fence) \in Seq(Unit)
        /\ Rendered(line, fence) = <<>> \/ Rendered(line, fence)[1] = "/"
        /\ (OddFences(Rendered(line, fence)) <=> ~(code <=> After(fence, line) # "none"))
        /\ Letters(Rendered(line, fence), code) = MeantBy(line, fence)
    <3>1. (line = "ticks" => fence # "tildes") /\ (code <=> fence # "none")
      BY <1>5, <1>6, <2>1
    <3>2. QED BY <3>1, LineShows
  <2>3. R[i] = Rendered(line, fence) /\ M[i] = MeantBy(line, fence) /\ g[i] = After(fence, line)
    BY <1>5, <2>1
  <2>4. Letters(R[i], code) \in Seq(Letter)
    BY <2>2, <2>3, LettersAre
  <2>5. QED BY <2>2, <2>3, <2>4
<1>7. \A i \in 1..n : /\ R[i] \in Seq(Unit) /\ M[i] \in Seq(Letter)
                      /\ R[i] = <<>> \/ R[i][1] = "/"
  <2>1. SUFFICES ASSUME NEW i \in 1..n
                 PROVE  /\ R[i] \in Seq(Unit) /\ M[i] \in Seq(Letter)
                        /\ R[i] = <<>> \/ R[i][1] = "/"
    OBVIOUS
  <2>2. PICK code \in BOOLEAN : code <=> g[i - 1] # "none"
    OBVIOUS
  <2>3. QED BY <1>6, <2>2
<1>8. R \in Seq(Seq(Unit)) /\ Len(R) = n
  <2>1. R = [i \in 1..n |-> R[i]]
    BY <1>1
  <2>2. R \in [1..n -> Seq(Unit)]
    BY <1>7, <2>1
  <2>3. QED BY <2>2
<1>9. M \in Seq(Seq(Letter)) /\ Len(M) = n
  <2>1. M = [i \in 1..n |-> M[i]]
    BY <1>1, <1>4 DEF MeantByLine
  <2>2. M \in [1..n -> Seq(Letter)]
    BY <1>7, <2>1
  <2>3. QED BY <2>2
<1>10. PICK r : Steps(Unit, R, r)
  BY <1>8, FlattenSteps
<1>11. PICK m : Steps(Letter, M, m)
  BY <1>9, FlattenSteps
<1> DEFINE Good(i) == /\ r[i] \in Seq(Unit) /\ m[i] \in Seq(Letter)
                      /\ r[i] = <<>> \/ r[i][1] = "/"
                      /\ Letters(r[i], FALSE) = m[i]
                      /\ OddFences(r[i]) <=> g[i] # "none"
           G == {i \in Nat : Good(i)}
<1>12. 0 \in G
  <2>1. r[0] = <<>> /\ m[0] = <<>>
    BY <1>10, <1>11 DEF Steps
  <2>2. PICK A \in Seq(Unit) : A = <<>>
    BY EmptySeq
  <2>3. ~OddFences(A) /\ Letters(A, FALSE) = <<>>
    <3>1. A = (IF FALSE THEN <<"/", "f">> ELSE <<>>)
      BY <2>2
    <3>2. ~OddFences(A) /\ \A i \in 1..Len(A) : A[i] \in Hidden
      BY <3>1, FenceBehind
    <3>3. QED BY <3>2, LettersHidden
  <2>4. g[0] = "none"
    BY <1>2 DEF FenceRun
  <2>5. r[0] \in Seq(Unit) /\ m[0] \in Seq(Letter)
    BY <2>1, EmptySeq
  <2>6. QED BY <2>1, <2>2, <2>3, <2>4, <2>5
<1>13. \A i \in Nat : i < n /\ i \in G => i + 1 \in G
  <2> HIDE DEF Good
  <2>1. SUFFICES ASSUME NEW i \in Nat, i < n, Good(i) PROVE Good(i + 1)
    OBVIOUS
  <2>2. PICK j \in 1..n : j = i + 1 /\ j - 1 = i
    BY <2>1
  <2> USE DEF Good
  <2>3. r[j] = r[i] \o R[j] /\ m[j] = m[i] \o M[j]
    <3>1. \A a \in Nat : a < Len(R) => r[a + 1] = r[a] \o R[a + 1]
      BY <1>10 DEF Steps
    <3>2. \A a \in Nat : a < Len(M) => m[a + 1] = m[a] \o M[a + 1]
      BY <1>11 DEF Steps
    <3>3. i < n
      BY <2>1
    <3> HIDE DEF Good, G
    <3>4. r[i + 1] = r[i] \o R[i + 1] /\ m[i + 1] = m[i] \o M[i + 1]
      BY <1>8, <1>9, <3>1, <3>2, <3>3
    <3>5. QED BY <2>2, <3>4
  <2>4. PICK p \in Seq(Unit) : p = r[i]
    BY <2>1
  <2>5. PICK code \in BOOLEAN : code = OddFences(p)
    BY DEF OddFences
  <2>6. code <=> g[j - 1] # "none"
    BY <2>1, <2>2, <2>4, <2>5
  <2>7. /\ R[j] \in Seq(Unit) /\ M[j] \in Seq(Letter)
        /\ R[j] = <<>> \/ R[j][1] = "/"
        /\ OddFences(R[j]) <=> ~(code <=> g[j] # "none")
        /\ Letters(R[j], code) = M[j]
    BY <1>6, <2>6
  <2>8. PICK q \in Seq(Unit) : q = R[j]
    BY <2>7
  <2>9. Letters(p \o q, FALSE) = Letters(p, FALSE) \o Letters(q, code)
    <3>1. code = (FALSE # OddFences(p))
      BY <2>5
    <3>2. QED BY <3>1, LettersConcat
  <2>10. OddFences(p \o q) <=> ~(OddFences(p) <=> OddFences(q))
    BY OddOfConcat
  <2>11. p \o q = <<>> \/ (p \o q)[1] = "/"
    <3>1. CASE p = <<>>
      <4>1. p \o q = q
        BY <3>1, ConcatEmptySeq
      <4>2. QED BY <2>7, <2>8, <4>1
    <3>2. CASE p # <<>>
      <4>1. 1 \in 1..Len(p)
        BY <3>2
      <4>2. (p \o q)[1] = p[1]
        BY <4>1, BeginOfConcat
      <4>3. QED BY <2>1, <2>4, <3>2, <4>2
    <3>3. QED BY <3>1, <3>2
  <2>12. PICK s \in Seq(Unit) : s = p \o q
    <3>1. p \o q \in Seq(Unit)
      OBVIOUS
    <3>2. QED BY <3>1
  <2>13. s = r[j]
    BY <2>3, <2>4, <2>8, <2>12
  <2>14. Letters(s, FALSE) = m[j]
    BY <2>1, <2>3, <2>4, <2>7, <2>8, <2>9, <2>12
  <2>15. m[j] \in Seq(Letter)
    BY <2>14, LettersAre
  <2>16. OddFences(s) <=> g[j] # "none"
    BY <2>5, <2>7, <2>8, <2>10, <2>12
  <2>17. Good(j)
    BY <2>11, <2>12, <2>13, <2>14, <2>15, <2>16
  <2>18. QED BY <2>2, <2>17
<1> HIDE DEF G
<1>14. \A i \in 0..n : i \in G
  BY <1>12, <1>13, UptoInduction
<1>15. Good(n)
  <2>1. n \in G
    BY <1>14
  <2>2. QED BY <2>1 DEF G
<1>16. FlattenSeq(R) = r[n] /\ FlattenSeq(M) = m[n]
  BY <1>8, <1>9, <1>10, <1>11 DEF Steps
<1>17. QED BY <1>4, <1>8, <1>9, <1>15, <1>16

\* The newline before the first line shows no letter.
LEMMA TailShows ==
  ASSUME NEW out \in Seq(Unit), out # <<>>, out[1] = "/"
  PROVE  Tail(out) \in Seq(Unit) /\ Letters(Tail(out), FALSE) = Letters(out, FALSE)
<1>1. PICK t \in Seq(Unit) : t = Tail(out)
  <2>1. Tail(out) \in Seq(Unit)
    OBVIOUS
  <2>2. QED BY <2>1
<1>2. PICK A \in Seq(Unit) : A = <<"/">>
  <2>1. "/" \in Unit
    BY DEF Unit
  <2>2. <<"/">> \in Seq(Unit)
    BY <2>1
  <2>3. QED BY <2>2
<1>3. Len(A) = 1 /\ A[1] = "/" /\ DOMAIN A = 1..1
  BY <1>2
<1>4. out = A \o t
  <2>1. /\ A \o t \in Seq(Unit) /\ Len(A \o t) = Len(A) + Len(t)
        /\ \A i \in 1..(Len(A) + Len(t)) : (A \o t)[i] = IF i <= Len(A) THEN A[i] ELSE t[i - Len(A)]
    BY ConcatProperties
  <2>2. /\ A \o t \in Seq(Unit) /\ Len(A \o t) = 1 + Len(t)
        /\ \A i \in 1..(1 + Len(t)) : (A \o t)[i] = IF i <= 1 THEN A[i] ELSE t[i - 1]
    BY <1>3, <2>1
  <2>3. PICK n \in Nat : n = Len(out) /\ n > 0 /\ n = 1 + Len(t)
    BY <1>1
  <2>4. \A i \in 1..n : out[i] = (A \o t)[i]
    <3>1. SUFFICES ASSUME NEW i \in 1..n PROVE out[i] = (A \o t)[i]
      OBVIOUS
    <3>2. CASE i = 1
      BY <1>3, <2>2, <2>3, <3>2
    <3>3. CASE i # 1
      <4>1. (A \o t)[i] = t[i - 1]
        BY <2>2, <2>3, <3>3
      <4>2. t[i - 1] = out[i]
        BY <1>1, <2>3, <3>3
      <4>3. QED BY <4>1, <4>2
    <3>4. QED BY <3>2, <3>3
  <2>5. PICK j \in Seq(Unit) : j = A \o t
    BY <2>2
  <2>6. Len(j) = n /\ \A i \in 1..n : out[i] = j[i]
    BY <2>2, <2>3, <2>4, <2>5
  <2>7. out = j
    <3>1. Len(out) = Len(j) /\ \A i \in 1..Len(out) : out[i] = j[i]
      BY <2>3, <2>6
    <3>2. QED BY <3>1, SeqEqual
  <2>8. QED BY <2>5, <2>7
<1>5. ~OddFences(A)
  <2>1. {i \in DOMAIN A : A[i] = "f"} = {}
    BY <1>3
  <2>2. Fences(A) = 0
    <3>1. Cardinality({}) = 0
      BY FS_EmptySet
    <3>2. QED BY <2>1, <3>1 DEF Fences
  <2>3. Fences(A) % 2 # 1
    BY <2>2
  <2>4. QED BY <2>3 DEF OddFences, Fences
<1>6. Letters(A, FALSE) = <<>>
  <2>1. "/" \in Hidden
    BY DEF Hidden
  <2>2. \A i \in 1..Len(A) : i = 1
    BY <1>3
  <2>3. \A i \in 1..Len(A) : A[i] \in Hidden
    BY <1>3, <2>1, <2>2
  <2>4. QED BY <2>3, LettersHidden
<1>7. Letters(out, FALSE) = Letters(A, FALSE) \o Letters(t, FALSE)
  <2>1. FALSE = (FALSE # OddFences(A))
    <3>1. PICK o \in BOOLEAN : o = OddFences(A)
      BY DEF OddFences
    <3>2. QED BY <1>5, <3>1
  <2>2. QED BY <1>4, <2>1, LettersConcat
<1>8. Letters(t, FALSE) \in Seq(Letter)
  BY LettersAre
<1>9. QED BY <1>1, <1>6, <1>7, <1>8, ConcatEmptySeq

\* markdownToMrkdwn() shows the letters that the lines mean.
LEMMA ConvertedShows ==
  ASSUME NEW lines \in Seq(Lines), ~ShowsBackticks(lines)
  PROVE  /\ MarkdownToMrkdwn(lines) \in Seq(Unit)
         /\ Letters(MarkdownToMrkdwn(lines), FALSE) = FlattenSeq(MeantByLine(lines))
         /\ FlattenSeq(MeantByLine(lines)) \in Seq(Letter)
<1>1. PICK R : R = [i \in DOMAIN lines |-> Rendered(lines[i], FenceOf(lines)[i - 1])]
  OBVIOUS
<1>2. /\ FlattenSeq(R) \in Seq(Unit)
      /\ Letters(FlattenSeq(R), FALSE) = FlattenSeq(MeantByLine(lines))
      /\ FlattenSeq(R) = <<>> \/ FlattenSeq(R)[1] = "/"
  BY <1>1, LinesShow
<1>3. PICK p \in Seq(Unit) : p = FlattenSeq(R)
  BY <1>2
<1>4. PICK open \in BOOLEAN : open = (FenceOf(lines)[Len(lines)] # "none")
  OBVIOUS
<1>5. PICK Z : Z = (IF open THEN <<"/", "f">> ELSE <<>>)
  OBVIOUS
<1>6. Z \in Seq(Unit) /\ \A i \in 1..Len(Z) : Z[i] \in Hidden
  BY <1>5, FenceBehind
<1>7. PICK out \in Seq(Unit) : out = p \o Z
  <2>1. p \o Z \in Seq(Unit)
    BY <1>6
  <2>2. QED BY <2>1
<1>8. MarkdownToMrkdwn(lines) = IF out = <<>> THEN <<>> ELSE Tail(out)
  BY <1>1, <1>3, <1>4, <1>5, <1>7 DEF MarkdownToMrkdwn
<1>9. Letters(out, FALSE) = FlattenSeq(MeantByLine(lines))
  <2>1. PICK code \in BOOLEAN : code = OddFences(p)
    BY DEF OddFences
  <2>2. code = (FALSE # OddFences(p))
    BY <2>1
  <2>3. Letters(out, FALSE) = Letters(p, FALSE) \o Letters(Z, code)
    BY <1>6, <1>7, <2>2, LettersConcat
  <2>4. Letters(Z, code) = <<>>
    BY <1>6, LettersHidden
  <2>5. Letters(p, FALSE) \in Seq(Letter)
    BY LettersAre
  <2>6. QED BY <1>2, <1>3, <2>3, <2>4, <2>5, ConcatEmptySeq
<1>10. Letters(out, FALSE) \in Seq(Letter)
  BY LettersAre
<1>11. CASE out = <<>>
  <2>1. MarkdownToMrkdwn(lines) = out
    BY <1>8, <1>11
  <2>2. QED BY <1>9, <1>10, <2>1
<1>12. CASE out # <<>>
  <2>1. out[1] = "/"
    <3>1. CASE p = <<>>
      <4>1. out = Z
        BY <1>6, <1>7, <3>1, ConcatEmptySeq
      <4>2. Z = <<"/", "f">>
        BY <1>5, <1>12, <4>1
      <4>3. QED BY <4>1, <4>2
    <3>2. CASE p # <<>>
      <4>1. 1 \in 1..Len(p)
        BY <3>2
      <4>2. out[1] = p[1]
        BY <1>6, <1>7, <4>1, BeginOfConcat
      <4>3. QED BY <1>2, <1>3, <3>2, <4>2
    <3>3. QED BY <3>1, <3>2
  <2>2. Tail(out) \in Seq(Unit) /\ Letters(Tail(out), FALSE) = Letters(out, FALSE)
    BY <1>12, <2>1, TailShows
  <2>3. MarkdownToMrkdwn(lines) = Tail(out)
    BY <1>8, <1>12
  <2>4. QED BY <1>9, <1>10, <2>2, <2>3
<1>13. QED BY <1>11, <1>12

\* What is split shows the letters that the body means.
LEMMA SourceShows ==
  ASSUME message.lines \in Seq(Lines), ~ShowsBackticks(message.lines)
  PROVE  /\ Source \in Seq(Unit) /\ Meant(message.lines) \in Seq(Letter)
         /\ Letters(Source, FALSE) = Meant(message.lines)
<1>1. PICK lines \in Seq(Lines) : lines = message.lines
  OBVIOUS
<1>2. PICK C : C = MarkdownToMrkdwn(lines)
  OBVIOUS
<1>3. /\ C \in Seq(Unit) /\ Letters(C, FALSE) = FlattenSeq(MeantByLine(lines))
      /\ FlattenSeq(MeantByLine(lines)) \in Seq(Letter)
  BY <1>1, <1>2, ConvertedShows
<1>4. CASE ~Blank(C)
  BY <1>1, <1>2, <1>3, <1>4 DEF Source, Meant
<1>5. CASE Blank(C)
  <2>1. PICK s : s = <<"e">>
    OBVIOUS
  <2>2. s \in Seq(Unit) /\ Len(s) = 1 /\ DOMAIN s = 1..1 /\ s[1] = "e"
    <3>1. "e" \in Unit
      BY DEF Unit
    <3>2. QED BY <2>1, <3>1
  <2>3. \A i \in 1..Len(s) : s[i] # "f" /\ s[i] # "/"
    <3>1. \A i \in 1..Len(s) : i = 1
      BY <2>2
    <3>2. QED BY <2>2, <3>1
  <2>4. Letters(s, FALSE) = Plainly(s, FALSE)
    BY <2>2, <2>3, PlainLetters
  <2>5. Plainly(s, FALSE) = FlattenSeq(<<<<<<"e", FALSE>>>>>>)
    <3>1. [k \in DOMAIN s |-> IF s[k] = "_" THEN <<>> ELSE <<<<s[k], FALSE>>>>] = <<<<<<"e", FALSE>>>>>>
      <4>1. PICK x : x = <<<<"e", FALSE>>>>
        OBVIOUS
      <4>2. [k \in DOMAIN s |-> IF s[k] = "_" THEN <<>> ELSE <<<<s[k], FALSE>>>>] = [k \in 1..1 |-> x]
        <5>1. \A k \in 1..1 : k = 1
          OBVIOUS
        <5>2. \A k \in 1..1 : (IF s[k] = "_" THEN <<>> ELSE <<<<s[k], FALSE>>>>) = x
          BY <2>2, <4>1, <5>1
        <5>3. QED BY <2>2, <5>2
      <4>3. <<x>> = [k \in 1..1 |-> x]
        OBVIOUS
      <4>4. QED BY <4>1, <4>2, <4>3
    <3>2. QED BY <3>1 DEF Plainly
  <2>6. PICK x \in Seq(Letter) : x = <<<<"e", FALSE>>>>
    <3>1. <<"e", FALSE>> \in Letter
      BY DEF Letter, Unit
    <3>2. <<<<"e", FALSE>>>> \in Seq(Letter)
      BY <3>1
    <3>3. QED BY <3>2
  <2>7. FlattenSeq(<<x>>) = x
    BY FlattenOne
  <2>8. Source = s /\ Meant(message.lines) = x
    BY <1>1, <1>2, <1>5, <2>1, <2>6 DEF Source, Meant
  <2>9. QED BY <2>2, <2>4, <2>5, <2>6, <2>7, <2>8
<1>6. QED BY <1>4, <1>5

----------------------------------------------------------------------------
(* SlackMessage: chunks *)

\* What chunks show, each by itself.
Says(cs) == FlattenSeq([i \in DOMAIN cs |-> Letters(cs[i], FALSE)])

\* Chunks that fit a section and have their fences in pairs.
Fitting(cs) ==
  /\ cs \in Seq(Seq(Unit))
  /\ \A i \in 1..Len(cs) : Len(cs[i]) <= SectionText /\ ~OddFences(cs[i])

\* The type of Says().
LEMMA SaysAre ==
  ASSUME NEW cs \in Seq(Seq(Unit))
  PROVE  /\ [i \in DOMAIN cs |-> Letters(cs[i], FALSE)] \in Seq(Seq(Letter))
         /\ Len([i \in DOMAIN cs |-> Letters(cs[i], FALSE)]) = Len(cs)
         /\ Says(cs) \in Seq(Letter)
<1>1. PICK n \in Nat : n = Len(cs) /\ DOMAIN cs = 1..n
  OBVIOUS
<1>2. PICK L : L = [i \in DOMAIN cs |-> Letters(cs[i], FALSE)]
  OBVIOUS
<1>3. \A i \in 1..n : Letters(cs[i], FALSE) \in Seq(Letter)
  <2>1. SUFFICES ASSUME NEW i \in 1..n PROVE Letters(cs[i], FALSE) \in Seq(Letter)
    OBVIOUS
  <2>2. PICK c \in Seq(Unit) : c = cs[i]
    BY <1>1
  <2>3. QED BY <2>2, LettersAre
<1>4. L \in [1..n -> Seq(Letter)]
  BY <1>1, <1>2, <1>3
<1>5. L \in Seq(Seq(Letter)) /\ Len(L) = n
  BY <1>4
<1>6. FlattenSeq(L) \in Seq(Letter)
  BY <1>5, FlattenIsSeq
<1>7. QED BY <1>1, <1>2, <1>5, <1>6 DEF Says

\* One chunk more shows its letters after the others.
LEMMA SaysAppend ==
  ASSUME NEW cs \in Seq(Seq(Unit)), NEW x \in Seq(Unit)
  PROVE  Says(Append(cs, x)) = Says(cs) \o Letters(x, FALSE)
<1>1. PICK n \in Nat : n = Len(cs) /\ DOMAIN cs = 1..n
  OBVIOUS
<1>2. PICK ds \in Seq(Seq(Unit)) : ds = Append(cs, x)
  <2>1. Append(cs, x) \in Seq(Seq(Unit))
    OBVIOUS
  <2>2. QED BY <2>1
<1>3. Len(ds) = n + 1 /\ DOMAIN ds = 1..(n + 1) /\ ds[n + 1] = x /\ \A i \in 1..n : ds[i] = cs[i]
  BY <1>1, <1>2
<1>4. PICK L \in Seq(Seq(Letter)) : L = [i \in DOMAIN cs |-> Letters(cs[i], FALSE)] /\ Len(L) = n
  BY <1>1, SaysAre
<1>5. PICK K \in Seq(Seq(Letter)) : K = [i \in DOMAIN ds |-> Letters(ds[i], FALSE)] /\ Len(K) = n + 1
  BY <1>3, SaysAre
<1>6. PICK l \in Seq(Letter) : l = Letters(x, FALSE)
  BY LettersAre
<1>7. K = Append(L, l)
  <2>1. PICK A \in Seq(Seq(Letter)) : A = Append(L, l)
    <3>1. Append(L, l) \in Seq(Seq(Letter))
      OBVIOUS
    <3>2. QED BY <3>1
  <2>2. Len(A) = n + 1 /\ A[n + 1] = l /\ \A i \in 1..n : A[i] = L[i]
    <3>1. /\ Len(Append(L, l)) = Len(L) + 1 /\ Append(L, l)[Len(L) + 1] = l
          /\ \A i \in 1..Len(L) : Append(L, l)[i] = L[i]
      BY AppendProperties
    <3>2. QED BY <1>4, <2>1, <3>1
  <2>3. ASSUME NEW i \in 1..n
        PROVE  K[i] = L[i]
    <3>1. i \in DOMAIN cs /\ i \in DOMAIN ds /\ ds[i] = cs[i]
      BY <1>1, <1>3
    <3>2. L[i] = Letters(cs[i], FALSE)
      BY <1>4, <3>1
    <3>3. K[i] = Letters(ds[i], FALSE)
      BY <1>5, <3>1
    <3>4. QED BY <3>1, <3>2, <3>3
  <2>4. K[n + 1] = l
    <3>1. n + 1 \in DOMAIN ds /\ ds[n + 1] = x
      BY <1>3
    <3>2. K[n + 1] = Letters(ds[n + 1], FALSE)
      BY <1>5, <3>1
    <3>3. QED BY <1>6, <3>1, <3>2
  <2>5. \A i \in 1..(n + 1) : i \in 1..n \/ i = n + 1
    OBVIOUS
  <2>6. Len(K) = Len(A) /\ \A i \in 1..Len(K) : K[i] = A[i]
    BY <1>5, <2>2, <2>3, <2>4, <2>5
  <2>7. QED BY <2>1, <2>6, SeqEqual
<1>8. FlattenSeq(K) = FlattenSeq(L) \o l
  BY <1>7, FlattenAppend
<1>9. QED BY <1>2, <1>4, <1>5, <1>6, <1>8 DEF Says

\* A round of splitIntoChunks() takes a beginning of what is left, within the budget.
LEMMA CutSplits ==
  ASSUME NEW text \in Seq(Unit), NEW raw, raw = SubSeq(text, 1, CutChunk(text)),
         NEW left, left = SubSeq(text, Len(raw) + 1, Len(text))
  PROVE  /\ raw \in Seq(Unit) /\ left \in Seq(Unit) /\ raw \o left = text
         /\ Len(raw) <= Budget
<1>1. PICK n \in Nat, B \in Nat : n = Len(text) /\ B = Budget
  BY BudgetIs
<1>2. PICK k \in 0..n : k = CutChunk(text) /\ k <= B
  BY <1>1, CutChunkIs
<1>3. k \in 0..Len(text)
  BY <1>1
<1>4. /\ SubSeq(text, 1, k) \in Seq(Unit) /\ SubSeq(text, k + 1, Len(text)) \in Seq(Unit)
      /\ SubSeq(text, 1, k) \o SubSeq(text, k + 1, Len(text)) = text
      /\ Len(SubSeq(text, 1, k)) = k
  BY <1>3, SplitAt
<1>5. raw = SubSeq(text, 1, k)
  BY <1>2
<1>6. Len(raw) = k /\ left = SubSeq(text, k + 1, Len(text))
  BY <1>4, <1>5
<1>7. QED BY <1>1, <1>2, <1>4, <1>5, <1>6

\* Letters can be put together in any order of steps.
LEMMA LettersAssociate ==
  ASSUME NEW a \in Seq(Letter), NEW b \in Seq(Letter), NEW c \in Seq(Letter)
  PROVE  (a \o b) \o c = a \o (b \o c)
BY ConcatAssociative

\* One round of splitIntoChunks() moves letters from what is left to the chunks.
LEMMA SplitShows ==
  ASSUME NEW text \in Seq(Unit), text = rest, inFence \in BOOLEAN, Fitting(chunks),
         NEW raw \in Seq(Unit), NEW left \in Seq(Unit), raw \o left = text, Len(raw) <= Budget,
         NEW cs, cs = IF Blank(Piece(raw)) THEN chunks ELSE Append(chunks, Piece(raw))
  PROVE  /\ EndsInFence(raw) \in BOOLEAN
         /\ Fitting(cs) /\ Len(cs) <= Len(chunks) + 1
         /\ Says(cs) \o Letters(left, EndsInFence(raw)) = Says(chunks) \o Letters(rest, inFence)
<1>1. PICK piece : piece = Piece(raw)
  OBVIOUS
<1>2. PICK e \in BOOLEAN, f \in BOOLEAN : e = EndsInFence(raw) /\ f = inFence
  BY DEF EndsInFence
<1>3. piece = Piece(raw) /\ e = EndsInFence(raw)
  BY <1>1, <1>2
<1>4. /\ piece \in Seq(Unit) /\ Len(piece) <= SectionText /\ ~OddFences(piece)
      /\ Letters(piece, FALSE) = Letters(raw, inFence)
  BY <1>3, PieceIs
<1>5. Letters(text, inFence) = Letters(raw, inFence) \o Letters(left, e)
  <2>1. e = (f # OddFences(raw))
    BY <1>2 DEF EndsInFence
  <2>2. Letters(raw \o left, f) = Letters(raw, f) \o Letters(left, e)
    BY <2>1, LettersConcat
  <2>3. QED BY <1>2, <2>2
<1>6. chunks \in Seq(Seq(Unit))
  BY DEF Fitting
<1>7. PICK m \in Nat : m = Len(chunks)
  BY <1>6
<1>8. PICK a \in Seq(Letter) : a = Says(chunks)
  BY <1>6, SaysAre
<1>9. PICK b \in Seq(Letter) : b = Letters(piece, FALSE)
  BY <1>4, LettersAre
<1>10. PICK c \in Seq(Letter) : c = Letters(left, e)
  BY LettersAre
<1>11. Fitting(cs) /\ Len(cs) <= m + 1 /\ Says(cs) = a \o b
  <2>1. CASE Blank(piece)
    <3>1. cs = chunks
      BY <1>3, <2>1
    <3>2. \A i \in 1..Len(piece) : piece[i] \in Hidden
      <4>1. DOMAIN piece = 1..Len(piece)
        BY <1>4
      <4>2. QED BY <2>1, <4>1 DEF Blank, Hidden
    <3>3. b = <<>>
      BY <1>4, <1>9, <3>2, LettersHidden
    <3>4. a \o b = a
      BY <3>3, ConcatEmptySeq
    <3>5. QED BY <1>7, <1>8, <3>1, <3>4
  <2>2. CASE ~Blank(piece)
    <3>1. cs = Append(chunks, piece)
      BY <1>3, <2>2
    <3>2. Says(cs) = a \o b
      BY <1>4, <1>6, <1>8, <1>9, <3>1, SaysAppend
    <3>3. /\ cs \in Seq(Seq(Unit)) /\ Len(cs) = m + 1 /\ cs[m + 1] = piece
          /\ \A i \in 1..m : cs[i] = chunks[i]
      BY <1>4, <1>6, <1>7, <3>1
    <3>4. \A i \in 1..Len(cs) : Len(cs[i]) <= SectionText /\ ~OddFences(cs[i])
      <4>1. \A i \in 1..Len(cs) : i \in 1..m \/ i = m + 1
        BY <3>3
      <4>2. QED BY <1>4, <1>7, <3>3, <4>1 DEF Fitting
    <3>5. QED BY <3>2, <3>3, <3>4 DEF Fitting
  <2>3. QED BY <2>1, <2>2
<1>12. (a \o b) \o c = a \o (b \o c)
  BY LettersAssociate
<1>13. Letters(rest, inFence) = b \o c
  BY <1>4, <1>5, <1>9, <1>10
<1>14. QED BY <1>3, <1>7, <1>8, <1>10, <1>11, <1>12, <1>13

----------------------------------------------------------------------------
(* SlackMessage: the body within the message *)

\* The blocks bs begin with the first l of a body, and have no more sections.
BeginsWith(bs, body, l) ==
  /\ Len(bs) \in Nat /\ DOMAIN bs = 1..Len(bs) /\ l <= Len(bs) /\ l <= Len(body)
  /\ \A i \in 1..l : bs[i] = body[i]
  /\ \A i \in DOMAIN bs : i > l => bs[i].type # "section"

\* assemble() shows a body from its beginning, and all of it when it is within its room.
LEMMA AssembleBegins ==
  ASSUME message \in Messages, NEW Body, \A b \in Body : b.type \in {"section", "omission"},
         NEW body \in Seq(Body)
  PROVE  \E l \in Nat :
           /\ BeginsWith(Assemble(body), body, l)
           /\ /\ Len(ControlBlocks) <= BlocksPerMessage - 3
              /\ Len(body) + Len(ControlBlocks) + Len(Trailer) <= BlocksPerMessage
              => l = Len(body)
<1>1. CASE message.kind = "progress"
  <2>1. PICK bs \in Seq(Body) : bs = Assemble(body)
    BY <1>1, AssembledProgress
  <2>2. /\ Len(bs) <= Len(body) /\ \A i \in 1..Len(bs) : bs[i] = body[i]
        /\ Len(body) <= BlocksPerMessage => Len(bs) = Len(body)
    BY <1>1, <2>1, AssembledProgress
  <2>3. PICK l \in Nat : l = Len(bs) /\ DOMAIN bs = 1..l
    OBVIOUS
  <2>4. BeginsWith(bs, body, l)
    BY <2>2, <2>3 DEF BeginsWith
  <2>5. Len(ControlBlocks) = 0 /\ Len(Trailer) = 0
    BY <1>1, EmptySeq DEF ControlBlocks, Trailer
  <2>6. Len(body) + Len(ControlBlocks) + Len(Trailer) = Len(body)
    BY <2>5
  <2>7. QED BY <2>1, <2>2, <2>3, <2>4, <2>6
<1>2. CASE message.kind # "progress"
  <2>1. PICK C \in Seq(Control) : C = ControlBlocks
    <3>1. ControlBlocks \in Seq(Control)
      BY <1>2, ControlsOffer DEF Offered
    <3>2. QED BY <3>1
  <2>2. PICK l \in Nat, kept \in 0..Len(C) : MadeOf(Assemble(body), body, C, l, kept)
    BY <1>2, <2>1, Assembled
  <2>3. PICK bs : bs = Assemble(body)
    OBVIOUS
  <2>4. PICK n \in Nat : n = Len(bs) /\ DOMAIN bs = 1..n
    BY <2>2, <2>3 DEF MadeOf
  <2>5. PICK c \in Nat : c = Len(C) /\ kept <= c /\ kept \in Nat
    OBVIOUS
  <2>6. ASSUME NEW i \in 1..n, i > l
        PROVE  bs[i].type # "section"
    <3>1. CASE i \in (l + 1)..(l + kept)
      <4>1. PICK k \in 1..kept : i = l + k
        <5>1. i - l \in 1..kept /\ i = l + (i - l)
          BY <2>5, <3>1
        <5>2. QED BY <5>1
      <4>2. bs[i] = C[k]
        BY <2>2, <2>3, <4>1 DEF MadeOf
      <4>3. C[k] \in Control
        BY <2>5
      <4>4. QED BY <4>2, <4>3 DEF Control
    <3>2. CASE i \in (l + kept + 1)..(n - 1)
      BY <2>2, <2>3, <2>4, <3>2 DEF MadeOf
    <3>3. CASE i = n
      BY <2>2, <2>3, <2>4, <3>3 DEF MadeOf
    <3>4. QED BY <2>5, <2>6, <3>1, <3>2, <3>3
  <2>7. l <= n
    <3>1. l + kept < n
      BY <2>2, <2>3, <2>4 DEF MadeOf
    <3>2. QED BY <2>5, <3>1
  <2>8. l <= Len(body) /\ \A i \in 1..l : bs[i] = body[i]
    BY <2>2, <2>3 DEF MadeOf
  <2>9. BeginsWith(bs, body, l)
    BY <2>4, <2>6, <2>7, <2>8 DEF BeginsWith
  <2>10. ASSUME Len(ControlBlocks) <= BlocksPerMessage - 3,
                Len(body) + Len(ControlBlocks) + Len(Trailer) <= BlocksPerMessage
         PROVE  l = Len(body)
    <3>1. PICK v \in Nat, B \in Nat : v = Len(body) /\ B = BlocksPerMessage
      BY LimitsAssumption
    <3>2. Len(Trailer) = 1
      BY <1>2 DEF Trailer
    <3>3. v + c < B
      BY <2>1, <2>5, <2>10, <3>1, <3>2
    <3>4. Len(C) <= BlocksPerMessage - 3 /\ Len(body) + Len(C) < BlocksPerMessage
      BY <2>1, <2>5, <2>10, <3>1, <3>3
    <3>5. QED BY <2>2, <3>4 DEF MadeOf
  <2>11. QED BY <2>3, <2>9, <2>10
<1>3. QED BY <1>1, <1>2

\* How many controls there are, and that progress has none.
LEMMA ControlsAre ==
  ASSUME message \in Messages
  PROVE  /\ Len(ControlBlocks) \in Nat /\ Len(Trailer) \in 0..1
         /\ Len(Trailer) = 0 => Len(ControlBlocks) = 0
<1>1. CASE message.kind = "progress"
  BY <1>1, EmptySeq DEF ControlBlocks, Trailer
<1>2. CASE message.kind # "progress"
  <2>1. ControlBlocks \in Seq(Control)
    BY <1>2, ControlsOffer DEF Offered
  <2>2. Len(Trailer) = 1
    BY <1>2 DEF Trailer
  <2>3. QED BY <2>1, <2>2
<1>3. QED BY <1>1, <1>2

\* The budgets of bodySections() leave room for the controls, and for its notice.
LEMMA BudgetsFit ==
  ASSUME message \in Messages
  PROVE  /\ BodyBudget \in Nat /\ TrimmedBudget \in Nat
         /\ Len(ControlBlocks) <= BlocksPerMessage - 3 =>
              /\ BodyBudget + Len(ControlBlocks) + Len(Trailer) <= BlocksPerMessage
              /\ TrimmedBudget + 1 + Len(ControlBlocks) + Len(Trailer) <= BlocksPerMessage
<1>1. PICK c \in Nat, t \in 0..1 : c = Len(ControlBlocks) /\ t = Len(Trailer) /\ (t = 0 => c = 0)
  BY ControlsAre
<1>2. PICK B \in Nat : B = BlocksPerMessage /\ B > 3
  BY LimitsAssumption
<1>3. PICK m \in Nat : m = Minus(B, c + t + 1) /\ m = (IF B > c + t + 1 THEN B - (c + t + 1) ELSE 0)
  <2>1. PICK u \in Nat : u = c + t + 1
    BY <1>1
  <2>2. PICK m \in Nat : m = (IF B > u THEN B - u ELSE 0)
    <3>1. (IF B > u THEN B - u ELSE 0) \in Nat
      OBVIOUS
    <3>2. QED BY <3>1
  <2>3. QED BY <2>1, <2>2 DEF Minus
<1>4. PICK b \in Nat : b = BodyBudget /\ b = (IF 1 >= m THEN 1 ELSE m)
  <2>1. BodyBudget = Max({1, m})
    BY <1>1, <1>2, <1>3 DEF BodyBudget
  <2>2. Max({1, m}) = IF 1 >= m THEN 1 ELSE m
    BY MaxOfTwo
  <2>3. QED BY <2>1, <2>2
<1>5. PICK r \in Nat : r = TrimmedBudget /\ r = (IF 1 >= b - 1 THEN 1 ELSE b - 1)
  <2>1. b - 1 \in Nat
    BY <1>4
  <2>2. TrimmedBudget = Max({1, b - 1})
    BY <1>4 DEF TrimmedBudget
  <2>3. Max({1, b - 1}) = IF 1 >= b - 1 THEN 1 ELSE b - 1
    BY <2>1, MaxOfTwo
  <2>4. QED BY <2>1, <2>2, <2>3
<1>6. ASSUME c <= B - 3
      PROVE  b + c + t <= B /\ r + 1 + c + t <= B
  <2>1. c + t + 1 < B
    <3>1. t = 0 \/ t = 1
      OBVIOUS
    <3>2. c + 3 <= B
      BY <1>6
    <3>3. QED BY <3>1, <3>2
  <2>2. m = B - (c + t + 1) /\ m >= 1
    BY <1>1, <1>2, <1>3, <2>1
  <2>3. b = m
    BY <1>4, <2>2
  <2>4. r <= b
    BY <1>5, <2>2, <2>3
  <2>5. b + c + t + 1 = B
    BY <1>1, <1>2, <2>2, <2>3
  <2>6. QED BY <1>1, <2>4, <2>5
<1>7. QED BY <1>1, <1>2, <1>4, <1>5, <1>6

\* What some blocks show, and what ShowsTheBody says of them.
ShownIn(bs) ==
  FlattenSeq([i \in DOMAIN bs |-> IF bs[i].type = "section" THEN Letters(bs[i].text, FALSE) ELSE <<>>])

\* What ShowsTheBody says of the blocks bs.
Faithful(bs) ==
  /\ IsPrefix(ShownIn(bs), Meant(message.lines))
  /\ \A i \in DOMAIN bs :
       bs[i].type = "section" => Len(bs[i].text) <= SectionText /\ ~OddFences(bs[i].text)
  /\ \/ ShownIn(bs) = Meant(message.lines)
     \/ Len(ControlBlocks) > BlocksPerMessage - 3
     \/ \E i \in DOMAIN bs :
          /\ bs[i].type = "omission"
          /\ bs[i].omitted >= Len(Meant(message.lines)) - Len(ShownIn(bs))

\* The loop of splitIntoChunks() loses no letter: those of the chunks, each by itself, and of
\* what is left are those that the body means.
BodyInv ==
  /\ rest \in Seq(Unit) /\ inFence \in BOOLEAN /\ Fitting(chunks)
  /\ Says(chunks) \o Letters(rest, inFence) = Meant(message.lines)
  /\ Len(chunks) <= MaxChunks

\* A concatenation begins with its first part.
LEMMA ConcatIsPrefix ==
  ASSUME NEW D, NEW s \in Seq(D), NEW t \in Seq(D)
  PROVE  IsPrefix(s, s \o t) /\ Len(s \o t) = Len(s) + Len(t)
<1>1. PICK n \in Nat, m \in Nat : n = Len(s) /\ m = Len(t)
  OBVIOUS
<1>2. s \o t \in Seq(D) /\ Len(s \o t) = n + m
  BY <1>1, ConcatProperties
<1>3. PICK c \in Seq(D) : c = s \o t
  BY <1>2
<1>4. SubSeq(c, 1, n) = SubSeq(s, 1, n)
  <2>1. CASE n = 0
    <3>1. SubSeq(c, 1, 0) = <<>> /\ SubSeq(s, 1, 0) = <<>>
      OBVIOUS
    <3>2. QED BY <2>1, <3>1
  <2>2. CASE n # 0
    <3>1. n \in 1..Len(s)
      BY <1>1, <2>2
    <3>2. QED BY <1>3, <3>1, BeginOfConcat
  <2>3. QED BY <2>1, <2>2
<1>5. n <= n + m
  OBVIOUS
<1>6. QED BY <1>1, <1>2, <1>3, <1>4, <1>5 DEF IsPrefix

\* The sections of a body, and its notice.
LEMMA SectionsAre ==
  ASSUME Fitting(chunks), rest \in Seq(Unit)
  PROVE  \E Body : \E body \in Seq(Body) :
           /\ body = Sections /\ \A b \in Body : b.type \in {"section", "omission"}
           /\ \A i \in 1..Len(chunks) : body[i] = [type |-> "section", text |-> chunks[i]]
           /\ pc = "whole" => Len(body) = Len(chunks)
           /\ pc # "whole" => /\ Len(body) = Len(chunks) + 1
                              /\ body[Len(chunks) + 1] = [type |-> "omission", omitted |-> Len(rest)]
<1> DEFINE Section(c) == [type |-> "section", text |-> c]
<1>1. PICK n \in Nat : n = Len(chunks) /\ DOMAIN chunks = 1..n /\ chunks \in Seq(Seq(Unit))
  BY DEF Fitting
<1>2. PICK om : om = [type |-> "omission", omitted |-> Len(rest)]
  OBVIOUS
<1>3. PICK Body : Body = {Section(c) : c \in Seq(Unit)} \cup {om}
  OBVIOUS
<1>4. \A b \in Body : b.type \in {"section", "omission"}
  BY <1>2, <1>3
<1>5. PICK first : first = [i \in 1..n |-> Section(chunks[i])]
  OBVIOUS
<1>6. PICK second : second = (IF pc = "whole" THEN <<>> ELSE <<om>>)
  OBVIOUS
<1>7. Sections = first \o second
  <2>1. \A i \in 1..n : Clamp(chunks[i]) = chunks[i]
    BY <1>1 DEF Clamp, Fitting
  <2>2. [i \in DOMAIN chunks |-> [type |-> "section", text |-> Clamp(chunks[i])]] = first
    BY <1>1, <1>5, <2>1
  <2>3. QED BY <1>2, <1>6, <2>2 DEF Sections
<1>8. om \in Body /\ \A i \in 1..n : Section(chunks[i]) \in Body
  <2>1. \A i \in 1..n : chunks[i] \in Seq(Unit)
    BY <1>1
  <2>2. QED BY <1>3, <2>1
<1>9. first \in Seq(Body) /\ Len(first) = n /\ \A i \in 1..n : first[i] = Section(chunks[i])
  <2> HIDE DEF Section
  <2>1. first \in [1..n -> Body]
    BY <1>5, <1>8
  <2>2. QED BY <1>5, <2>1
<1>10. second \in Seq(Body) /\ Len(second) = (IF pc = "whole" THEN 0 ELSE 1)
       /\ (pc # "whole" => second[1] = om)
  <2>1. CASE pc = "whole"
    BY <1>6, <2>1, EmptySeq
  <2>2. CASE pc # "whole"
    <3>1. <<om>> \in Seq(Body) /\ Len(<<om>>) = 1 /\ <<om>>[1] = om
      BY <1>8
    <3>2. QED BY <1>6, <2>2, <3>1
  <2>3. QED BY <2>1, <2>2
<1>11. PICK body \in Seq(Body) : body = first \o second
  <2>1. first \o second \in Seq(Body)
    BY <1>9, <1>10
  <2>2. QED BY <2>1
<1>12. Len(body) = Len(first) + Len(second)
  BY <1>9, <1>10, <1>11, ConcatProperties
<1> HIDE DEF Section
<1>13. \A i \in 1..n : body[i] = Section(chunks[i])
  <2>1. \A i \in 1..Len(first) : body[i] = first[i]
    BY <1>9, <1>10, <1>11, BeginOfConcat
  <2>2. QED BY <1>9, <2>1
<1>14. ASSUME pc # "whole"
       PROVE  Len(body) = n + 1 /\ body[n + 1] = om
  <2>1. Len(second) = 1 /\ second[1] = om
    BY <1>10, <1>14
  <2>2. 1 \in 1..Len(second)
    BY <2>1
  <2>3. body[Len(first) + 1] = second[1]
    BY <1>9, <1>10, <1>11, <2>2, BeginOfConcat
  <2>4. QED BY <1>9, <1>12, <2>1, <2>3
<1>15. pc = "whole" => Len(body) = n
  BY <1>9, <1>10, <1>12
<1>16. body = Sections
  BY <1>7, <1>11
<1> USE DEF Section
<1>17. QED BY <1>1, <1>2, <1>4, <1>13, <1>14, <1>15, <1>16

\* What assemble() makes of the sections is faithful to the body.
LEMMA RenderIsFaithful ==
  ASSUME message \in Messages, pc \in {"whole", "trimmed"}, BodyInv, pc = "whole" => rest = <<>>
  PROVE  Faithful(Assemble(Sections))
<1>1. /\ rest \in Seq(Unit) /\ inFence \in BOOLEAN /\ Fitting(chunks) /\ chunks \in Seq(Seq(Unit))
      /\ Says(chunks) \o Letters(rest, inFence) = Meant(message.lines)
      /\ Len(chunks) <= MaxChunks
  BY DEF BodyInv, Fitting
<1>2. PICK Body : \E body \in Seq(Body) :
        /\ body = Sections /\ \A b \in Body : b.type \in {"section", "omission"}
        /\ \A i \in 1..Len(chunks) : body[i] = [type |-> "section", text |-> chunks[i]]
        /\ pc = "whole" => Len(body) = Len(chunks)
        /\ pc # "whole" => /\ Len(body) = Len(chunks) + 1
                           /\ body[Len(chunks) + 1] = [type |-> "omission", omitted |-> Len(rest)]
  BY <1>1, SectionsAre
<1>3. PICK body \in Seq(Body) :
        /\ body = Sections /\ \A b \in Body : b.type \in {"section", "omission"}
        /\ \A i \in 1..Len(chunks) : body[i] = [type |-> "section", text |-> chunks[i]]
        /\ pc = "whole" => Len(body) = Len(chunks)
        /\ pc # "whole" => /\ Len(body) = Len(chunks) + 1
                           /\ body[Len(chunks) + 1] = [type |-> "omission", omitted |-> Len(rest)]
  BY <1>2
<1>4. PICK n \in Nat, v \in Nat : n = Len(chunks) /\ v = Len(body) /\ DOMAIN chunks = 1..n
  BY <1>1
<1>5. /\ \A i \in 1..n : body[i].type = "section" /\ body[i].text = chunks[i]
      /\ v = (IF pc = "whole" THEN n ELSE n + 1)
      /\ pc # "whole" => body[n + 1].type = "omission" /\ body[n + 1].omitted = Len(rest)
  <2>1. ASSUME NEW i \in 1..n
        PROVE  body[i].type = "section" /\ body[i].text = chunks[i]
    <3>1. i \in 1..Len(chunks)
      BY <1>4
    <3>2. body[i] = [type |-> "section", text |-> chunks[i]]
      BY <1>3, <3>1
    <3>3. QED BY <3>2
  <2>2. v = (IF pc = "whole" THEN n ELSE n + 1)
    BY <1>3, <1>4
  <2>3. ASSUME pc # "whole"
        PROVE  body[n + 1].type = "omission" /\ body[n + 1].omitted = Len(rest)
    <3>1. body[n + 1] = [type |-> "omission", omitted |-> Len(rest)]
      BY <1>3, <1>4, <2>3
    <3>2. QED BY <3>1
  <2>4. QED BY <2>1, <2>2, <2>3
<1>6. PICK bs : bs = Assemble(body)
  OBVIOUS
<1>7. PICK l \in Nat :
        /\ BeginsWith(Assemble(body), body, l)
        /\ /\ Len(ControlBlocks) <= BlocksPerMessage - 3
           /\ Len(body) + Len(ControlBlocks) + Len(Trailer) <= BlocksPerMessage
           => l = Len(body)
  BY <1>3, AssembleBegins
<1>8. PICK d \in Nat : d = Len(bs) /\ DOMAIN bs = 1..d
  BY <1>6, <1>7 DEF BeginsWith
<1>9. /\ l <= d /\ l <= v /\ \A i \in 1..l : bs[i] = body[i]
      /\ \A i \in 1..d : i > l => bs[i].type # "section"
  BY <1>4, <1>6, <1>7, <1>8 DEF BeginsWith
<1>10. PICK k \in Nat : k = (IF l <= n THEN l ELSE n)
  OBVIOUS
<1>11. k <= n /\ k <= l /\ k <= d
  BY <1>9, <1>10
<1>12. \A i \in 1..k : bs[i].type = "section" /\ bs[i].text = chunks[i]
  <2>1. \A i \in 1..k : i \in 1..n /\ i \in 1..l
    BY <1>11
  <2>2. QED BY <1>5, <1>9, <2>1
<1>13. ASSUME NEW i \in 1..d, i > k
       PROVE  bs[i].type # "section"
  <2>1. CASE i > l
    BY <1>9, <2>1
  <2>2. CASE ~(i > l)
    <3>1. i \in 1..l /\ i = n + 1 /\ pc # "whole"
      BY <1>5, <1>9, <1>10, <1>13, <2>2
    <3>2. bs[i].type = "omission"
      BY <1>5, <1>9, <3>1
    <3>3. QED BY <3>2
  <2>3. QED BY <2>1, <2>2
<1>14. \A i \in 1..d : bs[i].type = "section" => Len(bs[i].text) <= SectionText /\ ~OddFences(bs[i].text)
  <2>1. SUFFICES ASSUME NEW i \in 1..d, bs[i].type = "section"
                 PROVE  Len(bs[i].text) <= SectionText /\ ~OddFences(bs[i].text)
    OBVIOUS
  <2>2. i \in 1..k
    BY <1>13, <2>1
  <2>3. i \in 1..Len(chunks) /\ bs[i].text = chunks[i]
    BY <1>4, <1>11, <1>12, <2>2
  <2>4. QED BY <1>1, <2>3 DEF Fitting
<1>15. PICK T \in Seq(Seq(Letter)) : T = [i \in DOMAIN chunks |-> Letters(chunks[i], FALSE)] /\ Len(T) = n
  BY <1>1, <1>4, SaysAre
<1>16. Len(T) = n /\ \A i \in 1..n : T[i] \in Seq(Letter)
  <2>1. Len(T) = n
    BY <1>15
  <2>2. QED BY <2>1
<1>17. Says(chunks) = FlattenSeq(T)
  BY <1>15 DEF Says
<1>18. PICK S : S = [i \in DOMAIN bs |-> IF bs[i].type = "section" THEN Letters(bs[i].text, FALSE) ELSE <<>>]
  OBVIOUS
<1>19. ASSUME NEW i \in 1..k
       PROVE  S[i] = T[i]
  <2>1. i \in DOMAIN bs /\ i \in DOMAIN chunks
    BY <1>4, <1>8, <1>11
  <2>2. S[i] = Letters(bs[i].text, FALSE)
    BY <1>12, <1>18, <2>1
  <2>3. T[i] = Letters(chunks[i], FALSE)
    BY <1>15, <2>1
  <2>4. QED BY <1>12, <2>2, <2>3
<1>20. \A i \in 1..d : i > k => S[i] = <<>>
  BY <1>8, <1>13, <1>18
<1>21. S \in Seq(Seq(Letter)) /\ Len(S) = d
  <2>1. S = [i \in 1..d |-> S[i]]
    BY <1>8, <1>18
  <2>2. \A i \in 1..d : S[i] \in Seq(Letter)
    <3>1. SUFFICES ASSUME NEW i \in 1..d PROVE S[i] \in Seq(Letter)
      OBVIOUS
    <3>2. CASE i \in 1..k
      <4>1. i \in 1..n
        BY <1>11, <3>2
      <4>2. T[i] \in Seq(Letter)
        BY <1>16, <4>1
      <4>3. QED BY <1>19, <3>2, <4>2
    <3>3. CASE i > k
      BY <1>20, <3>3, EmptySeq
    <3>4. QED BY <3>2, <3>3
  <2>3. S \in [1..d -> Seq(Letter)]
    BY <2>1, <2>2
  <2>4. QED BY <2>3
<1>22. PICK b \in Seq(Letter) :
         FlattenSeq(T) = FlattenSeq(S) \o b /\ (k = Len(T) => b = <<>>)
  <2>1. Agree(S, T, k)
    BY <1>11, <1>15, <1>19, <1>21 DEF Agree
  <2>2. \A i \in 1..Len(S) : i > k => S[i] = <<>>
    BY <1>20, <1>21
  <2>3. QED BY <1>15, <1>21, <2>1, <2>2, FlattenFirst
<1>23. PICK shown \in Seq(Letter) : shown = FlattenSeq(S) /\ shown = ShownIn(bs)
  BY <1>18, <1>21, FlattenIsSeq DEF ShownIn
<1>24. Says(chunks) = shown \o b
  BY <1>17, <1>22, <1>23
<1>25. PICK left \in Seq(Letter) : left = Letters(rest, inFence) /\ Len(left) <= Len(rest)
  BY <1>1, LettersAre
<1>26. PICK meant : meant = Meant(message.lines)
  OBVIOUS
<1>27. meant = shown \o (b \o left)
  <2>1. meant = (shown \o b) \o left
    BY <1>1, <1>24, <1>25, <1>26
  <2>2. QED BY <2>1, ConcatAssociative
<1>28. IsPrefix(shown, meant)
  <2>1. b \o left \in Seq(Letter)
    OBVIOUS
  <2>2. QED BY <1>27, <2>1, ConcatIsPrefix
<1>29. ASSUME Len(ControlBlocks) <= BlocksPerMessage - 3
       PROVE  \/ shown = meant
              \/ \E i \in 1..d : bs[i].type = "omission" /\ bs[i].omitted >= Len(meant) - Len(shown)
  <2>1. PICK c \in Nat, t \in Nat, B \in Nat :
          c = Len(ControlBlocks) /\ t = Len(Trailer) /\ B = BlocksPerMessage
    <3>1. PICK c \in Nat : c = Len(ControlBlocks)
      BY ControlsAre
    <3>2. PICK t \in 0..1 : t = Len(Trailer)
      BY ControlsAre
    <3>3. BlocksPerMessage \in Nat /\ t \in Nat
      BY LimitsAssumption
    <3>4. QED BY <3>1, <3>2, <3>3
  <2>2. v + c + t <= B
    <3>1. CASE pc = "whole"
      <4>1. PICK m \in Nat : m = BodyBudget /\ m + c + t <= B
        BY <1>29, <2>1, BudgetsFit
      <4>2. n <= m /\ v = n
        BY <1>1, <1>4, <1>5, <3>1, <4>1 DEF MaxChunks
      <4>3. QED BY <4>1, <4>2
    <3>2. CASE pc # "whole"
      <4>1. PICK m \in Nat : m = TrimmedBudget /\ m + 1 + c + t <= B
        BY <1>29, <2>1, BudgetsFit
      <4>2. n <= m /\ v = n + 1
        BY <1>1, <1>4, <1>5, <3>2, <4>1 DEF MaxChunks
      <4>3. QED BY <4>1, <4>2
    <3>3. QED BY <3>1, <3>2
  <2>3. l = v
    BY <1>4, <1>7, <1>29, <2>1, <2>2
  <2>4. k = n /\ b = <<>>
    <3>1. n <= v
      BY <1>5
    <3>2. k = n
      BY <1>10, <2>3, <3>1
    <3>3. k = Len(T)
      BY <1>16, <3>2
    <3>4. QED BY <1>22, <3>2, <3>3
  <2>5. meant = shown \o left
    BY <1>27, <2>4, ConcatEmptySeq
  <2>6. CASE pc = "whole"
    <3>1. Len(rest) = 0
      BY <2>6
    <3>2. left = <<>>
      BY <1>25, <3>1, EmptySeq
    <3>3. QED BY <2>5, <3>2, ConcatEmptySeq
  <2>7. CASE pc # "whole"
    <3>1. v = n + 1 /\ n + 1 \in 1..l /\ n + 1 \in 1..d
      BY <1>5, <1>9, <2>3, <2>7
    <3>2. bs[n + 1].type = "omission" /\ bs[n + 1].omitted = Len(rest)
      BY <1>5, <1>9, <2>7, <3>1
    <3>3. Len(meant) = Len(shown) + Len(left)
      BY <2>5, ConcatProperties
    <3>4. PICK x \in Nat, y \in Nat, z \in Nat : x = Len(shown) /\ y = Len(left) /\ z = Len(rest)
      BY <1>1
    <3>5. z >= (x + y) - x
      BY <1>25, <3>4
    <3>6. bs[n + 1].omitted >= Len(meant) - Len(shown)
      BY <3>2, <3>3, <3>4, <3>5
    <3>7. QED BY <3>1, <3>2, <3>6
  <2>8. QED BY <2>6, <2>7
<1>30. Len(ControlBlocks) <= BlocksPerMessage - 3 \/ Len(ControlBlocks) > BlocksPerMessage - 3
  <2>1. PICK c \in Nat, B \in Nat : c = Len(ControlBlocks) /\ B = BlocksPerMessage
    BY ControlsAre, LimitsAssumption
  <2>2. c <= B - 3 \/ c > B - 3
    OBVIOUS
  <2>3. QED BY <2>1, <2>2
<1>31. Faithful(bs)
  BY <1>8, <1>14, <1>23, <1>26, <1>28, <1>29, <1>30 DEF Faithful
<1>32. QED BY <1>3, <1>6, <1>31

----------------------------------------------------------------------------
(* SlackMessage: the body is shown *)

\* The inductive invariant: what the loop keeps, and what has been rendered is faithful.
SlackBodyInv ==
  /\ message \in Messages /\ pc \in {"whole", "trimmed", "done"}
  /\ ~ShowsBackticks(message.lines) =>
       IF pc = "done" THEN Faithful(blocks) ELSE BodyInv

\* What is split at first, and again when the body is trimmed, is what the body means.
LEMMA BodyBegins ==
  ASSUME message \in Messages, ~ShowsBackticks(message.lines)
  PROVE  /\ Source \in Seq(Unit) /\ Fitting(<<>>)
         /\ Says(<<>>) \o Letters(Source, FALSE) = Meant(message.lines)
         /\ 0 <= BodyBudget /\ 0 <= TrimmedBudget
<1>1. message.lines \in Seq(Lines)
  BY MessagesAssumption DEF Message
<1>2. /\ Source \in Seq(Unit) /\ Meant(message.lines) \in Seq(Letter)
      /\ Letters(Source, FALSE) = Meant(message.lines)
  BY <1>1, SourceShows
<1>3. PICK none \in Seq(Seq(Unit)) : none = <<>> /\ Len(none) = 0
  BY EmptySeq
<1>4. Fitting(none)
  BY <1>3 DEF Fitting
<1>5. Says(none) = <<>>
  <2>1. PICK L \in Seq(Seq(Letter)) : L = [i \in DOMAIN none |-> Letters(none[i], FALSE)] /\ Len(L) = 0
    BY <1>3, SaysAre
  <2>2. \A i \in 1..Len(L) : L[i] = <<>>
    BY <2>1
  <2>3. FlattenSeq(L) = <<>>
    BY <2>2, FlattenEmpty
  <2>4. QED BY <2>1, <2>3 DEF Says
<1>6. Says(none) \o Letters(Source, FALSE) = Meant(message.lines)
  BY <1>2, <1>5, ConcatEmptySeq
<1>7. BodyBudget \in Nat /\ TrimmedBudget \in Nat
  BY BudgetsFit
<1>8. 0 <= BodyBudget /\ 0 <= TrimmedBudget
  BY <1>7
<1>9. QED BY <1>2, <1>3, <1>4, <1>6, <1>8

\* SlackBodyInv holds throughout a rendering: a round of splitIntoChunks() loses no letter and takes
\* none for code that is prose, and assemble() keeps to the order.
THEOREM SlackBodyInvariant == SlackSpec => []SlackBodyInv
<1>1. SlackInit => SlackBodyInv
  <2>1. SUFFICES ASSUME SlackInit PROVE SlackBodyInv
    OBVIOUS
  <2>2. message \in Messages /\ pc = "whole" /\ rest = Source /\ inFence = FALSE /\ chunks = <<>>
    BY <2>1 DEF SlackInit
  <2>3. ASSUME ~ShowsBackticks(message.lines)
        PROVE  BodyInv
    <3>1. /\ Source \in Seq(Unit) /\ Fitting(<<>>)
          /\ Says(<<>>) \o Letters(Source, FALSE) = Meant(message.lines)
          /\ 0 <= BodyBudget
      BY <2>2, <2>3, BodyBegins
    <3>2. Len(chunks) <= MaxChunks
      BY <2>2, <3>1, EmptySeq DEF MaxChunks
    <3>3. QED BY <2>2, <3>1, <3>2 DEF BodyInv
  <2>4. QED BY <2>2, <2>3 DEF SlackBodyInv
<1>2. SlackBodyInv /\ [SlackNext]_slackVars => SlackBodyInv'
  <2>1. SUFFICES ASSUME SlackBodyInv, [SlackNext]_slackVars PROVE SlackBodyInv'
    OBVIOUS
  <2>2. CASE Split
    <3>1. PICK raw : raw = SubSeq(rest, 1, CutChunk(rest))
      OBVIOUS
    <3>2. PICK left : left = SubSeq(rest, Len(raw) + 1, Len(rest))
      OBVIOUS
    <3>3. PICK cs : cs = IF Blank(Piece(raw)) THEN chunks ELSE Append(chunks, Piece(raw))
      OBVIOUS
    <3>4. PICK e : e = EndsInFence(raw)
      OBVIOUS
    <3>5. /\ message' = message /\ pc' = pc /\ pc \in {"whole", "trimmed"}
          /\ rest' = left /\ inFence' = e /\ chunks' = cs
          /\ Len(chunks) < MaxChunks
      BY <2>2, <3>1, <3>2, <3>3, <3>4 DEF Split, SplitGoesOn
    <3>6. message \in Messages
      BY <2>1 DEF SlackBodyInv
    <3>7. ASSUME ~ShowsBackticks(message.lines)
          PROVE  BodyInv'
      <4>1. /\ rest \in Seq(Unit) /\ inFence \in BOOLEAN /\ Fitting(chunks)
            /\ Says(chunks) \o Letters(rest, inFence) = Meant(message.lines)
        BY <2>1, <3>5, <3>7 DEF SlackBodyInv, BodyInv
      <4>2. /\ left \in Seq(Unit) /\ e \in BOOLEAN
            /\ Fitting(cs) /\ Len(cs) <= Len(chunks) + 1
            /\ Says(cs) \o Letters(left, e) = Says(chunks) \o Letters(rest, inFence)
        <5>1. PICK text \in Seq(Unit) : text = rest
          BY <4>1
        <5>2. raw \in Seq(Unit) /\ left \in Seq(Unit) /\ raw \o left = text /\ Len(raw) <= Budget
          BY <3>1, <3>2, <5>1, CutSplits
        <5>3. QED BY <3>3, <3>4, <4>1, <5>1, <5>2, SplitShows
      <4>3. Len(cs) <= MaxChunks
        <5>1. PICK m \in Nat, n \in Nat : m = Len(chunks) /\ n = Len(cs)
          <6>1. chunks \in Seq(Seq(Unit)) /\ cs \in Seq(Seq(Unit))
            BY <4>1, <4>2 DEF Fitting
          <6>2. Len(chunks) \in Nat /\ Len(cs) \in Nat
            BY <6>1
          <6>3. QED BY <6>2
        <5>2. PICK b \in Nat : b = MaxChunks
          BY <3>6, BudgetsFit DEF MaxChunks
        <5>3. QED BY <3>5, <4>2, <5>1, <5>2
      <4>4. MaxChunks' = MaxChunks
        BY <3>5 DEF MaxChunks, BodyBudget, TrimmedBudget, ControlBlocks, Trailer, QuestionBlocks,
                    FitsSelect
      <4>5. Fitting(chunks)' /\ Len(chunks)' <= MaxChunks'
        BY <3>5, <4>2, <4>3, <4>4 DEF Fitting
      <4>6. (Says(chunks) \o Letters(rest, inFence))' = Meant(message.lines)'
        BY <3>5, <4>1, <4>2 DEF Says
      <4>7. QED BY <3>5, <4>2, <4>5, <4>6 DEF BodyInv
    <3>8. QED BY <3>5, <3>6, <3>7 DEF SlackBodyInv
  <2>3. CASE Trim
    <3>1. /\ message' = message /\ pc' = "trimmed"
          /\ rest' = Source /\ inFence' = FALSE /\ chunks' = <<>>
      BY <2>3 DEF Trim
    <3>2. message \in Messages
      BY <2>1 DEF SlackBodyInv
    <3>3. ASSUME ~ShowsBackticks(message.lines)
          PROVE  BodyInv'
      <4>1. /\ Source \in Seq(Unit) /\ Fitting(<<>>)
            /\ Says(<<>>) \o Letters(Source, FALSE) = Meant(message.lines)
            /\ 0 <= TrimmedBudget
        BY <3>2, <3>3, BodyBegins
      <4>2. MaxChunks' = TrimmedBudget
        BY <3>1 DEF MaxChunks, BodyBudget, TrimmedBudget, ControlBlocks, Trailer, QuestionBlocks,
                    FitsSelect
      <4>3. Fitting(chunks)' /\ Len(chunks)' <= MaxChunks'
        BY <3>1, <4>1, <4>2, EmptySeq DEF Fitting
      <4>4. (Says(chunks) \o Letters(rest, inFence))' = Meant(message.lines)'
        BY <3>1, <4>1 DEF Says
      <4>5. QED BY <3>1, <4>1, <4>3, <4>4 DEF BodyInv
    <3>4. QED BY <3>1, <3>2, <3>3 DEF SlackBodyInv
  <2>4. CASE Render
    <3>1. /\ message' = message /\ pc \in {"whole", "trimmed"} /\ pc' = "done"
          /\ pc = "whole" => rest = <<>>
      BY <2>4 DEF Render
    <3>2. PICK bs : bs = Assemble(Sections) /\ blocks' = bs
      BY <2>4 DEF Render
    <3>3. message \in Messages
      BY <2>1 DEF SlackBodyInv
    <3>4. ASSUME ~ShowsBackticks(message.lines)
          PROVE  Faithful(blocks)'
      <4>1. BodyInv
        BY <2>1, <3>1, <3>4 DEF SlackBodyInv
      <4>2. Faithful(bs)
        BY <3>1, <3>2, <3>3, <4>1, RenderIsFaithful
      <4>3. ControlBlocks' = ControlBlocks
        BY <3>1 DEF ControlBlocks, QuestionBlocks, FitsSelect
      <4>4. QED BY <3>1, <3>2, <4>2, <4>3 DEF Faithful, ShownIn
    <3>5. QED BY <3>1, <3>3, <3>4 DEF SlackBodyInv
  <2>5. CASE UNCHANGED slackVars
    <3>1. /\ message' = message /\ chunks' = chunks /\ pc' = pc /\ blocks' = blocks
          /\ rest' = rest /\ inFence' = inFence
      BY <2>5 DEF slackVars
    <3>2. ControlBlocks' = ControlBlocks /\ MaxChunks' = MaxChunks
      BY <3>1 DEF MaxChunks, BodyBudget, TrimmedBudget, ControlBlocks, Trailer, QuestionBlocks,
                  FitsSelect
    <3>3. Faithful(blocks)' <=> Faithful(blocks)
      BY <3>1, <3>2 DEF Faithful, ShownIn
    <3>4. BodyInv' <=> BodyInv
      BY <3>1, <3>2 DEF BodyInv, Fitting, Says
    <3>5. QED BY <2>1, <3>1, <3>3, <3>4 DEF SlackBodyInv
  <2>6. QED BY <2>1, <2>2, <2>3, <2>4, <2>5 DEF SlackNext
<1>3. QED BY <1>1, <1>2, PTL DEF SlackSpec

\* ShowsTheBody: for any message and any limits of Slack, a rendered message shows its body's
\* letters in their order, code as code and prose as prose, and says so when some are missing.
THEOREM SlackShowsTheBody == SlackSpec => []ShowsTheBody
<1>1. SlackBodyInv => ShowsTheBody
  BY DEF SlackBodyInv, Faithful, ShownIn, ShowsTheBody, Shown
<1>2. QED BY <1>1, SlackBodyInvariant, PTL
=============================================================================
