---------------------------- MODULE MigrationsProofs ----------------------------
(***************************************************************************)
(* Theorems about Migrations, for any processes, versions, facts and files *)
(* and any number of kills.                                                *)
(***************************************************************************)
EXTENDS Migrations, SequenceTheorems, TLAPS

----------------------------------------------------------------------------
(* The inductive invariant *)

Inside == {"read", "backup", "migrate", "open"}

\* Migrations were applied from the first on.
InOrder(c) == \A i \in DOMAIN c.applied : c.applied[i] = i

AllInOrder ==
  /\ \A f \in Files : content[f] # None => InOrder(content[f])
  /\ \A c \in copies : InOrder(c)
  /\ \A p \in Processes : InOrder(proc[p].from) /\ InOrder(proc[p].kept)

\* The file at the path was made, and a process has opened one that was.
FilesExist ==
  /\ path # None => content[path] # None
  /\ \A p \in Processes :
       proc[p].pc \in Inside => proc[p].file \in Files /\ content[proc[p].file] # None

\* A process migrates to its version, and works on no older schema.
Upward ==
  \A p \in Processes :
    /\ proc[p].pc \in {"backup", "migrate"} => proc[p].source < proc[p].version
    /\ proc[p].pc = "open" => Schema(content[proc[p].file]) >= proc[p].version

IInv == TypeOK /\ AllInOrder /\ FilesExist /\ Upward

LEMMA LatestIsLast ==
  Latest \in Nat \ {0} /\ Latest \in Versions /\ \A v \in Versions : v \in Nat \ {0} /\ v <= Latest
BY VersionsAssumption DEF Latest

LEMMA EmptyIsContent == Empty \in Content /\ Empty # None /\ InOrder(Empty)
<1>1. Empty \in Content
  BY EmptySeq, LatestIsLast DEF Empty, Content
<1>2. InOrder(Empty)
  BY DEF Empty, InOrder
<1>3. QED BY <1>1, <1>2, NoneAssumption

Broken == [Empty EXCEPT !.broken = TRUE]

LEMMA BrokenIsContent == Broken \in Content /\ Broken # None /\ InOrder(Broken)
<1>1. Broken \in Content
  BY EmptyIsContent DEF Broken, Content
<1>2. InOrder(Broken)
  BY EmptyIsContent DEF Broken, InOrder, Empty
<1>3. QED BY <1>1, <1>2, NoneAssumption

Proc == [pc : Pcs, version : Versions, file : Files \cup {None}, source : 0..Latest,
         from : Content, kept : Content]

LEMMA IdleIsProc ==
  /\ Idle \in Proc
  /\ Idle.pc = "idle" /\ InOrder(Idle.from) /\ InOrder(Idle.kept)
BY LatestIsLast, EmptyIsContent DEF Idle, Proc, Pcs

----------------------------------------------------------------------------
(* It holds initially *)

LEMMA InitInv == Init => IInv
<1> SUFFICES ASSUME Init PROVE IInv
  OBVIOUS
<1>1. TypeOK
  BY IdleIsProc, BoundsAssumption DEF Init, TypeOK, Proc
<1>2. AllInOrder
  BY IdleIsProc DEF Init, AllInOrder
<1>3. FilesExist
  BY IdleIsProc DEF Init, FilesExist, Inside
<1>4. Upward
  BY IdleIsProc DEF Init, Upward
<1>5. QED BY <1>1, <1>2, <1>3, <1>4 DEF IInv

----------------------------------------------------------------------------
(* It is kept: a process at a time changes *)

\* What the invariant says of one process, given what the files hold.
ProcOK(q, c) ==
  /\ q \in Proc
  /\ InOrder(q.from) /\ InOrder(q.kept)
  /\ q.pc \in Inside => q.file \in Files /\ c[q.file] # None
  /\ q.pc \in {"backup", "migrate"} => q.source < q.version
  /\ q.pc = "open" => Schema(c[q.file]) >= q.version

\* What it says of the files.
FilesOK(c, at) ==
  /\ c \in [Files -> Content \cup {None}]
  /\ at \in Files \cup {None}
  /\ at # None => c[at] # None
  /\ \A f \in Files : c[f] # None => InOrder(c[f])

CopiesOK(cs) == cs \subseteq Content /\ \A c \in cs : InOrder(c)

LEMMA IInvParts ==
  IInv => /\ FilesOK(content, path) /\ CopiesOK(copies)
          /\ proc \in [Processes -> Proc] /\ \A p \in Processes : ProcOK(proc[p], content)
          /\ written \subseteq Facts /\ kills \in 0..MaxKills
<1> SUFFICES ASSUME IInv
             PROVE  /\ FilesOK(content, path) /\ CopiesOK(copies)
                    /\ proc \in [Processes -> Proc] /\ \A p \in Processes : ProcOK(proc[p], content)
                    /\ written \subseteq Facts /\ kills \in 0..MaxKills
  OBVIOUS
<1>1. proc \in [Processes -> Proc] /\ \A p \in Processes : proc[p] \in Proc
  BY DEF IInv, TypeOK, Proc
<1>2. FilesOK(content, path) /\ CopiesOK(copies)
  BY DEF IInv, TypeOK, AllInOrder, FilesExist, FilesOK, CopiesOK
<1>3. \A p \in Processes : ProcOK(proc[p], content)
  BY <1>1 DEF IInv, AllInOrder, FilesExist, Upward, ProcOK
<1>4. QED BY <1>1, <1>2, <1>3 DEF IInv, TypeOK

LEMMA PartsIInv ==
  ASSUME FilesOK(content', path'), CopiesOK(copies'),
         proc' \in [Processes -> Proc], \A p \in Processes : ProcOK(proc'[p], content'),
         written' \subseteq Facts, kills' \in 0..MaxKills
  PROVE  IInv'
<1>1. TypeOK'
  BY DEF TypeOK, FilesOK, CopiesOK, Proc
<1>2. AllInOrder'
  BY DEF AllInOrder, FilesOK, CopiesOK, ProcOK
<1>3. FilesExist'
  BY DEF FilesExist, FilesOK, ProcOK
<1>4. Upward'
  BY DEF Upward, ProcOK
<1>5. QED BY <1>1, <1>2, <1>3, <1>4 DEF IInv

\* A step of one process that makes, extends or leaves alone the files keeps the invariant
\* of all the others: files that exist stay, and their schema never goes back.
LEMMA OneProcess ==
  ASSUME IInv, NEW p \in Processes, NEW q, proc' = [proc EXCEPT ![p] = q], ProcOK(q, content'),
         FilesOK(content', path'), CopiesOK(copies'),
         \A f \in Files : content[f] # None =>
           content'[f] # None /\ Schema(content'[f]) >= Schema(content[f]),
         written' \subseteq Facts, kills' \in 0..MaxKills
  PROVE  IInv'
<1>1. proc \in [Processes -> Proc] /\ (\A r \in Processes : ProcOK(proc[r], content))
  BY IInvParts
<1>2. ASSUME NEW r \in Processes, r # p
      PROVE  ProcOK(proc[r], content')
  <2>1. ProcOK(proc[r], content) /\ proc[r] \in Proc
    BY <1>1
  <2>2. proc[r].version \in Nat
    BY <2>1, LatestIsLast DEF Proc
  <2>3. ASSUME proc[r].pc = "open"
        PROVE  Schema(content'[proc[r].file]) >= proc[r].version
    <3>1. /\ proc[r].file \in Files /\ content[proc[r].file] # None
          /\ Schema(content[proc[r].file]) >= proc[r].version
      BY <2>1, <2>3 DEF ProcOK, Inside
    <3>2. Schema(content[proc[r].file]) \in Nat /\ Schema(content'[proc[r].file]) \in Nat
      BY <3>1, IInvParts, LenProperties DEF Schema, Content, FilesOK
    <3>3. QED BY <2>2, <3>1, <3>2
  <2>4. QED BY <2>1, <2>3 DEF ProcOK
<1>3. proc' \in [Processes -> Proc] /\ (\A r \in Processes : ProcOK(proc'[r], content'))
  BY <1>1, <1>2 DEF ProcOK
<1>4. QED BY <1>3, PartsIInv

LEMMA SameFiles ==
  ASSUME IInv, UNCHANGED <<content, path>>
  PROVE  /\ FilesOK(content', path')
         /\ \A f \in Files : content[f] # None =>
              content'[f] # None /\ Schema(content'[f]) >= Schema(content[f])
<1>1. \A f \in Files : content[f] # None => Schema(content[f]) \in Nat
  BY IInvParts, LenProperties DEF Schema, Content, FilesOK
<1>2. QED BY <1>1, IInvParts

\* A file is made, at the path, of a content whose migrations are in order.
LEMMA NewFile ==
  ASSUME IInv, NEW f \in Files, content[f] = None, NEW c \in Content, InOrder(c),
         content' = [content EXCEPT ![f] = c], path' = f
  PROVE  /\ FilesOK(content', path')
         /\ \A g \in Files : content[g] # None =>
              content'[g] # None /\ Schema(content'[g]) >= Schema(content[g])
<1>1. \A g \in Files : content[g] # None => Schema(content[g]) \in Nat
  BY IInvParts, LenProperties DEF Schema, Content, FilesOK
<1>2. c # None
  BY NoneAssumption
<1>3. QED BY <1>1, <1>2, IInvParts DEF FilesOK

LEMMA FailsOK ==
  ASSUME NEW c
  PROVE  ProcOK(Idle, c)
BY IdleIsProc DEF ProcOK, Inside

\* A process goes on to where nothing is asked of the file it has.
LEMMA GotoOK ==
  ASSUME IInv, NEW p \in Processes, NEW pc \in {"remove", "copy", "undo", "redo"}, NEW c
  PROVE  ProcOK([proc[p] EXCEPT !.pc = pc], c)
<1> DEFINE q == [proc[p] EXCEPT !.pc = pc]
<1>1. proc[p] \in Proc /\ ProcOK(proc[p], content)
  BY IInvParts
<1>2. q \in Proc /\ q.pc = pc /\ q.from = proc[p].from /\ q.kept = proc[p].kept
  BY <1>1 DEF Proc, Pcs
<1>3. QED BY <1>1, <1>2 DEF ProcOK, Inside

----------------------------------------------------------------------------
(* One step per action *)

LEMMA OpenInv ==
  ASSUME IInv, NEW p \in Processes, NEW v \in Versions, Open(p, v)
  PROVE  IInv'
<1>1. PICK f \in Files :
        /\ IF path = None
           THEN content[f] = None /\ content' = [content EXCEPT ![f] = Empty]
           ELSE f = path /\ UNCHANGED content
        /\ path' = f
        /\ proc' = [proc EXCEPT ![p] = [Idle EXCEPT !.pc = "read", !.version = v, !.file = f]]
  BY DEF Open
<1> DEFINE q == [Idle EXCEPT !.pc = "read", !.version = v, !.file = f]
<1>2. /\ q \in Proc /\ q.pc = "read" /\ q.file = f
      /\ q.from = Idle.from /\ q.kept = Idle.kept
  BY IdleIsProc DEF Proc, Pcs
<1>3. /\ FilesOK(content', path') /\ content'[f] # None
      /\ \A g \in Files : content[g] # None =>
           content'[g] # None /\ Schema(content'[g]) >= Schema(content[g])
  <2>1. CASE path = None
    BY <1>1, <2>1, NewFile, EmptyIsContent, IInvParts DEF FilesOK
  <2>2. CASE path # None
    BY <1>1, <2>2, SameFiles, IInvParts DEF FilesOK
  <2>3. QED BY <2>1, <2>2
<1>4. ProcOK(q, content')
  BY <1>2, <1>3, IdleIsProc DEF ProcOK
<1>5. QED BY <1>1, <1>3, <1>4, OneProcess, IInvParts DEF Open, CopiesOK

LEMMA ReadSchemaInv ==
  ASSUME IInv, NEW p \in Processes, ReadSchema(p)
  PROVE  IInv'
<1>1. /\ proc[p] \in Proc /\ ProcOK(proc[p], content) /\ proc[p].pc = "read"
      /\ proc[p].file \in Files /\ content[proc[p].file] \in Content
  BY IInvParts DEF ReadSchema, At, ProcOK, Inside, FilesOK
<1>2. Schema(Mine(p)) \in Nat /\ proc[p].version \in Nat /\ proc[p].version <= Latest
  BY <1>1, LatestIsLast, LenProperties DEF Schema, Mine, Content, Proc
<1>3. PICK q : proc' = [proc EXCEPT ![p] = q] /\ ProcOK(q, content')
  <2>1. CASE Fails(p)
    BY <2>1, FailsOK DEF Fails
  <2>2. CASE Schema(Mine(p)) = proc[p].version /\ Goto(p, "open")
    <3> DEFINE q == [proc[p] EXCEPT !.pc = "open"]
    <3>1. /\ q \in Proc /\ q.pc = "open" /\ q.from = proc[p].from /\ q.kept = proc[p].kept
          /\ q.file = proc[p].file /\ q.version = proc[p].version
      BY <1>1 DEF Proc, Pcs
    <3>2. ProcOK(q, content')
      BY <1>1, <1>2, <2>2, <3>1 DEF ProcOK, Inside, ReadSchema, Mine
    <3>3. proc' = [proc EXCEPT ![p] = q]
      BY <2>2 DEF Goto
    <3>4. QED BY <3>2, <3>3
  <2>3. CASE /\ Schema(Mine(p)) < proc[p].version
             /\ proc' = [proc EXCEPT ![p] = [@ EXCEPT !.pc = "backup", !.source = Schema(Mine(p))]]
    <3>0. PICK n \in 0..Latest : n = Schema(Mine(p))
      BY <1>2, <2>3, LatestIsLast
    <3> DEFINE q == [proc[p] EXCEPT !.pc = "backup", !.source = n]
    <3>1. /\ q \in Proc /\ q.pc = "backup" /\ q.from = proc[p].from /\ q.kept = proc[p].kept
          /\ q.file = proc[p].file /\ q.version = proc[p].version /\ q.source = n
      <4>1. proc[p] \in Proc
        BY <1>1
      <4>2. QED BY ONLY <4>1 DEF Proc, Pcs
    <3>2. ProcOK(q, content')
      BY <1>1, <1>2, <2>3, <3>0, <3>1 DEF ProcOK, Inside, ReadSchema
    <3>3. proc' = [proc EXCEPT ![p] = q]
      BY <2>3, <3>0
    <3>4. QED BY <3>2, <3>3
  <2>4. QED BY <1>2, <2>1, <2>2, <2>3 DEF ReadSchema
<1>4. QED BY <1>3, OneProcess, SameFiles, IInvParts DEF ReadSchema, CopiesOK

LEMMA CreateBackupInv ==
  ASSUME IInv, NEW p \in Processes, CreateBackup(p)
  PROVE  IInv'
<1>1. /\ proc[p] \in Proc /\ ProcOK(proc[p], content) /\ proc[p].pc = "backup"
      /\ proc[p].file \in Files /\ Mine(p) \in Content /\ InOrder(Mine(p))
  BY IInvParts DEF CreateBackup, At, ProcOK, Inside, FilesOK, Mine
<1>2. CopiesOK(copies')
  BY <1>1, IInvParts DEF CreateBackup, CopiesOK
<1>3. PICK q : proc' = [proc EXCEPT ![p] = q] /\ ProcOK(q, content')
  <2>1. CASE Fails(p)
    BY <2>1, FailsOK DEF Fails
  <2>2. CASE Goto(p, "migrate")
    <3> DEFINE q == [proc[p] EXCEPT !.pc = "migrate"]
    <3>1. /\ q \in Proc /\ q.pc = "migrate" /\ q.from = proc[p].from /\ q.kept = proc[p].kept
          /\ q.file = proc[p].file /\ q.version = proc[p].version /\ q.source = proc[p].source
      BY <1>1 DEF Proc, Pcs
    <3>2. ProcOK(q, content')
      BY <1>1, <3>1 DEF ProcOK, Inside, CreateBackup
    <3>3. proc' = [proc EXCEPT ![p] = q]
      BY <2>2 DEF Goto
    <3>4. QED BY <3>2, <3>3
  <2>3. QED BY <2>1, <2>2 DEF CreateBackup
<1>4. QED BY <1>2, <1>3, OneProcess, SameFiles, IInvParts DEF CreateBackup

\* A file grows: one more migration, or more facts.
LEMMA FileGrows ==
  ASSUME IInv, NEW f \in Files, content[f] # None, NEW c \in Content, InOrder(c),
         Schema(c) >= Schema(content[f]), content' = [content EXCEPT ![f] = c], UNCHANGED path
  PROVE  /\ FilesOK(content', path') /\ content'[f] = c
         /\ \A g \in Files : content[g] # None =>
              content'[g] # None /\ Schema(content'[g]) >= Schema(content[g])
<1>1. \A g \in Files : content[g] # None => Schema(content[g]) \in Nat
  BY IInvParts, LenProperties DEF Schema, Content, FilesOK
<1>2. c # None
  BY NoneAssumption
<1>3. QED BY <1>1, <1>2, IInvParts DEF FilesOK

LEMMA MigrateInv ==
  ASSUME IInv, NEW p \in Processes, Migrate(p)
  PROVE  IInv'
<1> DEFINE target == proc[p].source + 1
           c == [Mine(p) EXCEPT !.applied = Append(@, target)]
<1>1. /\ proc[p] \in Proc /\ ProcOK(proc[p], content) /\ proc[p].pc = "migrate"
      /\ proc[p].file \in Files /\ content[proc[p].file] # None
      /\ Mine(p) \in Content /\ InOrder(Mine(p))
      /\ proc[p].source < proc[p].version
  BY IInvParts DEF Migrate, At, ProcOK, Inside, FilesOK, Mine
<1>2. /\ proc[p].source \in Nat /\ proc[p].version \in Nat /\ proc[p].version <= Latest
      /\ target \in 1..Latest /\ target <= proc[p].version
  <2>1. proc[p].source \in 0..Latest /\ proc[p].version \in Versions
    BY <1>1 DEF Proc
  <2>2. Latest \in Nat /\ proc[p].version \in Nat /\ proc[p].version <= Latest
    BY <2>1, LatestIsLast
  <2>3. proc[p].source < proc[p].version
    BY <1>1
  <2>4. QED BY <2>1, <2>2, <2>3
<1>3. CASE Conflicts(Mine(p).applied, target)
  <2>1. Fails(p) /\ UNCHANGED content
    BY <1>3 DEF Migrate
  <2>2. QED BY <2>1, FailsOK, OneProcess, SameFiles, IInvParts DEF Fails, Migrate, CopiesOK
<1>4. CASE ~Conflicts(Mine(p).applied, target)
  <2>1. target = Schema(Mine(p)) + 1 /\ Schema(Mine(p)) \in Nat
    BY <1>1, <1>2, <1>4, LenProperties DEF Conflicts, Schema, Content
  <2>2. c \in Content /\ InOrder(c) /\ Schema(c) = target
    <3>1. Mine(p).applied \in Seq(1..Latest)
      BY <1>1 DEF Content
    <3>2. /\ Append(Mine(p).applied, target) \in Seq(1..Latest)
          /\ Len(Append(Mine(p).applied, target)) = target
          /\ DOMAIN Append(Mine(p).applied, target) = 1..target
          /\ \A i \in 1..Schema(Mine(p)) : Append(Mine(p).applied, target)[i] = Mine(p).applied[i]
          /\ Append(Mine(p).applied, target)[target] = target
      BY <1>2, <2>1, <3>1, AppendProperties, LenProperties DEF Schema
    <3>3. c \in Content /\ c.applied = Append(Mine(p).applied, target)
      BY <1>1, <3>2 DEF Content
    <3>4. \A i \in 1..Schema(Mine(p)) : Mine(p).applied[i] = i
      BY <1>1, <3>1, LenProperties DEF InOrder, Schema
    <3>5. QED BY <2>1, <3>2, <3>3, <3>4 DEF InOrder, Schema
  <2>3. content' = [content EXCEPT ![proc[p].file] = c]
    BY <1>4 DEF Migrate, Mine
  <2>4. Schema(c) >= Schema(content[proc[p].file])
    BY <2>1, <2>2 DEF Mine
  <2>5. /\ FilesOK(content', path') /\ content'[proc[p].file] = c
        /\ \A g \in Files : content[g] # None =>
             content'[g] # None /\ Schema(content'[g]) >= Schema(content[g])
    BY <1>1, <2>2, <2>3, <2>4, FileGrows DEF Migrate
  <2>6. PICK q : proc' = [proc EXCEPT ![p] = q] /\ ProcOK(q, content')
    <3>1. CASE target = proc[p].version /\ Goto(p, "open")
      <4> DEFINE q == [proc[p] EXCEPT !.pc = "open"]
      <4>1. /\ q \in Proc /\ q.pc = "open" /\ q.from = proc[p].from /\ q.kept = proc[p].kept
            /\ q.file = proc[p].file /\ q.version = proc[p].version
        BY <1>1 DEF Proc, Pcs
      <4>2. ProcOK(q, content')
        BY <1>1, <1>2, <2>2, <2>5, <3>1, <4>1, NoneAssumption DEF ProcOK, Inside
      <4>3. proc' = [proc EXCEPT ![p] = q]
        BY <3>1 DEF Goto
      <4>4. QED BY <4>2, <4>3
    <3>2. CASE target # proc[p].version /\ proc' = [proc EXCEPT ![p].source = target]
      <4> DEFINE q == [proc[p] EXCEPT !.source = target]
      <4>1. /\ q \in Proc /\ q.pc = "migrate" /\ q.from = proc[p].from /\ q.kept = proc[p].kept
            /\ q.file = proc[p].file /\ q.version = proc[p].version /\ q.source = target
        BY <1>1, <1>2 DEF Proc, Pcs
      <4>2. ProcOK(q, content')
        BY <1>1, <1>2, <2>2, <2>5, <3>2, <4>1, NoneAssumption DEF ProcOK, Inside
      <4>3. proc' = [proc EXCEPT ![p] = q]
        BY <3>2
      <4>4. QED BY <4>2, <4>3
    <3>3. QED BY <1>4, <3>1, <3>2 DEF Migrate
  <2>7. QED BY <2>5, <2>6, OneProcess, IInvParts DEF Migrate, CopiesOK
<1>5. QED BY <1>3, <1>4

LEMMA WriteInv ==
  ASSUME IInv, NEW p \in Processes, NEW fact \in Facts, Write(p, fact)
  PROVE  IInv'
<1> DEFINE f == proc[p].file
           c == [content[f] EXCEPT !.facts = @ \cup {fact}]
<1>1. /\ proc[p] \in Proc /\ ProcOK(proc[p], content) /\ proc[p].pc = "open"
      /\ f \in Files /\ content[f] # None /\ content[f] \in Content /\ InOrder(content[f])
  BY IInvParts DEF Write, At, ProcOK, Inside, FilesOK
<1>2. c \in Content /\ c.applied = content[f].applied
  <2>1. content[f] \in Content
    BY <1>1
  <2>2. QED BY ONLY <2>1, fact \in Facts DEF Content
<1>3. InOrder(c) /\ Schema(c) = Schema(content[f]) /\ Schema(c) >= Schema(content[f])
  BY <1>1, <1>2, LenProperties DEF InOrder, Schema, Content
<1>4. content' = [content EXCEPT ![f] = c] /\ UNCHANGED path
  BY DEF Write
<1>5. /\ FilesOK(content', path') /\ content'[f] = c
      /\ \A g \in Files : content[g] # None =>
           content'[g] # None /\ Schema(content'[g]) >= Schema(content[g])
  BY <1>1, <1>2, <1>3, <1>4, FileGrows
<1>6. ProcOK(proc[p], content')
  BY <1>1, <1>3, <1>5, NoneAssumption, <1>2 DEF ProcOK
<1>7. proc' = [proc EXCEPT ![p] = proc[p]]
  BY IInvParts DEF Write
<1>8. QED BY <1>5, <1>6, <1>7, OneProcess, IInvParts DEF Write, CopiesOK

LEMMA CloseInv ==
  ASSUME IInv, NEW p \in Processes, Close(p)
  PROVE  IInv'
BY FailsOK, OneProcess, SameFiles, IInvParts DEF Close, Fails, CopiesOK

LEMMA RestoreInv ==
  ASSUME IInv, NEW p \in Processes, NEW backup \in copies, Restore(p, backup)
  PROVE  IInv'
<1> DEFINE q == [Idle EXCEPT !.pc = "preserve", !.from = backup]
<1>1. backup \in Content /\ InOrder(backup)
  BY IInvParts DEF CopiesOK
<1>2. q \in Proc /\ q.pc = "preserve" /\ q.from = backup /\ q.kept = Idle.kept
  BY <1>1, IdleIsProc DEF Proc, Pcs
<1>3. ProcOK(q, content')
  BY <1>1, <1>2, IdleIsProc DEF ProcOK, Inside
<1>4. proc' = [proc EXCEPT ![p] = q]
  BY DEF Restore
<1>5. QED BY <1>3, <1>4, OneProcess, SameFiles, IInvParts DEF Restore, CopiesOK

LEMMA PreserveInv ==
  ASSUME IInv, NEW p \in Processes, Preserve(p)
  PROVE  IInv'
<1>1. proc[p] \in Proc /\ ProcOK(proc[p], content)
  BY IInvParts
<1>2. CASE copies' = copies /\ Fails(p)
  BY <1>2, FailsOK, OneProcess, SameFiles, IInvParts DEF Preserve, Fails, CopiesOK
<1>3. CASE /\ path # None
           /\ copies' = copies \cup {content[path]}
           /\ proc' = [proc EXCEPT ![p] = [@ EXCEPT !.pc = "remove", !.kept = content[path]]]
  <2>1. content[path] \in Content /\ InOrder(content[path])
    BY <1>3, IInvParts DEF FilesOK
  <2>2. PICK c \in Content : c = content[path]
    BY <2>1
  <2> DEFINE q == [proc[p] EXCEPT !.pc = "remove", !.kept = c]
  <2>3. q \in Proc /\ q.pc = "remove" /\ q.from = proc[p].from /\ q.kept = c
    <3>1. proc[p] \in Proc
      BY <1>1
    <3>2. QED BY ONLY <3>1 DEF Proc, Pcs
  <2>4. ProcOK(q, content')
    BY <1>1, <2>1, <2>2, <2>3 DEF ProcOK, Inside
  <2>5. proc' = [proc EXCEPT ![p] = q]
    BY <1>3, <2>2
  <2>6. CopiesOK(copies')
    BY <1>3, <2>1, IInvParts DEF CopiesOK
  <2>7. QED BY <2>4, <2>5, <2>6, OneProcess, SameFiles, IInvParts DEF Preserve
<1>4. QED BY <1>2, <1>3 DEF Preserve

LEMMA GoesOn ==
  ASSUME IInv, NEW p \in Processes, NEW pc \in {"remove", "copy", "undo", "redo"}, NEW c,
         Goto(p, pc)
  PROVE  \E q : proc' = [proc EXCEPT ![p] = q] /\ ProcOK(q, c)
<1>1. proc' = [proc EXCEPT ![p] = [proc[p] EXCEPT !.pc = pc]]
  BY DEF Goto
<1>2. QED BY <1>1, GotoOK

LEMMA RemoveDatabaseInv ==
  ASSUME IInv, NEW p \in Processes, RemoveDatabase(p)
  PROVE  IInv'
<1>1. PICK q : proc' = [proc EXCEPT ![p] = q] /\ ProcOK(q, content')
  BY GoesOn DEF RemoveDatabase
<1>2. FilesOK(content', path')
  BY IInvParts DEF RemoveDatabase, FilesOK
<1>3. \A f \in Files : content[f] # None =>
        content'[f] # None /\ Schema(content'[f]) >= Schema(content[f])
  <2>1. \A f \in Files : content[f] # None => Schema(content[f]) \in Nat
    BY IInvParts, LenProperties DEF Schema, Content, FilesOK
  <2>2. QED BY <2>1 DEF RemoveDatabase
<1>4. QED BY <1>1, <1>2, <1>3, OneProcess, IInvParts DEF RemoveDatabase, CopiesOK

LEMMA CopyInv ==
  ASSUME IInv, NEW p \in Processes, Copy(p)
  PROVE  IInv'
<1> DEFINE from == IF At(p, "copy") THEN proc[p].from ELSE proc[p].kept
           next == IF At(p, "copy") THEN "undo" ELSE "idle"
<1>1. proc[p] \in Proc /\ ProcOK(proc[p], content) /\ from \in Content /\ InOrder(from)
  BY IInvParts DEF ProcOK, Proc
<1>2. CASE Fails(p)
  <2>1. proc' = [proc EXCEPT ![p] = Idle] /\ ProcOK(Idle, content')
    BY <1>2, FailsOK DEF Fails
  <2>2. /\ FilesOK(content', path')
        /\ \A g \in Files : content[g] # None =>
             content'[g] # None /\ Schema(content'[g]) >= Schema(content[g])
    <3>1. CASE UNCHANGED <<content, path>>
      BY <3>1, SameFiles
    <3>2. CASE \E f \in Files : /\ content[f] = None /\ path' = f
                                /\ \/ content' = [content EXCEPT ![f] = from]
                                   \/ content' = [content EXCEPT ![f] = Broken]
      BY <3>2, <1>1, NewFile, BrokenIsContent
    <3>3. QED BY <3>1, <3>2 DEF Copy, Broken
  <2>3. QED BY <2>1, <2>2, OneProcess, IInvParts DEF Copy, CopiesOK
<1>3. CASE Goto(p, "undo")
  <2>1. PICK q : proc' = [proc EXCEPT ![p] = q] /\ ProcOK(q, content')
    BY <1>3, GoesOn
  <2>2. /\ FilesOK(content', path')
        /\ \A g \in Files : content[g] # None =>
             content'[g] # None /\ Schema(content'[g]) >= Schema(content[g])
    <3>1. CASE UNCHANGED <<content, path>>
      BY <3>1, SameFiles
    <3>2. CASE \E f \in Files : /\ content[f] = None /\ path' = f
                                /\ \/ content' = [content EXCEPT ![f] = from]
                                   \/ content' = [content EXCEPT ![f] = Broken]
      BY <3>2, <1>1, NewFile, BrokenIsContent
    <3>3. QED BY <3>1, <3>2 DEF Copy, Broken
  <2>3. QED BY <2>1, <2>2, OneProcess, IInvParts DEF Copy, CopiesOK
<1>4. QED BY <1>2, <1>3 DEF Copy

LEMMA KillInv ==
  ASSUME IInv, NEW p \in Processes, Kill(p)
  PROVE  IInv'
<1>1. proc' = [proc EXCEPT ![p] = Idle] /\ ProcOK(Idle, content')
  BY FailsOK DEF Kill, Fails
<1>2. /\ FilesOK(content', path')
      /\ \A g \in Files : content[g] # None =>
           content'[g] # None /\ Schema(content'[g]) >= Schema(content[g])
  <2>1. CASE UNCHANGED <<content, path>>
    BY <2>1, SameFiles
  <2>2. CASE \E f \in Files : /\ content[f] = None /\ path' = f
                              /\ content' = [content EXCEPT ![f] = Broken]
    BY <2>2, NewFile, BrokenIsContent
  <2>3. QED BY <2>1, <2>2 DEF Kill, Broken
<1>3. kills' \in 0..MaxKills
  BY IInvParts, BoundsAssumption DEF Kill
<1>4. QED BY <1>1, <1>2, <1>3, OneProcess, IInvParts DEF Kill, CopiesOK

LEMMA StutterInv ==
  ASSUME IInv, UNCHANGED vars
  PROVE  IInv'
BY DEF IInv, vars, TypeOK, AllInOrder, FilesExist, Upward

LEMMA StepInv == IInv /\ [Next]_vars => IInv'
<1> SUFFICES ASSUME IInv, [Next]_vars PROVE IInv'
  OBVIOUS
<1>1. CASE UNCHANGED vars
  BY <1>1, StutterInv
<1>2. CASE Next
  BY <1>2, OpenInv, ReadSchemaInv, CreateBackupInv, MigrateInv, WriteInv, CloseInv, RestoreInv,
     PreserveInv, RemoveDatabaseInv, CopyInv, KillInv DEF Next
<1>3. QED BY <1>1, <1>2

\* However the processes that open, migrate and restore the database interleave and are killed,
\* every file's migrations are in order, and what a process has open or copies exists.
THEOREM MigrationsInvariant == Spec => []IInv
<1>1. QED BY InitInv, StepInv, PTL DEF Spec

----------------------------------------------------------------------------
(* What follows *)

\* However many processes, of whatever versions, open the database at once and are killed,
\* each migration is applied once, after the one before it, and no process works on a
\* schema older than its own.
THEOREM MigrationsMigratedInOrder == Spec => []MigratedInOrder
<1>1. IInv => MigratedInOrder
  BY DEF IInv, AllInOrder, InOrder, Upward, MigratedInOrder, At, Mine
<1>2. QED BY MigrationsInvariant, <1>1, PTL

----------------------------------------------------------------------------
(* Nothing is lost *)

Restores == {"preserve", "remove", "copy", "undo", "redo"}

\* A restore is alone, and everybody works in the file at the path.
Alone ==
  \A p, q \in Processes : proc[p].pc \in Restores /\ q # p => proc[q] = Idle

AtPath == \A p \in Processes : proc[p].pc \in Inside => path = proc[p].file

\* Once the database is preserved, and whenever there is none, the copies have it all.
Kept == \A fact \in written : \E copy \in copies : fact \in copy.facts

CopiesSuffice ==
  \A p \in Processes : proc[p].pc \in {"remove", "copy", "undo", "redo"} => Kept

LInv == IInv /\ Alone /\ AtPath /\ CopiesSuffice /\ NothingIsLost

LEMMA LInitInv == Init => LInv
<1> SUFFICES ASSUME Init PROVE LInv
  OBVIOUS
<1>1. Alone /\ AtPath /\ CopiesSuffice
  BY IdleIsProc DEF Init, Alone, AtPath, CopiesSuffice, Restores, Inside
<1>2. NothingIsLost
  BY DEF Init, NothingIsLost
<1>3. QED BY InitInv, <1>1, <1>2 DEF LInv

\* A step that writes nothing and forgets no copy keeps what is kept.
LEMMA KeptStays ==
  ASSUME Kept, UNCHANGED written, copies \subseteq copies'
  PROVE  Kept'
BY DEF Kept

LEMMA KeptSuffices ==
  ASSUME Kept'
  PROVE  NothingIsLost'
BY DEF Kept, NothingIsLost

\* A process is idle again, and the files are as they were.
LEMMA LFails ==
  ASSUME LInv, IInv', NEW p \in Processes, Fails(p), UNCHANGED <<content, path, written>>,
         copies \subseteq copies'
  PROVE  LInv'
<1>1. proc \in [Processes -> Proc] /\ proc' = [proc EXCEPT ![p] = Idle] /\ Idle.pc = "idle"
  BY IInvParts, IdleIsProc DEF LInv, Fails
<1>2. Alone'
  BY <1>1 DEF LInv, Alone, Restores
<1>3. AtPath'
  BY <1>1 DEF LInv, AtPath, Inside
<1>4. CopiesSuffice'
  BY <1>1, KeptStays DEF LInv, CopiesSuffice
<1>5. NothingIsLost'
  BY DEF LInv, NothingIsLost
<1>6. QED BY <1>2, <1>3, <1>4, <1>5 DEF LInv

\* A process inside the database goes on inside it, while the facts of its file stay.
LEMMA LInside ==
  ASSUME LInv, IInv', NEW p \in Processes, NEW q, proc[p].pc \in Inside, q.pc \in Inside,
         q.file = proc[p].file, proc' = [proc EXCEPT ![p] = q], UNCHANGED path,
         written' \subseteq written \cup content'[proc[p].file].facts, copies \subseteq copies',
         content[proc[p].file].facts \subseteq content'[proc[p].file].facts
  PROVE  LInv'
<1>1. proc \in [Processes -> Proc]
  BY IInvParts DEF LInv
<1>2. path = proc[p].file /\ path # None
  <2>1. path = proc[p].file
    BY DEF LInv, AtPath
  <2>2. proc[p].file \in Files
    BY IInvParts DEF LInv, ProcOK
  <2>3. QED BY <2>1, <2>2, NoneAssumption
<1>3. \A r \in Processes : proc[r].pc \notin Restores
  BY IdleIsProc DEF LInv, Alone, Inside, Restores
<1>4. Alone'
  BY <1>1, <1>3 DEF LInv, Alone, Restores, Inside
<1>5. AtPath'
  BY <1>1, <1>2 DEF LInv, AtPath
<1>6. CopiesSuffice'
  BY <1>1, <1>3 DEF CopiesSuffice, Restores, Inside
<1>7. NothingIsLost'
  BY <1>2 DEF LInv, NothingIsLost
<1>8. QED BY <1>4, <1>5, <1>6, <1>7 DEF LInv

\* A restore goes on: it was alone, and the copies have everything.
LEMMA LRestores ==
  ASSUME LInv, IInv', NEW p \in Processes, NEW q, proc[p].pc \in Restores,
         q.pc \in {"remove", "copy", "undo", "redo", "idle"}, q.pc = "idle" => q = Idle,
         proc' = [proc EXCEPT ![p] = q], UNCHANGED written, Kept'
  PROVE  LInv'
<1>1. proc \in [Processes -> Proc]
  BY IInvParts DEF LInv
<1>2. \A r \in Processes : r # p => proc'[r] = Idle
  BY <1>1 DEF LInv, Alone
<1>3. Alone'
  BY <1>1, <1>2, IdleIsProc DEF Alone, Restores
<1>4. AtPath'
  BY <1>1, <1>2, IdleIsProc DEF AtPath, Inside
<1>5. CopiesSuffice'
  BY DEF CopiesSuffice
<1>6. NothingIsLost'
  BY KeptSuffices
<1>7. QED BY <1>3, <1>4, <1>5, <1>6 DEF LInv

\* What Goto does to a process.
LEMMA LGoto ==
  ASSUME LInv, NEW p \in Processes, NEW pc, Goto(p, pc)
  PROVE  \E q : q.pc = pc /\ q.file = proc[p].file /\ proc' = [proc EXCEPT ![p] = q]
<1> DEFINE q == [proc[p] EXCEPT !.pc = pc]
<1>1. q.pc = pc /\ q.file = proc[p].file
  <2>1. proc[p] \in Proc
    BY IInvParts DEF LInv
  <2>2. QED BY ONLY <2>1 DEF Proc
<1>2. proc' = [proc EXCEPT ![p] = q]
  BY DEF Goto
<1> HIDE DEF q
<1>3. QED BY <1>1, <1>2

LEMMA LOpen ==
  ASSUME StopsFirst, LInv, IInv', NEW p \in Processes, NEW v \in Versions, Open(p, v)
  PROVE  LInv'
<1>1. PICK f \in Files :
        /\ IF path = None
           THEN content[f] = None /\ content' = [content EXCEPT ![f] = Empty]
           ELSE f = path /\ UNCHANGED content
        /\ path' = f
        /\ proc' = [proc EXCEPT ![p] = [Idle EXCEPT !.pc = "read", !.version = v, !.file = f]]
  BY DEF Open
<1> DEFINE q == [Idle EXCEPT !.pc = "read", !.version = v, !.file = f]
<1>2. q.pc = "read" /\ q.file = f
  <2>1. Idle \in Proc
    BY IdleIsProc
  <2>2. QED BY ONLY <2>1 DEF Proc
<1>3. proc \in [Processes -> Proc] /\ \A r \in Processes : proc[r].pc \notin Restores
  BY IInvParts DEF LInv, Open, Restoring, Restores
<1>4. \A r \in Processes : proc'[r] = IF r = p THEN q ELSE proc[r]
  BY <1>1, <1>3
<1>5. Alone'
  BY <1>2, <1>3, <1>4 DEF Alone, Restores
<1>6. CopiesSuffice'
  BY <1>2, <1>3, <1>4 DEF CopiesSuffice, Restores
<1>7. AtPath'
  <2>1. ASSUME NEW r \in Processes, r # p, proc[r].pc \in Inside
        PROVE  path = proc[r].file /\ path # None
    BY <2>1, IInvParts, NoneAssumption DEF LInv, AtPath, ProcOK
  <2>2. QED BY <1>1, <1>2, <1>4, <2>1 DEF AtPath
<1>8. NothingIsLost'
  <2>1. CASE path = None
    BY <2>1 DEF LInv, NothingIsLost, Open
  <2>2. CASE path # None
    BY <1>1, <2>2 DEF LInv, NothingIsLost, Open
  <2>3. QED BY <2>1, <2>2
<1>9. QED BY <1>5, <1>6, <1>7, <1>8 DEF LInv

LEMMA LReadSchema ==
  ASSUME LInv, IInv', NEW p \in Processes, ReadSchema(p)
  PROVE  LInv'
<1>1. /\ proc[p] \in Proc /\ proc[p].pc \in Inside
      /\ UNCHANGED <<content, path, copies, written>>
  BY IInvParts DEF LInv, ReadSchema, At, Inside
<1>2. CASE Fails(p)
  BY <1>1, <1>2, LFails
<1>3. CASE Goto(p, "open")
  <2>1. PICK q : q.pc = "open" /\ q.file = proc[p].file /\ proc' = [proc EXCEPT ![p] = q]
    BY <1>3, LGoto
  <2>2. q.pc \in Inside
    BY <2>1 DEF Inside
  <2>3. QED BY <1>1, <2>1, <2>2, LInside
<1>4. CASE proc' = [proc EXCEPT ![p] = [@ EXCEPT !.pc = "backup", !.source = Schema(Mine(p))]]
  <2>1. PICK n : n = Schema(Mine(p))
    OBVIOUS
  <2> DEFINE r == [proc[p] EXCEPT !.pc = "backup", !.source = n]
  <2>2. r.pc = "backup" /\ r.file = proc[p].file
    BY ONLY <1>1 DEF Proc
  <2>3. proc' = [proc EXCEPT ![p] = r]
    BY <1>4, <2>1
  <2> HIDE DEF r
  <2>4. r.pc \in Inside
    BY <2>2 DEF Inside
  <2>5. QED BY <1>1, <2>2, <2>3, <2>4, LInside
<1>5. QED BY <1>2, <1>3, <1>4 DEF ReadSchema

LEMMA LCreateBackup ==
  ASSUME LInv, IInv', NEW p \in Processes, CreateBackup(p)
  PROVE  LInv'
<1>1. /\ proc[p].pc \in Inside /\ UNCHANGED <<content, path, written>>
      /\ copies \subseteq copies'
  BY DEF CreateBackup, At, Inside
<1>2. CASE Fails(p)
  BY <1>1, <1>2, LFails
<1>3. CASE Goto(p, "migrate")
  <2>1. PICK q : q.pc = "migrate" /\ q.file = proc[p].file /\ proc' = [proc EXCEPT ![p] = q]
    BY <1>3, LGoto
  <2>2. q.pc \in Inside
    BY <2>1 DEF Inside
  <2>3. QED BY <1>1, <2>1, <2>2, LInside
<1>4. QED BY <1>2, <1>3 DEF CreateBackup

LEMMA LMigrate ==
  ASSUME LInv, IInv', NEW p \in Processes, Migrate(p)
  PROVE  LInv'
<1> DEFINE f == proc[p].file
           target == proc[p].source + 1
<1>1. /\ proc[p] \in Proc /\ proc[p].pc \in Inside /\ f \in Files /\ content[f] \in Content
      /\ content \in [Files -> Content \cup {None}]
  BY IInvParts DEF LInv, Migrate, At, Inside, ProcOK, FilesOK
<1>2. CASE Fails(p) /\ UNCHANGED content
  BY <1>2, LFails DEF Migrate
<1>3. CASE content' = [content EXCEPT ![f].applied = Append(@, target)]
  <2>1. /\ content[f].facts \subseteq content'[f].facts
        /\ UNCHANGED <<path, copies, written>>
    BY <1>1, <1>3 DEF Content, Migrate
  <2>2. CASE Goto(p, "open")
    <3>1. PICK q : q.pc = "open" /\ q.file = f /\ proc' = [proc EXCEPT ![p] = q]
      BY <2>2, LGoto
    <3>2. q.pc \in Inside
      BY <3>1 DEF Inside
    <3>3. QED BY <1>1, <2>1, <3>1, <3>2, LInside
  <2>3. CASE proc' = [proc EXCEPT ![p].source = target]
    <3> DEFINE r == [proc[p] EXCEPT !.source = target]
    <3>1. r.pc = proc[p].pc /\ r.file = f
      <4>1. proc[p] \in Proc
        BY <1>1
      <4>2. QED BY ONLY <4>1 DEF Proc
    <3>2. proc' = [proc EXCEPT ![p] = r]
      BY <2>3
    <3> HIDE DEF r
    <3>3. QED BY <1>1, <2>1, <3>1, <3>2, LInside
  <2>4. QED
    BY <1>2, <1>3, <2>2, <2>3 DEF Migrate
<1>4. QED BY <1>2, <1>3 DEF Migrate

LEMMA LWrite ==
  ASSUME LInv, IInv', NEW p \in Processes, NEW fact \in Facts, Write(p, fact)
  PROVE  LInv'
<1> DEFINE f == proc[p].file
<1>1. /\ proc[p] \in Proc /\ proc[p].pc \in Inside /\ f \in Files /\ content[f] \in Content
      /\ content \in [Files -> Content \cup {None}]
  BY IInvParts DEF LInv, Write, At, Inside, ProcOK, FilesOK
<1>2. content'[f].facts = content[f].facts \cup {fact}
  BY <1>1 DEF Write, Content
<1>3. proc' = [proc EXCEPT ![p] = proc[p]]
  BY IInvParts DEF LInv, Write
<1>4. QED BY <1>1, <1>2, <1>3, LInside DEF Write

LEMMA LRestore ==
  ASSUME StopsFirst, LInv, IInv', NEW p \in Processes, NEW backup \in copies, Restore(p, backup)
  PROVE  LInv'
<1> DEFINE q == [Idle EXCEPT !.pc = "preserve", !.from = backup]
<1>1. q.pc = "preserve"
  <2>1. Idle \in Proc
    BY IdleIsProc
  <2>2. QED BY ONLY <2>1 DEF Proc
<1>2. \A r \in Processes : proc'[r] = IF r = p THEN q ELSE Idle
  BY IInvParts DEF LInv, Restore
<1>3. Alone' /\ AtPath' /\ CopiesSuffice'
  BY <1>1, <1>2, IdleIsProc DEF Alone, AtPath, CopiesSuffice, Restores, Inside
<1>4. NothingIsLost'
  BY DEF LInv, NothingIsLost, Restore
<1>5. QED BY <1>3, <1>4 DEF LInv

LEMMA LPreserve ==
  ASSUME LInv, IInv', NEW p \in Processes, Preserve(p)
  PROVE  LInv'
<1>1. CASE copies' = copies /\ Fails(p)
  BY <1>1, LFails DEF Preserve
<1>2. CASE /\ path # None
           /\ copies' = copies \cup {content[path]}
           /\ proc' = [proc EXCEPT ![p] = [@ EXCEPT !.pc = "remove", !.kept = content[path]]]
  <2>1. Kept'
    BY <1>2 DEF Kept, LInv, NothingIsLost, Preserve
  <2>2. PICK c : c = content[path]
    OBVIOUS
  <2> DEFINE r == [proc[p] EXCEPT !.pc = "remove", !.kept = c]
  <2>3. r.pc = "remove"
    <3>1. proc[p] \in Proc
      BY IInvParts DEF LInv
    <3>2. QED BY ONLY <3>1 DEF Proc
  <2>4. proc' = [proc EXCEPT ![p] = r]
    BY <1>2, <2>2
  <2>5. proc[p].pc \in Restores /\ UNCHANGED written
    BY DEF Preserve, At, Restores
  <2> HIDE DEF r
  <2>6. QED BY <2>1, <2>3, <2>4, <2>5, LRestores
<1>3. QED BY <1>1, <1>2 DEF Preserve

\* A restore that has preserved the database goes on or ends.
LEMMA LGoesOn ==
  ASSUME LInv, IInv', NEW p \in Processes, proc[p].pc \in {"remove", "copy", "undo", "redo"},
         NEW pc \in {"remove", "copy", "undo", "redo"}, Goto(p, pc) \/ Fails(p),
         UNCHANGED written, copies \subseteq copies'
  PROVE  LInv'
<1>1. Kept'
  BY KeptStays DEF LInv, CopiesSuffice
<1>2. proc[p].pc \in Restores
  BY DEF Restores
<1>3. CASE Fails(p)
  <2>1. proc' = [proc EXCEPT ![p] = Idle] /\ Idle.pc = "idle"
    BY <1>3, IdleIsProc DEF Fails
  <2>2. QED BY <1>1, <1>2, <2>1, LRestores
<1>4. CASE Goto(p, pc)
  <2>1. PICK q : q.pc = pc /\ q.file = proc[p].file /\ proc' = [proc EXCEPT ![p] = q]
    BY <1>4, LGoto
  <2>2. q.pc \in {"remove", "copy", "undo", "redo", "idle"} /\ q.pc # "idle"
    BY <2>1
  <2>3. QED BY <1>1, <1>2, <2>1, <2>2, LRestores
<1>5. QED BY <1>3, <1>4

LEMMA LKill ==
  ASSUME LInv, IInv', NEW p \in Processes, Kill(p)
  PROVE  LInv'
<1>1. CASE UNCHANGED <<content, path>>
  BY <1>1, LFails DEF Kill
<1>2. CASE At(p, "copy") \/ At(p, "redo")
  BY <1>2, LGoesOn DEF Kill, At
<1>3. QED BY <1>1, <1>2 DEF Kill

LEMMA LStepInv == StopsFirst /\ LInv /\ [Next]_vars => LInv'
<1> SUFFICES ASSUME StopsFirst, LInv, [Next]_vars PROVE LInv'
  OBVIOUS
<1>1. IInv'
  BY StepInv DEF LInv
<1>2. CASE UNCHANGED vars
  BY <1>1, <1>2
     DEF LInv, vars, Alone, AtPath, CopiesSuffice, Kept, NothingIsLost
<1>3. ASSUME NEW p \in Processes, Close(p) \/ RemoveDatabase(p) \/ Copy(p)
      PROVE  LInv'
  <2>1. CASE Close(p)
    BY <1>1, <2>1, LFails DEF Close
  <2>2. CASE RemoveDatabase(p)
    BY <1>1, <2>2, LGoesOn DEF RemoveDatabase, At
  <2>3. CASE Copy(p)
    BY <1>1, <2>3, LGoesOn DEF Copy, At
  <2>4. QED BY <1>3, <2>1, <2>2, <2>3
<1>4. CASE Next
  BY <1>1, <1>3, <1>4, LOpen, LReadSchema, LCreateBackup, LMigrate, LWrite, LRestore, LPreserve,
     LKill DEF Next
<1>5. QED BY <1>2, <1>4

\* What was committed is never lost, wherever migrations and restores fail or are killed,
\* provided that nothing runs beside a restore, as its help demands.
THEOREM MigrationsNothingIsLost == StopsFirst => (Spec => []NothingIsLost)
<1> SUFFICES ASSUME StopsFirst PROVE Spec => []NothingIsLost
  OBVIOUS
<1>1. LInv /\ [Next]_vars => LInv'
  BY LStepInv
<1>2. LInv => NothingIsLost
  BY DEF LInv
<1>3. QED BY LInitInv, <1>1, <1>2, PTL DEF Spec
=============================================================================
