-------------------------------- MODULE Migrations --------------------------------
(***************************************************************************)
(* The database file over its life: opening it with its migrations         *)
(* (migrate() in apps/cli/src/store/migrations.ts, called by the           *)
(* constructor of store/store.ts), the backup that precedes them, and      *)
(* `database restore` (store/restore.ts, cli/commands/database.ts).        *)
(*                                                                         *)
(* The processes of an installation, the daemon and commands, old and new  *)
(* versions of the program, share the file. Each statement of SQLite, and  *)
(* each operation on files, is an action: other processes come in between, *)
(* and any of them may be killed there. A process keeps the file that it   *)
(* opened, also when another takes that one's place.                       *)
(*                                                                         *)
(* What the tables hold is a set of facts. The scripts of the migrations   *)
(* keep them; that is SQL and not modelled. A backup or a preserved copy   *)
(* counts once it is complete. Foreign keys, file modes and the names of   *)
(* files are left out; a name that is taken is one of the reasons for      *)
(* which a copy fails.                                                     *)
(*                                                                         *)
(* A definition that no action uses is a defective variant of the one that *)
(* follows it, named for its defect. The mutation runs put it in that      *)
(* one's place to see a property fail.                                     *)
(***************************************************************************)
EXTENDS Naturals, Sequences, FiniteSets

CONSTANTS
  Processes,   \* processes that open the database or restore it
  Versions,    \* CURRENT_SCHEMA_VERSION of the program's versions
  Facts,       \* what is written into the tables
  Files,       \* files that are ever made at the database's path
  None,        \* no file
  StopsFirst,  \* "Stop the daemon first.": nothing runs beside a restore
  MaxKills     \* bound: processes that are killed in a behaviour

ASSUME VersionsAssumption ==
  Versions \subseteq Nat \ {0} /\ \E v \in Versions : \A w \in Versions : w <= v
ASSUME StopsFirstAssumption == StopsFirst \in BOOLEAN
ASSUME BoundsAssumption == MaxKills \in Nat

VARIABLES
  content,  \* of a file
  path,     \* the file at the database's path
  copies,   \* backups and preserved databases that are complete
  proc,     \* where a process is
  written,  \* facts that were committed
  kills     \* how often a process was killed

vars == <<content, path, copies, proc, written, kills>>

Latest == CHOOSE v \in Versions : \A w \in Versions : w <= v

\* What a file holds: its schema_migrations in the order they were applied, its facts.
Content == [applied : Seq(1..Latest), facts : SUBSET Facts, broken : BOOLEAN]
Empty == [applied |-> <<>>, facts |-> {}, broken |-> FALSE]

ASSUME NoneAssumption == None \notin Files /\ None \notin Content

Idle == [pc |-> "idle", version |-> Latest, file |-> None, source |-> 0,
         from |-> Empty, kept |-> Empty]

Pcs == {"idle", "read", "backup", "migrate", "open", "preserve", "remove", "copy", "undo", "redo"}

TypeOK ==
  /\ content \in [Files -> Content \cup {None}]
  /\ path \in Files \cup {None}
  /\ copies \subseteq Content
  /\ proc \in [Processes ->
       [pc : Pcs, version : Versions, file : Files \cup {None}, source : 0..Latest,
        from : Content, kept : Content]]
  /\ written \subseteq Facts
  /\ kills \in 0..MaxKills

Init ==
  /\ content = [f \in Files |-> None]
  /\ path = None
  /\ copies = {}
  /\ proc = [p \in Processes |-> Idle]
  /\ written = {}
  /\ kills = 0

----------------------------------------------------------------------------
(* Opening *)

At(p, pc) == proc[p].pc = pc
Goto(p, pc) == proc' = [proc EXCEPT ![p].pc = pc]
Fails(p) == proc' = [proc EXCEPT ![p] = Idle]
Restoring == {p \in Processes : proc[p].pc \in {"preserve", "remove", "copy", "undo", "redo"}}

\* new Database(filename, { create: true }): a file that is missing is made, and empty.
Open(p, v) ==
  /\ proc[p] = Idle
  /\ StopsFirst => Restoring = {}
  /\ \E f \in Files :
       /\ IF path = None
          THEN content[f] = None /\ content' = [content EXCEPT ![f] = Empty]
          ELSE f = path /\ UNCHANGED content
       /\ path' = f
       /\ proc' = [proc EXCEPT ![p] = [Idle EXCEPT !.pc = "read", !.version = v, !.file = f]]
  /\ UNCHANGED <<copies, written, kills>>

Mine(p) == content[proc[p].file]
Schema(file) == Len(file.applied)

\* migrate(): the version is read outside of any transaction. A newer one is refused; a
\* file that was copied in part does not open.
ReadSchema(p) ==
  /\ At(p, "read")
  /\ IF Mine(p).broken \/ Schema(Mine(p)) > proc[p].version THEN Fails(p)
     ELSE IF Schema(Mine(p)) = proc[p].version THEN Goto(p, "open")
     ELSE proc' = [proc EXCEPT ![p] = [@ EXCEPT !.pc = "backup", !.source = Schema(Mine(p))]]
  /\ UNCHANGED <<content, path, copies, written, kills>>

\* createBackup(), which may fail.
CreateBackup(p) ==
  /\ At(p, "backup")
  /\ \/ copies' = copies \cup {Mine(p)} /\ Goto(p, "migrate")
     \/ copies' = copies /\ Fails(p)
  /\ UNCHANGED <<content, path, written, kills>>

\* A migration whose number is in schema_migrations, or which does not follow the last.
ConflictsNever(applied, target) == FALSE

\* The version is a primary key, and a script fails on a schema it is not for.
Conflicts(applied, target) == target # Len(applied) + 1

\* The next migration from the version that was read, in a transaction of its own.
Migrate(p) ==
  LET target == proc[p].source + 1
  IN  /\ At(p, "migrate")
      /\ IF Conflicts(Mine(p).applied, target) THEN Fails(p) /\ UNCHANGED content
         ELSE /\ content' = [content EXCEPT ![proc[p].file].applied = Append(@, target)]
              /\ IF target = proc[p].version THEN Goto(p, "open")
                 ELSE proc' = [proc EXCEPT ![p].source = target]
      /\ UNCHANGED <<path, copies, written, kills>>

\* The process writes into the file it opened, also when that is no more at the path.
Write(p, fact) ==
  /\ At(p, "open") /\ fact \notin written
  /\ written' = written \cup {fact}
  /\ content' = [content EXCEPT ![proc[p].file].facts = @ \cup {fact}]
  /\ UNCHANGED <<path, copies, proc, kills>>

Close(p) ==
  /\ At(p, "open")
  /\ Fails(p)
  /\ UNCHANGED <<content, path, copies, written, kills>>

----------------------------------------------------------------------------
(* restoreDatabase() *)

\* The database and the backup must be there.
Restore(p, backup) ==
  /\ proc[p] = Idle
  /\ StopsFirst => \A q \in Processes : proc[q] = Idle
  /\ path # None /\ backup \in copies
  /\ proc' = [proc EXCEPT ![p] = [Idle EXCEPT !.pc = "preserve", !.from = backup]]
  /\ UNCHANGED <<content, path, copies, written, kills>>

RestoreWithoutPreserving(p) ==
  /\ At(p, "preserve")
  /\ Goto(p, "remove")
  /\ UNCHANGED <<content, path, copies, written, kills>>

\* copyDatabase() of the current database, which may fail.
Preserve(p) ==
  /\ At(p, "preserve")
  /\ \/ /\ path # None /\ ~content[path].broken
        /\ copies' = copies \cup {content[path]}
        /\ proc' = [proc EXCEPT ![p] = [@ EXCEPT !.pc = "remove", !.kept = content[path]]]
     \/ copies' = copies /\ Fails(p)
  /\ UNCHANGED <<content, path, written, kills>>

RemoveDatabase(p) ==
  /\ \/ At(p, "remove") /\ Goto(p, "copy")
     \/ At(p, "undo") /\ Goto(p, "redo")
  /\ path' = None
  /\ UNCHANGED <<content, copies, written, kills>>

\* copyDatabase() of the backup, or of the preserved database when that failed: a copy
\* that fails leaves a part of it, or nothing. The destination must not exist.
Copy(p) ==
  LET from == IF At(p, "copy") THEN proc[p].from ELSE proc[p].kept
      next == IF At(p, "copy") THEN "undo" ELSE "idle"
  IN  /\ At(p, "copy") \/ At(p, "redo")
      /\ \/ /\ path = None
            /\ \E f \in Files :
                 /\ content[f] = None
                 /\ path' = f
                 /\ \/ content' = [content EXCEPT ![f] = from] /\ Fails(p)
                    \/ /\ content' = [content EXCEPT ![f] = [Empty EXCEPT !.broken = TRUE]]
                       /\ IF next = "idle" THEN Fails(p) ELSE Goto(p, next)
         \/ /\ UNCHANGED <<content, path>>
            /\ IF next = "idle" THEN Fails(p) ELSE Goto(p, next)
      /\ UNCHANGED <<copies, written, kills>>

----------------------------------------------------------------------------

\* The process is killed; a copy it was at is left in part.
Kill(p) ==
  /\ proc[p] # Idle /\ kills < MaxKills
  /\ kills' = kills + 1
  /\ Fails(p)
  /\ \/ UNCHANGED <<content, path>>
     \/ /\ At(p, "copy") \/ At(p, "redo")
        /\ path = None
        /\ \E f \in Files :
             /\ content[f] = None
             /\ content' = [content EXCEPT ![f] = [Empty EXCEPT !.broken = TRUE]]
             /\ path' = f
  /\ UNCHANGED <<copies, written>>

Next ==
  \E p \in Processes :
    \/ \E v \in Versions : Open(p, v)
    \/ ReadSchema(p) \/ CreateBackup(p) \/ Migrate(p) \/ Close(p)
    \/ \E fact \in Facts : Write(p, fact)
    \/ \E backup \in copies : Restore(p, backup)
    \/ Preserve(p) \/ RemoveDatabase(p) \/ Copy(p) \/ Kill(p)

Spec == Init /\ [][Next]_vars

----------------------------------------------------------------------------
(* Properties *)

\* What was ever committed is in the database or in a complete copy beside it, wherever a
\* migration or a restore failed or was killed. (Not so when the daemon runs during a
\* restore: it writes into a file that is gone.)
NothingIsLost ==
  \A fact \in written :
    \/ path # None /\ fact \in content[path].facts
    \/ \E copy \in copies : fact \in copy.facts

\* However many processes, of whatever versions, open the database at once, and wherever
\* they are killed: each migration is applied once, after the one before it, and a process
\* that works on the database finds no older schema than its own.
MigratedInOrder ==
  /\ \A f \in Files : content[f] # None =>
       \A i \in DOMAIN content[f].applied : content[f].applied[i] = i
  /\ \A p \in Processes : At(p, "open") => Schema(Mine(p)) >= proc[p].version
=============================================================================
