----------------------------- MODULE RunImport ------------------------------
(***************************************************************************)
(* RunImportService.import_run with the normalization it ends in: several  *)
(* runs, whose agents write files while imports of the same and of other   *)
(* runs are under way, share the tables of companies, contacts and job     *)
(* postings.                                                               *)
(*                                                                         *)
(* An import is one transaction.  It takes the row of its run with its     *)
(* first write, so that two imports of one run follow each other; imports  *)
(* of different runs do not on PostgreSQL, where they see what the other   *)
(* has committed and wait for a row the other has written.                 *)
(*                                                                         *)
(* Files are numbered in the order of their paths.  A contact stands for a *)
(* fit evaluation too: both name a company of their own run by its         *)
(* external id and are skipped when a row with their own id exists.        *)
(***************************************************************************)
EXTENDS Integers, Sequences, FiniteSets

CONSTANTS
    Runs, Files,     \* Files: 1..n
    RunOf,           \* [Files -> Runs]
    KindOf,          \* [Files -> Kinds]
    IdOf,            \* the external id a file defines
    CompanyOf,       \* the company id a contact or a posting names
    Importers,       \* sessions
    Postgres,        \* FALSE: SQLite, one writing transaction at a time
    LongFiles,       \* files that are not written in one piece
    Rewrites,        \* may a file be written between its parsing and its hashing
    MaxVersions,     \* bound: how often a file is written
    MaxImports       \* bound

Kinds == {"company", "contact", "posting"}

ASSUME RunImportAssumption ==
    /\ IsFiniteSet(Files) /\ Files = 1..Cardinality(Files)
    /\ RunOf \in [Files -> Runs] /\ KindOf \in [Files -> Kinds]
    /\ DOMAIN IdOf = Files /\ DOMAIN CompanyOf = Files
    /\ LongFiles \subseteq Files /\ {Postgres, Rewrites} \subseteq BOOLEAN
    /\ {MaxVersions, MaxImports} \subseteq Nat /\ Runs # {}

VARIABLES
    disk,       \* what is in each file
    rows,       \* imported_files with their validation results, by run
    run,        \* runs.status
    entities,   \* companies, contacts, job_postings
    txn,        \* the imports under way
    covered,    \* history: runs imported to the end since they were written to
    used        \* how many imports have begun

vars == <<disk, rows, run, entities, txn, covered, used>>
-----------------------------------------------------------------------------
FilesOf(r) == {f \in Files : RunOf[f] = r}

(* The content of a file: its version, and whether it is complete.  Equal  *)
(* contents have equal hashes.                                             *)
Absent == [version |-> 0, whole |-> TRUE]
Contents == [version : 0..MaxVersions, whole : BOOLEAN]

(* "imported" stands for imported_with_errors too.                         *)
Statuses == {"created", "imported", "import_failed"}

(* parsed: the content that was validated and stored; sha: the content     *)
(* that was hashed.  File 0 is the row of an expected file that is missing *)
Rows == [file : Files \cup {0}, sha : Contents, parsed : Contents]

Missing == [file |-> 0, sha |-> Absent, parsed |-> [Absent EXCEPT !.whole = FALSE]]
Valid(x) == x.parsed.whole

(* of: the run whose file the row was last taken from.  company: the key   *)
(* of the company it is linked to.                                         *)
Unlinked == 0
Entities == [key : Nat, kind : Kinds, id : {IdOf[f] : f \in Files}, of : Runs,
             company : Nat, sources : SUBSET Runs]

Modes == {"partial", "final", "full"}  \* incremental, not finalized; incremental; neither

Idle == [at |-> "idle", run |-> CHOOSE r \in Runs : TRUE, mode |-> "full", todo |-> {},
         new |-> <<>>, queue |-> {}, pending |-> {}, deleted |-> {},
         written |-> {}, seen |-> {}, link |-> {}, quiet |-> TRUE]

Busy(p) == txn[p].at # "idle"

(* What an import knows of the run's files: a full one starts anew.        *)
OldRows(p) == IF txn[p].mode = "full" THEN <<>> ELSE rows[txn[p].run]
AllRows(p) == OldRows(p) \o txn[p].new

TypeOK ==
    /\ disk \in [Files -> Contents]
    /\ \A r \in Runs : rows[r] \in Seq(Rows)
    /\ run \in [Runs -> Statuses]
    /\ entities \subseteq Entities
    /\ \A e, x \in entities : e.key = x.key \/ <<e.kind, e.id>> = <<x.kind, x.id>> => e = x
    /\ \A p \in Importers :
          /\ txn[p].at \in {"idle", "clear", "read", "normalize", "write"}
          /\ txn[p].run \in Runs /\ txn[p].mode \in Modes /\ txn[p].todo \subseteq Files
          /\ txn[p].new \in Seq(Rows) /\ txn[p].queue \subseteq DOMAIN AllRows(p)
          /\ txn[p].written \subseteq Entities
    /\ covered \subseteq Runs
    /\ used \in 0..MaxImports

Init ==
    /\ disk = [f \in Files |-> Absent]
    /\ rows = [r \in Runs |-> <<>>]
    /\ run = [r \in Runs |-> "created"]
    /\ entities = {}
    /\ txn = [p \in Importers |-> Idle]
    /\ covered = {}
    /\ used = 0
-----------------------------------------------------------------------------
(* The agent writes a file in place: a long one is torn, then complete.    *)
Writable(f) == ~disk[f].whole \/ disk[f].version < MaxVersions
Written(f) ==
    IF disk[f].whole THEN [version |-> disk[f].version + 1, whole |-> f \notin LongFiles]
    ELSE [disk[f] EXCEPT !.whole = TRUE]

Noisy(imports, r) == [p \in Importers |-> [imports[p] EXCEPT !.quiet = @ /\ imports[p].run # r]]

Write(f) ==
    /\ Writable(f)
    /\ disk' = [disk EXCEPT ![f] = Written(f)]
    /\ covered' = covered \ {RunOf[f]}
    /\ txn' = Noisy(txn, RunOf[f])
    /\ UNCHANGED <<rows, run, entities, used>>

OnDisk(r) == {f \in FilesOf(r) : disk[f] # Absent}

(* What a transaction sees: what is committed, and what it changed itself. *)
Seen(p) ==
    {e \in entities : e.key \notin txn[p].deleted
                      /\ \A x \in txn[p].written : x.key # e.key} \cup txn[p].written
(* The run's row is written and the directory listed.                      *)
Begin(p, r, mode) ==
    /\ ~Busy(p) /\ used < MaxImports
    /\ \A q \in Importers \ {p} : Busy(q) => Postgres /\ txn[q].run # r
    /\ used' = used + 1
    /\ txn' = [txn EXCEPT ![p] =
                 [Idle EXCEPT !.at = IF mode = "full" THEN "clear" ELSE "read",
                              !.run = r, !.mode = mode, !.todo = OnDisk(r),
                              !.new = IF OnDisk(r) = {} THEN <<Missing>> ELSE <<>>]]
    /\ UNCHANGED <<disk, rows, run, entities, covered>>

(* There is no output directory.                                           *)
NoDirectory(r) ==
    /\ OnDisk(r) = {} /\ run[r] = "created" /\ \A q \in Importers : Busy(q) => txn[q].run # r
    /\ run' = [run EXCEPT ![r] = "import_failed"]
    /\ UNCHANGED <<disk, rows, entities, txn, covered, used>>

(* A full import first deletes the companies and contacts made from the    *)
(* run's files; nobody deletes postings.                                   *)
ToDelete(p) == {e \in entities : e.of = txn[p].run /\ e.kind # "posting"}

OnlyTheFiles(p) ==  \* mutant: the company of a contact or posting is no foreign key
    txn[p].at = "clear" /\ \E e \in entities \ ToDelete(p) : e.of = txn[p].run

(* A foreign key stops it when a row that stays points to a deleted one:   *)
(* to a company, or, from a posting, to the row of its file.               *)
ClearFails(p) ==
    /\ Postgres /\ txn[p].at = "clear"
    /\ \E e \in entities \ ToDelete(p) :
          e.of = txn[p].run \/ e.company \in {d.key : d \in ToDelete(p)}

Keys(S) == {e.key : e \in S}

(* q has written, deleted or linked to a row that p is about to change.    *)
Blocked(p, q) ==
    /\ p # q /\ Busy(q)
    /\ \/ /\ txn[p].at = "clear"
          /\ Keys(ToDelete(p)) \cap (Keys(txn[q].written) \cup {e.company : e \in txn[q].written}) # {}
       \/ /\ txn[p].at = "write"
          /\ \E e \in txn[p].pending :
                \/ \E x \in txn[q].written : <<x.kind, x.id>> = <<e.kind, e.id>>
                \/ \E x \in entities : x.key \in txn[q].deleted
                                       /\ (x.key = e.company \/ <<x.kind, x.id>> = <<e.kind, e.id>>)

Waits(p) == \E q \in Importers : Blocked(p, q)

Clear(p) ==
    /\ txn[p].at = "clear" /\ ~Waits(p) /\ ~ClearFails(p)
    /\ txn' = [txn EXCEPT ![p].at = "read", ![p].deleted = Keys(ToDelete(p))]
    /\ UNCHANGED <<disk, rows, run, entities, covered, used>>

KnownName(p, f) ==  \* mutant: a file is known by its name
    \E i \in DOMAIN OldRows(p) : OldRows(p)[i].file = f

(* A file is known when a row has its name and its hash.                   *)
Known(p, f) ==
    \E i \in DOMAIN OldRows(p) : OldRows(p)[i].file = f /\ OldRows(p)[i].sha = disk[f]

NextFile(p) == CHOOSE f \in txn[p].todo : \A g \in txn[p].todo : f <= g

(* A file that is not known is parsed and validated, then hashed and       *)
(* recorded.                                                               *)
Recorded(p, f, sha) ==
    [txn EXCEPT ![p].todo = @ \ {f},
                ![p].new = Append(@, [file |-> f, sha |-> sha, parsed |-> disk[f]])]

Read(p) ==
    /\ txn[p].at = "read" /\ txn[p].todo # {}
    /\ LET f == NextFile(p) IN
       \/ /\ txn' = IF Known(p, f) THEN [txn EXCEPT ![p].todo = @ \ {f}]
                    ELSE Recorded(p, f, disk[f])
          /\ UNCHANGED <<disk, covered>>
       \/ /\ Rewrites /\ ~Known(p, f) /\ Writable(f)  \* the agent comes between
          /\ disk' = [disk EXCEPT ![f] = Written(f)]
          /\ covered' = covered \ {RunOf[f]}
          /\ txn' = Noisy(Recorded(p, f, Written(f)), RunOf[f])
    /\ UNCHANGED <<rows, run, entities, used>>

NewRows(p) ==  \* mutant: only what this import has read is normalized
    {i \in DOMAIN AllRows(p) : Valid(AllRows(p)[i]) /\ i > Len(OldRows(p))}

(* All valid rows of the run are normalized again, companies first.        *)
ValidRows(p) == {i \in DOMAIN AllRows(p) : Valid(AllRows(p)[i])}

Turn == [company |-> 1, contact |-> 2, posting |-> 3]
TurnOf(p, i) == Turn[KindOf[AllRows(p)[i].file]]
NextRow(p) ==
    CHOOSE i \in txn[p].queue : \A j \in txn[p].queue :
        \/ TurnOf(p, i) < TurnOf(p, j)
        \/ TurnOf(p, i) = TurnOf(p, j) /\ i <= j

StartNormalizing(p) ==
    /\ txn[p].at = "read" /\ txn[p].todo = {}
    /\ txn' = [txn EXCEPT ![p].at = "normalize", ![p].queue = ValidRows(p)]
    /\ UNCHANGED <<disk, rows, run, entities, covered, used>>
-----------------------------------------------------------------------------
Named(S, kind, id) == {e \in S : e.kind = kind /\ e.id = id}
KeyOf(S) == IF S = {} THEN Unlinked ELSE (CHOOSE e \in S : TRUE).key

(* A contact is linked to a company this import has normalized, a posting  *)
(* to any company of the database.                                         *)
Company(p, f) ==
    KeyOf(Named(IF KindOf[f] = "contact" THEN txn[p].link ELSE Seen(p), "company", CompanyOf[f]))

(* The row a file leads to: a company is enriched with what is new, a      *)
(* contact is kept, a posting is overwritten.                              *)
Updated(p, f, e) ==
    CASE e.kind = "company" -> [e EXCEPT !.sources = @ \cup {txn[p].run}]
      [] e.kind = "contact" -> e
      [] e.kind = "posting" -> [e EXCEPT !.company = Company(p, f), !.of = txn[p].run]

Fresh(p, f) ==
    [key |-> 0, kind |-> KindOf[f], id |-> IdOf[f], of |-> txn[p].run, sources |-> {txn[p].run},
     company |-> IF KindOf[f] = "company" THEN Unlinked ELSE Company(p, f)]

Done(p, e) ==
    [txn[p] EXCEPT !.at = "normalize", !.queue = @ \ {NextRow(p)}, !.pending = {},
       !.seen = @ \cup {<<e.kind, e.id>>},
       !.link = IF e.kind = "company" THEN @ \cup {e} ELSE @]

(* The row of a company already there is shared; two files of one run that *)
(* define one company or contact are a duplicate, to review.               *)
Normalize(p) ==
    /\ txn[p].at = "normalize" /\ txn[p].queue # {}
    /\ LET f == AllRows(p)[NextRow(p)].file
           there == Named(Seen(p), KindOf[f], IdOf[f])
           Duplicate == [txn[p] EXCEPT !.queue = @ \ {NextRow(p)}]
           Want(e) == [txn[p] EXCEPT !.at = "write", !.pending = {e}]
       IN
       txn' = [txn EXCEPT ![p] =
         IF KindOf[f] # "posting" /\ <<KindOf[f], IdOf[f]>> \in txn[p].seen
         THEN Duplicate
         ELSE IF there = {} THEN Want(Fresh(p, f))
         ELSE LET e == CHOOSE e \in there : TRUE IN
              IF e.kind # "posting" /\ Updated(p, f, e) = e
              THEN Done(p, e) ELSE Want(Updated(p, f, e))]
    /\ UNCHANGED <<disk, rows, run, entities, covered, used>>

(* What became of it while the import waited, or before it wrote: a row    *)
(* with the id is there by now, or the row or its company is gone.         *)
WriteFails(p) ==
    /\ txn[p].at = "write"
    /\ \E e \in txn[p].pending :
          \/ e.key = 0 /\ Named(Seen(p), e.kind, e.id) # {}
          \/ e.key # 0 /\ e.key \notin Keys(Seen(p))
          \/ Postgres /\ e.company # Unlinked /\ e.company \notin Keys(Seen(p))

(* Primary keys are numbered on; any key that no row has or points to will *)
(* do for it.                                                              *)
InUse ==
    LET S == entities \cup UNION {txn[p].written \cup txn[p].pending \cup txn[p].link : p \in Importers}
    IN  Keys(S) \cup {e.company : e \in S} \cup UNION {txn[p].deleted : p \in Importers}
FreshKey == CHOOSE k \in 1..Cardinality(InUse) + 1 :
                k \notin InUse /\ \A j \in 1..k - 1 : j \in InUse

WriteRow(p) ==
    /\ txn[p].at = "write" /\ ~Waits(p) /\ ~WriteFails(p)
    /\ \E e \in txn[p].pending :
          LET row == IF e.key = 0 THEN [e EXCEPT !.key = FreshKey] ELSE e IN
          txn' = [txn EXCEPT ![p] = [Done(p, row) EXCEPT
                       !.written = {x \in @ : x.key # row.key} \cup {row}]]
    /\ UNCHANGED <<disk, rows, run, entities, covered, used>>

(* Everything is committed at once.  A partial import leaves the status.   *)
Finish(p) ==
    /\ txn[p].at = "normalize" /\ txn[p].queue = {}
    /\ LET r == txn[p].run IN
       /\ rows' = [rows EXCEPT ![r] = AllRows(p)]
       /\ entities' = Seen(p)
       /\ run' = [run EXCEPT ![r] = IF txn[p].mode = "partial" THEN @ ELSE "imported"]
       /\ covered' = IF txn[p].quiet THEN covered \cup {r} ELSE covered
    /\ txn' = [txn EXCEPT ![p] = Idle]
    /\ UNCHANGED <<disk, used>>

KeepsTheClear(p) ==  \* mutant: what was cleared stays cleared
    /\ entities' = {e \in entities : e.key \notin txn[p].deleted}
    /\ UNCHANGED rows

(* An exception rolls everything back and then marks the run.  It must     *)
(* come where the database refuses a statement, or picks the victim of a   *)
(* deadlock, and can come anywhere.                                        *)
RollBack(p) == UNCHANGED <<rows, entities>>

Fail(p) ==
    /\ Busy(p)
    /\ ~Waits(p) \/ \E q \in Importers : Blocked(p, q) /\ Blocked(q, p)
    /\ RollBack(p)
    /\ run' = [run EXCEPT ![txn[p].run] = "import_failed"]
    /\ txn' = [txn EXCEPT ![p] = Idle]
    /\ UNCHANGED <<disk, covered, used>>

Import(p) ==
    \/ \E r \in Runs, mode \in Modes : Begin(p, r, mode)
    \/ Clear(p) \/ Read(p) \/ StartNormalizing(p)
    \/ Normalize(p) \/ WriteRow(p) \/ Finish(p) \/ Fail(p)

Next == \/ \E p \in Importers : Import(p)
        \/ \E f \in Files : Write(f)
        \/ \E r \in Runs : NoDirectory(r)

Spec == Init /\ [][Next]_vars
-----------------------------------------------------------------------------
(* However often a run is imported, incrementally or not, by its watcher,  *)
(* its agent and the operator, each version of a file is imported once:    *)
(* no two rows of a run have the same name and content.                    *)
UnchangedOnce ==
    \A r \in Runs : \A i, j \in DOMAIN rows[r] :
        rows[r][i].file = rows[r][j].file /\ rows[r][i].sha = rows[r][j].sha
            /\ rows[r][i].file # 0 => i = j

(* A run that has been imported to the end since its agent last wrote has  *)
(* the present content of every file in its rows, and it is the content    *)
(* that was parsed.                                                        *)
NothingLost ==
    \A r \in covered : \A f \in OnDisk(r) :
        \E i \in DOMAIN rows[r] : rows[r][i].file = f /\ rows[r][i].parsed = disk[f]

(* A failing import leaves the rows and the entities of earlier imports as *)
(* they were, although a full import deletes them first.                   *)
PriorRowsKept ==
    [][\A r \in Runs : run[r] # "import_failed" /\ run'[r] = "import_failed"
                        => UNCHANGED <<rows, entities>>]_vars

Imported(r, id) ==
    \E i \in DOMAIN rows[r] : Valid(rows[r][i]) /\ rows[r][i].file # 0
        /\ KindOf[rows[r][i].file] = "company" /\ IdOf[rows[r][i].file] = id

(* A contact is linked the moment it appears exactly when its run has      *)
(* imported its company, in this import or an earlier one, and every link  *)
(* leads to the company it names.                                          *)
LinkedWhenKnown ==
    [][\A e \in entities' : e.kind = "contact" /\ e.key \notin Keys(entities) =>
          \A f \in Files : KindOf[f] = "contact" /\ IdOf[f] = e.id =>
              (e.company # Unlinked) = Imported(e.of, CompanyOf[f])']_vars

(* A link leads to a company that is still there, whichever run's full     *)
(* import deleted companies meanwhile.                                     *)
LinksResolve ==
    \A e \in entities : e.company # Unlinked =>
        \E c \in entities : c.key = e.company /\ c.kind = "company"

(* The rows of a run are those of its files, each version once and none    *)
(* left out, and an entity of one kind and id has one row.                 *)
RowsTrue == TypeOK /\ UnchangedOnce /\ NothingLost
=============================================================================
