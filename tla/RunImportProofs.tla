-------------------------- MODULE RunImportProofs ---------------------------
(***************************************************************************)
(* Proofs about RunImport: the rows of a run are those of its files, an    *)
(* entity has one row, a failing import keeps what was there, and a link   *)
(* leads to the company it names, for any number of runs, files and        *)
(* sessions.                                                               *)
(***************************************************************************)
EXTENDS RunImport, FiniteSetTheorems, SequenceTheorems, WellFoundedInduction, TLAPS

Ats == {"idle", "clear", "read", "normalize", "write"}
Ids == {IdOf[f] : f \in Files}

(* The row of a missing file is not valid.                                 *)
FileRows == {x \in Rows : Valid(x) => x.file \in Files}

(* An import under way, column by column.                                  *)
Txn == [at : Ats, run : Runs, mode : Modes, todo : SUBSET Files, new : Seq(FileRows),
        queue : SUBSET Nat, pending : SUBSET Entities, deleted : SUBSET Nat,
        written : SUBSET Entities, seen : SUBSET (Kinds \X Ids),
        link : SUBSET Entities, quiet : BOOLEAN]

Typed ==
    /\ disk \in [Files -> Contents]
    /\ rows \in [Runs -> Seq(FileRows)]
    /\ run \in [Runs -> Statuses]
    /\ entities \subseteq Entities
    /\ txn \in [Importers -> Txn]
    /\ covered \subseteq Runs
    /\ used \in 0..MaxImports

(* The entity a file stands for.                                           *)
FileOf(p, i) == AllRows(p)[i].file
Defines(f, e) == e.kind = KindOf[f] /\ e.id = IdOf[f]

(* What an import holds at each point of its way.                          *)
Phased(p) ==
    /\ txn[p].at \in {"idle", "clear", "read"} =>
          /\ txn[p].written = {} /\ txn[p].link = {} /\ txn[p].seen = {}
          /\ txn[p].queue = {}
    /\ txn[p].at \in {"idle", "clear"} \/ txn[p].mode # "full" => txn[p].deleted = {}
    /\ txn[p].at = "idle" => txn[p].mode = "full" /\ txn[p].new = <<>>
    /\ txn[p].at = "clear" => txn[p].mode = "full"
    /\ txn[p].at # "write" => txn[p].pending = {}
    /\ txn[p].at = "write" =>
          /\ txn[p].queue # {}
          /\ \E e \in Entities : txn[p].pending = {e} /\ Defines(FileOf(p, NextRow(p)), e)
    /\ txn[p].at \in {"normalize", "write"} => txn[p].todo = {}
    /\ txn[p].queue \subseteq ValidRows(p)

(* Imports of one run follow each other, and on SQLite all imports do.     *)
Alone == \A p, q \in Importers :
            p # q /\ Busy(p) /\ Busy(q) => Postgres /\ txn[p].run # txn[q].run

ImportInv == Typed /\ Alone /\ \A p \in Importers : Phased(p)
-----------------------------------------------------------------------------
(* Every set of numbers that is not empty has a least one.                 *)
LEMMA LeastNumber ==
    ASSUME NEW T \in SUBSET Nat, T # {}
    PROVE  \E n \in T : \A m \in T : n <= m
<1> DEFINE R == OpToRel(<, Nat)
<1>1. IsWellFoundedOn(R, Nat)
  BY NatLessThanWellFounded
<1>2. \A m, n \in Nat : m < n => <<m, n>> \in R
  BY DEF OpToRel
<1> HIDE DEF R
<1>3. PICK n \in T : \A m \in T : ~(<<m, n>> \in R)
  BY <1>1, WFMin
<1>4. n \in Nat /\ \A m \in T : m \in Nat /\ ~(m < n)
  BY <1>2, <1>3
<1>5. \A m \in T : n <= m
  BY <1>4
<1>6. QED
  BY <1>3, <1>5

(* Files are numbers from 1.                                               *)
LEMMA FileNumbers == Files \subseteq Nat \ {0} /\ RunOf \in [Files -> Runs]
                     /\ KindOf \in [Files -> Kinds] /\ MaxImports \in Nat
<1>1. Cardinality(Files) \in Nat
  BY RunImportAssumption, FS_CardinalityType
<1>2. QED
  BY <1>1, RunImportAssumption

(* The row of a missing file.                                              *)
LEMMA MissingRow ==
    /\ Missing \in FileRows /\ Missing.file = 0 /\ ~Valid(Missing)
    /\ Absent \in Contents
<1>1. MaxVersions \in Nat
  BY RunImportAssumption
<1>2. Absent \in Contents
  BY <1>1 DEF Absent, Contents
<1>3. /\ [Absent EXCEPT !.whole = FALSE] \in Contents
      /\ [Absent EXCEPT !.whole = FALSE].whole = FALSE
  BY <1>2 DEF Absent, Contents
<1>4. QED
  BY <1>2, <1>3 DEF Missing, FileRows, Rows, Valid

(* An import that is not under way.                                        *)
LEMMA IdleRow ==
    /\ Idle \in Txn /\ Idle.at = "idle" /\ Idle.mode = "full" /\ Idle.new = <<>>
    /\ Idle.todo = {} /\ Idle.queue = {} /\ Idle.pending = {} /\ Idle.deleted = {}
    /\ Idle.written = {} /\ Idle.seen = {} /\ Idle.link = {} /\ Idle.quiet = TRUE
<1>1. (CHOOSE r \in Runs : TRUE) \in Runs
  BY RunImportAssumption
<1>2. <<>> \in Seq(FileRows)
  BY EmptySeq
<1>3. QED
  BY <1>1, <1>2 DEF Idle, Txn, Ats, Modes

(* The rows an import knows: first the old ones, then the new ones.        *)
LEMMA RowsOf ==
    ASSUME Typed, NEW p \in Importers
    PROVE  /\ OldRows(p) \in Seq(FileRows) /\ txn[p].new \in Seq(FileRows)
           /\ AllRows(p) \in Seq(FileRows)
           /\ DOMAIN AllRows(p) = 1..(Len(OldRows(p)) + Len(txn[p].new))
           /\ DOMAIN AllRows(p) \subseteq Nat
           /\ \A i \in DOMAIN AllRows(p) :
                 /\ AllRows(p)[i] \in FileRows
                 /\ AllRows(p)[i] = IF i <= Len(OldRows(p)) THEN OldRows(p)[i]
                                    ELSE txn[p].new[i - Len(OldRows(p))]
<1>1. txn[p].new \in Seq(FileRows) /\ txn[p].run \in Runs
  BY DEF Typed, Txn
<1>2. OldRows(p) \in Seq(FileRows)
  BY <1>1, EmptySeq DEF OldRows, Typed
<1>3. QED
  BY <1>1, <1>2, ConcatProperties, ElementOfSeq DEF AllRows

(* A valid row is one of a file.                                           *)
LEMMA ValidIsFile ==
    ASSUME Typed, NEW p \in Importers, NEW i \in ValidRows(p)
    PROVE  FileOf(p, i) \in Files /\ i \in Nat
BY RowsOf DEF ValidRows, FileOf, FileRows

(* The row whose turn it is, is one of the queue, and none of an earlier   *)
(* turn is left in it.                                                     *)
LEMMA NextRowIs ==
    ASSUME Typed, NEW p \in Importers, txn[p].queue # {}, txn[p].queue \subseteq ValidRows(p)
    PROVE  /\ NextRow(p) \in txn[p].queue /\ FileOf(p, NextRow(p)) \in Files
           /\ \A j \in txn[p].queue : TurnOf(p, NextRow(p)) <= TurnOf(p, j)
<1> DEFINE Q == txn[p].queue
           turns == {TurnOf(p, i) : i \in Q}
<1>1. \A i \in Q : i \in Nat /\ FileOf(p, i) \in Files /\ TurnOf(p, i) \in Nat
  <2>1. \A k \in Kinds : Turn[k] \in Nat
    BY DEF Kinds, Turn
  <2>2. \A i \in Q : i \in Nat /\ FileOf(p, i) \in Files /\ KindOf[FileOf(p, i)] \in Kinds
    BY ValidIsFile, FileNumbers
  <2>3. QED
    BY <2>1, <2>2 DEF TurnOf, FileOf
<1>2. PICK n \in turns : \A m \in turns : n <= m
  <2>1. turns \in SUBSET Nat /\ turns # {}
    BY <1>1
  <2>2. QED
    BY <2>1, LeastNumber
<1> DEFINE first == {i \in Q : TurnOf(p, i) = n}
<1>3. PICK i \in first : \A j \in first : i <= j
  <2>1. first \in SUBSET Nat /\ first # {}
    BY <1>1, <1>2
  <2>2. QED
    BY <2>1, LeastNumber
<1> HIDE DEF Q
<1>4. \A j \in Q : \/ TurnOf(p, i) < TurnOf(p, j)
                   \/ TurnOf(p, i) = TurnOf(p, j) /\ i <= j
  BY <1>1, <1>2, <1>3
<1>5. /\ NextRow(p) \in Q
      /\ \A j \in Q : \/ TurnOf(p, NextRow(p)) < TurnOf(p, j)
                      \/ TurnOf(p, NextRow(p)) = TurnOf(p, j) /\ NextRow(p) <= j
  <2>1. i \in Q
    BY <1>3
  <2>2. QED
    BY <1>4, <2>1 DEF NextRow, Q
<1>6. QED
  BY <1>1, <1>5 DEF Q

(* The next file is one of those to do.                                    *)
LEMMA NextFileIs ==
    ASSUME Typed, NEW p \in Importers, txn[p].todo # {}
    PROVE  NextFile(p) \in txn[p].todo /\ NextFile(p) \in Files
<1>1. txn[p].todo \in SUBSET Files /\ txn[p].todo \in SUBSET Nat
  BY FileNumbers DEF Typed, Txn
<1>2. \E f \in txn[p].todo : \A g \in txn[p].todo : f <= g
  BY <1>1, LeastNumber
<1>3. QED
  BY <1>1, <1>2 DEF NextFile
-----------------------------------------------------------------------------
(* What a step of one import leaves of another: all but the note of writes.*)
Alike(q) ==
    /\ txn'[q].at = txn[q].at /\ txn'[q].run = txn[q].run /\ txn'[q].mode = txn[q].mode
    /\ txn'[q].todo = txn[q].todo /\ txn'[q].new = txn[q].new
    /\ txn'[q].queue = txn[q].queue /\ txn'[q].pending = txn[q].pending
    /\ txn'[q].deleted = txn[q].deleted /\ txn'[q].written = txn[q].written
    /\ txn'[q].seen = txn[q].seen /\ txn'[q].link = txn[q].link

OnlyOf(p) == txn' \in [Importers -> Txn] /\ \A q \in Importers \ {p} : txn'[q] = txn[q]

(* What stays of an import while it goes on.                               *)
Keeps(p) ==
    /\ txn'[p].run = txn[p].run /\ txn'[p].mode = txn[p].mode
    /\ txn'[p].deleted = txn[p].deleted

Reads(p) ==
    /\ Keeps(p) /\ txn'[p].at = txn[p].at /\ txn'[p].queue = txn[p].queue
    /\ txn'[p].pending = txn[p].pending /\ txn'[p].written = txn[p].written
    /\ txn'[p].seen = txn[p].seen /\ txn'[p].link = txn[p].link

(* What normalizing leaves alone.                                          *)
Files0(p) ==
    /\ Keeps(p) /\ txn'[p].todo = txn[p].todo /\ txn'[p].new = txn[p].new
    /\ txn'[p].quiet = txn[p].quiet

(* One column of txn replaced.                                             *)
LEMMA Replaced ==
    ASSUME Typed, NEW p \in Importers, NEW x \in Txn, txn' = [txn EXCEPT ![p] = x]
    PROVE  OnlyOf(p) /\ txn'[p] = x
BY DEF Typed, OnlyOf

(* An import begins with the list of its run's files.                      *)
LEMMA BeginEffect ==
    ASSUME Typed, NEW p \in Importers, NEW r \in Runs, NEW mode \in Modes, Begin(p, r, mode)
    PROVE  /\ OnlyOf(p)
           /\ txn'[p].at = IF mode = "full" THEN "clear" ELSE "read"
           /\ txn'[p].run = r /\ txn'[p].mode = mode /\ txn'[p].todo = OnDisk(r)
           /\ txn'[p].new = IF OnDisk(r) = {} THEN <<Missing>> ELSE <<>>
           /\ txn'[p].queue = {} /\ txn'[p].pending = {} /\ txn'[p].deleted = {}
           /\ txn'[p].written = {} /\ txn'[p].seen = {} /\ txn'[p].link = {}
           /\ txn'[p].quiet = TRUE
<1> DEFINE at == IF mode = "full" THEN "clear" ELSE "read"
           new == IF OnDisk(r) = {} THEN <<Missing>> ELSE <<>>
<1>1. PICK x : x = [Idle EXCEPT !.at = at, !.run = r, !.mode = mode,
                                !.todo = OnDisk(r), !.new = new]
  OBVIOUS
<1>2. at \in Ats /\ new \in Seq(FileRows) /\ OnDisk(r) \in SUBSET Files
  <2>1. <<Missing>> \in Seq(FileRows) /\ <<>> \in Seq(FileRows)
    BY MissingRow, EmptySeq
  <2>2. QED
    BY <2>1 DEF Ats, OnDisk, FilesOf
<1>3. txn' = [txn EXCEPT ![p] = x]
  BY <1>1 DEF Begin
<1> HIDE DEF at, new
<1>4. x \in Txn
  BY <1>1, <1>2, IdleRow DEF Txn
<1>5. /\ x.at = at /\ x.run = r /\ x.mode = mode /\ x.todo = OnDisk(r) /\ x.new = new
      /\ x.queue = {} /\ x.pending = {} /\ x.deleted = {}
      /\ x.written = {} /\ x.seen = {} /\ x.link = {} /\ x.quiet = TRUE
  BY <1>1, IdleRow DEF Txn
<1>6. QED
  BY <1>3, <1>4, <1>5, Replaced DEF at, new

(* A full import has deleted what came from its run.                       *)
LEMMA ClearEffect ==
    ASSUME Typed, NEW p \in Importers, Clear(p)
    PROVE  /\ OnlyOf(p)
           /\ txn'[p].run = txn[p].run /\ txn'[p].mode = txn[p].mode
           /\ txn'[p].todo = txn[p].todo /\ txn'[p].new = txn[p].new
           /\ txn'[p].quiet = txn[p].quiet /\ txn'[p].queue = txn[p].queue
           /\ txn'[p].pending = txn[p].pending /\ txn'[p].written = txn[p].written
           /\ txn'[p].seen = txn[p].seen /\ txn'[p].link = txn[p].link
           /\ txn[p].at = "clear" /\ txn'[p].at = "read"
           /\ txn'[p].deleted = Keys(ToDelete(p))
<1>1. PICK x : x = [txn[p] EXCEPT !.at = "read", !.deleted = Keys(ToDelete(p))]
  OBVIOUS
<1>2. txn[p] \in Txn /\ Keys(ToDelete(p)) \in SUBSET Nat
  BY DEF Typed, Keys, ToDelete, Entities
<1>3. x \in Txn
  BY <1>1, <1>2 DEF Txn, Ats
<1>4. txn' = [txn EXCEPT ![p] = x]
  BY <1>1 DEF Clear, Typed
<1>5. /\ x.run = txn[p].run /\ x.mode = txn[p].mode /\ x.todo = txn[p].todo
      /\ x.new = txn[p].new /\ x.quiet = txn[p].quiet /\ x.queue = txn[p].queue
      /\ x.pending = txn[p].pending /\ x.written = txn[p].written
      /\ x.seen = txn[p].seen /\ x.link = txn[p].link
      /\ x.at = "read" /\ x.deleted = Keys(ToDelete(p))
  BY <1>1, <1>2 DEF Txn
<1>6. QED
  BY <1>3, <1>4, <1>5, Replaced DEF Clear

(* What an agent writes is a content, and leaves no import but a note.     *)
LEMMA WrittenTyped ==
    ASSUME Typed, NEW f \in Files, Writable(f)
    PROVE  Written(f) \in Contents
<1>1. disk[f] \in Contents /\ MaxVersions \in Nat /\ (f \notin LongFiles) \in BOOLEAN
  BY RunImportAssumption DEF Typed
<1>2. CASE disk[f].whole
  BY <1>1, <1>2 DEF Written, Writable, Contents
<1>3. CASE ~disk[f].whole
  BY <1>1, <1>3 DEF Written, Contents
<1>4. QED
  BY <1>2, <1>3

(* A file is read: known, or recorded after the rows there are.            *)
LEMMA ReadEffect ==
    ASSUME Typed, NEW p \in Importers, Read(p)
    PROVE  /\ txn' \in [Importers -> Txn] /\ Reads(p) /\ txn[p].at = "read"
           /\ \A q \in Importers \ {p} : Alike(q)
           /\ txn[p].todo # {} /\ txn'[p].todo = txn[p].todo \ {NextFile(p)}
           /\ \/ txn'[p].new = txn[p].new /\ disk' = disk /\ Known(p, NextFile(p))
              \/ \E sha \in Contents :
                    /\ txn'[p].new = Append(txn[p].new, [file |-> NextFile(p), sha |-> sha,
                                                        parsed |-> disk[NextFile(p)]])
                    /\ ~Known(p, NextFile(p))
                    /\ \/ sha = disk[NextFile(p)] /\ disk' = disk
                       \/ /\ sha = Written(NextFile(p)) /\ Writable(NextFile(p))
                          /\ disk' = [disk EXCEPT ![NextFile(p)] = sha]
           /\ ~Rewrites => /\ OnlyOf(p) /\ disk' = disk /\ covered' = covered
                           /\ txn'[p].quiet = txn[p].quiet
                           /\ \/ Known(p, NextFile(p)) /\ txn'[p].new = txn[p].new
                              \/ /\ ~Known(p, NextFile(p))
                                 /\ txn'[p].new = Append(txn[p].new,
                                       [file |-> NextFile(p), sha |-> disk[NextFile(p)],
                                        parsed |-> disk[NextFile(p)]])
<1> DEFINE f == NextFile(p)
           row(sha) == [file |-> f, sha |-> sha, parsed |-> disk[f]]
<1>0. txn[p] \in Txn /\ txn[p].new \in Seq(FileRows) /\ txn[p].at = "read" /\ txn[p].todo # {}
  BY DEF Typed, Txn, Read
<1>1. f \in Files /\ disk[f] \in Contents
  BY <1>0, NextFileIs DEF Typed
<1>2. \A sha \in Contents : row(sha) \in FileRows
  BY <1>1 DEF FileRows, Rows
<1>3. \A sha \in Contents : Append(txn[p].new, row(sha)) \in Seq(FileRows)
  BY <1>0, <1>2
<1>4. ASSUME Known(p, f), txn' = [txn EXCEPT ![p].todo = @ \ {f}], disk' = disk, covered' = covered
      PROVE  /\ OnlyOf(p) /\ Reads(p) /\ txn'[p].quiet = txn[p].quiet
             /\ txn'[p].todo = txn[p].todo \ {f} /\ txn'[p].new = txn[p].new
  <2>1. PICK x : x = [txn[p] EXCEPT !.todo = @ \ {f}]
    OBVIOUS
  <2>2. x \in Txn
    BY <1>0, <2>1 DEF Txn
  <2>3. txn' = [txn EXCEPT ![p] = x]
    BY <1>4, <2>1 DEF Typed
  <2>4. /\ x.todo = txn[p].todo \ {f} /\ x.new = txn[p].new /\ x.at = txn[p].at
        /\ x.run = txn[p].run /\ x.mode = txn[p].mode
        /\ x.queue = txn[p].queue /\ x.pending = txn[p].pending
        /\ x.deleted = txn[p].deleted /\ x.written = txn[p].written
        /\ x.seen = txn[p].seen /\ x.link = txn[p].link
        /\ x.quiet = txn[p].quiet
    BY <1>0, <2>1 DEF Txn
  <2> HIDE DEF f
  <2>5. QED
    BY <2>2, <2>3, <2>4, <1>4, Replaced DEF Reads, Keeps
<1>5. ASSUME NEW sha \in Contents
      PROVE  /\ Recorded(p, f, sha) \in [Importers -> Txn]
             /\ \A q \in Importers \ {p} : Recorded(p, f, sha)[q] = txn[q]
             /\ \E x \in Txn : /\ Recorded(p, f, sha)[p] = x
                              /\ x.todo = txn[p].todo \ {f} /\ x.new = Append(txn[p].new, row(sha))
                              /\ x.at = txn[p].at /\ x.run = txn[p].run /\ x.mode = txn[p].mode
                              /\ x.queue = txn[p].queue /\ x.pending = txn[p].pending
                              /\ x.deleted = txn[p].deleted /\ x.written = txn[p].written
                              /\ x.seen = txn[p].seen /\ x.link = txn[p].link
                              /\ x.quiet = txn[p].quiet
  <2>1. PICK x : x = [txn[p] EXCEPT !.todo = @ \ {f}, !.new = Append(@, row(sha))]
    OBVIOUS
  <2>2. x \in Txn
    BY <1>0, <1>3, <2>1 DEF Txn
  <2>3. Recorded(p, f, sha) = [txn EXCEPT ![p] = x]
    BY <2>1 DEF Recorded, Typed
  <2> DEFINE new == Append(txn[p].new, row(sha))
  <2>a. x = [txn[p] EXCEPT !.todo = @ \ {f}, !.new = new]
    BY <2>1
  <2> HIDE DEF f, new
  <2>4. /\ x.todo = txn[p].todo \ {f} /\ x.new = new
        /\ x.at = txn[p].at /\ x.run = txn[p].run /\ x.mode = txn[p].mode
        /\ x.queue = txn[p].queue /\ x.pending = txn[p].pending
        /\ x.deleted = txn[p].deleted /\ x.written = txn[p].written
        /\ x.seen = txn[p].seen /\ x.link = txn[p].link
        /\ x.quiet = txn[p].quiet
    BY <1>0, <2>a DEF Txn
  <2>5. Recorded(p, f, sha) \in [Importers -> Txn] /\ Recorded(p, f, sha)[p] = x
        /\ \A q \in Importers \ {p} : Recorded(p, f, sha)[q] = txn[q]
    BY <2>2, <2>3 DEF Typed
  <2>6. QED
    BY <2>2, <2>4, <2>5 DEF new
<1>6. CASE /\ ~Known(p, f) /\ txn' = Recorded(p, f, disk[f]) /\ disk' = disk /\ covered' = covered
  <2>1. /\ OnlyOf(p) /\ Reads(p) /\ txn'[p].quiet = txn[p].quiet
        /\ txn'[p].todo = txn[p].todo \ {f} /\ txn'[p].new = Append(txn[p].new, row(disk[f]))
    BY <1>1, <1>5, <1>6 DEF OnlyOf, Reads, Keeps
  <2>2. QED
    BY <1>0, <1>1, <1>6, <2>1 DEF OnlyOf, Alike
<1>7. CASE /\ Rewrites /\ ~Known(p, f) /\ Writable(f)
           /\ txn' = Noisy(Recorded(p, f, Written(f)), RunOf[f])
           /\ disk' = [disk EXCEPT ![f] = Written(f)]
  <2>1. Written(f) \in Contents
    BY <1>1, <1>7, WrittenTyped DEF Typed
  <2> DEFINE R == Recorded(p, f, Written(f))
  <2>2. R \in [Importers -> Txn]
    BY <1>5, <2>1
  <2>3. \A q \in Importers : txn'[q] = [R[q] EXCEPT !.quiet = @ /\ R[q].run # RunOf[f]]
    BY <1>7 DEF Noisy
  <2>4. txn' \in [Importers -> Txn]
    <3>1. ASSUME NEW q \in Importers PROVE txn'[q] \in Txn
      <4> DEFINE y == R[q]
      <4>1. PICK b \in BOOLEAN : txn'[q] = [y EXCEPT !.quiet = b]
        <5>1. y \in Txn /\ y.quiet \in BOOLEAN
          BY <2>2 DEF Txn
        <5>2. QED
          BY <2>3, <5>1
      <4>2. y \in Txn
        BY <2>2
      <4> HIDE DEF y
      <4>3. QED
        BY <4>1, <4>2 DEF Txn
    <3>2. txn' = [q \in Importers |-> txn'[q]]
      BY <1>7 DEF Noisy
    <3>3. QED
      BY <3>1, <3>2
  <2> DEFINE row2 == row(Written(f))
  <2>5. ASSUME NEW q \in Importers
        PROVE  /\ txn'[q].at = R[q].at /\ txn'[q].run = R[q].run /\ txn'[q].mode = R[q].mode
               /\ txn'[q].todo = R[q].todo /\ txn'[q].new = R[q].new
               /\ txn'[q].queue = R[q].queue /\ txn'[q].pending = R[q].pending
               /\ txn'[q].deleted = R[q].deleted /\ txn'[q].written = R[q].written
               /\ txn'[q].seen = R[q].seen /\ txn'[q].link = R[q].link
    <3> DEFINE y == R[q]
               b == y.quiet /\ y.run # RunOf[f]
    <3>1. y \in Txn /\ txn'[q] = [y EXCEPT !.quiet = b]
      BY <2>2, <2>3
    <3> HIDE DEF y, b, R
    <3>2. /\ txn'[q].at = y.at /\ txn'[q].run = y.run /\ txn'[q].mode = y.mode
          /\ txn'[q].todo = y.todo /\ txn'[q].new = y.new
          /\ txn'[q].queue = y.queue /\ txn'[q].pending = y.pending
          /\ txn'[q].deleted = y.deleted /\ txn'[q].written = y.written
          /\ txn'[q].seen = y.seen /\ txn'[q].link = y.link
      BY <3>1 DEF Txn
    <3>3. QED
      BY <3>2 DEF y
  <2>6. ASSUME NEW q \in Importers \ {p} PROVE Alike(q)
    <3>1. R[q] = txn[q]
      BY <1>5, <2>1
    <3> HIDE DEF R
    <3>2. QED
      BY <2>5, <3>1 DEF Alike
  <2>7. Reads(p) /\ txn'[p].todo = txn[p].todo \ {f} /\ txn'[p].new = Append(txn[p].new, row2)
    BY <1>5, <2>1, <2>5 DEF Reads, Keeps
  <2>8. QED
    BY <1>0, <1>7, <2>1, <2>4, <2>6, <2>7
<1>8. QED
  BY <1>0, <1>4, <1>6, <1>7 DEF Read, OnlyOf, Alike

(* Normalizing starts with all valid rows.                                 *)
LEMMA StartEffect ==
    ASSUME Typed, NEW p \in Importers, StartNormalizing(p)
    PROVE  /\ OnlyOf(p) /\ Files0(p) /\ txn[p].at = "read" /\ txn[p].todo = {}
           /\ txn'[p].at = "normalize" /\ txn'[p].queue = ValidRows(p)
           /\ txn'[p].pending = txn[p].pending /\ txn'[p].written = txn[p].written
           /\ txn'[p].seen = txn[p].seen /\ txn'[p].link = txn[p].link
<1> DEFINE valid == ValidRows(p)
<1>1. PICK x : x = [txn[p] EXCEPT !.at = "normalize", !.queue = valid]
  OBVIOUS
<1>2. txn[p] \in Txn /\ valid \in SUBSET Nat
  BY RowsOf DEF Typed, ValidRows
<1>3. txn' = [txn EXCEPT ![p] = x]
  BY <1>1 DEF StartNormalizing, Typed
<1> HIDE DEF valid
<1>4. x \in Txn
  BY <1>1, <1>2 DEF Txn, Ats
<1>5. /\ x.run = txn[p].run /\ x.mode = txn[p].mode /\ x.todo = txn[p].todo
      /\ x.new = txn[p].new /\ x.quiet = txn[p].quiet /\ x.queue = valid
      /\ x.pending = txn[p].pending /\ x.written = txn[p].written
      /\ x.seen = txn[p].seen /\ x.link = txn[p].link
      /\ x.at = "normalize" /\ x.deleted = txn[p].deleted
  BY <1>1, <1>2 DEF Txn
<1>6. QED
  BY <1>3, <1>4, <1>5, Replaced DEF StartNormalizing, valid, Files0, Keeps

(* The entities an import sees, and the key of one of them.                *)
LEMMA SeenTyped ==
    ASSUME Typed, NEW p \in Importers
    PROVE  Seen(p) \subseteq Entities /\ txn[p].written \subseteq Entities
           /\ txn[p].link \subseteq Entities /\ txn[p].pending \subseteq Entities
BY DEF Typed, Txn, Seen

(* The key of one of several entities.                                     *)
LEMMA KeyIs ==
    ASSUME NEW S, S \subseteq Entities
    PROVE  /\ KeyOf(S) \in Nat
           /\ S = {} => KeyOf(S) = 0
           /\ S # {} => \E e \in S : KeyOf(S) = e.key
<1>1. \A e \in S : e.key \in Nat
  BY DEF Entities
<1>2. S # {} => (CHOOSE e \in S : TRUE) \in S
  OBVIOUS
<1>3. QED
  BY <1>1, <1>2 DEF KeyOf, Unlinked

(* The company a file is linked to is one of those it may be linked to.    *)
LEMMA CompanyIs ==
    ASSUME Typed, NEW p \in Importers, NEW f
    PROVE  /\ Company(p, f) \in Nat
           /\ \/ Company(p, f) = 0
              \/ \E c \in txn[p].link \cup Seen(p) :
                    c.key = Company(p, f) /\ c.kind = "company" /\ c.id = CompanyOf[f]
           /\ KindOf[f] = "contact" =>
                 \/ Company(p, f) = 0 /\ \A c \in txn[p].link :
                                          c.kind = "company" => c.id # CompanyOf[f]
                 \/ \E c \in txn[p].link : c.key = Company(p, f) /\ c.id = CompanyOf[f]
<1> DEFINE S == IF KindOf[f] = "contact" THEN txn[p].link ELSE Seen(p)
           N == Named(S, "company", CompanyOf[f])
<1>1. S \subseteq Entities /\ S \subseteq txn[p].link \cup Seen(p)
  BY SeenTyped
<1>2. N \subseteq Entities /\ \A c \in N : c \in S /\ c.kind = "company" /\ c.id = CompanyOf[f]
  BY <1>1 DEF Named
<1>3. Company(p, f) = KeyOf(N)
  BY DEF Company
<1>4. N = {} => \A c \in S : c.kind = "company" => c.id # CompanyOf[f]
  BY DEF Named
<1> HIDE DEF N
<1>5. /\ KeyOf(N) \in Nat
      /\ N = {} => KeyOf(N) = 0
      /\ N # {} => \E c \in N : KeyOf(N) = c.key
  BY <1>2, KeyIs
<1>6. CASE N = {}
  BY <1>3, <1>4, <1>5, <1>6
<1>7. CASE N # {}
  <2>1. PICK c \in N : c.key = Company(p, f)
    BY <1>3, <1>5, <1>7
  <2>2. QED
    BY <1>1, <1>2, <1>3, <1>5, <2>1
<1>8. QED
  BY <1>6, <1>7

(* The entity a new file becomes, and what a file makes of one there.      *)
LEMMA FreshIs ==
    ASSUME Typed, NEW p \in Importers, NEW f \in Files
    PROVE  /\ Fresh(p, f) \in Entities /\ Fresh(p, f).key = 0 /\ Defines(f, Fresh(p, f))
           /\ Fresh(p, f).of = txn[p].run
           /\ Fresh(p, f).company = IF KindOf[f] = "company" THEN 0 ELSE Company(p, f)
<1>1. txn[p].run \in Runs /\ KindOf[f] \in Kinds /\ Company(p, f) \in Nat
  BY FileNumbers, CompanyIs DEF Typed, Txn
<1> DEFINE c == Company(p, f)
<1> HIDE DEF c
<1>2. Fresh(p, f) = [key |-> 0, kind |-> KindOf[f], id |-> IdOf[f], of |-> txn[p].run,
                     sources |-> {txn[p].run},
                     company |-> IF KindOf[f] = "company" THEN 0 ELSE c]
  BY DEF Fresh, c, Unlinked
<1>3. c \in Nat
  BY <1>1 DEF c
<1>4. QED
  BY <1>1, <1>2, <1>3 DEF Entities, Defines, c

(* What a file makes of an entity that is there.                           *)
LEMMA UpdatedIs ==
    ASSUME Typed, NEW p \in Importers, NEW f \in Files, NEW e \in Entities
    PROVE  /\ Updated(p, f, e) \in Entities
           /\ Updated(p, f, e).key = e.key /\ Updated(p, f, e).kind = e.kind
           /\ Updated(p, f, e).id = e.id
           /\ e.kind # "posting" => Updated(p, f, e).company = e.company
           /\ e.kind = "posting" => Updated(p, f, e).company = Company(p, f)
           /\ e.kind = "contact" => Updated(p, f, e) = e
<1>1. txn[p].run \in Runs /\ Company(p, f) \in Nat /\ e.kind \in Kinds
  BY CompanyIs DEF Typed, Txn, Entities
<1>2. CASE e.kind = "company"
  BY <1>1, <1>2 DEF Updated, Entities
<1>3. CASE e.kind = "contact"
  BY <1>1, <1>3 DEF Updated, Entities
<1>4. CASE e.kind = "posting"
  <2> DEFINE c == Company(p, f)
  <2>1. Updated(p, f, e) = [e EXCEPT !.company = c, !.of = txn[p].run]
    BY <1>4 DEF Updated
  <2>2. c \in Nat
    BY <1>1
  <2> HIDE DEF c
  <2>3. /\ [e EXCEPT !.company = c, !.of = txn[p].run] \in Entities
        /\ [e EXCEPT !.company = c, !.of = txn[p].run].key = e.key
        /\ [e EXCEPT !.company = c, !.of = txn[p].run].kind = e.kind
        /\ [e EXCEPT !.company = c, !.of = txn[p].run].id = e.id
        /\ [e EXCEPT !.company = c, !.of = txn[p].run].company = c
    BY <1>1, <2>2 DEF Entities
  <2>4. QED
    BY <1>4, <2>1, <2>3 DEF c
<1>5. QED
  BY <1>1, <1>2, <1>3, <1>4 DEF Kinds

(* The turn of the next row is over, and its entity known by its key.      *)
Advances(p, e) ==
    /\ Files0(p) /\ txn'[p].at = "normalize" /\ txn'[p].queue = txn[p].queue \ {NextRow(p)}
    /\ txn'[p].pending = {}
    /\ txn'[p].seen = txn[p].seen \cup {<<e.kind, e.id>>}
    /\ txn'[p].link = IF e.kind = "company" THEN txn[p].link \cup {e} ELSE txn[p].link

(* One entity more is done.                                                *)
LEMMA DoneEffect ==
    ASSUME Typed, NEW p \in Importers, NEW e \in Entities,
           NEW written \in SUBSET Entities,
           txn' = [txn EXCEPT ![p] = [Done(p, e) EXCEPT !.written = written]]
    PROVE  OnlyOf(p) /\ Advances(p, e) /\ txn'[p].written = written
<1> DEFINE queue == txn[p].queue \ {NextRow(p)}
           seen == txn[p].seen \cup {<<e.kind, e.id>>}
           link == IF e.kind = "company" THEN txn[p].link \cup {e} ELSE txn[p].link
<1>0. txn[p] \in Txn
  BY DEF Typed
<1>1. queue \in SUBSET Nat /\ seen \in SUBSET (Kinds \X Ids) /\ link \in SUBSET Entities
  BY <1>0 DEF Txn, Entities, Ids
<1>2. PICK x : x = [txn[p] EXCEPT !.at = "normalize", !.queue = queue, !.pending = {},
                                   !.seen = seen, !.link = link, !.written = written]
  OBVIOUS
<1>3. txn' = [txn EXCEPT ![p] = x]
  BY <1>0, <1>2 DEF Done, Txn
<1> HIDE DEF queue, seen, link
<1>4. x \in Txn
  BY <1>0, <1>1, <1>2 DEF Txn, Ats
<1>5. /\ x.run = txn[p].run /\ x.mode = txn[p].mode /\ x.todo = txn[p].todo
      /\ x.new = txn[p].new /\ x.quiet = txn[p].quiet /\ x.queue = queue
      /\ x.pending = {} /\ x.written = written /\ x.seen = seen /\ x.link = link
      /\ x.at = "normalize" /\ x.deleted = txn[p].deleted
  BY <1>0, <1>2 DEF Txn
<1>6. OnlyOf(p) /\ txn'[p] = x
  BY <1>3, <1>4, Replaced
<1>7. Files0(p)
  BY <1>5, <1>6 DEF Files0, Keeps
<1>8. QED
  BY <1>5, <1>6, <1>7 DEF Advances, queue, seen, link

(* Normalizing a row skips it, takes an entity that is there as it is, or  *)
(* wants one written.                                                      *)
Skips(p) ==
    LET f == FileOf(p, NextRow(p)) IN
    /\ KindOf[f] # "posting" /\ <<KindOf[f], IdOf[f]>> \in txn[p].seen
    /\ Files0(p) /\ txn'[p].at = "normalize" /\ txn'[p].queue = txn[p].queue \ {NextRow(p)}
    /\ txn'[p].pending = txn[p].pending /\ txn'[p].written = txn[p].written
    /\ txn'[p].seen = txn[p].seen /\ txn'[p].link = txn[p].link

Takes(p) ==
    \E e \in Seen(p) :
        /\ Defines(FileOf(p, NextRow(p)), e)
        /\ Advances(p, e) /\ txn'[p].written = txn[p].written

Wants(p) ==
    LET f == FileOf(p, NextRow(p)) IN
    \E e \in Entities :
        /\ \/ e = Fresh(p, f)
           \/ /\ KindOf[f] # "contact"
              /\ \E x \in Seen(p) : Defines(f, x) /\ e = Updated(p, f, x)
        /\ Defines(f, e)
        /\ Files0(p) /\ txn'[p].at = "write" /\ txn'[p].queue = txn[p].queue
        /\ txn'[p].pending = {e} /\ txn'[p].written = txn[p].written
        /\ txn'[p].seen = txn[p].seen /\ txn'[p].link = txn[p].link

(* An entity is wanted.                                                    *)
LEMMA WantEffect ==
    ASSUME Typed, NEW p \in Importers, NEW e \in Entities,
           txn' = [txn EXCEPT ![p] = [txn[p] EXCEPT !.at = "write", !.pending = {e}]]
    PROVE  /\ OnlyOf(p) /\ Files0(p) /\ txn'[p].at = "write" /\ txn'[p].queue = txn[p].queue
           /\ txn'[p].pending = {e} /\ txn'[p].written = txn[p].written
           /\ txn'[p].seen = txn[p].seen /\ txn'[p].link = txn[p].link
<1>0. txn[p] \in Txn
  BY DEF Typed
<1>1. PICK x : x = [txn[p] EXCEPT !.at = "write", !.pending = {e}]
  OBVIOUS
<1>2. x \in Txn
  BY <1>0, <1>1 DEF Txn, Ats
<1>3. /\ x.run = txn[p].run /\ x.mode = txn[p].mode /\ x.todo = txn[p].todo
      /\ x.new = txn[p].new /\ x.quiet = txn[p].quiet /\ x.queue = txn[p].queue
      /\ x.pending = {e} /\ x.written = txn[p].written
      /\ x.seen = txn[p].seen /\ x.link = txn[p].link
      /\ x.at = "write" /\ x.deleted = txn[p].deleted
  BY <1>0, <1>1 DEF Txn
<1>4. QED
  BY <1>1, <1>2, <1>3, Replaced DEF Files0, Keeps

(* Normalizing does one of those three things.                             *)
LEMMA NormalizeEffect ==
    ASSUME Typed, NEW p \in Importers, Phased(p), Normalize(p)
    PROVE  /\ OnlyOf(p) /\ txn[p].at = "normalize"
           /\ NextRow(p) \in txn[p].queue /\ FileOf(p, NextRow(p)) \in Files
           /\ Skips(p) \/ Takes(p) \/ Wants(p)
<1> DEFINE f == FileOf(p, NextRow(p))
           there == Named(Seen(p), KindOf[f], IdOf[f])
           Want(e) == [txn[p] EXCEPT !.at = "write", !.pending = {e}]
           e0 == CHOOSE e \in there : TRUE
<1>0. txn[p] \in Txn
  BY DEF Typed
<1>1. NextRow(p) \in txn[p].queue /\ f \in Files /\ txn[p].at = "normalize"
  BY NextRowIs DEF Normalize, Phased
<1>2. there \subseteq Seen(p) /\ there \subseteq Entities /\ \A e \in there : Defines(f, e)
  BY SeenTyped DEF Named, Defines
<1>3. txn' = [txn EXCEPT ![p] =
               IF KindOf[f] # "posting" /\ <<KindOf[f], IdOf[f]>> \in txn[p].seen
               THEN [txn[p] EXCEPT !.queue = txn[p].queue \ {NextRow(p)}]
               ELSE IF there = {} THEN Want(Fresh(p, f))
               ELSE IF e0.kind # "posting" /\ Updated(p, f, e0) = e0
                    THEN Done(p, e0) ELSE Want(Updated(p, f, e0))]
  BY DEF Normalize, FileOf
<1> HIDE DEF f, there
<1>4. CASE KindOf[f] # "posting" /\ <<KindOf[f], IdOf[f]>> \in txn[p].seen
  <2>1. PICK x : x = [txn[p] EXCEPT !.queue = txn[p].queue \ {NextRow(p)}]
    OBVIOUS
  <2>2. x \in Txn
    BY <1>0, <2>1 DEF Txn
  <2>3. /\ x.run = txn[p].run /\ x.mode = txn[p].mode /\ x.todo = txn[p].todo
        /\ x.new = txn[p].new /\ x.quiet = txn[p].quiet
        /\ x.queue = txn[p].queue \ {NextRow(p)}
        /\ x.pending = txn[p].pending /\ x.written = txn[p].written
        /\ x.seen = txn[p].seen /\ x.link = txn[p].link
        /\ x.at = txn[p].at /\ x.deleted = txn[p].deleted
    BY <1>0, <2>1 DEF Txn
  <2>4. txn' = [txn EXCEPT ![p] = x]
    BY <1>3, <1>4, <2>1
  <2>5. OnlyOf(p) /\ txn'[p] = x
    BY <2>2, <2>4, Replaced
  <2>6. Skips(p)
    BY <1>1, <1>4, <2>3, <2>5 DEF Skips, Files0, Keeps, f
  <2>7. QED
    BY <1>1, <2>5, <2>6 DEF f
<1>5. CASE ~(KindOf[f] # "posting" /\ <<KindOf[f], IdOf[f]>> \in txn[p].seen) /\ there = {}
  <2>1. Fresh(p, f) \in Entities /\ Defines(f, Fresh(p, f))
    BY <1>1, FreshIs
  <2>2. txn' = [txn EXCEPT ![p] = Want(Fresh(p, f))]
    BY <1>3, <1>5
  <2> DEFINE e == Fresh(p, f)
  <2>3. e \in Entities /\ Defines(f, e) /\ e = Fresh(p, f) /\ txn' = [txn EXCEPT ![p] = Want(e)]
    BY <2>1, <2>2
  <2> HIDE DEF e
  <2>4. OnlyOf(p) /\ Wants(p)
    BY <2>3, WantEffect DEF Wants, f
  <2>5. QED
    BY <1>1, <2>4 DEF f
<1>6. CASE ~(KindOf[f] # "posting" /\ <<KindOf[f], IdOf[f]>> \in txn[p].seen) /\ there # {}
  <2>1. e0 \in there
    BY <1>6
  <2>2. e0 \in Entities /\ e0 \in Seen(p) /\ Defines(f, e0)
    BY <1>2, <2>1
  <2> HIDE DEF e0
  <2>3. CASE e0.kind # "posting" /\ Updated(p, f, e0) = e0
    <3>1. txn' = [txn EXCEPT ![p] = Done(p, e0)]
      BY <1>3, <1>6, <2>3
    <3>2. PICK w : w = txn[p].written
      OBVIOUS
    <3>3. w \in SUBSET Entities /\ Done(p, e0) = [Done(p, e0) EXCEPT !.written = w]
      BY <1>0, <3>2 DEF Txn, Done
    <3>4. txn' = [txn EXCEPT ![p] = [Done(p, e0) EXCEPT !.written = w]]
      BY <3>1, <3>3
    <3>5. OnlyOf(p) /\ Advances(p, e0) /\ txn'[p].written = w
      BY <2>2, <3>3, <3>4, DoneEffect
    <3>6. QED
      BY <1>1, <2>2, <3>2, <3>5 DEF Takes, f
  <2>4. CASE ~(e0.kind # "posting" /\ Updated(p, f, e0) = e0)
    <3>1. Updated(p, f, e0) \in Entities /\ Defines(f, Updated(p, f, e0)) /\ KindOf[f] # "contact"
      BY <1>1, <2>2, <2>4, UpdatedIs DEF Defines
    <3>2. txn' = [txn EXCEPT ![p] = Want(Updated(p, f, e0))]
      BY <1>3, <1>6, <2>4
    <3> DEFINE e == Updated(p, f, e0)
    <3>3. /\ e \in Entities /\ Defines(f, e) /\ e = Updated(p, f, e0)
          /\ txn' = [txn EXCEPT ![p] = Want(e)]
      BY <3>1, <3>2
    <3> HIDE DEF e
    <3>4. OnlyOf(p) /\ Wants(p)
      BY <2>2, <3>1, <3>3, WantEffect DEF Wants, f
    <3>5. QED
      BY <1>1, <3>4 DEF f
  <2>5. QED
    BY <2>3, <2>4
<1>7. QED
  BY <1>4, <1>5, <1>6

(* An import that ends is not under way.                                   *)
LEMMA EndEffect ==
    ASSUME Typed, NEW p \in Importers, Finish(p) \/ Fail(p)
    PROVE  OnlyOf(p) /\ txn'[p] = Idle
<1>1. txn' = [txn EXCEPT ![p] = Idle]
  BY DEF Finish, Fail
<1>2. QED
  BY <1>1, IdleRow, Replaced

(* The agent writes: the imports of its run take note of it.               *)
LEMMA WriteEffect ==
    ASSUME Typed, NEW f \in Files, Write(f)
    PROVE  /\ txn' \in [Importers -> Txn] /\ \A p \in Importers : Alike(p)
           /\ \A p \in Importers : txn'[p].quiet = (txn[p].quiet /\ txn[p].run # RunOf[f])
<1>1. txn' = [q \in Importers |-> [txn[q] EXCEPT !.quiet = @ /\ txn[q].run # RunOf[f]]]
  BY DEF Write, Noisy
<1>2. ASSUME NEW q \in Importers
      PROVE  /\ txn'[q] \in Txn /\ Alike(q)
             /\ txn'[q].quiet = (txn[q].quiet /\ txn[q].run # RunOf[f])
  <2>1. PICK y : y = txn[q]
    OBVIOUS
  <2>2. y \in Txn /\ y.quiet \in BOOLEAN
    BY <2>1 DEF Typed, Txn
  <2>3. PICK b : b = (y.quiet /\ y.run # RunOf[f])
    OBVIOUS
  <2>4. b \in BOOLEAN /\ txn'[q] = [y EXCEPT !.quiet = b]
    BY <1>1, <2>1, <2>2, <2>3
  <2>5. /\ txn'[q] \in Txn /\ txn'[q].quiet = b
        /\ txn'[q].at = y.at /\ txn'[q].run = y.run /\ txn'[q].mode = y.mode
        /\ txn'[q].todo = y.todo /\ txn'[q].new = y.new /\ txn'[q].queue = y.queue
        /\ txn'[q].pending = y.pending /\ txn'[q].deleted = y.deleted
        /\ txn'[q].written = y.written /\ txn'[q].seen = y.seen /\ txn'[q].link = y.link
    BY <2>2, <2>4 DEF Txn
  <2>6. QED
    BY <2>1, <2>3, <2>5 DEF Alike
<1>3. QED
  BY <1>1, <1>2
-----------------------------------------------------------------------------
(* The keys given out are finitely many, so that there is a fresh one.     *)
Held(p) == txn[p].written \cup txn[p].pending \cup txn[p].link
Everything == entities \cup UNION {Held(p) : p \in Importers}

Numbered == IsFiniteSet(InUse)

(* A key is in use when somebody has it, is linked to it or deletes it.    *)
LEMMA InUseIs ==
    /\ \A k : k \in InUse <=> \/ \E e \in Everything : k = e.key \/ k = e.company
                             \/ \E p \in Importers : k \in txn[p].deleted
BY DEF InUse, Everything, Held, Keys

(* Keys in use are numbers.                                                *)
LEMMA EverythingTyped == Typed => Everything \subseteq Entities /\ InUse \subseteq Nat
<1> SUFFICES ASSUME Typed PROVE Everything \subseteq Entities /\ InUse \subseteq Nat
  OBVIOUS
<1>1. Everything \subseteq Entities
  BY SeenTyped DEF Everything, Held, Typed
<1>2. \A e \in Entities : e.key \in Nat /\ e.company \in Nat
  BY DEF Entities
<1>3. \A p \in Importers : txn[p].deleted \subseteq Nat
  BY DEF Typed, Txn
<1>4. QED
  BY <1>1, <1>2, <1>3, InUseIs

(* As they are finitely many, there is a fresh one.                        *)
LEMMA FreshKeyIs ==
    ASSUME Typed, Numbered
    PROVE  FreshKey \in Nat \ {0} /\ FreshKey \notin InUse
<1> DEFINE n == Cardinality(InUse)
           T == {k \in 1..n + 1 : k \notin InUse}
<1>1. n \in Nat /\ InUse \subseteq Nat
  BY FS_CardinalityType, EverythingTyped DEF Numbered
<1>2. T # {}
  <2> SUFFICES ASSUME 1..n + 1 \subseteq InUse PROVE FALSE
    OBVIOUS
  <2> HIDE DEF n
  <2>1. Cardinality(1..n + 1) = n + 1
    BY <1>1, FS_Interval
  <2>2. Cardinality(1..n + 1) <= Cardinality(InUse)
    BY FS_Subset DEF Numbered
  <2>3. QED
    BY <1>1, <2>1, <2>2 DEF n
<1> HIDE DEF n
<1>3. PICK k \in T : \A j \in T : k <= j
  <2>1. T \in SUBSET Nat
    BY <1>1
  <2> HIDE DEF T
  <2>2. QED
    BY <1>2, <2>1, LeastNumber
<1>4. k \in 1..n + 1 /\ k \notin InUse /\ \A j \in 1..k - 1 : j \in InUse
  BY <1>1, <1>3
<1>5. FreshKey \in 1..n + 1 /\ FreshKey \notin InUse
  BY <1>4 DEF FreshKey, n
<1>6. QED
  BY <1>1, <1>5

(* A row is written under its key, or under a fresh one.                   *)
LEMMA WriteRowEffect ==
    ASSUME Typed, Numbered, NEW p \in Importers, Phased(p), WriteRow(p)
    PROVE  \E e, row \in Entities :
              /\ OnlyOf(p) /\ txn[p].at = "write" /\ txn[p].pending = {e}
              /\ row.key = (IF e.key = 0 THEN FreshKey ELSE e.key) /\ row.key # 0
              /\ row.kind = e.kind /\ row.id = e.id /\ row.of = e.of /\ row.company = e.company
              /\ Advances(p, row)
              /\ txn'[p].written = {x \in txn[p].written : x.key # row.key} \cup {row}
              /\ NextRow(p) \in txn[p].queue /\ FileOf(p, NextRow(p)) \in Files
              /\ Defines(FileOf(p, NextRow(p)), e)
<1>1. txn[p].at = "write"
  BY DEF WriteRow
<1>2. PICK e \in Entities : txn[p].pending = {e} /\ Defines(FileOf(p, NextRow(p)), e)
  BY <1>1 DEF Phased
<1>3. PICK row : row = IF e.key = 0 THEN [e EXCEPT !.key = FreshKey] ELSE e
  OBVIOUS
<1>4. FreshKey \in Nat \ {0}
  BY FreshKeyIs
<1>5. row \in Entities /\ row.key = (IF e.key = 0 THEN FreshKey ELSE e.key) /\ row.key # 0
      /\ row.kind = e.kind /\ row.id = e.id /\ row.of = e.of /\ row.company = e.company
  BY <1>3, <1>4 DEF Entities
<1>6. PICK written : written = {x \in txn[p].written : x.key # row.key} \cup {row}
  OBVIOUS
<1>7. written \in SUBSET Entities
  BY <1>5, <1>6, SeenTyped
<1>8. txn' = [txn EXCEPT ![p] = [Done(p, row) EXCEPT !.written = written]]
  <2>0. txn[p] \in Txn
    BY DEF Typed
  <2>1. txn' = [txn EXCEPT ![p] = [Done(p, row) EXCEPT
                       !.written = {x \in @ : x.key # row.key} \cup {row}]]
    BY <1>2, <1>3 DEF WriteRow
  <2>2. Done(p, row).written = txn[p].written
    BY <2>0 DEF Done, Txn
  <2>3. QED
    BY <1>6, <2>1, <2>2
<1>9. OnlyOf(p) /\ Advances(p, row) /\ txn'[p].written = written
  BY <1>5, <1>7, <1>8, DoneEffect
<1>10. NextRow(p) \in txn[p].queue /\ FileOf(p, NextRow(p)) \in Files
  BY <1>1, NextRowIs DEF Phased
<1>11. QED
  BY <1>1, <1>2, <1>5, <1>6, <1>9, <1>10
-----------------------------------------------------------------------------
(* While its rows are there, an import knows what it knew.                 *)
LEMMA SameRows ==
    ASSUME NEW q, txn'[q].run = txn[q].run, txn'[q].mode = txn[q].mode, txn'[q].new = txn[q].new,
           txn[q].mode = "full" \/ rows'[txn[q].run] = rows[txn[q].run]
    PROVE  /\ AllRows(q)' = AllRows(q) /\ OldRows(q)' = OldRows(q)
           /\ ValidRows(q)' = ValidRows(q)
           /\ \A i : FileOf(q, i)' = FileOf(q, i) /\ TurnOf(q, i)' = TurnOf(q, i)
           /\ txn'[q].queue = txn[q].queue => NextRow(q)' = NextRow(q)
<1>1. OldRows(q)' = OldRows(q)
  BY DEF OldRows
<1>2. AllRows(q)' = AllRows(q)
  BY <1>1 DEF AllRows
<1>3. ValidRows(q)' = ValidRows(q)
  BY <1>2 DEF ValidRows
<1>4. \A i : FileOf(q, i)' = FileOf(q, i) /\ TurnOf(q, i)' = TurnOf(q, i)
  BY <1>2 DEF FileOf, TurnOf
<1>5. txn'[q].queue = txn[q].queue => NextRow(q)' = NextRow(q)
  BY <1>2 DEF NextRow, TurnOf
<1>6. QED
  BY <1>1, <1>2, <1>3, <1>4, <1>5

(* The columns a step of an import has to do with.                         *)
LEMMA StepOf ==
    ASSUME Typed, Numbered, NEW p \in Importers, Phased(p), Import(p)
    PROVE  /\ txn' \in [Importers -> Txn] /\ \A q \in Importers \ {p} : Alike(q)
           /\ used' \in 0..MaxImports
           /\ disk' \in [Files -> Contents] /\ covered' \subseteq Runs
           /\ ~Finish(p) => rows' = rows /\ entities' = entities
<1>1. ASSUME OnlyOf(p) PROVE txn' \in [Importers -> Txn] /\ \A q \in Importers \ {p} : Alike(q)
  BY <1>1 DEF OnlyOf, Alike
<1>2. ASSUME NEW r \in Runs, NEW mode \in Modes, Begin(p, r, mode)
      PROVE  OnlyOf(p) /\ used' \in 0..MaxImports /\ UNCHANGED <<disk, rows, entities, covered>>
  <2>1. used' = used + 1 /\ used < MaxImports /\ UNCHANGED <<disk, rows, entities, covered>>
    BY <1>2 DEF Begin
  <2>2. used' \in 0..MaxImports
    BY <2>1, FileNumbers DEF Typed
  <2>3. QED
    BY <1>2, <2>1, <2>2, BeginEffect
<1>3. CASE Clear(p)
  BY <1>1, <1>3, ClearEffect DEF Typed, Clear
<1>4. CASE Read(p)
  <2>1. UNCHANGED <<rows, entities, used>>
    BY <1>4 DEF Read
  <2>2. disk' \in [Files -> Contents] /\ covered' \subseteq Runs
    <3>1. NextFile(p) \in Files
      BY <1>4, NextFileIs DEF Read
    <3>2. CASE UNCHANGED <<disk, covered>>
      BY <3>2 DEF Typed
    <3>3. CASE /\ Writable(NextFile(p))
               /\ disk' = [disk EXCEPT ![NextFile(p)] = Written(NextFile(p))]
               /\ covered' = covered \ {RunOf[NextFile(p)]}
      BY <3>1, <3>3, WrittenTyped DEF Typed
    <3>4. QED
      BY <1>4, <3>2, <3>3 DEF Read
  <2>3. QED
    BY <1>4, <2>1, <2>2, ReadEffect DEF Typed
<1>5. CASE StartNormalizing(p)
  BY <1>1, <1>5, StartEffect DEF Typed, StartNormalizing
<1>6. CASE Normalize(p)
  <2>1. UNCHANGED <<disk, rows, entities, covered, used>>
    BY <1>6 DEF Normalize
  <2>2. QED
    BY <1>1, <1>6, <2>1, NormalizeEffect DEF Typed
<1>7. CASE WriteRow(p)
  BY <1>1, <1>7, WriteRowEffect DEF Typed, WriteRow
<1>8. CASE Finish(p)
  <2>1. covered' \subseteq Runs /\ UNCHANGED <<disk, used>>
    BY <1>8 DEF Finish, Typed, Txn
  <2>2. QED
    BY <1>1, <1>8, <2>1, EndEffect DEF Typed
<1>9. CASE Fail(p)
  BY <1>1, <1>9, EndEffect DEF Typed, Fail, RollBack
<1>10. QED
  BY <1>1, <1>2, <1>3, <1>4, <1>5, <1>6, <1>7, <1>8, <1>9 DEF Import, Typed

(* Every step keeps the types.                                             *)
LEMMA TypedNext ==
    ASSUME ImportInv, Numbered, [Next]_vars
    PROVE  Typed'
<1> USE DEF ImportInv
<1>1. ASSUME NEW p \in Importers, Import(p) PROVE Typed'
  <2>1. /\ txn' \in [Importers -> Txn] /\ used' \in 0..MaxImports
        /\ disk' \in [Files -> Contents] /\ covered' \subseteq Runs
    BY <1>1, StepOf
  <2>2. CASE ~Finish(p)
    <3>1. rows' = rows /\ entities' = entities
      BY <1>1, <2>2, StepOf
    <3>2. run' = run \/ \E r : run' = [run EXCEPT ![r] = "import_failed"]
      BY <1>1, <2>2 DEF Import, Begin, Clear, Read, StartNormalizing, Normalize, WriteRow, Fail
    <3>3. run' \in [Runs -> Statuses]
      BY <3>2 DEF Typed, Statuses
    <3>4. QED
      BY <2>1, <3>1, <3>3 DEF Typed
  <2>3. CASE Finish(p)
    <3>1. AllRows(p) \in Seq(FileRows) /\ Seen(p) \subseteq Entities /\ txn[p].run \in Runs
      BY RowsOf, SeenTyped DEF Typed, Txn
    <3>2. rows' \in [Runs -> Seq(FileRows)] /\ entities' \subseteq Entities
      BY <2>3, <3>1 DEF Finish, Typed
    <3>3. run' \in [Runs -> Statuses]
      BY <2>3, <3>1 DEF Finish, Typed, Statuses
    <3>4. QED
      BY <2>1, <3>2, <3>3 DEF Typed
  <2>4. QED
    BY <2>2, <2>3
<1>2. ASSUME NEW f \in Files, Write(f) PROVE Typed'
  <2>1. txn' \in [Importers -> Txn]
    BY <1>2, WriteEffect
  <2>2. disk' \in [Files -> Contents] /\ covered' \subseteq Runs
    BY <1>2, WrittenTyped DEF Write, Typed
  <2>3. QED
    BY <1>2, <2>1, <2>2 DEF Write, Typed
<1>3. ASSUME NEW r \in Runs, NoDirectory(r) PROVE Typed'
  BY <1>3 DEF NoDirectory, Typed, Statuses
<1>4. CASE UNCHANGED vars
  BY <1>4 DEF vars, Typed
<1>5. QED
  BY <1>1, <1>2, <1>3, <1>4 DEF Next

(* Another import's step leaves alone what an import knows.                *)
LEMMA OthersKnow ==
    ASSUME ImportInv, Numbered, NEW p \in Importers, Import(p), NEW q \in Importers \ {p}
    PROVE  /\ Alike(q) /\ AllRows(q)' = AllRows(q) /\ OldRows(q)' = OldRows(q)
           /\ ValidRows(q)' = ValidRows(q) /\ NextRow(q)' = NextRow(q)
           /\ \A i : FileOf(q, i)' = FileOf(q, i) /\ TurnOf(q, i)' = TurnOf(q, i)
<1>1. Alike(q)
  BY StepOf DEF ImportInv
<1>2. txn[q].mode = "full" \/ rows'[txn[q].run] = rows[txn[q].run]
  <2>1. CASE ~Finish(p)
    BY <2>1, StepOf DEF ImportInv
  <2>2. CASE Finish(p) /\ ~Busy(q)
    BY <2>2 DEF ImportInv, Phased, Busy
  <2>3. CASE Finish(p) /\ Busy(q)
    <3>1. txn[p].run # txn[q].run /\ txn[q].run \in Runs
      BY <2>3 DEF ImportInv, Alone, Busy, Finish, Typed, Txn
    <3>2. QED
      BY <2>3, <3>1 DEF Finish, ImportInv, Typed
  <2>4. QED
    BY <2>1, <2>2, <2>3
<1>3. QED
  BY <1>1, <1>2, SameRows DEF Alike

(* As long as an import only normalizes, it knows the same.                *)
LEMMA KnowsOn ==
    ASSUME NEW p, Files0(p), rows' = rows
    PROVE  /\ AllRows(p)' = AllRows(p) /\ OldRows(p)' = OldRows(p) /\ ValidRows(p)' = ValidRows(p)
           /\ txn'[p].queue = txn[p].queue => NextRow(p)' = NextRow(p)
           /\ \A i : FileOf(p, i)' = FileOf(p, i) /\ TurnOf(p, i)' = TurnOf(p, i)
BY SameRows DEF Files0, Keeps

(* What an import holds depends on what it knows and on its columns.       *)
LEMMA PhasedSame ==
    ASSUME NEW q, Phased(q), Alike(q), ValidRows(q)' = ValidRows(q), NextRow(q)' = NextRow(q),
           \A i : FileOf(q, i)' = FileOf(q, i)
    PROVE  Phased(q)'
<1>1. \A e : Defines(FileOf(q, NextRow(q)), e)' <=> Defines(FileOf(q, NextRow(q)), e)
  BY DEF Defines
<1>2. FileOf(q, NextRow(q))' = FileOf(q, NextRow(q))
  BY DEF FileOf
<1>3. QED
  BY <1>2 DEF Phased, Alike, Defines

(* Every step keeps what the imports hold.                                 *)
LEMMA PhasedNext ==
    ASSUME ImportInv, Numbered, [Next]_vars
    PROVE  \A q \in Importers : Phased(q)'
<1>1. ASSUME NEW p \in Importers, Import(p) PROVE Phased(p)'
  <2>0. Typed /\ Phased(p)
    BY DEF ImportInv
  <2>1. ASSUME NEW r \in Runs, NEW mode \in Modes, Begin(p, r, mode) PROVE Phased(p)'
    BY <2>0, <2>1, BeginEffect DEF Phased
  <2>2. CASE Clear(p)
    <3>1. txn'[p].queue = {}
      BY <2>0, <2>2, ClearEffect DEF Phased
    <3>2. QED
      BY <2>0, <2>2, <3>1, ClearEffect DEF Phased
  <2>3. CASE Read(p)
    BY <2>0, <2>3, ReadEffect DEF Phased, Reads, Keeps
  <2>4. CASE StartNormalizing(p)
    <3>1. ValidRows(p)' = ValidRows(p)
      BY <2>0, <2>4, StartEffect, KnowsOn DEF StartNormalizing
    <3>2. QED
      BY <2>0, <2>4, <3>1, StartEffect DEF Phased, Files0, Keeps
  <2>5. CASE Normalize(p)
    <3>1. rows' = rows /\ txn[p].at = "normalize"
      BY <2>5 DEF Normalize
    <3>2. CASE Skips(p)
      <4>1. ValidRows(p)' = ValidRows(p)
        BY <3>1, <3>2, KnowsOn DEF Skips
      <4>2. QED
        BY <2>0, <3>1, <3>2, <4>1 DEF Phased, Skips, Files0, Keeps
    <3>3. CASE Takes(p)
      <4>1. PICK e \in Seen(p) : Advances(p, e) /\ txn'[p].written = txn[p].written
        BY <3>3 DEF Takes
      <4>2. ValidRows(p)' = ValidRows(p)
        BY <3>1, <4>1, KnowsOn DEF Advances
      <4>3. QED
        BY <2>0, <3>1, <4>1, <4>2 DEF Phased, Advances, Files0, Keeps
    <3>4. CASE Wants(p)
      <4>1. PICK e \in Entities :
              /\ Defines(FileOf(p, NextRow(p)), e)
              /\ Files0(p) /\ txn'[p].at = "write" /\ txn'[p].queue = txn[p].queue
              /\ txn'[p].pending = {e} /\ txn'[p].written = txn[p].written
              /\ txn'[p].seen = txn[p].seen /\ txn'[p].link = txn[p].link
        BY <3>4 DEF Wants
      <4>2. /\ ValidRows(p)' = ValidRows(p) /\ NextRow(p)' = NextRow(p)
            /\ \A i : FileOf(p, i)' = FileOf(p, i)
        BY <3>1, <4>1, KnowsOn
      <4>3. Defines(FileOf(p, NextRow(p)), e)'
        BY <4>1, <4>2 DEF Defines, FileOf
      <4>4. QED
        BY <2>0, <2>5, <3>1, <4>1, <4>2, <4>3, NormalizeEffect DEF Phased, Files0, Keeps
    <3>5. QED
      BY <2>0, <2>5, <3>2, <3>3, <3>4, NormalizeEffect
  <2>6. CASE WriteRow(p)
    <3>1. PICK row \in Entities : Advances(p, row)
      BY <2>0, <2>6, WriteRowEffect
    <3>2. ValidRows(p)' = ValidRows(p) /\ txn[p].at = "write"
      BY <2>6, <3>1, KnowsOn DEF Advances, WriteRow
    <3>3. QED
      BY <2>0, <3>1, <3>2 DEF Phased, Advances, Files0, Keeps
  <2>7. CASE Finish(p) \/ Fail(p)
    BY <2>0, <2>7, EndEffect, IdleRow DEF Phased
  <2>8. QED
    BY <1>1, <2>1, <2>2, <2>3, <2>4, <2>5, <2>6, <2>7 DEF Import
<1>2. ASSUME NEW p \in Importers, Import(p), NEW q \in Importers \ {p} PROVE Phased(q)'
  BY <1>2, OthersKnow, PhasedSame DEF ImportInv
<1>3. ASSUME NEW q \in Importers, rows' = rows, Alike(q) PROVE Phased(q)'
  BY <1>3, SameRows, PhasedSame DEF ImportInv, Alike
<1>4. ASSUME NEW q \in Importers, NEW f \in Files, Write(f) PROVE Phased(q)'
  BY <1>3, <1>4, WriteEffect DEF Write, ImportInv
<1>5. ASSUME NEW q \in Importers, UNCHANGED <<rows, txn>> PROVE Phased(q)'
  BY <1>3, <1>5 DEF Alike
<1>6. QED
  BY <1>1, <1>2, <1>4, <1>5 DEF Next, NoDirectory, vars

(* Every step keeps imports of one run, or of one writer, apart.           *)
LEMMA AloneNext ==
    ASSUME ImportInv, Numbered, [Next]_vars
    PROVE  Alone'
<1>1. ASSUME NEW p \in Importers, Import(p), \A r \in Runs, mode \in Modes : ~Begin(p, r, mode)
      PROVE  /\ \A q \in Importers : Busy(q)' => Busy(q) /\ txn'[q].run = txn[q].run
  <2>0. Typed /\ Phased(p)
    BY DEF ImportInv
  <2>1. CASE Clear(p) \/ Read(p) \/ StartNormalizing(p)
    <3>1. txn'[p].run = txn[p].run /\ Busy(p)
      <4>1. CASE Clear(p)
        BY <2>0, <4>1, ClearEffect DEF Busy
      <4>2. CASE Read(p)
        BY <2>0, <4>2, ReadEffect DEF Busy, Reads, Keeps
      <4>3. CASE StartNormalizing(p)
        BY <2>0, <4>3, StartEffect DEF Busy, Files0, Keeps
      <4>4. QED
        BY <2>1, <4>1, <4>2, <4>3
    <3>2. QED
      BY <1>1, <2>0, <3>1, StepOf DEF Busy, Alike
  <2>2. CASE Normalize(p) \/ WriteRow(p)
    <3>1. txn'[p].run = txn[p].run /\ Busy(p)
      BY <2>0, <2>2, NormalizeEffect, WriteRowEffect
         DEF Skips, Takes, Wants, Advances, Files0, Keeps, Busy
    <3>2. QED
      BY <1>1, <2>0, <3>1, StepOf DEF Busy, Alike
  <2>3. CASE Finish(p) \/ Fail(p)
    BY <1>1, <2>0, <2>3, StepOf, EndEffect, IdleRow DEF Busy, Alike
  <2>4. QED
    BY <1>1, <2>1, <2>2, <2>3 DEF Import
<1>2. ASSUME NEW p \in Importers, NEW r \in Runs, NEW mode \in Modes, Begin(p, r, mode)
      PROVE  Alone'
  <2>1. /\ txn'[p].run = r /\ \A q \in Importers \ {p} : txn'[q] = txn[q]
    BY <1>2, BeginEffect DEF ImportInv, OnlyOf
  <2>2. \A q \in Importers \ {p} : Busy(q) => Postgres /\ txn[q].run # r
    BY <1>2 DEF Begin
  <2>3. QED
    BY <2>1, <2>2 DEF Alone, ImportInv, Busy
<1>3. ASSUME \A q \in Importers : Busy(q)' => Busy(q) /\ txn'[q].run = txn[q].run PROVE Alone'
  BY <1>3 DEF Alone, ImportInv
<1>4. ASSUME NEW f \in Files, Write(f) PROVE Alone'
  BY <1>3, <1>4, WriteEffect DEF ImportInv, Alike, Busy
<1>5. CASE UNCHANGED txn
  BY <1>3, <1>5 DEF Busy
<1>6. QED
  BY <1>1, <1>2, <1>3, <1>4, <1>5 DEF Next, NoDirectory, vars
-----------------------------------------------------------------------------
(* What the steps do to the tables: nothing new, or one of five things.    *)
Like(e, x) == e.kind = x.kind /\ e.id = x.id

SameHeld(q) ==
    /\ txn'[q].written = txn[q].written /\ txn'[q].pending = txn[q].pending
    /\ txn'[q].link = txn[q].link /\ txn'[q].deleted = txn[q].deleted
    /\ txn'[q].run = txn[q].run /\ (Busy(q)' <=> Busy(q))

Dropped(q) ==
    /\ txn'[q].written = {} /\ txn'[q].pending = {} /\ txn'[q].link = {} /\ txn'[q].deleted = {}

Clears(p) ==
    /\ entities' = entities /\ ~Waits(p) /\ ~ClearFails(p) /\ txn[p].at = "clear"
    /\ txn'[p].written = {} /\ txn'[p].pending = {} /\ txn'[p].link = {}
    /\ txn'[p].run = txn[p].run /\ Busy(p) /\ Busy(p)'
    /\ txn'[p].deleted = Keys(ToDelete(p))

Links(p) ==
    /\ entities' = entities /\ txn'[p].written = txn[p].written /\ txn'[p].pending = {}
    /\ txn'[p].run = txn[p].run /\ Busy(p) /\ Busy(p)' /\ txn'[p].deleted = txn[p].deleted
    /\ \E e \in Seen(p) : txn'[p].link \subseteq txn[p].link \cup {e}

(* The entity an import means to write, and the company it is linked to.   *)
Foreseen(p, e) ==
    /\ e.key = 0 \/ \E x \in Seen(p) : x.key = e.key /\ Like(e, x)
    /\ \/ e.company = 0
       \/ \E x \in Seen(p) : x.company = e.company
       \/ \E c \in txn[p].link \cup Seen(p) : c.key = e.company /\ c.kind = "company"

Prepares(p) ==
    /\ entities' = entities /\ txn'[p].written = txn[p].written /\ txn'[p].link = txn[p].link
    /\ txn'[p].run = txn[p].run /\ Busy(p) /\ Busy(p)' /\ txn'[p].deleted = txn[p].deleted
    /\ \E e \in Entities : txn'[p].pending = {e} /\ Foreseen(p, e)

Writes(p) ==
    /\ entities' = entities /\ ~Waits(p) /\ ~WriteFails(p) /\ txn[p].at = "write"
    /\ txn'[p].run = txn[p].run /\ Busy(p) /\ Busy(p)' /\ txn'[p].deleted = txn[p].deleted
    /\ txn'[p].pending = {}
    /\ \E e, row \in Entities :
          /\ txn[p].pending = {e}
          /\ row.key = (IF e.key = 0 THEN FreshKey ELSE e.key) /\ row.key # 0
          /\ Like(row, e) /\ row.company = e.company
          /\ txn'[p].written = {x \in txn[p].written : x.key # row.key} \cup {row}
          /\ txn'[p].link \subseteq txn[p].link \cup {row}

Commits(p) == entities' = Seen(p) /\ Busy(p) /\ ~Busy(p)' /\ Dropped(p)

(* Every step does one of those things.                                    *)
LEMMA TableSteps ==
    ASSUME ImportInv, Numbered, [Next]_vars
    PROVE  \/ entities' = entities /\ \A q \in Importers : SameHeld(q) \/ Dropped(q)
           \/ \E p \in Importers :
                 /\ \A q \in Importers \ {p} : SameHeld(q)
                 /\ (Clears(p) \/ Links(p) \/ Prepares(p) \/ Writes(p) \/ Commits(p))
<1> USE DEF ImportInv
<1>1. ASSUME NEW p \in Importers, Import(p)
      PROVE  \/ entities' = entities /\ \A q \in Importers : SameHeld(q) \/ Dropped(q)
             \/ /\ \A q \in Importers \ {p} : SameHeld(q)
                /\ (Clears(p) \/ Links(p) \/ Prepares(p) \/ Writes(p) \/ Commits(p))
  <2>0. Typed /\ Phased(p) /\ \A q \in Importers \ {p} : SameHeld(q)
    BY <1>1, StepOf DEF Alike, SameHeld, Busy
  <2>1. ASSUME NEW r \in Runs, NEW mode \in Modes, Begin(p, r, mode)
        PROVE  entities' = entities /\ Dropped(p)
    BY <2>0, <2>1, BeginEffect DEF Begin, Dropped
  <2>2. CASE Clear(p)
    BY <2>0, <2>2, ClearEffect DEF Clear, Clears, Busy, Phased
  <2>3. CASE Read(p)
    <3>1. entities' = entities
      BY <2>3 DEF Read
    <3>2. Reads(p)
      BY <2>0, <2>3, ReadEffect
    <3>3. SameHeld(p)
      BY <3>2 DEF Reads, Keeps, SameHeld, Busy
    <3>4. QED
      BY <2>0, <3>1, <3>3
  <2>4. CASE StartNormalizing(p)
    <3>1. entities' = entities
      BY <2>4 DEF StartNormalizing
    <3>2. SameHeld(p)
      BY <2>0, <2>4, StartEffect DEF Files0, Keeps, SameHeld, Busy
    <3>3. QED
      BY <2>0, <3>1, <3>2
  <2>5. CASE Normalize(p)
    <3>1. entities' = entities /\ txn[p].at = "normalize" /\ txn[p].pending = {}
      BY <2>0, <2>5 DEF Normalize, Phased
    <3>2. CASE Skips(p)
      BY <2>0, <3>1, <3>2 DEF Skips, Files0, Keeps, SameHeld, Busy
    <3>3. CASE Takes(p)
      <4>1. PICK e \in Seen(p) : Advances(p, e) /\ txn'[p].written = txn[p].written
        BY <3>3 DEF Takes
      <4>2. QED
        BY <2>0, <3>1, <4>1 DEF Links, Advances, Files0, Keeps, Busy
    <3>4. CASE Wants(p)
      <4> DEFINE f == FileOf(p, NextRow(p))
      <4>0. f \in Files
        BY <2>0, <2>5, NormalizeEffect
      <4>1. PICK e \in Entities :
              /\ \/ e = Fresh(p, f)
                 \/ \E x \in Seen(p) : Defines(f, x) /\ e = Updated(p, f, x)
              /\ Files0(p) /\ txn'[p].at = "write"
              /\ txn'[p].pending = {e} /\ txn'[p].written = txn[p].written
              /\ txn'[p].link = txn[p].link
        BY <3>4 DEF Wants
      <4> HIDE DEF f
      <4>2. \/ Company(p, f) = 0
            \/ \E c \in txn[p].link \cup Seen(p) : c.key = Company(p, f) /\ c.kind = "company"
        BY <2>0, CompanyIs
      <4>3. CASE e = Fresh(p, f)
        <5>1. e.key = 0 /\ (e.company = 0 \/ e.company = Company(p, f))
          BY <2>0, <4>0, <4>3, FreshIs
        <5>2. Foreseen(p, e)
          BY <4>2, <5>1 DEF Foreseen
        <5>3. QED
          BY <2>0, <3>1, <4>1, <5>2 DEF Prepares, Files0, Keeps, Busy
      <4>4. ASSUME NEW x \in Seen(p), Defines(f, x), e = Updated(p, f, x)
            PROVE  Prepares(p)
        <5>1. /\ x \in Entities /\ e.key = x.key /\ Like(e, x)
              /\ e.company = x.company \/ e.company = Company(p, f)
          BY <2>0, <4>0, <4>4, SeenTyped, UpdatedIs DEF Like
        <5>2. Foreseen(p, e)
          BY <4>2, <5>1 DEF Foreseen
        <5>3. QED
          BY <2>0, <3>1, <4>1, <5>2 DEF Prepares, Files0, Keeps, Busy
      <4>5. QED
        BY <2>0, <4>1, <4>3, <4>4
    <3>5. QED
      BY <2>0, <2>5, <3>2, <3>3, <3>4, NormalizeEffect
  <2>6. CASE WriteRow(p)
    <3>1. PICK e, row \in Entities :
              /\ txn[p].at = "write" /\ txn[p].pending = {e}
              /\ row.key = (IF e.key = 0 THEN FreshKey ELSE e.key) /\ row.key # 0
              /\ row.kind = e.kind /\ row.id = e.id /\ row.company = e.company
              /\ Advances(p, row)
              /\ txn'[p].written = {x \in txn[p].written : x.key # row.key} \cup {row}
      BY <2>0, <2>6, WriteRowEffect
    <3>2. /\ txn'[p].run = txn[p].run /\ txn'[p].deleted = txn[p].deleted
          /\ txn'[p].at = "normalize" /\ txn'[p].pending = {}
          /\ txn'[p].link \subseteq txn[p].link \cup {row}
      BY <3>1 DEF Advances, Files0, Keeps
    <3>3. entities' = entities /\ ~Waits(p) /\ ~WriteFails(p)
      BY <2>6 DEF WriteRow
    <3>4. Writes(p)
      BY <3>1, <3>2, <3>3 DEF Writes, Like, Busy
    <3>5. QED
      BY <2>0, <3>4
  <2>7. CASE Finish(p)
    BY <2>0, <2>7, EndEffect, IdleRow DEF Finish, Commits, Busy, Dropped
  <2>8. CASE Fail(p)
    BY <2>0, <2>8, EndEffect, IdleRow DEF Fail, RollBack, Dropped
  <2>9. QED
    BY <1>1, <2>0, <2>1, <2>2, <2>3, <2>4, <2>5, <2>6, <2>7, <2>8 DEF Import
<1>2. ASSUME NEW f \in Files, Write(f)
      PROVE  entities' = entities /\ \A q \in Importers : SameHeld(q)
  BY <1>2, WriteEffect DEF Write, Alike, SameHeld, Busy
<1>3. CASE UNCHANGED <<entities, txn>>
  BY <1>3 DEF SameHeld, Busy
<1>4. QED
  BY <1>1, <1>2, <1>3 DEF Next, NoDirectory, vars
-----------------------------------------------------------------------------
(* A key means one thing as long as anybody knows it, a row that may be    *)
(* linked to is a company's, and what is in a table has a key.             *)
KeysMean == \A e, x \in Everything : e.key = x.key /\ e.key # 0 => Like(e, x)
CompanyKeys == \A e, x \in Everything : e.company # 0 /\ x.key = e.company => x.kind = "company"
Positive ==
    /\ \A e \in entities : e.key # 0
    /\ \A p \in Importers : \A e \in txn[p].written \cup txn[p].link : e.key # 0

(* An entity has one row, in the tables and in what an import has written, *)
(* and an import writes over a row, or after deleting it.                  *)
Unique(S) == \A e, x \in S : e.key = x.key \/ Like(e, x) => e = x
Over(p) ==
    \A x \in txn[p].written, y \in entities :
        Like(x, y) => y.key = x.key \/ y.key \in txn[p].deleted

(* Two imports write different entities, none that another deletes, and    *)
(* link none to it; they delete what came from their own runs.             *)
Apart == \A p, q \in Importers : p # q =>
            \A e \in txn[p].written, x \in txn[q].written : ~Like(e, x)
Doomed == \A p \in Importers : \A k \in txn[p].deleted :
            \E x \in entities : x.key = k /\ x.of = txn[p].run
Spared == \A p, q \in Importers : p # q =>
            \A e \in txn[p].written :
                e.key \notin txn[q].deleted /\ e.company \notin txn[q].deleted

TableInv ==
    /\ Numbered /\ KeysMean /\ CompanyKeys /\ Positive
    /\ Unique(entities) /\ \A p \in Importers : Unique(txn[p].written) /\ Over(p)
    /\ Apart /\ Doomed /\ Spared

(* What comes new into the tables and the imports.                         *)
Extends(e) ==
    /\ \/ e.key = 0 \/ e.key \notin InUse
       \/ \E x \in Everything : x.key = e.key /\ Like(e, x)
    /\ \/ e.company = 0
       \/ \E x \in Everything : x.company = e.company
       \/ \E c \in Everything : c.key = e.company /\ c.kind = "company"

(* What an import sees and holds is part of everything.                    *)
LEMMA HeldByAll ==
    ASSUME NEW p \in Importers
    PROVE  /\ entities \subseteq Everything /\ Seen(p) \subseteq Everything
           /\ txn[p].written \subseteq Everything /\ txn[p].pending \subseteq Everything
           /\ txn[p].link \subseteq Everything
BY DEF Everything, Held, Seen

(* A step adds at most one entity to everything there is.                  *)
LEMMA Grows ==
    ASSUME ImportInv, Numbered, [Next]_vars
    PROVE  \/ Everything' \subseteq Everything
           \/ \E e \in Entities : Extends(e) /\ Everything' \subseteq Everything \cup {e}
<1>1. CASE entities' = entities /\ \A q \in Importers : SameHeld(q) \/ Dropped(q)
  <2>1. \A q \in Importers : Held(q)' \subseteq Held(q)
    BY <1>1 DEF SameHeld, Dropped, Held
  <2>2. QED
    BY <1>1, <2>1 DEF Everything
<1>2. ASSUME NEW p \in Importers, \A q \in Importers \ {p} : SameHeld(q),
             NEW S, Held(p)' \subseteq S, entities' \subseteq S, Everything \subseteq S
      PROVE  Everything' \subseteq S
  <2>1. \A q \in Importers \ {p} : Held(q)' = Held(q)
    BY <1>2 DEF SameHeld, Held
  <2>2. \A q \in Importers : Held(q)' \subseteq S
    BY <1>2, <2>1 DEF Everything
  <2>3. QED
    BY <1>2, <2>2 DEF Everything
<1>3. ASSUME NEW p \in Importers, \A q \in Importers \ {p} : SameHeld(q),
             Clears(p) \/ Links(p) \/ Commits(p)
      PROVE  Everything' \subseteq Everything
  <2>1. Held(p)' \subseteq Everything /\ entities' \subseteq Everything
    BY <1>3, HeldByAll DEF Clears, Links, Commits, Dropped, Held
  <2>2. QED
    BY <1>2, <1>3, <2>1
<1>4. ASSUME NEW p \in Importers, \A q \in Importers \ {p} : SameHeld(q), Prepares(p)
      PROVE  \E e \in Entities : Extends(e) /\ Everything' \subseteq Everything \cup {e}
  <2>1. PICK e \in Entities : txn'[p].pending = {e} /\ Foreseen(p, e)
    BY <1>4 DEF Prepares
  <2>2. Extends(e)
    BY <2>1, HeldByAll DEF Extends, Foreseen
  <2>3. Held(p)' \subseteq Everything \cup {e} /\ entities' \subseteq Everything \cup {e}
    BY <1>4, <2>1, HeldByAll DEF Prepares, Held
  <2>4. QED
    BY <1>2, <1>4, <2>2, <2>3
<1>5. ASSUME NEW p \in Importers, \A q \in Importers \ {p} : SameHeld(q), Writes(p)
      PROVE  \E e \in Entities : Extends(e) /\ Everything' \subseteq Everything \cup {e}
  <2>1. PICK e, row \in Entities :
          /\ txn[p].pending = {e} /\ Like(row, e) /\ row.company = e.company
          /\ row.key = (IF e.key = 0 THEN FreshKey ELSE e.key)
          /\ txn'[p].written = {x \in txn[p].written : x.key # row.key} \cup {row}
          /\ txn'[p].link \subseteq txn[p].link \cup {row}
    BY <1>5 DEF Writes
  <2>2. e \in Everything
    BY <2>1, HeldByAll
  <2>3. Extends(row)
    BY <2>1, <2>2, FreshKeyIs DEF Extends, Like, ImportInv
  <2>4. Held(p)' \subseteq Everything \cup {row} /\ entities' \subseteq Everything \cup {row}
    BY <1>5, <2>1, HeldByAll DEF Writes, Held
  <2>5. QED
    BY <1>2, <1>5, <2>3, <2>4
<1>6. QED
  BY <1>1, <1>3, <1>4, <1>5, TableSteps

(* Keys go on meaning one thing.                                           *)
LEMMA KeysNext ==
    ASSUME ImportInv, Numbered, KeysMean, CompanyKeys, [Next]_vars
    PROVE  KeysMean' /\ CompanyKeys'
<1>1. CASE Everything' \subseteq Everything
  BY <1>1 DEF KeysMean, CompanyKeys, Like
<1>2. ASSUME NEW e \in Entities, Extends(e), Everything' \subseteq Everything \cup {e}
      PROVE  KeysMean' /\ CompanyKeys'
  <2>1. \A x \in Everything : x.key \in InUse /\ x.company \in InUse
    BY InUseIs
  <2>2. \A x \in Everything : e.key = x.key /\ e.key # 0 => Like(e, x)
    BY <1>2, <2>1 DEF Extends, KeysMean, Like
  <2>3. KeysMean'
    BY <1>2, <2>2 DEF KeysMean, Like
  <2>4. \A x \in Everything : e.company # 0 /\ x.key = e.company => x.kind = "company"
    BY <1>2, <2>1 DEF Extends, KeysMean, CompanyKeys, Like
  <2>5. \A x \in Everything : x.company # 0 /\ e.key = x.company => e.kind = "company"
    BY <1>2, <2>1 DEF Extends, CompanyKeys, Like
  <2>6. e.company # 0 /\ e.key = e.company => e.kind = "company"
    <3>1. CASE \E x \in Everything : x.company = e.company
      BY <2>5, <3>1
    <3>2. CASE \E c \in Everything : c.key = e.company /\ c.kind = "company"
      BY <2>2, <3>2 DEF Like
    <3>3. QED
      BY <1>2, <3>1, <3>2 DEF Extends
  <2>7. CompanyKeys'
    BY <1>2, <2>4, <2>5, <2>6 DEF CompanyKeys
  <2>8. QED
    BY <2>3, <2>7
<1>3. QED
  BY <1>1, <1>2, Grows

(* The keys in use stay finitely many.                                     *)
LEMMA NumberedNext ==
    ASSUME ImportInv, Numbered, [Next]_vars
    PROVE  Numbered'
<1>1. \A k : k \in InUse' <=> \/ \E e \in Everything' : k = e.key \/ k = e.company
                           \/ \E p \in Importers : k \in txn'[p].deleted
  BY DEF InUse, Everything, Held, Keys
<1>2. \A p \in Importers : txn'[p].deleted \subseteq InUse
  <2>1. \A e \in entities : e.key \in InUse
    BY InUseIs DEF Everything
  <2>2. \A p \in Importers : txn[p].deleted \subseteq InUse /\ Keys(ToDelete(p)) \subseteq InUse
    BY <2>1, InUseIs DEF Keys, ToDelete
  <2>3. \A p \in Importers : \/ txn'[p].deleted = txn[p].deleted \/ txn'[p].deleted = {}
                             \/ txn'[p].deleted = Keys(ToDelete(p))
    BY TableSteps DEF SameHeld, Dropped, Clears, Links, Prepares, Writes, Commits
  <2>4. QED
    BY <2>2, <2>3
<1>3. PICK k : InUse' \subseteq (InUse \cup {0}) \cup {k}
  <2>1. CASE Everything' \subseteq Everything
    <3>1. InUse' \subseteq InUse
      BY <1>1, <1>2, <2>1, InUseIs
    <3>2. QED
      BY <3>1
  <2>2. ASSUME NEW e \in Entities, Extends(e), Everything' \subseteq Everything \cup {e}
        PROVE  InUse' \subseteq (InUse \cup {0}) \cup {e.key}
    <3>1. \A x \in Everything : x.key \in InUse /\ x.company \in InUse
      BY InUseIs
    <3>2. e.company \in InUse \cup {0}
      BY <2>2, <3>1 DEF Extends
    <3>3. \A x \in Everything' : {x.key, x.company} \subseteq (InUse \cup {0}) \cup {e.key}
      BY <2>2, <3>1, <3>2
    <3>4. QED
      BY <1>1, <1>2, <3>3
  <2>3. QED
    BY <2>1, <2>2, Grows
<1>4. IsFiniteSet((InUse \cup {0}) \cup {k})
  BY FS_AddElement DEF Numbered
<1>5. QED
  BY <1>3, <1>4, FS_Subset DEF Numbered
-----------------------------------------------------------------------------
(* Who has written or deleted something is under way.                      *)
LEMMA BusyWith ==
    ASSUME ImportInv, NEW q \in Importers, txn[q].written # {} \/ txn[q].deleted # {}
    PROVE  Busy(q)
BY DEF ImportInv, Phased, Busy

(* A row of the table has a key that is in use, and so has what it is      *)
(* linked to and what is deleted.                                          *)
LEMMA UsedKeys ==
    /\ \A e \in Everything : e.key \in InUse /\ e.company \in InUse
    /\ \A p \in Importers : txn[p].deleted \subseteq InUse
BY InUseIs

(* What is in a table, written or linked to goes on having a key.          *)
LEMMA PositiveNext ==
    ASSUME ImportInv, Numbered, Positive, [Next]_vars
    PROVE  Positive'
<1>1. CASE entities' = entities /\ \A q \in Importers : SameHeld(q) \/ Dropped(q)
  BY <1>1 DEF Positive, SameHeld, Dropped
<1>2. ASSUME NEW p \in Importers, \A q \in Importers \ {p} : SameHeld(q),
             Clears(p) \/ Links(p) \/ Prepares(p) \/ Writes(p) \/ Commits(p)
      PROVE  Positive'
  <2>1. \A e \in Seen(p) : e.key # 0
    BY DEF Seen, Positive
  <2>2. \A e \in entities' : e.key # 0
    BY <1>2, <2>1 DEF Positive, Clears, Links, Prepares, Writes, Commits
  <2>3. \A e \in txn'[p].written \cup txn'[p].link : e.key # 0
    BY <1>2, <2>1 DEF Positive, Clears, Links, Prepares, Writes, Commits, Dropped
  <2>4. \A q \in Importers \ {p} : \A e \in txn'[q].written \cup txn'[q].link : e.key # 0
    BY <1>2 DEF Positive, SameHeld
  <2>5. QED
    BY <2>2, <2>3, <2>4 DEF Positive
<1>3. QED
  BY <1>1, <1>2, TableSteps

(* What is deleted goes on being in the table, from the run that deletes   *)
(* it: no other import removes it or writes over it.                       *)
LEMMA DoomedNext ==
    ASSUME ImportInv, TableInv, [Next]_vars
    PROVE  Doomed'
<1> USE DEF TableInv
<1>1. CASE entities' = entities /\ \A q \in Importers : SameHeld(q) \/ Dropped(q)
  BY <1>1 DEF Doomed, SameHeld, Dropped
<1>2. ASSUME NEW p \in Importers, \A q \in Importers \ {p} : SameHeld(q),
             Links(p) \/ Prepares(p) \/ Writes(p)
      PROVE  Doomed'
  BY <1>2 DEF Doomed, SameHeld, Links, Prepares, Writes
<1>3. ASSUME NEW p \in Importers, \A q \in Importers \ {p} : SameHeld(q), Clears(p)
      PROVE  Doomed'
  BY <1>3 DEF Doomed, SameHeld, Clears, Keys, ToDelete
<1>4. ASSUME NEW p \in Importers, \A q \in Importers \ {p} : SameHeld(q), Commits(p)
      PROVE  Doomed'
  <2>1. SUFFICES ASSUME NEW q \in Importers \ {p}, NEW k \in txn[q].deleted
                 PROVE  \E x \in Seen(p) : x.key = k /\ x.of = txn[q].run
    BY <1>4 DEF Doomed, Commits, Dropped, SameHeld
  <2>2. PICK x \in entities : x.key = k /\ x.of = txn[q].run
    BY DEF Doomed
  <2>3. txn[p].run # txn[q].run
    BY <1>4, <2>1, BusyWith DEF ImportInv, Alone, Commits
  <2>4. k \notin txn[p].deleted
    BY <2>2, <2>3 DEF Doomed, Unique
  <2>5. \A e \in txn[p].written : e.key # k
    BY <2>1 DEF Spared
  <2>6. QED
    BY <2>2, <2>4, <2>5 DEF Seen
<1>5. QED
  BY <1>1, <1>2, <1>3, <1>4, TableSteps

(* Two imports go on writing different entities.                           *)
LEMMA ApartNext ==
    ASSUME ImportInv, TableInv, [Next]_vars
    PROVE  Apart'
<1> USE DEF TableInv
<1>1. ASSUME \A q \in Importers : txn'[q].written \subseteq txn[q].written PROVE Apart'
  BY <1>1 DEF Apart
<1>2. ASSUME NEW p \in Importers, \A q \in Importers \ {p} : SameHeld(q), Writes(p)
      PROVE  Apart'
  <2>1. PICK e, row \in Entities :
          /\ txn[p].pending = {e} /\ Like(row, e)
          /\ txn'[p].written = {x \in txn[p].written : x.key # row.key} \cup {row}
    BY <1>2 DEF Writes
  <2>2. ASSUME NEW q \in Importers \ {p}, NEW x \in txn[q].written PROVE ~Like(row, x)
    <3>1. Busy(q) /\ ~Blocked(p, q) /\ txn[p].at = "write"
      BY <1>2, <2>2, BusyWith DEF Writes, Waits
    <3>2. <<x.kind, x.id>> # <<e.kind, e.id>>
      BY <2>1, <2>2, <3>1 DEF Blocked
    <3>3. QED
      BY <2>1, <3>2 DEF Like
  <2>3. \A q \in Importers \ {p} : txn'[q].written = txn[q].written
    BY <1>2 DEF SameHeld
  <2>4. QED
    BY <2>1, <2>2, <2>3 DEF Apart, Like
<1>3. QED
  <2>1. CASE entities' = entities /\ \A q \in Importers : SameHeld(q) \/ Dropped(q)
    BY <1>1, <2>1 DEF SameHeld, Dropped
  <2>2. ASSUME NEW p \in Importers, \A q \in Importers \ {p} : SameHeld(q),
               Clears(p) \/ Links(p) \/ Prepares(p) \/ Commits(p)
        PROVE  Apart'
    BY <1>1, <2>2 DEF SameHeld, Clears, Links, Prepares, Commits, Dropped
  <2>3. QED
    BY <1>2, <2>1, <2>2, TableSteps

(* No import writes what another deletes, or links to it: the one that     *)
(* comes later waits.                                                      *)
LEMMA SparedNext ==
    ASSUME ImportInv, TableInv, [Next]_vars
    PROVE  Spared'
<1> USE DEF TableInv
<1>1. ASSUME \A q \in Importers : /\ txn'[q].written \subseteq txn[q].written
                                  /\ txn'[q].deleted \subseteq txn[q].deleted
      PROVE  Spared'
  BY <1>1 DEF Spared
<1>2. ASSUME NEW p \in Importers, \A q \in Importers \ {p} : SameHeld(q), Clears(p)
      PROVE  Spared'
  <2>1. ASSUME NEW q \in Importers \ {p}, NEW e \in txn[q].written
        PROVE  e.key \notin Keys(ToDelete(p)) /\ e.company \notin Keys(ToDelete(p))
    <3>1. Busy(q) /\ ~Blocked(p, q) /\ txn[p].at = "clear"
      BY <1>2, <2>1, BusyWith DEF Clears, Waits
    <3>2. Keys(ToDelete(p)) \cap (Keys(txn[q].written) \cup {x.company : x \in txn[q].written}) = {}
      BY <3>1 DEF Blocked
    <3>3. QED
      BY <2>1, <3>2 DEF Keys
  <2>2. \A q \in Importers \ {p} : /\ txn'[q].written = txn[q].written
                                   /\ txn'[q].deleted = txn[q].deleted
    BY <1>2 DEF SameHeld
  <2>3. txn'[p].written = {} /\ txn'[p].deleted = Keys(ToDelete(p))
    BY <1>2 DEF Clears
  <2>4. QED
    BY <2>1, <2>2, <2>3 DEF Spared
<1>3. ASSUME NEW p \in Importers, \A q \in Importers \ {p} : SameHeld(q), Writes(p)
      PROVE  Spared'
  <2>1. PICK e, row \in Entities :
          /\ txn[p].pending = {e} /\ Like(row, e) /\ row.company = e.company
          /\ row.key = (IF e.key = 0 THEN FreshKey ELSE e.key) /\ row.key # 0
          /\ txn'[p].written = {x \in txn[p].written : x.key # row.key} \cup {row}
    BY <1>3 DEF Writes
  <2>2. ASSUME NEW q \in Importers \ {p}
        PROVE  row.key \notin txn[q].deleted /\ row.company \notin txn[q].deleted
    <3>1. \A x \in entities : x.key \in txn[q].deleted =>
              x.key # e.company /\ <<x.kind, x.id>> # <<e.kind, e.id>>
      <4>1. ASSUME txn[q].deleted # {} PROVE Busy(q) /\ ~Blocked(p, q) /\ txn[p].at = "write"
        BY <1>3, <2>2, <4>1, BusyWith DEF Writes, Waits
      <4>2. QED
        BY <2>1, <2>2, <4>1 DEF Blocked
    <3>2. ASSUME row.key \in txn[q].deleted PROVE FALSE
      <4>1. PICK x \in entities : x.key = row.key
        BY <3>2 DEF Doomed
      <4>2. e.key = row.key
        BY <2>1, <3>2, FreshKeyIs, UsedKeys DEF ImportInv
      <4>3. e \in Everything /\ x \in Everything
        BY <2>1, HeldByAll
      <4>4. Like(e, x)
        BY <2>1, <4>1, <4>2, <4>3 DEF KeysMean
      <4>5. QED
        BY <3>1, <3>2, <4>1, <4>4 DEF Like
    <3>3. row.company \notin txn[q].deleted
      BY <2>1, <3>1 DEF Doomed
    <3>4. QED
      BY <3>2, <3>3
  <2>3. /\ \A q \in Importers \ {p} : /\ txn'[q].written = txn[q].written
                                      /\ txn'[q].deleted = txn[q].deleted
        /\ txn'[p].deleted = txn[p].deleted
    BY <1>3 DEF SameHeld, Writes
  <2>4. QED
    BY <2>1, <2>2, <2>3 DEF Spared
<1>4. QED
  <2>1. CASE entities' = entities /\ \A q \in Importers : SameHeld(q) \/ Dropped(q)
    BY <1>1, <2>1 DEF SameHeld, Dropped
  <2>2. ASSUME NEW p \in Importers, \A q \in Importers \ {p} : SameHeld(q),
               Links(p) \/ Prepares(p) \/ Commits(p)
        PROVE  Spared'
    BY <1>1, <2>2 DEF SameHeld, Links, Prepares, Commits, Dropped
  <2>3. QED
    BY <1>2, <1>3, <2>1, <2>2, TableSteps

(* What an import sees has one row for an entity.                          *)
LEMMA SeenUnique ==
    ASSUME TableInv, NEW p \in Importers
    PROVE  Unique(Seen(p))
<1>1. \A e, x \in Seen(p) : \/ e \in entities /\ x \in entities
                            \/ e \in txn[p].written /\ x \in txn[p].written
                            \/ /\ ~(e.key = x.key) /\ ~Like(e, x)
  BY DEF Seen, TableInv, Over, Like
<1>2. QED
  BY <1>1 DEF Unique, TableInv

(* The entity an import writes has no other row that it could see.         *)
LEMMA WritesOver ==
    ASSUME ImportInv, TableInv, NEW p \in Importers, ~WriteFails(p), txn[p].at = "write",
           NEW e, txn[p].pending = {e}, NEW x \in Seen(p), Like(x, e)
    PROVE  e.key # 0 /\ x.key = e.key
<1> USE DEF TableInv
<1>1. e.key # 0
  <2>1. e.key = 0 => Named(Seen(p), e.kind, e.id) = {}
    BY DEF WriteFails
  <2>2. QED
    BY <2>1 DEF Named, Like
<1>2. PICK s \in Seen(p) : s.key = e.key
  BY <1>1 DEF WriteFails, Keys
<1>3. Like(s, e)
  BY <1>1, <1>2, HeldByAll DEF KeysMean
<1>4. s = x
  BY <1>3, SeenUnique DEF Unique, Like
<1>5. QED
  BY <1>1, <1>2, <1>4

(* An entity goes on having one row.                                       *)
LEMMA UniqueNext ==
    ASSUME ImportInv, TableInv, [Next]_vars
    PROVE  /\ Unique(entities)'
           /\ \A q \in Importers : Unique(txn[q].written)' /\ Over(q)'
<1> USE DEF TableInv
<1>1. ASSUME NEW q \in Importers, entities' = entities,
             SameHeld(q) \/ Dropped(q) \/ Clears(q) \/ Links(q) \/ Prepares(q)
      PROVE  Unique(txn[q].written)' /\ Over(q)'
  BY <1>1 DEF SameHeld, Dropped, Clears, Links, Prepares, Unique, Over, Like
<1>2. ASSUME entities' = entities PROVE Unique(entities)'
  BY <1>2 DEF Unique, Like
<1>3. ASSUME NEW p \in Importers, Writes(p)
      PROVE  Unique(txn[p].written)' /\ Over(p)'
  <2>1. PICK e, row \in Entities :
          /\ txn[p].pending = {e} /\ Like(row, e)
          /\ row.key = (IF e.key = 0 THEN FreshKey ELSE e.key) /\ row.key # 0
          /\ txn'[p].written = {x \in txn[p].written : x.key # row.key} \cup {row}
    BY <1>3 DEF Writes
  <2>2. ~WriteFails(p) /\ txn[p].at = "write" /\ entities' = entities
        /\ txn'[p].deleted = txn[p].deleted
    BY <1>3 DEF Writes
  <2>3. \A x \in Seen(p) : Like(row, x) => x.key = row.key
    BY <2>1, <2>2, WritesOver DEF Like
  <2>4. \A x \in txn[p].written : Like(row, x) => x.key = row.key
    BY <2>3 DEF Seen
  <2>5. Unique(txn[p].written)'
    BY <2>1, <2>4 DEF Unique, Like
  <2>6. ASSUME NEW y \in entities, Like(row, y), y.key \notin txn[p].deleted
        PROVE  y.key = row.key
    <3>1. PICK s \in Seen(p) : s.key = y.key
      BY <2>6 DEF Seen
    <3>2. Like(s, y)
      BY <3>1, HeldByAll DEF KeysMean, Positive
    <3>3. QED
      BY <2>3, <2>6, <3>1, <3>2 DEF Like
  <2>7. Over(p)'
    BY <2>1, <2>2, <2>6 DEF Over, Like
  <2>8. QED
    BY <2>5, <2>7
<1>4. ASSUME NEW p \in Importers, \A q \in Importers \ {p} : SameHeld(q), Commits(p)
      PROVE  /\ Unique(entities)'
             /\ \A q \in Importers : Unique(txn[q].written)' /\ Over(q)'
  <2>1. entities' = Seen(p) /\ txn'[p].written = {}
    BY <1>4 DEF Commits, Dropped
  <2>2. Unique(entities)'
    BY <2>1, SeenUnique DEF Unique, Like
  <2>3. Unique(txn[p].written)' /\ Over(p)'
    BY <2>1 DEF Unique, Over
  <2>4. ASSUME NEW q \in Importers \ {p} PROVE Unique(txn[q].written)' /\ Over(q)'
    <3>1. txn'[q].written = txn[q].written /\ txn'[q].deleted = txn[q].deleted
      BY <1>4 DEF SameHeld
    <3>2. \A x \in txn[q].written, y \in txn[p].written : ~Like(x, y)
      BY <2>4 DEF Apart
    <3>3. Over(q)'
      BY <2>1, <3>1, <3>2 DEF Over, Seen, Like
    <3>4. Unique(txn[q].written)'
      BY <3>1 DEF Unique, Like
    <3>5. QED
      BY <3>3, <3>4
  <2>5. QED
    BY <2>2, <2>3, <2>4
<1>5. QED
  <2>1. CASE entities' = entities /\ \A q \in Importers : SameHeld(q) \/ Dropped(q)
    BY <1>1, <1>2, <2>1
  <2>2. ASSUME NEW p \in Importers, \A q \in Importers \ {p} : SameHeld(q),
               Clears(p) \/ Links(p) \/ Prepares(p) \/ Writes(p)
        PROVE  /\ Unique(entities)'
               /\ \A q \in Importers : Unique(txn[q].written)' /\ Over(q)'
    <3>1. entities' = entities
      BY <2>2 DEF Clears, Links, Prepares, Writes
    <3>2. QED
      BY <1>1, <1>2, <1>3, <2>2, <3>1
  <2>3. QED
    BY <1>4, <2>1, <2>2, TableSteps

(* The tables stay in order, from the start.                               *)
LEMMA TablesInit == Init => ImportInv /\ TableInv
<1> SUFFICES ASSUME Init PROVE ImportInv /\ TableInv
  OBVIOUS
<1>1. Typed
  <2>1. Absent \in Contents /\ <<>> \in Seq(FileRows) /\ Idle \in Txn
    BY MissingRow, EmptySeq, IdleRow
  <2>2. 0 \in 0..MaxImports
    BY FileNumbers
  <2>3. QED
    BY <2>1, <2>2 DEF Init, Typed, Statuses
<1>2. \A p \in Importers : txn[p] = Idle
  BY DEF Init
<1>3. Alone /\ \A p \in Importers : Phased(p)
  BY <1>2, IdleRow DEF Alone, Phased, Busy
<1>4. Everything = {} /\ \A p \in Importers : txn[p].deleted = {}
  BY <1>2, IdleRow DEF Init, Everything, Held
<1>5. InUse = {}
  BY <1>4, InUseIs
<1>6. Numbered
  BY <1>5, FS_EmptySet DEF Numbered
<1>7. TableInv
  BY <1>2, <1>4, <1>6, IdleRow DEF Init, TableInv, KeysMean, CompanyKeys, Positive, Unique,
                                   Over, Apart, Doomed, Spared
<1>8. QED
  BY <1>1, <1>3, <1>7 DEF ImportInv

(* Every step keeps the tables in order.                                   *)
LEMMA TablesNext == ImportInv /\ TableInv /\ [Next]_vars => ImportInv' /\ TableInv'
<1> SUFFICES ASSUME ImportInv, TableInv, [Next]_vars PROVE ImportInv' /\ TableInv'
  OBVIOUS
<1>1. ImportInv'
  BY TypedNext, PhasedNext, AloneNext DEF TableInv, ImportInv
<1>2. Numbered' /\ KeysMean' /\ CompanyKeys' /\ Positive'
  BY NumberedNext, KeysNext, PositiveNext DEF TableInv
<1>3. Doomed' /\ Apart' /\ Spared'
  BY DoomedNext, ApartNext, SparedNext
<1>4. Unique(entities)' /\ \A q \in Importers : Unique(txn[q].written)' /\ Over(q)'
  BY UniqueNext
<1>5. QED
  BY <1>1, <1>2, <1>3, <1>4 DEF TableInv

(* So they always are.                                                     *)
LEMMA TablesAlways == Spec => [](ImportInv /\ TableInv)
BY TablesInit, TablesNext, PTL DEF Spec
-----------------------------------------------------------------------------
(* A link an import writes leads to a company it sees, and what it deletes *)
(* takes everything along that is linked to it.                            *)
Resolves(p) ==
    \A e \in txn[p].written : e.company # 0 =>
        \E c \in Seen(p) : c.key = e.company /\ c.kind = "company"
Cleared(p) == \A e \in entities : e.key \notin txn[p].deleted => e.company \notin txn[p].deleted

LinkInv == LinksResolve /\ \A p \in Importers : Resolves(p) /\ Cleared(p)

(* What an import sees is replaced by what it writes, key by key.          *)
LEMMA SeenNext ==
    ASSUME ImportInv, TableInv, NEW p \in Importers, Writes(p), NEW s \in Seen(p)
    PROVE  \E c \in Seen(p)' : c.key = s.key /\ c.kind = s.kind
<1> USE DEF TableInv
<1>1. PICK e, row \in Entities :
        /\ txn[p].pending = {e} /\ Like(row, e)
        /\ row.key = (IF e.key = 0 THEN FreshKey ELSE e.key) /\ row.key # 0
        /\ txn'[p].written = {x \in txn[p].written : x.key # row.key} \cup {row}
  BY DEF Writes
<1>2. entities' = entities /\ txn'[p].deleted = txn[p].deleted
  BY DEF Writes
<1>3. CASE s.key = row.key
  <2>1. s \in Everything /\ e \in Everything /\ s.key \in InUse
    BY <1>1, HeldByAll, UsedKeys
  <2>2. e.key = s.key
    BY <1>1, <1>3, <2>1, FreshKeyIs DEF ImportInv
  <2>3. Like(e, s)
    BY <1>1, <1>3, <2>1, <2>2 DEF KeysMean
  <2>4. row \in Seen(p)'
    BY <1>1 DEF Seen
  <2>5. QED
    BY <1>1, <1>3, <2>3, <2>4 DEF Like
<1>4. CASE s.key # row.key
  <2>1. s \in Seen(p)'
    BY <1>1, <1>2, <1>4 DEF Seen
  <2>2. QED
    BY <2>1
<1>5. QED
  BY <1>3, <1>4

(* On PostgreSQL every link goes on leading to a company that is there.    *)
LEMMA LinksNext ==
    ASSUME Postgres, ImportInv, TableInv, LinkInv, [Next]_vars
    PROVE  LinkInv'
<1> USE DEF TableInv
<1>1. ASSUME NEW q \in Importers, entities' = entities, SameHeld(q) \/ Dropped(q)
      PROVE  Resolves(q)' /\ Cleared(q)'
  <2>1. CASE SameHeld(q)
    <3>1. Seen(q)' = Seen(q)
      BY <1>1, <2>1 DEF SameHeld, Seen
    <3>2. QED
      BY <1>1, <2>1, <3>1 DEF SameHeld, Resolves, Cleared, LinkInv
  <2>2. CASE Dropped(q)
    BY <2>2 DEF Dropped, Resolves, Cleared
  <2>3. QED
    BY <1>1, <2>1, <2>2
<1>2. ASSUME entities' = entities PROVE LinksResolve'
  BY <1>2 DEF LinkInv, LinksResolve, Unlinked
<1>3. ASSUME NEW p \in Importers, Links(p) \/ Prepares(p)
      PROVE  Resolves(p)' /\ Cleared(p)'
  <2>1. entities' = entities /\ txn'[p].written = txn[p].written
        /\ txn'[p].deleted = txn[p].deleted
    BY <1>3 DEF Links, Prepares
  <2>2. Seen(p)' = Seen(p)
    BY <2>1 DEF Seen
  <2>3. QED
    BY <2>1, <2>2 DEF Resolves, Cleared, LinkInv
<1>4. ASSUME NEW p \in Importers, Clears(p)
      PROVE  Resolves(p)' /\ Cleared(p)'
  <2>1. entities' = entities /\ txn'[p].written = {} /\ txn'[p].deleted = Keys(ToDelete(p))
    BY <1>4 DEF Clears
  <2>2. \A e \in entities \ ToDelete(p) : e.company \notin {d.key : d \in ToDelete(p)}
    BY <1>4 DEF Clears, ClearFails
  <2>3. \A e \in entities : e.key \notin Keys(ToDelete(p)) => e.company \notin Keys(ToDelete(p))
    BY <2>2 DEF Keys
  <2>4. QED
    BY <2>1, <2>3 DEF Resolves, Cleared
<1>5. ASSUME NEW p \in Importers, Writes(p)
      PROVE  Resolves(p)' /\ Cleared(p)'
  <2>1. PICK e, row \in Entities :
          /\ txn[p].pending = {e} /\ row.company = e.company
          /\ txn'[p].written = {x \in txn[p].written : x.key # row.key} \cup {row}
    BY <1>5 DEF Writes
  <2>2. /\ entities' = entities /\ txn'[p].deleted = txn[p].deleted
        /\ ~WriteFails(p) /\ txn[p].at = "write"
    BY <1>5 DEF Writes
  <2>3. ASSUME row.company # 0
        PROVE  \E c \in Seen(p) : c.key = row.company /\ c.kind = "company"
    <3>1. PICK s \in Seen(p) : s.key = e.company
      BY <2>1, <2>2, <2>3 DEF WriteFails, Keys, Unlinked
    <3>2. s.kind = "company"
      BY <2>1, <2>3, <3>1, HeldByAll DEF CompanyKeys
    <3>3. QED
      BY <2>1, <3>1, <3>2
  <2>4. \A x \in txn'[p].written : x.company # 0 =>
            \E c \in Seen(p) : c.key = x.company /\ c.kind = "company"
    BY <2>1, <2>3 DEF LinkInv, Resolves
  <2>5. Resolves(p)'
    BY <1>5, <2>4, SeenNext DEF Resolves
  <2>6. QED
    BY <2>2, <2>5 DEF Cleared, LinkInv
<1>6. ASSUME NEW p \in Importers, \A q \in Importers \ {p} : SameHeld(q), Commits(p)
      PROVE  LinkInv'
  <2>1. /\ entities' = Seen(p) /\ txn'[p].written = {} /\ txn'[p].deleted = {}
        /\ \A q \in Importers \ {p} : /\ txn'[q].written = txn[q].written
                                      /\ txn'[q].deleted = txn[q].deleted
    BY <1>6 DEF Commits, Dropped, SameHeld
  <2>2. ASSUME NEW c \in entities, c.kind = "company", c.key \notin txn[p].deleted
        PROVE  \E d \in Seen(p) : d.key = c.key /\ d.kind = "company"
    <3>1. PICK d \in Seen(p) : d.key = c.key
      BY <2>2 DEF Seen
    <3>2. Like(d, c)
      BY <3>1, HeldByAll DEF KeysMean, Positive
    <3>3. QED
      BY <2>2, <3>1, <3>2 DEF Like
  <2>3. LinksResolve'
    <3>1. SUFFICES ASSUME NEW e \in Seen(p), e.company # 0
                   PROVE  \E c \in Seen(p) : c.key = e.company /\ c.kind = "company"
      BY <2>1 DEF LinksResolve, Unlinked
    <3>2. CASE e \in txn[p].written
      BY <3>1, <3>2 DEF LinkInv, Resolves
    <3>3. CASE e \in entities /\ e.key \notin txn[p].deleted
      <4>1. PICK c \in entities : c.key = e.company /\ c.kind = "company"
        BY <3>1, <3>3 DEF LinkInv, LinksResolve, Unlinked
      <4>2. c.key \notin txn[p].deleted
        BY <3>3, <4>1 DEF LinkInv, Cleared
      <4>3. QED
        BY <2>2, <4>1, <4>2
    <3>4. QED
      BY <3>1, <3>2, <3>3 DEF Seen
  <2>4. ASSUME NEW q \in Importers \ {p} PROVE Resolves(q)' /\ Cleared(q)'
    <3>1. ASSUME NEW e \in txn[q].written, e.company # 0
          PROVE  \E c \in Seen(q)' : c.key = e.company /\ c.kind = "company"
      <4>1. PICK c \in Seen(q) : c.key = e.company /\ c.kind = "company"
        BY <2>4, <3>1 DEF LinkInv, Resolves
      <4>2. CASE c \in txn[q].written
        BY <2>1, <2>4, <4>1, <4>2 DEF Seen
      <4>3. CASE /\ c \in entities /\ c.key \notin txn[q].deleted
                 /\ \A x \in txn[q].written : x.key # c.key
        <5>1. c.key \notin txn[p].deleted
          BY <2>4, <3>1, <4>1 DEF Spared
        <5>2. PICK d \in Seen(p) : d.key = c.key /\ d.kind = "company"
          BY <2>2, <4>1, <4>3, <5>1
        <5>3. d \in Seen(q)'
          BY <2>1, <2>4, <4>3, <5>2 DEF Seen
        <5>4. QED
          BY <4>1, <5>2, <5>3
      <4>4. QED
        BY <4>1, <4>2, <4>3 DEF Seen
    <3>2. Resolves(q)'
      BY <2>1, <2>4, <3>1 DEF Resolves
    <3>3. \A e \in Seen(p) : e.key \notin txn[q].deleted => e.company \notin txn[q].deleted
      BY <2>4 DEF Seen, LinkInv, Cleared, Spared
    <3>4. QED
      BY <2>1, <2>4, <3>2, <3>3 DEF Cleared
  <2>5. Resolves(p)' /\ Cleared(p)'
    BY <2>1 DEF Resolves, Cleared
  <2>6. QED
    BY <2>3, <2>4, <2>5 DEF LinkInv
<1>7. QED
  <2>1. CASE entities' = entities /\ \A q \in Importers : SameHeld(q) \/ Dropped(q)
    BY <1>1, <1>2, <2>1 DEF LinkInv
  <2>2. ASSUME NEW p \in Importers, \A q \in Importers \ {p} : SameHeld(q),
               Clears(p) \/ Links(p) \/ Prepares(p) \/ Writes(p)
        PROVE  LinkInv'
    <3>1. entities' = entities
      BY <2>2 DEF Clears, Links, Prepares, Writes
    <3>2. QED
      BY <1>1, <1>2, <1>3, <1>4, <1>5, <2>2, <3>1 DEF LinkInv
  <2>3. QED
    BY <1>6, <2>1, <2>2, TableSteps

(* On PostgreSQL a link leads to a company that is still there, whichever  *)
(* run's full import deletes companies meanwhile: the foreign key stops a  *)
(* full import that would leave one behind, and an import that links waits *)
(* for the one that deletes.                                               *)
THEOREM LinksLead ==
    ASSUME Postgres PROVE Spec => []LinksResolve
<1>1. Init => LinkInv
  <2>1. SUFFICES ASSUME Init PROVE LinkInv
    OBVIOUS
  <2>2. entities = {} /\ \A p \in Importers : txn[p].written = {}
    BY <2>1, IdleRow DEF Init
  <2>3. QED
    BY <2>2 DEF LinkInv, LinksResolve, Resolves, Cleared
<1>2. ImportInv /\ TableInv /\ LinkInv /\ [Next]_vars => LinkInv'
  BY LinksNext
<1>3. LinkInv => LinksResolve
  BY DEF LinkInv
<1>4. QED
  BY <1>1, <1>2, <1>3, TablesAlways, PTL DEF Spec
-----------------------------------------------------------------------------
(* A failing import, and the run of a missing directory, change nothing    *)
(* but the status of the run.                                              *)
THEOREM FailureKeepsRows == Spec => PriorRowsKept
<1>1. ASSUME ImportInv, [Next]_vars, NEW r \in Runs,
             run[r] # "import_failed", run'[r] = "import_failed"
      PROVE  UNCHANGED <<rows, entities>>
  <2>1. run' # run
    BY <1>1
  <2>2. ASSUME NEW p \in Importers, Finish(p) PROVE FALSE
    BY <1>1, <2>2 DEF Finish, ImportInv, Typed
  <2>3. ASSUME NEW p \in Importers, Fail(p) PROVE UNCHANGED <<rows, entities>>
    BY <2>3 DEF Fail, RollBack
  <2>4. ASSUME NEW p \in Importers, Import(p), ~Finish(p), ~Fail(p) PROVE run' = run
    BY <2>4 DEF Import, Begin, Clear, Read, StartNormalizing, Normalize, WriteRow
  <2>5. QED
    BY <1>1, <2>1, <2>2, <2>3, <2>4 DEF Next, Write, NoDirectory, vars
<1>2. ImportInv /\ [Next]_vars =>
        [\A r \in Runs : run[r] # "import_failed" /\ run'[r] = "import_failed"
                            => UNCHANGED <<rows, entities>>]_vars
  BY <1>1
<1>3. QED
  BY <1>2, TablesAlways, PTL DEF Spec, PriorRowsKept
-----------------------------------------------------------------------------
(* A content that is written is none that was there before.                *)
NoLater(c, d) == c.version < d.version \/ (c.version = d.version /\ (c.whole => d.whole))

(* No two rows have one file and content, none is of a content to come,    *)
(* what was hashed is what was parsed, and every file is covered.          *)
Distinct(s) == \A i, j \in DOMAIN s :
    s[i].file = s[j].file /\ s[i].sha = s[j].sha /\ s[i].file # 0 => i = j
Past(s, d) == \A i \in DOMAIN s : s[i].file # 0 => NoLater(s[i].sha, d[s[i].file])
Hashed(s) == \A i \in DOMAIN s : s[i].file # 0 => s[i].parsed = s[i].sha
Covers(r, s, todo, d) == \A f \in Files \ todo :
    RunOf[f] = r /\ d[f] # Absent => \E i \in DOMAIN s : s[i].file = f /\ s[i].parsed = d[f]

Once(p) == /\ Distinct(AllRows(p)) /\ Past(AllRows(p), disk)
           /\ \A i \in DOMAIN txn[p].new : txn[p].new[i].file \notin txn[p].todo
OnceInv == /\ \A r \in Runs : Distinct(rows[r]) /\ Past(rows[r], disk)
           /\ \A p \in Importers : Busy(p) => Once(p)

(* An import that nobody disturbed has all files but those it has to do;   *)
(* the run of one that was disturbed is not covered.                       *)
Kept(p) == /\ Hashed(AllRows(p))
           /\ IF txn[p].quiet THEN Covers(txn[p].run, AllRows(p), txn[p].todo, disk)
              ELSE txn[p].run \notin covered
RowsKept == \A r \in Runs : /\ Hashed(rows[r])
                            /\ r \in covered => Covers(r, rows[r], {}, disk)
KeptInv == RowsKept /\ \A p \in Importers : Busy(p) => Kept(p)

(* One more row.                                                           *)
LEMMA OneMore ==
    ASSUME NEW s \in Seq(FileRows), NEW x \in FileRows
    PROVE  /\ DOMAIN s \subseteq DOMAIN Append(s, x)
           /\ Len(s) + 1 \in DOMAIN Append(s, x) /\ Append(s, x)[Len(s) + 1] = x
           /\ \A i \in DOMAIN s : Append(s, x)[i] = s[i]
           /\ \A i \in DOMAIN Append(s, x) : i \in DOMAIN s \/ i = Len(s) + 1
BY AppendProperties, LenProperties

(* Rows in a row.                                                          *)
LEMMA InARow ==
    ASSUME NEW a \in Seq(FileRows), NEW b \in Seq(FileRows), NEW x \in FileRows
    PROVE  a \o Append(b, x) = Append(a \o b, x)
<1>0. <<x>> \in Seq(FileRows)
  OBVIOUS
<1>1. PICK one \in Seq(FileRows) : one = <<x>>
  BY <1>0, Zenon
<1>2. a \o b \in Seq(FileRows)
  BY ConcatProperties
<1>3. Append(b, x) = b \o one
  BY <1>1, AppendIsConcat
<1>4. Append(a \o b, x) = (a \o b) \o one
  BY <1>1, <1>2, AppendIsConcat
<1>5. (a \o b) \o one = a \o (b \o one)
  BY ConcatAssociative
<1>6. QED
  BY <1>3, <1>4, <1>5

(* The rows an import knows grow by the row it records.                    *)
LEMMA OneMoreRow ==
    ASSUME Typed, NEW p \in Importers, NEW x \in FileRows, rows' = rows,
           txn'[p].run = txn[p].run, txn'[p].mode = txn[p].mode,
           txn'[p].new = Append(txn[p].new, x)
    PROVE  AllRows(p)' = Append(AllRows(p), x) /\ OldRows(p)' = OldRows(p)
<1>1. OldRows(p)' = OldRows(p)
  BY DEF OldRows
<1>2. AllRows(p)' = OldRows(p) \o Append(txn[p].new, x)
  BY <1>1 DEF AllRows
<1>3. AllRows(p)' = Append(OldRows(p) \o txn[p].new, x)
  BY <1>2, RowsOf, InARow
<1>4. QED
  BY <1>1, <1>3 DEF AllRows

(* A row of a content that no other row of the file has.                   *)
LEMMA StillDistinct ==
    ASSUME NEW s \in Seq(FileRows), NEW x \in FileRows, Distinct(s),
           x.file # 0 => \A i \in DOMAIN s : s[i].file = x.file => s[i].sha # x.sha
    PROVE  Distinct(Append(s, x))
<1>1. /\ Append(s, x)[Len(s) + 1] = x
      /\ \A i \in DOMAIN s : Append(s, x)[i] = s[i]
      /\ \A i \in DOMAIN Append(s, x) : i \in DOMAIN s \/ i = Len(s) + 1
  BY OneMore
<1>2. QED
  BY <1>1 DEF Distinct

(* Contents only get later, and a file is not written with one it had.     *)
LEMMA DiskGrows ==
    ASSUME ImportInv, Numbered, [Next]_vars, NEW f \in Files, NEW c \in Contents,
           NoLater(c, disk[f])
    PROVE  NoLater(c, disk'[f])
<1>1. ASSUME NEW g \in Files, Writable(g), disk' = [disk EXCEPT ![g] = Written(g)]
      PROVE  NoLater(c, disk'[f])
  <2>1. disk[f] \in Contents /\ disk'[f] = IF f = g THEN Written(f) ELSE disk[f]
    BY <1>1 DEF ImportInv, Typed
  <2>2. c.version \in Int /\ disk[f].version \in Int /\ disk[f].whole \in BOOLEAN
    BY <2>1, FileNumbers, RunImportAssumption DEF Contents
  <2>3. /\ disk[f].whole => Written(f).version = disk[f].version + 1
        /\ ~disk[f].whole => /\ Written(f).version = disk[f].version
                             /\ Written(f).whole = TRUE
    BY <2>1 DEF Written, Contents
  <2>4. NoLater(c, Written(f))
    BY <2>2, <2>3 DEF NoLater
  <2>5. QED
    BY <2>1, <2>4
<1>2. CASE disk' = disk
  BY <1>2
<1>3. ASSUME NEW p \in Importers, Read(p) PROVE NoLater(c, disk'[f])
  BY <1>1, <1>2, <1>3, ReadEffect, NextFileIs DEF ImportInv
<1>4. ASSUME NEW p \in Importers, Import(p), ~Read(p) PROVE disk' = disk
  BY <1>4 DEF Import, Begin, Clear, StartNormalizing, Normalize, WriteRow, Finish, Fail
<1>5. QED
  BY <1>1, <1>2, <1>3, <1>4 DEF Next, Write, NoDirectory, vars

(* A file is not written with a content it had.                            *)
LEMMA NeverAgain ==
    ASSUME Typed, NEW f \in Files, NEW c \in Contents, NoLater(c, disk[f])
    PROVE  c # Written(f)
<1>1. disk[f] \in Contents
  BY DEF Typed
<1>2. c.version \in Int /\ disk[f].version \in Int /\ disk[f].whole \in BOOLEAN
  BY <1>1, FileNumbers, RunImportAssumption DEF Contents
<1>3. /\ disk[f].whole => Written(f).version = disk[f].version + 1
      /\ ~disk[f].whole => /\ Written(f).version = disk[f].version
                           /\ Written(f).whole = TRUE
  BY <1>1 DEF Written, Contents
<1>4. QED
  BY <1>2, <1>3 DEF NoLater

(* Rows go on being of contents that were there.                           *)
LEMMA PastGrows ==
    ASSUME ImportInv, Numbered, [Next]_vars, NEW s \in Seq(FileRows), Past(s, disk)
    PROVE  Past(s, disk')
<1>1. \A i \in DOMAIN s : /\ s[i].sha \in Contents
                          /\ s[i].file # 0 => s[i].file \in Files
  BY ElementOfSeq, LenProperties DEF FileRows, Rows
<1>2. QED
  BY <1>1, DiskGrows DEF Past

(* What a step of an import does to the rows it knows.                     *)
GoesOn(p) ==
    /\ rows' = rows /\ disk' = disk /\ covered' = covered /\ Busy(p)
    /\ txn'[p].run = txn[p].run /\ txn'[p].mode = txn[p].mode /\ txn'[p].todo = txn[p].todo
    /\ txn'[p].new = txn[p].new /\ txn'[p].quiet = txn[p].quiet

(* The steps between the first and the last file leave the rows alone.     *)
LEMMA RowSteps ==
    ASSUME ImportInv, Numbered, NEW p \in Importers, Import(p)
    PROVE  \/ GoesOn(p) \/ Read(p) \/ Finish(p) \/ Fail(p)
           \/ \E r \in Runs, mode \in Modes : Begin(p, r, mode)
<1> USE DEF ImportInv
<1>1. CASE Clear(p)
  BY <1>1, ClearEffect DEF Clear, GoesOn, Busy
<1>2. CASE StartNormalizing(p)
  BY <1>2, StartEffect DEF StartNormalizing, GoesOn, Files0, Keeps, Busy
<1>3. CASE Normalize(p)
  <2>1. UNCHANGED <<rows, disk, covered>> /\ Busy(p)
    BY <1>3 DEF Normalize, Busy
  <2>2. Files0(p)
    BY <1>3, NormalizeEffect DEF Skips, Takes, Wants, Advances
  <2>3. QED
    BY <2>1, <2>2 DEF GoesOn, Files0, Keeps
<1>4. CASE WriteRow(p)
  <2>1. UNCHANGED <<rows, disk, covered>> /\ Busy(p)
    BY <1>4 DEF WriteRow, Busy
  <2>2. Files0(p)
    BY <1>4, WriteRowEffect DEF Advances
  <2>3. QED
    BY <2>1, <2>2 DEF GoesOn, Files0, Keeps
<1>5. QED
  BY <1>1, <1>2, <1>3, <1>4 DEF Import

(* What an import begins with.                                             *)
LEMMA BeginRows ==
    ASSUME Typed, NEW p \in Importers, NEW r \in Runs, NEW mode \in Modes, Begin(p, r, mode)
    PROVE  /\ AllRows(p)' = OldRows(p)' \/ AllRows(p)' = Append(OldRows(p)', Missing)
           /\ OldRows(p)' = <<>> \/ OldRows(p)' = rows[r]
           /\ OldRows(p)' \in Seq(FileRows)
           /\ rows' = rows /\ disk' = disk /\ covered' = covered
           /\ OnDisk(r)' = OnDisk(r)
           /\ \A i \in DOMAIN txn'[p].new : txn'[p].new[i] = Missing
<1>1. rows' = rows /\ disk' = disk /\ covered' = covered
  BY DEF Begin
<1>2. OldRows(p)' = (IF mode = "full" THEN <<>> ELSE rows[r])
  <2>1. txn'[p].run = r /\ txn'[p].mode = mode
    BY BeginEffect
  <2>2. QED
    BY <1>1, <2>1 DEF OldRows
<1>3. OldRows(p)' \in Seq(FileRows) /\ <<Missing>> \in Seq(FileRows)
  BY <1>2, EmptySeq, MissingRow DEF Typed
<1>4. txn'[p].new = <<Missing>> \/ txn'[p].new = <<>>
  BY BeginEffect
<1>5. CASE txn'[p].new = <<Missing>>
  <2>1. AllRows(p)' = Append(OldRows(p)', Missing)
    BY <1>3, <1>5, AppendIsConcat, MissingRow DEF AllRows
  <2>2. QED
    BY <1>1, <1>2, <1>3, <1>5, <2>1 DEF OnDisk
<1>6. CASE txn'[p].new = <<>>
  <2>1. AllRows(p)' = OldRows(p)'
    BY <1>3, <1>6, ConcatEmptySeq DEF AllRows
  <2>2. QED
    BY <1>1, <1>2, <1>3, <1>6, <2>1 DEF OnDisk
<1>7. QED
  BY <1>4, <1>5, <1>6

(* The row a file that is not known gets.                                  *)
LEMMA ReadRow ==
    ASSUME ImportInv, NEW p \in Importers, Read(p)
    PROVE  /\ rows' = rows /\ Busy(p) /\ Reads(p) /\ NextFile(p) \in txn[p].todo
           /\ NextFile(p) \in Files /\ txn'[p].todo = txn[p].todo \ {NextFile(p)}
           /\ OldRows(p)' = OldRows(p)
           /\ \/ /\ AllRows(p)' = AllRows(p) /\ txn'[p].new = txn[p].new
                 /\ disk' = disk /\ Known(p, NextFile(p))
              \/ \E x \in FileRows :
                    /\ x.file = NextFile(p) /\ x.parsed = disk[NextFile(p)]
                    /\ ~Known(p, NextFile(p))
                    /\ AllRows(p)' = Append(AllRows(p), x)
                    /\ txn'[p].new = Append(txn[p].new, x)
                    /\ \/ x.sha = disk[NextFile(p)] /\ disk' = disk
                       \/ /\ x.sha = Written(NextFile(p))
                          /\ disk' = [disk EXCEPT ![NextFile(p)] = x.sha]
<1> DEFINE f == NextFile(p)
<1>0. Typed /\ txn[p].new \in Seq(FileRows)
  BY DEF ImportInv, Typed, Txn
<1>1. /\ rows' = rows /\ Busy(p) /\ Reads(p) /\ f \in txn[p].todo /\ f \in Files
      /\ disk[f] \in Contents /\ txn'[p].todo = txn[p].todo \ {f}
  BY <1>0, ReadEffect, NextFileIs DEF Read, Busy, Typed
<1>2. CASE txn'[p].new = txn[p].new /\ disk' = disk /\ Known(p, f)
  BY <1>1, <1>2, SameRows DEF Reads, Keeps
<1>3. ASSUME NEW sha \in Contents,
             txn'[p].new = Append(txn[p].new, [file |-> f, sha |-> sha, parsed |-> disk[f]]),
             ~Known(p, f),
             \/ sha = disk[f] /\ disk' = disk
             \/ sha = Written(f) /\ disk' = [disk EXCEPT ![f] = sha]
      PROVE  /\ OldRows(p)' = OldRows(p)
             /\ \E x \in FileRows :
                  /\ x.file = f /\ x.parsed = disk[f] /\ ~Known(p, f)
                  /\ AllRows(p)' = Append(AllRows(p), x)
                  /\ txn'[p].new = Append(txn[p].new, x)
                  /\ \/ x.sha = disk[f] /\ disk' = disk
                     \/ x.sha = Written(f) /\ disk' = [disk EXCEPT ![f] = x.sha]
  <2>1. PICK x : x = [file |-> f, sha |-> sha, parsed |-> disk[f]]
    OBVIOUS
  <2> HIDE DEF f
  <2>2. x \in FileRows /\ x.file = f /\ x.sha = sha /\ x.parsed = disk[f]
    BY <1>1, <2>1 DEF FileRows, Rows
  <2>3. AllRows(p)' = Append(AllRows(p), x) /\ OldRows(p)' = OldRows(p)
    BY <1>0, <1>1, <1>3, <2>1, <2>2, OneMoreRow DEF Reads, Keeps
  <2>4. QED
    BY <1>3, <2>1, <2>2, <2>3
<1>4. QED
  BY <1>0, <1>1, <1>2, <1>3, ReadEffect

(* Each content of a file goes on having at most one row.                  *)
LEMMA OnceNext ==
    ASSUME ImportInv, Numbered, OnceInv, [Next]_vars
    PROVE  OnceInv'
<1> USE DEF OnceInv
<1>0. /\ Typed
      /\ \A r \in Runs : rows[r] \in Seq(FileRows)
      /\ \A p \in Importers : AllRows(p) \in Seq(FileRows) /\ txn[p].new \in Seq(FileRows)
  BY RowsOf DEF ImportInv, Typed
<1>1. \A r \in Runs : Distinct(rows[r]) /\ Past(rows[r], disk')
  BY <1>0, PastGrows
<1>2. \A p \in Importers : Busy(p) => Distinct(AllRows(p)) /\ Past(AllRows(p), disk')
  BY <1>0, PastGrows DEF Once
<1>3. ASSUME NEW p \in Importers, Alike(p), AllRows(p)' = AllRows(p)
      PROVE  Busy(p)' => Once(p)'
  BY <1>2, <1>3 DEF Once, Alike, Busy
<1>4. ASSUME NEW p \in Importers, Import(p)
      PROVE  /\ \A r \in Runs : Distinct(rows'[r]) /\ Past(rows'[r], disk')
             /\ Busy(p)' => Once(p)'
  <2>1. CASE GoesOn(p)
    <3>1. AllRows(p)' = AllRows(p)
      BY <2>1, SameRows DEF GoesOn
    <3>2. Once(p)'
      BY <1>2, <2>1, <3>1 DEF GoesOn, Once
    <3>3. QED
      BY <1>1, <2>1, <3>2 DEF GoesOn
  <2>2. CASE Read(p)
    <3> DEFINE f == NextFile(p)
    <3>1. /\ rows' = rows /\ Busy(p) /\ f \in txn[p].todo /\ f \in Files
          /\ txn'[p].todo = txn[p].todo \ {f}
      BY <2>2, ReadRow
    <3>2. /\ Distinct(AllRows(p)) /\ Past(AllRows(p), disk) /\ Past(AllRows(p), disk')
          /\ \A i \in DOMAIN txn[p].new : txn[p].new[i].file \notin txn[p].todo
      BY <1>2, <3>1 DEF Once
    <3>3. ASSUME AllRows(p)' = AllRows(p), txn'[p].new = txn[p].new PROVE Once(p)'
      BY <1>1, <3>1, <3>2, <3>3 DEF Once
    <3>4. ASSUME NEW x \in FileRows, x.file = f, ~Known(p, f),
                 AllRows(p)' = Append(AllRows(p), x), txn'[p].new = Append(txn[p].new, x),
                 \/ x.sha = disk[f] /\ disk' = disk
                 \/ x.sha = Written(f) /\ disk' = [disk EXCEPT ![f] = x.sha]
          PROVE  Once(p)'
      <4>1. \A i \in DOMAIN AllRows(p) : AllRows(p)[i].file = f => AllRows(p)[i].sha # x.sha
        <5>1. SUFFICES ASSUME NEW i \in DOMAIN AllRows(p), AllRows(p)[i].file = f
                       PROVE  AllRows(p)[i].sha # x.sha
          OBVIOUS
        <5>2. AllRows(p)[i] \in FileRows /\ f # 0
          BY <1>0, <3>1, RowsOf, FileNumbers
        <5>3. CASE x.sha = Written(f)
          BY <1>0, <3>1, <3>2, <5>1, <5>2, <5>3, NeverAgain DEF Past, FileRows, Rows
        <5>4. CASE x.sha = disk[f] /\ i <= Len(OldRows(p))
          <6>1. AllRows(p)[i] = OldRows(p)[i] /\ i \in DOMAIN OldRows(p)
            BY <1>0, <5>4, RowsOf, LenProperties
          <6>2. QED
            BY <3>4, <5>1, <5>4, <6>1 DEF Known
        <5>5. CASE ~(i <= Len(OldRows(p)))
          <6>1. /\ AllRows(p)[i] = txn[p].new[i - Len(OldRows(p))]
                /\ i - Len(OldRows(p)) \in DOMAIN txn[p].new
            BY <1>0, <5>5, RowsOf, LenProperties
          <6>2. QED
            BY <3>1, <3>2, <5>1, <6>1
        <5>6. QED
          BY <3>4, <5>3, <5>4, <5>5
      <4>2. Distinct(AllRows(p))'
        BY <1>0, <3>2, <3>4, <4>1, StillDistinct
      <4>3. disk'[f] = x.sha /\ NoLater(x.sha, x.sha)
        <5>1. x.sha.version \in Int
          BY <3>4, FileNumbers, RunImportAssumption DEF FileRows, Rows, Contents
        <5>2. QED
          BY <1>0, <3>1, <3>4, <5>1 DEF NoLater, Typed
      <4>4. Past(AllRows(p), disk)'
        BY <1>0, <3>2, <3>4, <4>3, OneMore DEF Past
      <4>5. \A i \in DOMAIN txn'[p].new : txn'[p].new[i].file \notin txn'[p].todo
        BY <1>0, <3>1, <3>2, <3>4, OneMore
      <4>6. QED
        BY <4>2, <4>4, <4>5 DEF Once
    <3>5. Once(p)'
      BY <2>2, <3>3, <3>4, ReadRow
    <3>6. QED
      BY <1>1, <3>1, <3>5
  <2>3. CASE Finish(p)
    <3>1. Busy(p) /\ txn[p].run \in Runs /\ ~Busy(p)'
          /\ rows' = [rows EXCEPT ![txn[p].run] = AllRows(p)]
      BY <1>0, <2>3, EndEffect, IdleRow DEF Finish, Busy, Typed, Txn
    <3>2. QED
      BY <1>0, <1>1, <1>2, <3>1 DEF Typed
  <2>4. CASE Fail(p)
    BY <1>0, <1>1, <2>4, EndEffect, IdleRow DEF Fail, RollBack, Busy
  <2>5. ASSUME NEW r \in Runs, NEW mode \in Modes, Begin(p, r, mode)
        PROVE  Once(p)' /\ rows' = rows
    <3> DEFINE old == OldRows(p)'
    <3>1. /\ AllRows(p)' = old \/ AllRows(p)' = Append(old, Missing)
          /\ old = <<>> \/ old = rows[r]
          /\ old \in Seq(FileRows) /\ rows' = rows /\ disk' = disk
          /\ \A i \in DOMAIN txn'[p].new : txn'[p].new[i] = Missing
      BY <1>0, <2>5, BeginRows
    <3>2. Missing \in FileRows /\ Missing.file = 0
      BY MissingRow
    <3> HIDE DEF old
    <3>3. Distinct(old) /\ Past(old, disk')
      <4>1. CASE old = <<>>
        BY <4>1 DEF Distinct, Past
      <4>2. QED
        BY <1>1, <3>1, <4>1
    <3>4. Distinct(Append(old, Missing)) /\ Past(Append(old, Missing), disk')
      <4>1. Distinct(Append(old, Missing))
        BY <3>1, <3>2, <3>3, StillDistinct
      <4>2. Past(Append(old, Missing), disk')
        BY <3>1, <3>2, <3>3, OneMore DEF Past
      <4>3. QED
        BY <4>1, <4>2
    <3>5. \A i \in DOMAIN txn'[p].new : txn'[p].new[i].file \notin txn'[p].todo
      <4>1. txn'[p].todo \subseteq Files
        BY <1>0, <2>5, BeginEffect DEF OnDisk, FilesOf
      <4>2. QED
        BY <3>1, <3>2, <4>1, FileNumbers
    <3>6. QED
      BY <3>1, <3>3, <3>4, <3>5 DEF Once
  <2>6. QED
    BY <1>1, <1>4, <2>1, <2>2, <2>3, <2>4, <2>5, RowSteps
<1>5. ASSUME NEW p \in Importers, Import(p) PROVE OnceInv'
  <2>1. \A q \in Importers \ {p} : Busy(q)' => Once(q)'
    BY <1>3, <1>5, OthersKnow
  <2>2. QED
    BY <1>4, <1>5, <2>1
<1>6. ASSUME rows' = rows, \A p \in Importers : Alike(p) PROVE OnceInv'
  <2>1. \A p \in Importers : AllRows(p)' = AllRows(p)
    BY <1>6, SameRows DEF Alike
  <2>2. QED
    BY <1>1, <1>3, <1>6, <2>1
<1>7. ASSUME NEW f \in Files, Write(f) PROVE OnceInv'
  BY <1>0, <1>6, <1>7, WriteEffect DEF Write
<1>8. CASE UNCHANGED <<rows, txn>>
  BY <1>6, <1>8 DEF Alike
<1>9. QED
  BY <1>5, <1>7, <1>8 DEF Next, NoDirectory, vars

(* Who does not take the step goes on being disturbed, or not.             *)
LEMMA OthersQuiet ==
    ASSUME ImportInv, Numbered, ~Rewrites, NEW p \in Importers, Import(p)
    PROVE  /\ \A q \in Importers \ {p} : txn'[q].quiet = txn[q].quiet
           /\ disk' = disk /\ (~Finish(p) => covered' = covered)
<1> USE DEF ImportInv
<1>1. OnlyOf(p)
  <2>1. ASSUME NEW r \in Runs, NEW mode \in Modes, Begin(p, r, mode) PROVE OnlyOf(p)
    BY <2>1, BeginEffect
  <2>2. CASE Clear(p) \/ Read(p) \/ StartNormalizing(p)
    BY <2>2, ClearEffect, ReadEffect, StartEffect
  <2>3. CASE Normalize(p) \/ WriteRow(p)
    BY <2>3, NormalizeEffect, WriteRowEffect
  <2>4. CASE Finish(p) \/ Fail(p)
    BY <2>4, EndEffect
  <2>5. QED
    BY <2>1, <2>2, <2>3, <2>4 DEF Import
<1>2. disk' = disk /\ (~Finish(p) => covered' = covered)
  BY ReadEffect DEF Import, Begin, Clear, StartNormalizing, Normalize, WriteRow, Finish, Fail
<1>3. QED
  BY <1>1, <1>2 DEF OnlyOf

(* As long as no file is written between its parsing and its hashing, a    *)
(* run that is covered has every file, as it is.                           *)
LEMMA KeptNext ==
    ASSUME ImportInv, Numbered, ~Rewrites, KeptInv, [Next]_vars
    PROVE  KeptInv'
<1> USE DEF KeptInv, RowsKept
<1>0. /\ Typed
      /\ \A r \in Runs : rows[r] \in Seq(FileRows)
      /\ \A p \in Importers : AllRows(p) \in Seq(FileRows) /\ txn[p].run \in Runs
  BY RowsOf DEF ImportInv, Typed, Txn
<1>1. ASSUME NEW p \in Importers, GoesOn(p) PROVE RowsKept' /\ (Busy(p)' => Kept(p)')
  <2>1. AllRows(p)' = AllRows(p)
    BY <1>1, SameRows DEF GoesOn
  <2>2. QED
    BY <1>1, <2>1 DEF GoesOn, Kept
<1>2. ASSUME NEW p \in Importers, Read(p) PROVE RowsKept' /\ (Busy(p)' => Kept(p)')
  <2> DEFINE f == NextFile(p)
  <2>1. /\ rows' = rows /\ Busy(p) /\ f \in txn[p].todo /\ f \in Files /\ f # 0
        /\ txn'[p].todo = txn[p].todo \ {f} /\ txn'[p].run = txn[p].run
        /\ disk' = disk /\ covered' = covered /\ txn'[p].quiet = txn[p].quiet
    BY <1>0, <1>2, ReadRow, ReadEffect, FileNumbers DEF Reads, Keeps
  <2>2. /\ DOMAIN AllRows(p) \subseteq DOMAIN AllRows(p)'
        /\ \A i \in DOMAIN AllRows(p) : AllRows(p)'[i] = AllRows(p)[i]
        /\ Hashed(AllRows(p))'
        /\ \E i \in DOMAIN AllRows(p)' : /\ AllRows(p)'[i].file = f
                                         /\ AllRows(p)'[i].parsed = disk[f]
    <3>1. Hashed(AllRows(p))
      BY <2>1 DEF Kept
    <3>2. ASSUME AllRows(p)' = AllRows(p), Known(p, f)
          PROVE  \E i \in DOMAIN AllRows(p) : /\ AllRows(p)[i].file = f
                                              /\ AllRows(p)[i].parsed = disk[f]
      <4>1. PICK i \in DOMAIN OldRows(p) : OldRows(p)[i].file = f /\ OldRows(p)[i].sha = disk[f]
        BY <3>2 DEF Known
      <4>2. i \in DOMAIN AllRows(p) /\ AllRows(p)[i] = OldRows(p)[i]
        <5>1. /\ Len(OldRows(p)) \in Nat /\ Len(txn[p].new) \in Nat
              /\ i \in 1..Len(OldRows(p))
          BY <1>0, <4>1, RowsOf, LenProperties
        <5>2. QED
          BY <1>0, <5>1, RowsOf
      <4>3. QED
        BY <2>1, <3>1, <4>1, <4>2 DEF Hashed
    <3>3. ASSUME NEW x \in FileRows, x.file = f, x.parsed = disk[f],
                 x.sha = disk[f], AllRows(p)' = Append(AllRows(p), x)
          PROVE  /\ DOMAIN AllRows(p) \subseteq DOMAIN AllRows(p)'
                 /\ \A i \in DOMAIN AllRows(p) : AllRows(p)'[i] = AllRows(p)[i]
                 /\ Hashed(AllRows(p))'
                 /\ \E i \in DOMAIN AllRows(p)' : /\ AllRows(p)'[i].file = f
                                                  /\ AllRows(p)'[i].parsed = disk[f]
      BY <1>0, <3>1, <3>3, OneMore DEF Hashed
    <3>4. \/ AllRows(p)' = AllRows(p) /\ Known(p, f)
          \/ \E x \in FileRows : /\ x.file = f /\ x.parsed = disk[f] /\ x.sha = disk[f]
                                 /\ AllRows(p)' = Append(AllRows(p), x)
      BY <1>0, <1>2, <2>1, ReadRow DEF Typed
    <3>5. QED
      BY <3>1, <3>2, <3>3, <3>4
  <2> HIDE DEF f
  <2>3. txn'[p].quiet => Covers(txn'[p].run, AllRows(p)', txn'[p].todo, disk')
    <3>1. SUFFICES ASSUME txn[p].quiet, NEW g \in Files \ txn'[p].todo, RunOf[g] = txn[p].run,
                          disk[g] # Absent
                   PROVE  \E i \in DOMAIN AllRows(p)' : /\ AllRows(p)'[i].file = g
                                                        /\ AllRows(p)'[i].parsed = disk[g]
      BY <2>1 DEF Covers
    <3>2. CASE g = f
      BY <2>2, <3>2
    <3>3. CASE g \notin txn[p].todo
      <4>1. PICK i \in DOMAIN AllRows(p) : AllRows(p)[i].file = g /\ AllRows(p)[i].parsed = disk[g]
        BY <2>1, <3>1, <3>3 DEF Kept, Covers
      <4>2. QED
        BY <2>2, <4>1
    <3>4. QED
      BY <2>1, <3>1, <3>2, <3>3
  <2>4. Kept(p)'
    BY <2>1, <2>2, <2>3 DEF Kept
  <2>5. QED
    BY <2>1, <2>4
<1>3. ASSUME NEW p \in Importers, NEW r \in Runs, NEW mode \in Modes, Begin(p, r, mode)
      PROVE  RowsKept' /\ (Busy(p)' => Kept(p)')
  <2> DEFINE old == OldRows(p)'
  <2>1. /\ AllRows(p)' = old \/ AllRows(p)' = Append(old, Missing)
        /\ old = <<>> \/ old = rows[r]
        /\ old \in Seq(FileRows) /\ rows' = rows /\ disk' = disk /\ covered' = covered
    BY <1>0, <1>3, BeginRows
  <2>2. txn'[p].run = r /\ txn'[p].todo = OnDisk(r) /\ txn'[p].quiet = TRUE
    BY <1>0, <1>3, BeginEffect
  <2> HIDE DEF old
  <2>3. Missing \in FileRows /\ Missing.file = 0
    BY MissingRow
  <2>4. Hashed(old)
    BY <2>1 DEF Hashed
  <2>5. Hashed(Append(old, Missing))
    BY <2>1, <2>3, <2>4, OneMore DEF Hashed
  <2>6. Covers(r, AllRows(p)', OnDisk(r), disk)
    BY DEF Covers, OnDisk, FilesOf
  <2>7. QED
    BY <2>1, <2>2, <2>4, <2>5, <2>6 DEF Kept
<1>4. ASSUME NEW p \in Importers, Finish(p)
      PROVE  /\ RowsKept' /\ ~Busy(p)'
             /\ \A r \in Runs : r # txn[p].run => (r \in covered' <=> r \in covered)
  <2>1. /\ Busy(p) /\ ~Busy(p)' /\ disk' = disk /\ txn[p].todo = {}
        /\ rows' = [rows EXCEPT ![txn[p].run] = AllRows(p)]
        /\ covered' = IF txn[p].quiet THEN covered \cup {txn[p].run} ELSE covered
    BY <1>0, <1>4, EndEffect, IdleRow DEF Finish, Busy, ImportInv, Phased
  <2>2. Hashed(AllRows(p))
        /\ (txn[p].run \in covered' => Covers(txn[p].run, AllRows(p), {}, disk))
    BY <2>1 DEF Kept
  <2>3. QED
    BY <1>0, <2>1, <2>2 DEF Typed
<1>5. ASSUME NEW p \in Importers, Import(p) PROVE KeptInv'
  <2>1. RowsKept' /\ (Busy(p)' => Kept(p)')
    <3>1. CASE Fail(p)
      BY <1>0, <1>5, <3>1, EndEffect, IdleRow DEF Fail, RollBack, Busy
    <3>2. QED
      BY <1>1, <1>2, <1>3, <1>4, <1>5, <3>1, RowSteps
  <2>2. ASSUME NEW q \in Importers \ {p}, Busy(q)' PROVE Kept(q)'
    <3>1. /\ AllRows(q)' = AllRows(q) /\ Alike(q) /\ txn'[q].quiet = txn[q].quiet
          /\ disk' = disk
      BY <1>5, OthersKnow, OthersQuiet
    <3>2. Busy(q) /\ Kept(q)
      BY <2>2, <3>1 DEF Alike, Busy
    <3>3. txn[q].run \in covered' => txn[q].run \in covered
      <4>1. CASE Finish(p)
        <5>1. txn[p].run # txn[q].run
          BY <3>2, <4>1 DEF Finish, Busy, ImportInv, Alone
        <5>2. QED
          BY <1>0, <1>4, <4>1, <5>1
      <4>2. QED
        BY <1>5, <4>1, OthersQuiet
    <3>4. QED
      BY <3>1, <3>2, <3>3 DEF Kept, Alike
  <2>3. QED
    BY <2>1, <2>2
<1>6. ASSUME NEW f \in Files, Write(f) PROVE KeptInv'
  <2>1. /\ rows' = rows /\ covered' = covered \ {RunOf[f]}
        /\ \A g \in Files : RunOf[g] # RunOf[f] => disk'[g] = disk[g]
    BY <1>0, <1>6 DEF Write, Typed
  <2>2. RowsKept'
    BY <2>1 DEF Covers
  <2>3. ASSUME NEW p \in Importers, Busy(p)' PROVE Kept(p)'
    <3>1. Alike(p) /\ txn'[p].quiet = (txn[p].quiet /\ txn[p].run # RunOf[f])
      BY <1>0, <1>6, WriteEffect
    <3>2. AllRows(p)' = AllRows(p) /\ Busy(p)
      BY <2>1, <2>3, <3>1, SameRows DEF Alike, Busy
    <3>3. Kept(p) /\ txn[p].quiet \in BOOLEAN
      BY <1>0, <3>2 DEF Typed, Txn
    <3>4. txn'[p].quiet => Covers(txn[p].run, AllRows(p), txn[p].todo, disk')
      <4>1. SUFFICES ASSUME txn'[p].quiet PROVE Covers(txn[p].run, AllRows(p), txn[p].todo, disk')
        OBVIOUS
      <4>2. Covers(txn[p].run, AllRows(p), txn[p].todo, disk)
            /\ \A g \in Files : RunOf[g] = txn[p].run => disk'[g] = disk[g]
        BY <2>1, <3>1, <3>3, <4>1 DEF Kept
      <4>3. QED
        BY <4>2 DEF Covers
    <3>5. ~txn'[p].quiet => txn[p].run \notin covered'
      BY <2>1, <3>1, <3>3 DEF Kept
    <3>6. QED
      BY <3>1, <3>2, <3>3, <3>4, <3>5 DEF Kept, Alike
  <2>4. QED
    BY <2>2, <2>3
<1>7. CASE UNCHANGED <<rows, txn, disk, covered>>
  <2>1. \A p \in Importers : AllRows(p)' = AllRows(p)
    BY <1>7, SameRows
  <2>2. QED
    BY <1>7, <2>1 DEF Kept, Busy
<1>8. QED
  BY <1>5, <1>6, <1>7 DEF Next, NoDirectory, vars

(* No run has rows at the start.                                           *)
LEMMA RowsInit == Init => OnceInv /\ KeptInv
<1>1. SUFFICES ASSUME Init PROVE OnceInv /\ KeptInv
  OBVIOUS
<1>2. \A p \in Importers : ~Busy(p)
  BY <1>1, IdleRow DEF Init, Busy
<1>3. \A r \in Runs : rows[r] = <<>> /\ r \notin covered
  BY <1>1 DEF Init
<1>4. QED
  BY <1>2, <1>3 DEF OnceInv, KeptInv, RowsKept, Distinct, Past, Hashed

(* What the inductive invariants say in the words of the model.            *)
LEMMA TypesFollow == ImportInv /\ TableInv => TypeOK
<1>1. SUFFICES ASSUME ImportInv, TableInv PROVE TypeOK
  OBVIOUS
<1>2. Typed /\ Seq(FileRows) \subseteq Seq(Rows)
  BY <1>1, SeqMonotonic DEF ImportInv, FileRows
<1>3. \A e, x \in entities :
          e.key = x.key \/ <<e.kind, e.id>> = <<x.kind, x.id>> => e = x
  BY <1>1 DEF TableInv, Unique, Like
<1>4. ASSUME NEW p \in Importers
      PROVE  /\ txn[p].at \in {"idle", "clear", "read", "normalize", "write"}
             /\ txn[p].run \in Runs /\ txn[p].mode \in Modes /\ txn[p].todo \subseteq Files
             /\ txn[p].new \in Seq(Rows) /\ txn[p].queue \subseteq DOMAIN AllRows(p)
             /\ txn[p].written \subseteq Entities
  <2>1. txn[p] \in Txn
    BY <1>2 DEF Typed
  <2>2. txn[p].queue \subseteq DOMAIN AllRows(p)
    BY <1>1 DEF ImportInv, Phased, ValidRows
  <2>3. QED
    BY <1>2, <2>1, <2>2 DEF Txn, Ats
<1>5. QED
  BY <1>2, <1>3, <1>4 DEF TypeOK, Typed

(* Whatever the agents write meanwhile, an entity of one kind and id has   *)
(* one row, and each content of a file is imported once.                   *)
THEOREM ContentsImportedOnce == Spec => [](TypeOK /\ UnchangedOnce)
<1>1. OnceInv => UnchangedOnce
  BY DEF OnceInv, Distinct, UnchangedOnce
<1>2. ImportInv /\ TableInv /\ OnceInv /\ [Next]_vars => OnceInv'
  BY OnceNext DEF TableInv
<1>3. QED
  BY <1>1, <1>2, RowsInit, TypesFollow, TablesAlways, PTL DEF Spec

(* The rows of a run are those of its files, each version once and none    *)
(* left out, and an entity of one kind and id has one row: as long as no   *)
(* file is written between its parsing and its hashing, which the code     *)
(* cannot rule out.                                                        *)
THEOREM RowsStayTrue == ASSUME ~Rewrites PROVE Spec => []RowsTrue
<1>1. ImportInv /\ KeptInv => NothingLost
  <2>1. SUFFICES ASSUME ImportInv, KeptInv, NEW r \in covered, NEW f \in OnDisk(r)
                 PROVE  \E i \in DOMAIN rows[r] : rows[r][i].file = f /\ rows[r][i].parsed = disk[f]
    BY DEF NothingLost
  <2>2. r \in Runs
    BY <2>1 DEF ImportInv, Typed
  <2>3. QED
    BY <2>1, <2>2 DEF KeptInv, RowsKept, Covers, OnDisk, FilesOf
<1>2. ImportInv /\ TableInv /\ KeptInv /\ [Next]_vars => KeptInv'
  BY KeptNext DEF TableInv
<1>3. TypeOK /\ UnchangedOnce /\ NothingLost => RowsTrue
  BY DEF RowsTrue
<1>4. QED
  BY <1>1, <1>2, <1>3, RowsInit, TablesAlways, ContentsImportedOnce, PTL DEF Spec
-----------------------------------------------------------------------------
(* A company is among the files an import knows.                           *)
Brings(p, id) ==
    \E i \in ValidRows(p) : KindOf[FileOf(p, i)] = "company" /\ IdOf[FileOf(p, i)] = id

(* A contact an import makes is linked exactly when its company is among   *)
(* those files; what it can be linked to are those companies, as far as    *)
(* they have been normalized.                                              *)
LinkedRightly(p, e) ==
    e.kind = "contact" =>
        /\ e.of = txn[p].run
        /\ \E f \in Files : /\ KindOf[f] = "contact" /\ IdOf[f] = e.id
                            /\ e.company # 0 <=> Brings(p, CompanyOf[f])

Linked(p) ==
    /\ \A e \in txn[p].written \cup txn[p].pending : LinkedRightly(p, e)
    /\ \A c \in txn[p].link : c.kind = "company" /\ Brings(p, c.id)
    /\ \A x \in txn[p].seen : x[1] = "company" => \E c \in txn[p].link : c.id = x[2]
    /\ txn[p].at \in {"normalize", "write"} =>
          \A i \in ValidRows(p) \ txn[p].queue :
              KindOf[FileOf(p, i)] = "company" =>
                  \E c \in txn[p].link : c.id = IdOf[FileOf(p, i)]

(* Companies come first: when it is the turn of a contact, the companies   *)
(* of the run can be linked to.                                            *)
LEMMA ContactsTurn ==
    ASSUME ImportInv, Positive, NEW p \in Importers, Linked(p), Normalize(p),
           KindOf[FileOf(p, NextRow(p))] = "contact"
    PROVE  LinkedRightly(p, Fresh(p, FileOf(p, NextRow(p))))
<1> DEFINE f == FileOf(p, NextRow(p))
<1>1. /\ txn[p].queue # {} /\ txn[p].queue \subseteq ValidRows(p) /\ txn[p].at = "normalize"
      /\ Typed
  BY DEF Normalize, ImportInv, Phased
<1>2. f \in Files /\ \A j \in txn[p].queue : TurnOf(p, NextRow(p)) <= TurnOf(p, j)
  BY <1>1, NextRowIs
<1>3. \A i \in ValidRows(p) : KindOf[FileOf(p, i)] = "company" => i \notin txn[p].queue
  BY <1>2 DEF TurnOf, Turn, FileOf
<1>4. ASSUME Brings(p, CompanyOf[f]) PROVE Company(p, f) # 0
  <2>1. PICK i \in ValidRows(p) :
          KindOf[FileOf(p, i)] = "company" /\ IdOf[FileOf(p, i)] = CompanyOf[f]
    BY <1>4 DEF Brings
  <2>2. PICK c \in txn[p].link : c.id = CompanyOf[f]
    BY <1>1, <1>3, <2>1 DEF Linked
  <2>3. c.kind = "company"
    BY DEF Linked
  <2>4. PICK d \in txn[p].link : d.key = Company(p, f)
    BY <1>1, <2>2, <2>3, CompanyIs
  <2>5. QED
    BY <2>4 DEF Positive
<1>5. ASSUME Company(p, f) # 0 PROVE Brings(p, CompanyOf[f])
  <2>1. PICK c \in txn[p].link : c.id = CompanyOf[f]
    BY <1>1, <1>5, CompanyIs
  <2>2. QED
    BY <2>1 DEF Linked
<1>6. /\ Fresh(p, f).kind = "contact" /\ Fresh(p, f).id = IdOf[f]
      /\ Fresh(p, f).of = txn[p].run /\ Fresh(p, f).company = Company(p, f)
  BY <1>1, <1>2, FreshIs DEF Defines
<1>7. QED
  BY <1>2, <1>4, <1>5, <1>6 DEF LinkedRightly

(* As long as an import knows the same files, a link goes on being right.  *)
LEMMA StillRight ==
    ASSUME NEW p, txn'[p].run = txn[p].run, ValidRows(p)' = ValidRows(p),
           \A i : FileOf(p, i)' = FileOf(p, i)
    PROVE  /\ \A id : Brings(p, id)' <=> Brings(p, id)
           /\ \A e : LinkedRightly(p, e)' <=> LinkedRightly(p, e)
<1>1. \A id : Brings(p, id)' <=> Brings(p, id)
  BY DEF Brings
<1>2. QED
  BY <1>1 DEF LinkedRightly

(* One more entity is done.                                                *)
LEMMA LinkedOn ==
    ASSUME ImportInv, NEW p \in Importers, Linked(p), rows' = rows,
           txn[p].at \in {"normalize", "write"}, NextRow(p) \in ValidRows(p),
           NEW e, Defines(FileOf(p, NextRow(p)), e), Advances(p, e),
           \A x \in txn'[p].written :
               x.kind = "contact" => x \in txn[p].written \/ LinkedRightly(p, x)
    PROVE  Linked(p)'
<1>1. Files0(p) /\ txn'[p].run = txn[p].run
  BY DEF Advances, Files0, Keeps
<1>2. ValidRows(p)' = ValidRows(p) /\ \A i : FileOf(p, i)' = FileOf(p, i)
  BY <1>1, KnowsOn
<1>3. /\ \A id : Brings(p, id)' <=> Brings(p, id)
      /\ \A x : LinkedRightly(p, x)' <=> LinkedRightly(p, x)
  BY <1>1, <1>2, StillRight
<1>4. \A x \in txn'[p].written \cup txn'[p].pending : LinkedRightly(p, x)'
  BY <1>3 DEF Advances, Linked, LinkedRightly
<1>5. e.kind = "company" => Brings(p, e.id)
  BY DEF Brings, Defines
<1>6. \A c \in txn'[p].link : c.kind = "company" /\ Brings(p, c.id)'
  BY <1>3, <1>5 DEF Advances, Linked
<1>7. \A x \in txn'[p].seen : x[1] = "company" => \E c \in txn'[p].link : c.id = x[2]
  BY DEF Advances, Linked
<1>8. \A i \in ValidRows(p) \ txn'[p].queue : KindOf[FileOf(p, i)] = "company" =>
          \E c \in txn'[p].link : c.id = IdOf[FileOf(p, i)]
  BY DEF Advances, Linked, Defines
<1>9. QED
  BY <1>2, <1>4, <1>6, <1>7, <1>8 DEF Linked

(* Every step keeps what an import knows of the companies.                 *)
LEMMA LinkedNext ==
    ASSUME ImportInv, Numbered, Positive, \A p \in Importers : Linked(p), [Next]_vars
    PROVE  \A p \in Importers : Linked(p)'
<1>1. ASSUME NEW q \in Importers, Alike(q), ValidRows(q)' = ValidRows(q),
             \A i : FileOf(q, i)' = FileOf(q, i)
      PROVE  Linked(q)'
  <2>1. /\ \A id : Brings(q, id)' <=> Brings(q, id)
        /\ \A e : LinkedRightly(q, e)' <=> LinkedRightly(q, e)
    BY <1>1, StillRight DEF Alike
  <2>2. Linked(q)
    OBVIOUS
  <2>3. QED
    BY <1>1, <2>1, <2>2 DEF Linked, Alike
<1>2. ASSUME NEW p \in Importers, Import(p) PROVE Linked(p)'
  <2>0. Typed /\ Phased(p) /\ Linked(p)
    BY DEF ImportInv
  <2>1. ASSUME txn'[p].written = {}, txn'[p].pending = {}, txn'[p].link = {}, txn'[p].seen = {},
               txn'[p].at \notin {"normalize", "write"} \/ ValidRows(p)' \subseteq txn'[p].queue
        PROVE  Linked(p)'
    BY <2>1 DEF Linked
  <2>2. ASSUME NEW r \in Runs, NEW mode \in Modes, Begin(p, r, mode) PROVE Linked(p)'
    BY <2>0, <2>1, <2>2, BeginEffect
  <2>3. CASE Clear(p)
    BY <2>0, <2>1, <2>3, ClearEffect DEF Phased
  <2>4. CASE Read(p)
    BY <2>0, <2>1, <2>4, ReadEffect DEF Phased, Reads
  <2>5. CASE StartNormalizing(p)
    <3>1. ValidRows(p)' = ValidRows(p)
      BY <2>0, <2>5, StartEffect, KnowsOn DEF StartNormalizing
    <3>2. QED
      BY <2>0, <2>1, <2>5, <3>1, StartEffect DEF Phased
  <2>6. CASE Normalize(p)
    <3> DEFINE f == FileOf(p, NextRow(p))
    <3>1. /\ rows' = rows /\ txn[p].at = "normalize" /\ txn[p].pending = {}
          /\ NextRow(p) \in txn[p].queue /\ NextRow(p) \in ValidRows(p)
      BY <2>0, <2>6, NormalizeEffect DEF Normalize, Phased
    <3>2. CASE Skips(p)
      <4>1. /\ Files0(p) /\ txn'[p].run = txn[p].run /\ txn'[p].at = "normalize"
            /\ txn'[p].queue = txn[p].queue \ {NextRow(p)}
            /\ txn'[p].pending = txn[p].pending /\ txn'[p].written = txn[p].written
            /\ txn'[p].seen = txn[p].seen /\ txn'[p].link = txn[p].link
            /\ <<KindOf[f], IdOf[f]>> \in txn[p].seen
        BY <3>2 DEF Skips, Files0, Keeps
      <4>2. ValidRows(p)' = ValidRows(p) /\ \A i : FileOf(p, i)' = FileOf(p, i)
        BY <3>1, <4>1, KnowsOn
      <4>3. /\ \A id : Brings(p, id)' <=> Brings(p, id)
            /\ \A x : LinkedRightly(p, x)' <=> LinkedRightly(p, x)
        BY <4>1, <4>2, StillRight
      <4>4. KindOf[f] = "company" => \E c \in txn[p].link : c.id = IdOf[f]
        BY <2>0, <4>1 DEF Linked
      <4>5. \A i \in ValidRows(p) \ txn'[p].queue : KindOf[FileOf(p, i)] = "company" =>
                \E c \in txn'[p].link : c.id = IdOf[FileOf(p, i)]
        BY <2>0, <3>1, <4>1, <4>4 DEF Linked
      <4>6. QED
        BY <2>0, <4>1, <4>2, <4>3, <4>5 DEF Linked
    <3>3. CASE Takes(p)
      <4>1. PICK e \in Seen(p) : /\ Defines(FileOf(p, NextRow(p)), e) /\ Advances(p, e)
                                 /\ txn'[p].written = txn[p].written
        BY <3>3 DEF Takes
      <4>2. QED
        BY <2>0, <3>1, <4>1, LinkedOn
    <3>4. CASE Wants(p)
      <4>1. PICK e \in Entities :
              /\ e = Fresh(p, f) \/ KindOf[f] # "contact"
              /\ Defines(f, e) /\ Files0(p) /\ txn'[p].run = txn[p].run
              /\ txn'[p].at = "write" /\ txn'[p].queue = txn[p].queue
              /\ txn'[p].pending = {e} /\ txn'[p].written = txn[p].written
              /\ txn'[p].seen = txn[p].seen /\ txn'[p].link = txn[p].link
        BY <3>4 DEF Wants, Files0, Keeps
      <4>2. ValidRows(p)' = ValidRows(p) /\ \A i : FileOf(p, i)' = FileOf(p, i)
        BY <3>1, <4>1, KnowsOn
      <4>3. /\ \A id : Brings(p, id)' <=> Brings(p, id)
            /\ \A x : LinkedRightly(p, x)' <=> LinkedRightly(p, x)
        BY <4>1, <4>2, StillRight
      <4>4. LinkedRightly(p, e)
        <5>1. CASE KindOf[f] = "contact"
          BY <2>0, <2>6, <4>1, <5>1, ContactsTurn
        <5>2. CASE KindOf[f] # "contact"
          BY <4>1, <5>2 DEF LinkedRightly, Defines
        <5>3. QED
          BY <5>1, <5>2
      <4> HIDE DEF f
      <4>5. QED
        BY <2>0, <3>1, <4>1, <4>2, <4>3, <4>4 DEF Linked
    <3>5. QED
      BY <2>0, <2>6, <3>2, <3>3, <3>4, NormalizeEffect
  <2>7. CASE WriteRow(p)
    <3>1. PICK e, row \in Entities :
            /\ txn[p].at = "write" /\ txn[p].pending = {e}
            /\ row.kind = e.kind /\ row.id = e.id /\ row.of = e.of /\ row.company = e.company
            /\ Advances(p, row)
            /\ txn'[p].written = {x \in txn[p].written : x.key # row.key} \cup {row}
            /\ NextRow(p) \in txn[p].queue /\ Defines(FileOf(p, NextRow(p)), e)
      BY <2>0, <2>7, WriteRowEffect
    <3>2. LinkedRightly(p, row)
      <4>1. LinkedRightly(p, e)
        BY <2>0, <3>1 DEF Linked
      <4>2. QED
        BY <3>1, <4>1 DEF LinkedRightly
    <3>3. rows' = rows /\ NextRow(p) \in ValidRows(p) /\ Defines(FileOf(p, NextRow(p)), row)
      BY <2>0, <2>7, <3>1 DEF WriteRow, Phased, Defines
    <3>4. QED
      BY <2>0, <3>1, <3>2, <3>3, LinkedOn
  <2>8. CASE Finish(p) \/ Fail(p)
    BY <2>0, <2>1, <2>8, EndEffect, IdleRow
  <2>9. QED
    BY <1>2, <2>2, <2>3, <2>4, <2>5, <2>6, <2>7, <2>8 DEF Import
<1>3. ASSUME NEW p \in Importers, Import(p), NEW q \in Importers \ {p} PROVE Linked(q)'
  BY <1>1, <1>3, OthersKnow
<1>4. ASSUME NEW q \in Importers, rows' = rows, Alike(q) PROVE Linked(q)'
  BY <1>1, <1>4, SameRows DEF Alike
<1>5. ASSUME NEW q \in Importers, NEW f \in Files, Write(f) PROVE Linked(q)'
  BY <1>4, <1>5, WriteEffect DEF Write, ImportInv
<1>6. ASSUME NEW q \in Importers, UNCHANGED <<rows, txn>> PROVE Linked(q)'
  BY <1>4, <1>6 DEF Alike
<1>7. QED
  BY <1>2, <1>3, <1>5, <1>6 DEF Next, NoDirectory, vars

(* A contact is linked the moment it appears exactly when its run has      *)
(* imported its company: provided that the files that define one contact   *)
(* agree on its company.                                                   *)
THEOREM ContactsLinked ==
    ASSUME \A f, g \in Files :
              KindOf[f] = "contact" /\ KindOf[g] = "contact" /\ IdOf[f] = IdOf[g]
                  => CompanyOf[f] = CompanyOf[g]
    PROVE  Spec => LinkedWhenKnown
<1> DEFINE Known0 == \A e \in entities' : e.kind = "contact" /\ e.key \notin Keys(entities) =>
              \A f \in Files : KindOf[f] = "contact" /\ IdOf[f] = e.id =>
                  (e.company # Unlinked) = Imported(e.of, CompanyOf[f])'
           LinkedAll == \A p \in Importers : Linked(p)
<1>1. ASSUME ImportInv, TableInv, LinkedAll, [Next]_vars PROVE Known0
  <2>1. SUFFICES ASSUME NEW e \in entities', e.kind = "contact", e.key \notin Keys(entities),
                        NEW f \in Files, KindOf[f] = "contact", IdOf[f] = e.id
                 PROVE  (e.company # Unlinked) = Imported(e.of, CompanyOf[f])'
    OBVIOUS
  <2>2. e \notin entities
    BY <2>1 DEF Keys
  <2>3. PICK p \in Importers : Finish(p)
    <3>1. ASSUME NEW p \in Importers, Import(p), ~Finish(p) PROVE entities' = entities
      BY <1>1, <3>1, StepOf DEF ImportInv, TableInv
    <3>2. entities' # entities
      BY <2>1, <2>2
    <3>3. QED
      BY <1>1, <3>1, <3>2 DEF Next, Write, NoDirectory, vars
  <2>4. e \in txn[p].written
    BY <2>1, <2>2, <2>3 DEF Finish, Seen
  <2>5. LinkedRightly(p, e)
    BY <1>1, <2>4 DEF Linked
  <2>6. e.of = txn[p].run /\ (e.company # 0 <=> Brings(p, CompanyOf[f]))
    BY <2>1, <2>5 DEF LinkedRightly
  <2>7. PICK r : r = e.of
    OBVIOUS
  <2>8. rows'[r] = AllRows(p) /\ Typed
    BY <1>1, <2>3, <2>6, <2>7 DEF Finish, ImportInv, Typed, Txn
  <2>9. \A i \in ValidRows(p) : FileOf(p, i) # 0
    BY <2>8, ValidIsFile, FileNumbers
  <2>10. Imported(r, CompanyOf[f])' <=> Brings(p, CompanyOf[f])
    BY <2>8, <2>9 DEF Imported, Brings, ValidRows, FileOf
  <2>11. (e.company # Unlinked) <=> Imported(e.of, CompanyOf[f])'
    BY <2>6, <2>7, <2>10 DEF Unlinked
  <2>12. Imported(e.of, CompanyOf[f])' \in BOOLEAN
    BY DEF Imported
  <2>13. QED
    BY <2>11, <2>12
<1>2. Init => LinkedAll
  BY IdleRow DEF Init, Linked
<1>3. ImportInv /\ TableInv /\ LinkedAll /\ [Next]_vars => LinkedAll'
  BY LinkedNext DEF TableInv
<1> HIDE DEF LinkedAll
<1>4. ImportInv /\ TableInv /\ LinkedAll /\ [Next]_vars => [Known0]_vars
  BY <1>1
<1>5. QED
  BY <1>2, <1>3, <1>4, TablesAlways, PTL DEF Spec, LinkedWhenKnown
=============================================================================
