-------------------------- MODULE ResearchRunProofs -------------------------
(***************************************************************************)
(* Proofs about ResearchRun: its types are right, an agent that works is   *)
(* shown as working, everything Pi wrote is imported in the end, and what  *)
(* was imported stays so, for any number of artifacts, launches and        *)
(* continuations, and for all four incidents in one behaviour.             *)
(*                                                                         *)
(* All four but the first rest on one inductive invariant, RunInv: who may *)
(* be at which step together (Places), when Pi writes (PiQuiet), who wrote *)
(* what the file and the row say (FileStands, RowStands), and how much of  *)
(* the disk the last import has read (LastReads, Covered).  It needs that  *)
(* the thread waits for the watcher however long that takes, and that no   *)
(* launch falls between a reader's check and its write: of the races only  *)
(* a torn state file may happen.                                           *)
(***************************************************************************)
EXTENDS ResearchRun, TLAPS

RunStatuses == {"prepared", "running", "importing"} \cup Settled
ImportRow == [at : {"none", "waiting", "busy", "done", "raised"},
              status : RunStatuses, seen : 0..MaxArtifacts]

(* The thread's steps before Pi is started, after its last prompt and for  *)
(* its last import.                                                        *)
BeforePi == {"off", "launching", "start", "partial", "partial_mark", "open"}
Finishing == {"join", "importing", "importing_mark", "final"}
Final     == {"importing", "importing_mark", "final"}

(* The type invariant, taken apart.                                        *)
ThreadRow == [at : AgentSteps, turns : 0..MaxContinuations, late : BOOLEAN]
FileRow == [status : {"not_started", "unknown", "running", "continuing", "importing"}
                         \cup Settled,
            age : {"none", "fresh", "before", "old"}]

TypeThread ==
    /\ kind \in Kinds
    /\ state \in FileRow
    /\ run \in RunStatuses
    /\ lock \in Importers \cup {"free"}
    /\ agent \in ThreadRow
    /\ pi \in {"off", "idle", "working", "closed"} /\ client \in BOOLEAN

WatchRow == [at : {"off", "poll", "import", "write", "mark"}, stop : BOOLEAN,
             previous : 0..MaxArtifacts, imported : 0..MaxArtifacts,
             current : 0..MaxArtifacts]

TypeWatch ==
    /\ watch \in WatchRow
    /\ imp \in [Importers -> ImportRow]

TypeRest ==
    /\ reader \in {"idle", "check", "write", "mark"}
    /\ cancel \in {"idle", "write", "mark"}
    /\ disk \in 0..MaxArtifacts /\ known \in 0..disk

TypeUsed == used \in [{"launch", "import", "cancel", "crash", "fault"} -> Nat]

TypeParts == TypeThread /\ TypeWatch /\ TypeRest /\ TypeUsed

(* An import has read no more than there is, and holds the row while it is *)
(* busy.                                                                   *)
RowsHeld ==
    \A p \in Importers : imp[p].seen <= disk /\ (imp[p].at = "busy" => lock = p)

(* An import belongs to a step of who asked for it, the watcher lives      *)
(* inside the prompts, and readers and cancels act when their time is.     *)
ThreadImports ==
    /\ agent.at \notin {"partial", "final"} => imp["agent"] = NoImport
    /\ agent.at = "final" /\ imp["agent"].at = "done"
           => imp["agent"].status \in {"imported", "import_failed"}

WatcherInside ==
    /\ watch.at # "import" => imp["watcher"] = NoImport
    /\ watch.at # "off" => Watched /\ agent.at \notin BeforePi \cup Final

OthersInTime ==
    /\ imp["operator"].at # "none" => used.import > 0
    /\ reader \in {"write", "mark"} => agent.at = "off"
    /\ cancel # "idle" => used.cancel > 0

ImportsPlaced == RowsHeld /\ ThreadImports

Places == ImportsPlaced /\ WatcherInside /\ OthersInTime

(* Pi writes only for a client, and not after its last turn has ended.     *)
PiQuiet ==
    /\ ~client => pi \in {"off", "closed"}
    /\ agent.at \in BeforePi => ~client
    /\ agent.at \in {"prompt", "replied", "continuing"} => client \/ pi = "closed"
    /\ agent.at \in Finishing \cup {"replied"} /\ ~agent.late => pi # "working"

(* A file that says imported was written by the last import, one that says *)
(* failed while the agent works by a cancellation ...                      *)
FileStands ==
    /\ state.status = "imported" => agent.at \in {"close", "off"}
    /\ agent.at \in AtWork \cup {"launching"} /\ used.cancel = 0 => state.status # "failed"

(* ... and so was the row, or an import was asked for by hand.  An import  *)
(* under way will give the row back such a status.                         *)
RowStands ==
    /\ agent.at \in AtWork /\ used.cancel = 0 =>
           run # "failed" /\ imp["agent"].status # "failed" /\ imp["watcher"].status # "failed"
    /\ agent.at \in AtWork /\ used.import = 0 =>
           run # "imported" /\ imp["agent"].status # "imported"
    /\ watch.at # "off" /\ used.import = 0 =>
           run # "imported" /\ imp["watcher"].status # "imported"

(* The runtime has imported to the end, its import included.               *)
Through ==
    /\ ~agent.late
    /\ \/ agent.at \in {"close", "off"} /\ state.status = "imported"
       \/ agent.at = "final" /\ imp["agent"].at = "done" /\ imp["agent"].status = "imported"

(* The last import reads all there is ...                                  *)
LastReads ==
    agent.at = "final" /\ ~agent.late /\ imp["agent"].at \in {"waiting", "busy"}
        => imp["agent"].seen = disk

(* ... and then it is known, and no import under way has read less.        *)
Covered ==
    Through => /\ pi # "working" /\ known = disk
               /\ imp["operator"].at = "busy" => imp["operator"].seen = disk

RunInv == TypeParts /\ Places /\ PiQuiet /\ FileStands /\ RowStands /\ LastReads /\ Covered
-----------------------------------------------------------------------------
(* What the steps of an import make of its row.                            *)
Became(p, at, status, seen) ==
    /\ imp' \in [Importers -> ImportRow]
    /\ imp'[p].at = at /\ imp'[p].status = status /\ imp'[p].seen = seen
    /\ \A q \in Importers \ {p} : imp'[q] = imp[q]

(* The greater of two numbers.                                             *)
LEMMA MaxOfTwo ==
    ASSUME NEW a \in Nat, NEW b \in Nat
    PROVE  Max({a, b}) = IF a >= b THEN a ELSE b
<1>1. ASSUME NEW m, m = IF a >= b THEN a ELSE b
      PROVE  m \in {a, b} /\ (\A y \in {a, b} : m >= y)
             /\ \A n \in {a, b} : (\A y \in {a, b} : n >= y) => n = m
  BY <1>1
<1>2. QED
  BY <1>1 DEF Max

(* The columns of the state that imports use.                              *)
LEMMA Imports ==
    ASSUME TypeOK
    PROVE  /\ imp \in [Importers -> ImportRow] /\ run \in RunStatuses
           /\ disk \in 0..MaxArtifacts /\ MaxArtifacts \in Nat
BY ResearchRunAssumption DEF TypeOK, ImportRow, RunStatuses

(* What each step of an import makes of its row: it waits, with what it    *)
(* has seen;                                                               *)
LEMMA Begun ==
    ASSUME TypeOK, NEW p \in Importers, Begin(p)
    PROVE  imp[p].at = "none" /\ Became(p, "waiting", run, disk)
<1>1. PICK row : row = [at |-> "waiting", status |-> run, seen |-> disk]
  OBVIOUS
<1>2. row \in ImportRow /\ imp' = [imp EXCEPT ![p] = row]
  BY <1>1, Imports DEF Begin, ImportRow
<1>3. QED
  BY <1>1, <1>2, Imports DEF Begin, Became

(* it is gone;                                                             *)
LEMMA Returned ==
    ASSUME TypeOK, NEW p \in Importers, Return(p)
    PROVE  Became(p, "none", "prepared", 0) /\ imp'[p] = NoImport
<1>1. PICK row : row = NoImport
  OBVIOUS
<1>2. row \in ImportRow /\ imp' = [imp EXCEPT ![p] = row]
  BY <1>1, Imports DEF Return, ImportRow, NoImport, RunStatuses
<1>3. QED
  BY <1>1, <1>2, Imports DEF Became, NoImport

(* it is busy, and an operator's reads the disk now;                       *)
LEMMA Locked ==
    ASSUME TypeOK, NEW p \in Importers, Lock(p)
    PROVE  Became(p, "busy", imp[p].status, IF p = "operator" THEN disk ELSE imp[p].seen)
<1> DEFINE seen == IF p = "operator" THEN disk ELSE imp[p].seen
<1>1. PICK row : row = [imp[p] EXCEPT !.at = "busy", !.seen = seen]
  OBVIOUS
<1>2. imp[p] \in ImportRow /\ seen \in 0..MaxArtifacts
  BY Imports DEF ImportRow
<1>3. row \in ImportRow /\ row.at = "busy" /\ row.status = imp[p].status /\ row.seen = seen
  BY <1>1, <1>2 DEF ImportRow
<1>4. imp' = [imp EXCEPT ![p] = row]
  BY <1>1, Imports DEF Lock
<1>5. QED
  BY <1>3, <1>4, Imports DEF Became

(* it is over, well or not.                                                *)
LEMMA Ended ==
    ASSUME TypeOK, NEW p \in Importers, run' \in RunStatuses, NEW at \in {"done", "raised"},
           imp' = [imp EXCEPT ![p] = [NoImport EXCEPT !.at = at, !.status = run']]
    PROVE  Became(p, at, run', 0)
<1>1. PICK none : none = NoImport
  OBVIOUS
<1>2. none \in ImportRow /\ none.seen = 0
  BY <1>1, Imports DEF NoImport, ImportRow, RunStatuses
<1>3. PICK row : row = [none EXCEPT !.at = at, !.status = run']
  OBVIOUS
<1>4. row \in ImportRow /\ row.at = at /\ row.status = run' /\ row.seen = 0
  BY <1>2, <1>3 DEF ImportRow
<1>5. imp' = [imp EXCEPT ![p] = row]
  BY <1>1, <1>3
<1>6. QED
  BY <1>4, <1>5, Imports DEF Became

(* A commit makes known what the import has seen, and never less than      *)
(* before, but for the operator's.                                         *)
LEMMA Committed ==
    ASSUME TypeOK, ImportsPlaced, NEW p \in Importers, Commit(p)
    PROVE  /\ Became(p, "done", run', 0)
           /\ run' \in RunStatuses
           /\ known' = IF p # "operator" /\ known >= imp[p].seen THEN known ELSE imp[p].seen
           /\ known' \in 0..disk
<1>1. imp[p] \in ImportRow /\ imp[p].seen <= disk /\ known \in 0..disk
  BY Imports DEF ImportsPlaced, RowsHeld, TypeOK
<1>2. run' \in RunStatuses
  BY <1>1 DEF Commit, ImportRow, RunStatuses, Settled
<1>3. known \in Nat /\ imp[p].seen \in Nat /\ disk \in Nat
  BY <1>1, Imports DEF ImportRow
<1>4. Max({known, imp[p].seen}) = IF known >= imp[p].seen THEN known ELSE imp[p].seen
  BY <1>3, MaxOfTwo
<1>5. known' = IF p # "operator" /\ known >= imp[p].seen THEN known ELSE imp[p].seen
  BY <1>4 DEF Commit
<1>6. known' \in 0..disk
  BY <1>1, <1>3, <1>5
<1>7. Became(p, "done", run', 0)
  <2>1. imp' = [imp EXCEPT ![p] = [NoImport EXCEPT !.at = "done", !.status = run']]
    BY DEF Commit
  <2>2. QED
    BY <1>2, <2>1, Ended
<1>8. QED
  BY <1>2, <1>5, <1>6, <1>7

(* A fault raises or marks the run as failed, and learns nothing.          *)
LEMMA Faulted ==
    ASSUME TypeOK, NEW p \in Importers, Fault(p)
    PROVE  /\ \/ run' = run /\ Became(p, "raised", run', 0)
              \/ run' = "import_failed" /\ Became(p, "done", run', 0)
           /\ imp[p].at = "busy" /\ lock' = "free"
           /\ UNCHANGED <<kind, state, agent, pi, client, watch, reader, cancel, disk, known>>
<1>1. PICK raises \in BOOLEAN :
          /\ run' = IF raises THEN run ELSE "import_failed"
          /\ imp' = [imp EXCEPT ![p] = [NoImport EXCEPT !.at = IF raises THEN "raised" ELSE "done",
                                                      !.status = run']]
  BY DEF Fault
<1>2. run' \in RunStatuses
  BY <1>1, Imports DEF RunStatuses, Settled
<1>3. \/ run' = run /\ Became(p, "raised", run', 0)
      \/ run' = "import_failed" /\ Became(p, "done", run', 0)
  BY <1>1, <1>2, Ended
<1>4. QED
  BY <1>3 DEF Fault

(* A crash forgets every import.                                           *)
LEMMA Crashed ==
    ASSUME Crash
    PROVE  imp' \in [Importers -> ImportRow] /\ \A p \in Importers : imp'[p] = NoImport
BY ResearchRunAssumption DEF Crash, NoImport, ImportRow, RunStatuses

(* The bounds are numbers, the type invariant is its parts, and the        *)
(* statuses an agent settles on are statuses of a run.                     *)
LEMMA Numbers == {MaxArtifacts, MaxContinuations, Target} \subseteq Nat
BY ResearchRunAssumption

LEMMA TypeApart == TypeOK <=> TypeParts
BY DEF TypeOK, TypeParts, TypeThread, ThreadRow, FileRow, TypeWatch, TypeRest,
       TypeUsed, ImportRow, RunStatuses, WatchRow

(* An incident is counted.                                                 *)
LEMMA Happened ==
    ASSUME NEW what \in Incidents, Happens(what), TypeUsed
    PROVE  TypeUsed' /\ used'[what] = 1 /\ \A i \in Incidents \ {what} : used'[i] = used[i]
BY DEF Happens, TypeUsed, Incidents

LEMMA Settlements == Settled \subseteq RunStatuses
BY DEF RunStatuses

(* The types are right at the start.                                       *)
LEMMA TypeInit == Init => TypeParts
<1> SUFFICES ASSUME Init PROVE TypeParts
  OBVIOUS
<1>1. TypeThread
  <2>1. agent \in ThreadRow
    BY Numbers DEF Init, ThreadRow, AgentSteps
  <2>2. QED
    BY <2>1 DEF Init, TypeThread, ThreadRow, FileRow, RunStatuses, Importers
<1>2. TypeRest
  BY Numbers DEF Init, TypeRest
<1>3. TypeUsed
  BY DEF Init, TypeUsed
<1>4. TypeWatch
  <2>1. NoImport \in ImportRow
    BY Numbers DEF NoImport, ImportRow, RunStatuses
  <2>2. watch \in WatchRow
    BY Numbers DEF Init, WatchRow
  <2>3. QED
    BY <2>1, <2>2 DEF Init, TypeWatch
<1>5. QED
  BY <1>1, <1>2, <1>3, <1>4 DEF TypeParts

(* Every step keeps the types of the row, the file, the thread and Pi ...   *)
LEMMA TypeThreadNext ==
    ASSUME TypeParts, ImportsPlaced, [Next]_vars
    PROVE  TypeThread'
<1>0. TypeOK /\ TypeThread /\ TypeWatch /\ TypeRest /\ TypeUsed
  BY TypeApart DEF TypeParts
<1>1. CASE UNCHANGED <<kind, state, run, lock, agent, pi, client>>
  BY <1>0, <1>1 DEF TypeThread, ThreadRow, FileRow, RunStatuses, Settled, AgentSteps,
     AtWork
<1>2. CASE LaunchMark
  BY <1>0, <1>2 DEF LaunchMark, MarkRun, Goto, TypeThread, ThreadRow, FileRow,
     RunStatuses, Settled, AgentSteps, AtWork
<1>3. CASE Start
  BY <1>0, <1>3 DEF Start, WriteState, Goto, TypeThread, ThreadRow, FileRow,
     RunStatuses, Settled, AgentSteps, AtWork
<1>4. CASE PartialMark
  BY <1>0, <1>4 DEF PartialMark, MarkRun, Goto, TypeThread, ThreadRow, FileRow,
     RunStatuses, Settled, AgentSteps, AtWork
<1>5. CASE Open
  <2>1. /\ agent' \in {[agent EXCEPT !.at = "prompt"], [agent EXCEPT !.at = "fail_write"]}
        /\ pi' \in {pi, "working"} /\ client' \in {client, TRUE}
    BY <1>5 DEF Open, Goto
  <2>2. agent' \in ThreadRow
    BY <1>0, <2>1 DEF TypeThread, ThreadRow, FileRow, AgentSteps, AtWork
  <2>3. UNCHANGED <<kind, state, run, lock>>
    BY <1>5 DEF Open
  <2>4. QED
    BY <1>0, <2>1, <2>2, <2>3 DEF TypeThread, ThreadRow, FileRow
<1>6. CASE PromptReturns
  <2>1. AfterPrompt \in AgentSteps
    BY DEF AfterPrompt, AgentSteps, AtWork
  <2>2. agent' \in ThreadRow
    BY <1>0, <1>6, <2>1 DEF PromptReturns, TypeThread, ThreadRow, FileRow
  <2>3. pi' \in {"off", "idle", "working", "closed"}
    BY <1>6 DEF PromptReturns
  <2>4. QED
    BY <1>0, <1>6, <2>2, <2>3 DEF PromptReturns, TypeThread, ThreadRow, FileRow
<1>7. CASE PromptRaises
  BY <1>0, <1>7 DEF PromptRaises, Goto, TypeThread, ThreadRow, FileRow, RunStatuses,
     Settled, AgentSteps, AtWork
<1>8. CASE Replied
  <2>1. agent' \in ThreadRow
    <3>1. CASE ShouldContinue
      <4>1. agent.turns + 1 \in 0..MaxContinuations
        BY <1>0, <3>1, Numbers DEF ShouldContinue, TypeThread, ThreadRow, FileRow
      <4>2. agent' = [agent EXCEPT !.turns = agent.turns + 1, !.at = "continuing"]
        BY <1>8, <3>1 DEF Replied
      <4>3. QED
        BY <1>0, <4>1, <4>2 DEF TypeThread, ThreadRow, FileRow, AgentSteps, AtWork
    <3>2. CASE ~ShouldContinue
      BY <1>0, <1>8, <3>2 DEF Replied, Goto, TypeThread, ThreadRow, FileRow,
         AgentSteps
    <3>3. QED
      BY <3>1, <3>2
  <2>2. QED
    BY <1>0, <1>8, <2>1 DEF Replied, WriteState, TypeThread, ThreadRow, FileRow
<1>9. CASE Continuing
  BY <1>0, <1>9 DEF Continuing, WriteState, Goto, TypeThread, ThreadRow, FileRow,
     RunStatuses, Settled, AgentSteps, AtWork
<1>10. CASE Join
  BY <1>0, <1>10 DEF Join, WatcherLeft, Goto, TypeThread, ThreadRow, FileRow,
     RunStatuses, Settled, AgentSteps, AtWork
<1>11. CASE Importing
  BY <1>0, <1>11 DEF Importing, WriteState, Goto, TypeThread, ThreadRow, FileRow,
     RunStatuses, Settled, AgentSteps, AtWork
<1>12. CASE ImportingMark
  BY <1>0, <1>12 DEF ImportingMark, MarkRun, Goto, TypeThread, ThreadRow, FileRow,
     RunStatuses, Settled, AgentSteps, AtWork
<1>13. CASE FailWrite
  BY <1>0, <1>13 DEF FailWrite, WriteState, Goto, TypeThread, ThreadRow, FileRow,
     RunStatuses, Settled, AgentSteps, AtWork
<1>14. CASE FailMark
  BY <1>0, <1>14 DEF FailMark, MarkRun, Goto, TypeThread, ThreadRow, FileRow,
     RunStatuses, Settled, AgentSteps, AtWork
<1>15. CASE Close
  BY <1>0, <1>15 DEF Close, WatcherLeft, Goto, TypeThread, ThreadRow, FileRow,
     RunStatuses, Settled, AgentSteps, AtWork
<1>16. CASE WatchWrite
  BY <1>0, <1>16 DEF WatchWrite, WriteState, TypeThread, ThreadRow, FileRow,
     RunStatuses, Settled, AgentSteps, AtWork
<1>17. CASE WatchMark
  BY <1>0, <1>17 DEF WatchMark, MarkRun, TypeThread, ThreadRow, FileRow, RunStatuses,
     Settled, AgentSteps, AtWork
<1>18. CASE ReaderWrite
  BY <1>0, <1>18 DEF ReaderWrite, WriteState, TypeThread, ThreadRow, FileRow,
     RunStatuses, Settled, AgentSteps, AtWork
<1>19. CASE ReaderMark
  BY <1>0, <1>19 DEF ReaderMark, MarkRun, TypeThread, ThreadRow, FileRow, RunStatuses,
     Settled, AgentSteps, AtWork
<1>20. CASE CancelWrite
  BY <1>0, <1>20 DEF CancelWrite, WriteState, TypeThread, ThreadRow, FileRow,
     RunStatuses, Settled, AgentSteps, AtWork
<1>21. CASE CancelMark
  BY <1>0, <1>21 DEF CancelMark, MarkRun, TypeThread, ThreadRow, FileRow, RunStatuses,
     Settled, AgentSteps, AtWork
<1>22. CASE Launch
  <2>1. agent' \in ThreadRow
    BY <1>22, Numbers DEF Launch, ThreadRow, AgentSteps
  <2>2. QED
    BY <1>0, <1>22, <2>1 DEF Launch, WriteState, TypeThread, ThreadRow, FileRow
<1>23. CASE Cancel
  <2>1. pi' \in {"off", "idle", "working", "closed"} /\ client' \in BOOLEAN
    BY <1>0, <1>23 DEF Cancel, TypeThread, ThreadRow, FileRow
  <2>2. QED
    BY <1>0, <1>23, <2>1 DEF Cancel, TypeThread, ThreadRow, FileRow
<1>24. CASE Age
  BY <1>0, <1>24 DEF Age, TypeThread, ThreadRow, FileRow, RunStatuses, Settled,
     AgentSteps, AtWork
<1>25. CASE PartialImport
  BY <1>0, <1>25, Begun, Returned DEF PartialImport, Became, Importers, WriteState,
     Goto, TypeThread, ThreadRow, FileRow, RunStatuses, Settled, AgentSteps, AtWork
<1>26. CASE FinalImport
  <2>1. agent' \in ThreadRow
    BY <1>0, <1>26 DEF FinalImport, Goto, TypeThread, ThreadRow, FileRow, AgentSteps
  <2>2. agent.at = "final" /\ imp["agent"].at = "done" => imp["agent"].status \in Settled
    BY DEF ImportsPlaced, ThreadImports, Settled
  <2>3. UNCHANGED state \/ \E s \in Settled : state' = [status |-> s, age |-> "fresh"]
    BY <1>26, <2>2 DEF FinalImport, WriteState
  <2>4. QED
    BY <1>0, <1>26, <2>1, <2>3 DEF FinalImport, TypeThread, ThreadRow, FileRow
<1>27. ASSUME NEW p \in Importers, Lock(p)
      PROVE  TypeThread'
  BY <1>0, <1>27, Locked DEF Lock, Became, Importers, TypeThread, ThreadRow, FileRow,
     RunStatuses, Settled, AgentSteps, AtWork
<1>28. ASSUME NEW p \in Importers, Commit(p)
      PROVE  TypeThread'
  BY <1>0, <1>28, Committed DEF Commit, TypeThread, ThreadRow, FileRow
<1>29. ASSUME NEW p \in Importers, Fault(p)
      PROVE  TypeThread'
  <2>1. run' \in RunStatuses
    BY <1>0, <1>29, Faulted, Imports DEF RunStatuses, Settled
  <2>2. QED
    BY <1>0, <1>29, <2>1, Faulted DEF TypeThread, ThreadRow, FileRow
<1>30. CASE Crash
  <2>1. agent' \in ThreadRow
    BY <1>0, <1>30 DEF Crash, TypeThread, ThreadRow, FileRow, AgentSteps
  <2>2. state' \in {state, [state EXCEPT !.age = "before"], [status |-> "unknown", age |-> "none"]}
    BY <1>30 DEF Crash
  <2>3. state' \in FileRow
    BY <1>0, <2>2 DEF TypeThread, ThreadRow, FileRow
  <2>4. QED
    BY <1>0, <1>30, <2>1, <2>3 DEF Crash, TypeThread, ThreadRow, FileRow
<1>31. QED
  BY <1>1, <1>2, <1>3, <1>4, <1>5, <1>6, <1>7, <1>8, <1>9, <1>10, <1>11, <1>12, <1>13,
     <1>14, <1>15, <1>16, <1>17, <1>18, <1>19, <1>20, <1>21, <1>22, <1>23, <1>24,
     <1>25, <1>26, <1>27, <1>28, <1>29, <1>30 DEF Next, Agent, Watcher, Reader,
     Canceller, Import, Importers, vars, StopWatcher, WatchPoll, ReadStatus,
     ReaderCheck, PiWrites, WatchImport, OperatorImport

(* ... of the watcher and the imports ...                                  *)
LEMMA TypeWatchNext ==
    ASSUME TypeParts, ImportsPlaced, [Next]_vars
    PROVE  TypeWatch'
<1>0. TypeOK /\ TypeThread /\ TypeWatch /\ TypeRest /\ TypeUsed
  BY TypeApart DEF TypeParts
<1>1. CASE UNCHANGED <<watch, imp>>
  BY <1>0, <1>1 DEF TypeWatch, WatchRow, TypeRest
<1>2. CASE Open
  <2>1. [at |-> "poll", stop |-> FALSE, previous |-> 0, imported |-> 0, current |-> 0] \in WatchRow
    BY Numbers DEF WatchRow
  <2>2. QED
    BY <1>0, <1>2, <2>1 DEF Open, TypeWatch
<1>3. CASE StopWatcher
  BY <1>0, <1>3, Numbers DEF StopWatcher, TypeWatch, WatchRow, TypeRest
<1>4. CASE WatchPoll
  BY <1>0, <1>4, Numbers DEF WatchPoll, TypeWatch, WatchRow, TypeRest
<1>5. CASE WatchWrite
  BY <1>0, <1>5, Numbers DEF WatchWrite, WriteState, TypeWatch, WatchRow, TypeRest
<1>6. CASE WatchMark
  BY <1>0, <1>6, Numbers DEF WatchMark, MarkRun, TypeWatch, WatchRow, TypeRest
<1>7. CASE PartialImport
  BY <1>0, <1>7, Begun, Returned DEF PartialImport, Became, Importers, WriteState,
     Goto, TypeWatch, WatchRow, TypeRest
<1>8. CASE FinalImport
  BY <1>0, <1>8, Begun, Returned DEF FinalImport, Became, Importers, WriteState, Goto,
     TypeWatch, WatchRow, TypeRest
<1>9. CASE WatchImport
  BY <1>0, <1>9, Begun, Returned DEF WatchImport, Became, Importers, TypeWatch,
     WatchRow, TypeRest
<1>10. CASE OperatorImport
  BY <1>0, <1>10, Begun, Returned DEF OperatorImport, Became, Importers, TypeWatch,
     WatchRow, TypeRest
<1>11. ASSUME NEW p \in Importers, Lock(p)
      PROVE  TypeWatch'
  BY <1>0, <1>11, Locked DEF Lock, Became, Importers, TypeWatch, WatchRow, TypeRest
<1>12. ASSUME NEW p \in Importers, Commit(p)
      PROVE  TypeWatch'
  BY <1>0, <1>12, Committed DEF Commit, Became, Importers, Partial, TypeWatch,
     WatchRow, TypeRest
<1>13. ASSUME NEW p \in Importers, Fault(p)
      PROVE  TypeWatch'
  BY <1>0, <1>13, Faulted DEF Fault, Became, Importers, TypeWatch, WatchRow, TypeRest
<1>14. CASE Crash
  BY <1>0, <1>14, Crashed DEF Crash, NoImport, Importers, TypeWatch, WatchRow,
     TypeRest
<1>15. QED
  BY <1>1, <1>2, <1>3, <1>4, <1>5, <1>6, <1>7, <1>8, <1>9, <1>10, <1>11, <1>12, <1>13,
     <1>14 DEF Next, Agent, Watcher, Reader, Canceller, Import, Importers, vars,
     LaunchMark, Start, PartialMark, PromptReturns, PromptRaises, Replied, Continuing,
     Join, Importing, ImportingMark, FailWrite, FailMark, Close, ReadStatus,
     ReaderCheck, ReaderWrite, ReaderMark, CancelWrite, CancelMark, PiWrites, Launch,
     Cancel, Age

(* ... of the requests and what is known of the disk ...                   *)
LEMMA TypeRestNext ==
    ASSUME TypeParts, ImportsPlaced, [Next]_vars
    PROVE  TypeRest'
<1>0. TypeOK /\ TypeThread /\ TypeWatch /\ TypeRest /\ TypeUsed
  BY TypeApart DEF TypeParts
<1>1. CASE UNCHANGED <<reader, cancel, disk, known>>
  BY <1>0, <1>1 DEF TypeRest
<1>2. CASE ReadStatus
  BY <1>0, <1>2 DEF ReadStatus, TypeRest
<1>3. CASE ReaderCheck
  BY <1>0, <1>3 DEF ReaderCheck, Alive, TypeRest
<1>4. CASE ReaderWrite
  BY <1>0, <1>4 DEF ReaderWrite, WriteState, TypeRest
<1>5. CASE ReaderMark
  BY <1>0, <1>5 DEF ReaderMark, MarkRun, TypeRest
<1>6. CASE CancelWrite
  BY <1>0, <1>6 DEF CancelWrite, WriteState, TypeRest
<1>7. CASE CancelMark
  BY <1>0, <1>7 DEF CancelMark, MarkRun, TypeRest
<1>8. CASE PiWrites
  BY <1>0, <1>8, Numbers DEF PiWrites, TypeRest
<1>9. CASE Cancel
  BY <1>0, <1>9 DEF Cancel, Happens, TypeRest
<1>10. ASSUME NEW p \in Importers, Commit(p)
      PROVE  TypeRest'
  BY <1>0, <1>10, Committed DEF Commit, Became, Importers, Partial, TypeRest
<1>11. CASE Crash
  BY <1>0, <1>11, Crashed DEF Crash, NoImport, Importers, TypeRest
<1>12. QED
  BY <1>1, <1>2, <1>3, <1>4, <1>5, <1>6, <1>7, <1>8, <1>9, <1>10, <1>11 DEF Next,
     Agent, Watcher, Reader, Canceller, Import, Importers, vars, LaunchMark, Start,
     PartialMark, Open, PromptReturns, PromptRaises, Replied, Continuing, StopWatcher,
     Join, Importing, ImportingMark, FailWrite, FailMark, Close, WatchPoll,
     WatchWrite, WatchMark, Launch, Age, PartialImport, FinalImport, WatchImport,
     OperatorImport, Lock, Fault

(* ... and of the bounds.                                                  *)
LEMMA TypeUsedNext ==
    ASSUME TypeParts, ImportsPlaced, [Next]_vars
    PROVE  TypeUsed'
<1>0. TypeOK /\ TypeThread /\ TypeWatch /\ TypeRest /\ TypeUsed
  BY TypeApart DEF TypeParts
<1>1. CASE UNCHANGED <<used>>
  BY <1>0, <1>1 DEF TypeUsed
<1>2. CASE Launch
  BY <1>0, <1>2 DEF Launch, WriteState, TypeUsed
<1>3. CASE Cancel
  BY <1>0, <1>3, Happened DEF Cancel, Happens, Incidents, TypeUsed
<1>4. CASE OperatorImport
  BY <1>0, <1>4, Begun, Returned, Happened DEF OperatorImport, Became, Importers,
     Incidents, TypeUsed
<1>5. ASSUME NEW p \in Importers, Fault(p)
      PROVE  TypeUsed'
  BY <1>0, <1>5, Faulted, Happened DEF Fault, Became, Importers, Incidents, TypeUsed
<1>6. CASE Crash
  BY <1>0, <1>6, Crashed, Happened DEF Crash, NoImport, Importers, Incidents, TypeUsed
<1>7. QED
  BY <1>1, <1>2, <1>3, <1>4, <1>5, <1>6 DEF Next, Agent, Watcher, Reader, Canceller,
     Import, Importers, vars, LaunchMark, Start, PartialMark, Open, PromptReturns,
     PromptRaises, Replied, Continuing, StopWatcher, Join, Importing, ImportingMark,
     FailWrite, FailMark, Close, WatchPoll, WatchWrite, WatchMark, ReadStatus,
     ReaderCheck, ReaderWrite, ReaderMark, CancelWrite, CancelMark, PiWrites, Age,
     PartialImport, FinalImport, WatchImport, Lock, Commit

(* Every step keeps the types.                                             *)
LEMMA TypeNext == ASSUME TypeParts, ImportsPlaced, [Next]_vars PROVE TypeParts'
BY TypeThreadNext, TypeWatchNext, TypeRestNext, TypeUsedNext DEF TypeParts


(* Every step keeps the rows, the steps of the thread's imports ...        *)
LEMMA RowsHeldNext ==
    ASSUME TypeParts, ImportsPlaced, [Next]_vars
    PROVE  RowsHeld'
<1>0. TypeOK
  BY TypeApart
<1>1. CASE UNCHANGED <<imp, lock, disk>>
  BY <1>1 DEF ImportsPlaced, RowsHeld, TypeParts, TypeRest
<1>2. CASE PiWrites
  BY <1>2, <1>0, Imports DEF PiWrites, ImportRow, ImportsPlaced, RowsHeld, TypeParts,
     TypeRest
<1>3. CASE PartialImport
  BY <1>0, <1>3, Begun, Returned DEF PartialImport, Became, Importers, WriteState,
     Goto, ImportsPlaced, RowsHeld, TypeParts, TypeRest
<1>4. CASE FinalImport
  BY <1>0, <1>4, Begun, Returned DEF FinalImport, Became, Importers, WriteState, Goto,
     ImportsPlaced, RowsHeld, TypeParts, TypeRest
<1>5. CASE WatchImport
  BY <1>0, <1>5, Begun, Returned DEF WatchImport, Became, Importers, ImportsPlaced,
     RowsHeld, TypeParts, TypeRest
<1>6. CASE OperatorImport
  BY <1>0, <1>6, Begun, Returned DEF OperatorImport, Became, Importers, ImportsPlaced,
     RowsHeld, TypeParts, TypeRest
<1>7. ASSUME NEW p \in Importers, Lock(p)
      PROVE  RowsHeld'
  BY <1>0, <1>7, Locked, Imports DEF Lock, Became, Importers, ImportsPlaced, RowsHeld,
     TypeParts, TypeRest
<1>8. ASSUME NEW p \in Importers, Commit(p)
      PROVE  RowsHeld'
  <2> SUFFICES ASSUME NEW q \in Importers
               PROVE  imp'[q].seen <= disk' /\ (imp'[q].at = "busy" => lock' = q)
    BY DEF RowsHeld
  <2>1. imp[p].at = "busy" /\ lock = p /\ disk' = disk /\ disk \in Nat
    BY <1>0, <1>8, Committed DEF Commit, ImportsPlaced, RowsHeld, TypeParts, TypeRest
  <2>2. CASE q = p
    BY <1>0, <1>8, <2>1, <2>2, Committed DEF Became
  <2>3. CASE q # p
    <3>1. imp'[q] = imp[q]
      BY <1>0, <1>8, <2>3, Committed DEF Became
    <3>2. QED
      BY <2>1, <2>3, <3>1 DEF ImportsPlaced, RowsHeld
  <2>4. QED
    BY <2>2, <2>3
<1>9. ASSUME NEW p \in Importers, Fault(p)
      PROVE  RowsHeld'
  <2> SUFFICES ASSUME NEW q \in Importers
               PROVE  imp'[q].seen <= disk' /\ (imp'[q].at = "busy" => lock' = q)
    BY DEF RowsHeld
  <2>1. imp[p].at = "busy" /\ lock = p /\ disk' = disk /\ disk \in Nat
    BY <1>0, <1>9, Faulted DEF ImportsPlaced, RowsHeld, TypeParts, TypeRest
  <2>2. CASE q = p
    BY <1>0, <1>9, <2>1, <2>2, Faulted DEF Became
  <2>3. CASE q # p
    <3>1. imp'[q] = imp[q]
      BY <1>0, <1>9, <2>3, Faulted DEF Became
    <3>2. QED
      BY <2>1, <2>3, <3>1 DEF ImportsPlaced, RowsHeld
  <2>4. QED
    BY <2>2, <2>3
<1>10. CASE Crash
  BY <1>10, Crashed DEF Crash, NoImport, Importers, ImportsPlaced, RowsHeld,
     TypeParts, TypeRest
<1>11. QED
  BY <1>1, <1>2, <1>3, <1>4, <1>5, <1>6, <1>7, <1>8, <1>9, <1>10 DEF Next, Agent,
     Watcher, Reader, Canceller, Import, Importers, vars, LaunchMark, Start,
     PartialMark, Open, PromptReturns, PromptRaises, Replied, Continuing, StopWatcher,
     Join, Importing, ImportingMark, FailWrite, FailMark, Close, WatchPoll,
     WatchWrite, WatchMark, ReadStatus, ReaderCheck, ReaderWrite, ReaderMark,
     CancelWrite, CancelMark, Launch, Cancel, Age

(* The import that the thread of the run makes is where the thread says.   *)
LEMMA ThreadImportsNext ==
    ASSUME TypeParts, ImportsPlaced, [Next]_vars
    PROVE  ThreadImports'
<1>0. TypeOK
  BY TypeApart
<1>1. CASE UNCHANGED <<imp, agent>>
  BY <1>1 DEF ImportsPlaced, ThreadImports, NoImport, TypeParts, TypeThread,
     ThreadRow, FileRow
<1>2. CASE LaunchMark
  BY <1>2 DEF LaunchMark, MarkRun, Goto, ImportsPlaced, ThreadImports, NoImport,
     TypeParts, TypeThread, ThreadRow, FileRow
<1>3. CASE Start
  BY <1>3 DEF Start, WriteState, Goto, ImportsPlaced, ThreadImports, NoImport,
     TypeParts, TypeThread, ThreadRow, FileRow
<1>4. CASE PartialMark
  BY <1>4 DEF PartialMark, MarkRun, Goto, ImportsPlaced, ThreadImports, NoImport,
     TypeParts, TypeThread, ThreadRow, FileRow
<1>5. CASE Open
  BY <1>5 DEF Open, Goto, ImportsPlaced, ThreadImports, NoImport, TypeParts,
     TypeThread, ThreadRow, FileRow
<1>6. CASE PromptReturns
  BY <1>6 DEF PromptReturns, AfterPrompt, ImportsPlaced, ThreadImports, NoImport,
     TypeParts, TypeThread, ThreadRow, FileRow
<1>7. CASE PromptRaises
  BY <1>7 DEF PromptRaises, Goto, ImportsPlaced, ThreadImports, NoImport, TypeParts,
     TypeThread, ThreadRow, FileRow
<1>8. CASE Replied
  BY <1>8 DEF Replied, ShouldContinue, WriteState, Goto, ImportsPlaced, ThreadImports,
     NoImport, TypeParts, TypeThread, ThreadRow, FileRow
<1>9. CASE Continuing
  BY <1>9 DEF Continuing, WriteState, Goto, ImportsPlaced, ThreadImports, NoImport,
     TypeParts, TypeThread, ThreadRow, FileRow
<1>10. CASE Join
  BY <1>10 DEF Join, WatcherLeft, Goto, ImportsPlaced, ThreadImports, NoImport,
     TypeParts, TypeThread, ThreadRow, FileRow
<1>11. CASE Importing
  BY <1>11 DEF Importing, WriteState, Goto, ImportsPlaced, ThreadImports, NoImport,
     TypeParts, TypeThread, ThreadRow, FileRow
<1>12. CASE ImportingMark
  BY <1>12 DEF ImportingMark, MarkRun, Goto, ImportsPlaced, ThreadImports, NoImport,
     TypeParts, TypeThread, ThreadRow, FileRow
<1>13. CASE FailWrite
  BY <1>13 DEF FailWrite, WriteState, Goto, ImportsPlaced, ThreadImports, NoImport,
     TypeParts, TypeThread, ThreadRow, FileRow
<1>14. CASE FailMark
  BY <1>14 DEF FailMark, MarkRun, Goto, ImportsPlaced, ThreadImports, NoImport,
     TypeParts, TypeThread, ThreadRow, FileRow
<1>15. CASE Close
  BY <1>15 DEF Close, WatcherLeft, Goto, ImportsPlaced, ThreadImports, NoImport,
     TypeParts, TypeThread, ThreadRow, FileRow
<1>16. CASE Launch
  BY <1>16 DEF Launch, WriteState, ImportsPlaced, ThreadImports, NoImport, TypeParts,
     TypeThread, ThreadRow, FileRow
<1>17. CASE PartialImport
  BY <1>0, <1>17, Begun, Returned DEF PartialImport, Became, Importers, WriteState,
     Goto, ImportsPlaced, ThreadImports, NoImport, TypeParts, TypeThread, ThreadRow,
     FileRow
<1>18. CASE FinalImport
  BY <1>0, <1>18, Begun, Returned DEF FinalImport, Became, Importers, WriteState,
     Goto, ImportsPlaced, ThreadImports, NoImport, TypeParts, TypeThread, ThreadRow,
     FileRow
<1>19. CASE WatchImport
  BY <1>0, <1>19, Begun, Returned DEF WatchImport, Became, Importers, ImportsPlaced,
     ThreadImports, NoImport, TypeParts, TypeThread, ThreadRow, FileRow
<1>20. CASE OperatorImport
  BY <1>0, <1>20, Begun, Returned DEF OperatorImport, Became, Importers,
     ImportsPlaced, ThreadImports, NoImport, TypeParts, TypeThread, ThreadRow, FileRow
<1>21. ASSUME NEW p \in Importers, Lock(p)
      PROVE  ThreadImports'
  <2>1. imp[p].at \in {"waiting", "busy"} /\ agent' = agent
    BY <1>0, <1>21, Locked DEF Lock
  <2>2. CASE p = "agent"
    <3>1. agent.at \in {"partial", "final"}
      BY <2>1, <2>2 DEF ImportsPlaced, ThreadImports, NoImport
    <3>2. imp'["agent"].at = "busy"
      BY <1>0, <1>21, <2>2, Locked DEF Became
    <3>3. QED
      BY <2>1, <3>1, <3>2 DEF ThreadImports
  <2>3. CASE p # "agent"
    <3>1. imp'["agent"] = imp["agent"]
      BY <1>0, <1>21, <2>3, Locked DEF Became, Importers
    <3>2. QED
      BY <2>1, <3>1 DEF ImportsPlaced, ThreadImports
  <2>4. QED
    BY <2>2, <2>3
<1>22. ASSUME NEW p \in Importers, Commit(p)
      PROVE  ThreadImports'
  BY <1>0, <1>22, Committed DEF Commit, Became, Importers, Partial, ImportsPlaced,
     ThreadImports, NoImport, TypeParts, TypeThread, ThreadRow, FileRow
<1>23. ASSUME NEW p \in Importers, Fault(p)
      PROVE  ThreadImports'
  <2>1. imp[p].at \in {"waiting", "busy"} /\ agent' = agent
    BY <1>0, <1>23, Faulted
  <2>2. CASE p = "agent"
    <3>1. agent.at \in {"partial", "final"}
      BY <2>1, <2>2 DEF ImportsPlaced, ThreadImports, NoImport
    <3>2. imp'["agent"].at = "done" => imp'["agent"].status = "import_failed" \/ agent.at = "partial"
      BY <1>0, <1>23, <2>2, Faulted DEF Became
    <3>3. QED
      BY <2>1, <3>1, <3>2 DEF ThreadImports
  <2>3. CASE p # "agent"
    <3>1. imp'["agent"] = imp["agent"]
      BY <1>0, <1>23, <2>3, Faulted DEF Became, Importers
    <3>2. QED
      BY <2>1, <3>1 DEF ImportsPlaced, ThreadImports
  <2>4. QED
    BY <2>2, <2>3
<1>24. CASE Crash
  BY <1>24, Crashed DEF Crash, NoImport, Importers, ImportsPlaced, ThreadImports,
     TypeParts, TypeThread, ThreadRow, FileRow
<1>25. QED
  BY <1>1, <1>2, <1>3, <1>4, <1>5, <1>6, <1>7, <1>8, <1>9, <1>10, <1>11, <1>12, <1>13,
     <1>14, <1>15, <1>16, <1>17, <1>18, <1>19, <1>20, <1>21, <1>22, <1>23, <1>24 DEF
     Next, Agent, Watcher, Reader, Canceller, Import, Importers, vars, StopWatcher,
     WatchPoll, WatchWrite, WatchMark, ReadStatus, ReaderCheck, ReaderWrite,
     ReaderMark, CancelWrite, CancelMark, PiWrites, Cancel, Age

(* ... the watcher inside the prompts, which takes a thread that waits for *)
(* it ...                                                                  *)
LEMMA WatcherInsideNext ==
    ASSUME Races \subseteq {"torn_state"}, TypeParts, Places, [Next]_vars
    PROVE  WatcherInside'
<1>0. TypeOK
  BY TypeApart
<1>1. CASE UNCHANGED <<kind, imp, agent, watch>>
  BY <1>1 DEF Places, ImportsPlaced, WatcherInside, NoImport, Watched, BeforePi,
     Final, TypeParts, TypeThread, ThreadRow, FileRow, TypeWatch, WatchRow
<1>2. CASE LaunchMark
  BY <1>2 DEF LaunchMark, MarkRun, Goto, Places, ImportsPlaced, WatcherInside,
     NoImport, Watched, BeforePi, Final, TypeParts, TypeThread, ThreadRow, FileRow,
     TypeWatch, WatchRow
<1>3. CASE Start
  BY <1>3 DEF Start, WriteState, Goto, Places, ImportsPlaced, WatcherInside, NoImport,
     Watched, BeforePi, Final, TypeParts, TypeThread, ThreadRow, FileRow, TypeWatch,
     WatchRow
<1>4. CASE PartialMark
  BY <1>4 DEF PartialMark, MarkRun, Goto, Places, ImportsPlaced, WatcherInside,
     NoImport, Watched, BeforePi, Final, TypeParts, TypeThread, ThreadRow, FileRow,
     TypeWatch, WatchRow
<1>5. CASE Open
  BY <1>5 DEF Open, Goto, Places, ImportsPlaced, WatcherInside, NoImport, Watched,
     BeforePi, Final, TypeParts, TypeThread, ThreadRow, FileRow, TypeWatch, WatchRow
<1>6. CASE PromptReturns
  BY <1>6 DEF PromptReturns, AfterPrompt, Places, ImportsPlaced, WatcherInside,
     NoImport, Watched, BeforePi, Final, TypeParts, TypeThread, ThreadRow, FileRow,
     TypeWatch, WatchRow
<1>7. CASE PromptRaises
  BY <1>7 DEF PromptRaises, Goto, Places, ImportsPlaced, WatcherInside, NoImport,
     Watched, BeforePi, Final, TypeParts, TypeThread, ThreadRow, FileRow, TypeWatch,
     WatchRow
<1>8. CASE Replied
  <2>1. agent'.at \in {"continuing", "join"} /\ UNCHANGED <<kind, imp, watch>>
    BY <1>8 DEF Replied, Goto, TypeParts, TypeThread, ThreadRow
  <2>2. QED
    BY <1>8, <2>1 DEF Replied, Places, WatcherInside, Watched, BeforePi, Final
<1>9. CASE Continuing
  BY <1>9 DEF Continuing, WriteState, Goto, Places, ImportsPlaced, WatcherInside,
     NoImport, Watched, BeforePi, Final, TypeParts, TypeThread, ThreadRow, FileRow,
     TypeWatch, WatchRow
<1>10. CASE StopWatcher
  BY <1>10 DEF StopWatcher, Places, ImportsPlaced, WatcherInside, NoImport, Watched,
     BeforePi, Final, TypeParts, TypeThread, ThreadRow, FileRow, TypeWatch, WatchRow
<1>11. CASE Join
  BY <1>11 DEF Join, WatcherLeft, Goto, Places, ImportsPlaced, WatcherInside,
     NoImport, Watched, BeforePi, Final, TypeParts, TypeThread, ThreadRow, FileRow,
     TypeWatch, WatchRow
<1>12. CASE Importing
  BY <1>12 DEF Importing, WriteState, Goto, Places, ImportsPlaced, WatcherInside,
     NoImport, Watched, BeforePi, Final, TypeParts, TypeThread, ThreadRow, FileRow,
     TypeWatch, WatchRow
<1>13. CASE ImportingMark
  BY <1>13 DEF ImportingMark, MarkRun, Goto, Places, ImportsPlaced, WatcherInside,
     NoImport, Watched, BeforePi, Final, TypeParts, TypeThread, ThreadRow, FileRow,
     TypeWatch, WatchRow
<1>14. CASE FailWrite
  BY <1>14 DEF FailWrite, WriteState, Goto, Places, ImportsPlaced, WatcherInside,
     NoImport, Watched, BeforePi, Final, TypeParts, TypeThread, ThreadRow, FileRow,
     TypeWatch, WatchRow
<1>15. CASE FailMark
  BY <1>15 DEF FailMark, MarkRun, Goto, Places, ImportsPlaced, WatcherInside,
     NoImport, Watched, BeforePi, Final, TypeParts, TypeThread, ThreadRow, FileRow,
     TypeWatch, WatchRow
<1>16. CASE Close
  BY <1>16 DEF Close, WatcherLeft, Goto, Places, ImportsPlaced, WatcherInside,
     NoImport, Watched, BeforePi, Final, TypeParts, TypeThread, ThreadRow, FileRow,
     TypeWatch, WatchRow
<1>17. CASE WatchPoll
  BY <1>17 DEF WatchPoll, Places, ImportsPlaced, WatcherInside, NoImport, Watched,
     BeforePi, Final, TypeParts, TypeThread, ThreadRow, FileRow, TypeWatch, WatchRow
<1>18. CASE WatchWrite
  BY <1>18 DEF WatchWrite, WriteState, Places, ImportsPlaced, WatcherInside, NoImport,
     Watched, BeforePi, Final, TypeParts, TypeThread, ThreadRow, FileRow, TypeWatch,
     WatchRow
<1>19. CASE WatchMark
  BY <1>19 DEF WatchMark, MarkRun, Places, ImportsPlaced, WatcherInside, NoImport,
     Watched, BeforePi, Final, TypeParts, TypeThread, ThreadRow, FileRow, TypeWatch,
     WatchRow
<1>20. CASE Launch
  BY <1>20 DEF Launch, WriteState, Places, ImportsPlaced, WatcherInside, NoImport,
     Watched, BeforePi, Final, TypeParts, TypeThread, ThreadRow, FileRow, TypeWatch,
     WatchRow
<1>21. CASE PartialImport
  BY <1>0, <1>21, Begun, Returned DEF PartialImport, Became, Importers, WriteState,
     Goto, Places, ImportsPlaced, WatcherInside, NoImport, Watched, BeforePi, Final,
     TypeParts, TypeThread, ThreadRow, FileRow, TypeWatch, WatchRow
<1>22. CASE FinalImport
  BY <1>0, <1>22, Begun, Returned DEF FinalImport, Became, Importers, WriteState,
     Goto, Places, ImportsPlaced, WatcherInside, NoImport, Watched, BeforePi, Final,
     TypeParts, TypeThread, ThreadRow, FileRow, TypeWatch, WatchRow
<1>23. CASE WatchImport
  BY <1>0, <1>23, Begun, Returned DEF WatchImport, Became, Importers, Places,
     ImportsPlaced, WatcherInside, NoImport, Watched, BeforePi, Final, TypeParts,
     TypeThread, ThreadRow, FileRow, TypeWatch, WatchRow
<1>24. CASE OperatorImport
  BY <1>0, <1>24, Begun, Returned DEF OperatorImport, Became, Importers, Places,
     ImportsPlaced, WatcherInside, NoImport, Watched, BeforePi, Final, TypeParts,
     TypeThread, ThreadRow, FileRow, TypeWatch, WatchRow
<1>25. ASSUME NEW p \in Importers, Lock(p)
      PROVE  WatcherInside'
  BY <1>0, <1>25, Locked DEF Lock, Became, Importers, Places, ImportsPlaced,
     WatcherInside, NoImport, Watched, BeforePi, Final, TypeParts, TypeThread,
     ThreadRow, FileRow, TypeWatch, WatchRow
<1>26. ASSUME NEW p \in Importers, Commit(p)
      PROVE  WatcherInside'
  BY <1>0, <1>26, Committed DEF Commit, Became, Importers, Partial, Places,
     ImportsPlaced, WatcherInside, NoImport, Watched, BeforePi, Final, TypeParts,
     TypeThread, ThreadRow, FileRow, TypeWatch, WatchRow
<1>27. ASSUME NEW p \in Importers, Fault(p)
      PROVE  WatcherInside'
  <2>1. imp[p].at = "busy" /\ UNCHANGED <<kind, agent, watch>>
    BY <1>0, <1>27, Faulted
  <2>2. CASE p = "watcher"
    BY <2>1, <2>2 DEF Places, ImportsPlaced, WatcherInside, NoImport, Watched
  <2>3. CASE p # "watcher"
    <3>1. imp'["watcher"] = imp["watcher"]
      BY <1>0, <1>27, <2>3, Faulted DEF Became, Importers
    <3>2. QED
      BY <2>1, <3>1 DEF Places, ImportsPlaced, WatcherInside, Watched
  <2>4. QED
    BY <2>2, <2>3
<1>28. CASE Crash
  BY <1>28, Crashed DEF Crash, NoImport, Importers, Places, ImportsPlaced,
     WatcherInside, Watched, BeforePi, Final, TypeParts, TypeThread, ThreadRow,
     FileRow, TypeWatch, WatchRow
<1>29. QED
  BY <1>1, <1>2, <1>3, <1>4, <1>5, <1>6, <1>7, <1>8, <1>9, <1>10, <1>11, <1>12, <1>13,
     <1>14, <1>15, <1>16, <1>17, <1>18, <1>19, <1>20, <1>21, <1>22, <1>23, <1>24,
     <1>25, <1>26, <1>27, <1>28 DEF Next, Agent, Watcher, Reader, Canceller, Import,
     Importers, vars, ReadStatus, ReaderCheck, ReaderWrite, ReaderMark, CancelWrite,
     CancelMark, PiWrites, Cancel, Age

(* ... and the requests in time, which takes a launch that lets a reader   *)
(* finish.                                                                 *)
LEMMA OthersInTimeNext ==
    ASSUME Races \subseteq {"torn_state"}, TypeParts, Places, [Next]_vars
    PROVE  OthersInTime'
<1>0. TypeOK
  BY TypeApart
<1>1. CASE UNCHANGED <<imp, used, reader, agent, cancel>>
  BY <1>1 DEF Places, ImportsPlaced, OthersInTime, TypeParts, TypeThread, ThreadRow,
     FileRow, TypeUsed
<1>2. CASE LaunchMark
  BY <1>2 DEF LaunchMark, MarkRun, Goto, Places, ImportsPlaced, OthersInTime,
     TypeParts, TypeThread, ThreadRow, FileRow, TypeUsed
<1>3. CASE Start
  BY <1>3 DEF Start, WriteState, Goto, Places, ImportsPlaced, OthersInTime, TypeParts,
     TypeThread, ThreadRow, FileRow, TypeUsed
<1>4. CASE PartialMark
  BY <1>4 DEF PartialMark, MarkRun, Goto, Places, ImportsPlaced, OthersInTime,
     TypeParts, TypeThread, ThreadRow, FileRow, TypeUsed
<1>5. CASE Open
  BY <1>5 DEF Open, Goto, Places, ImportsPlaced, OthersInTime, TypeParts, TypeThread,
     ThreadRow, FileRow, TypeUsed
<1>6. CASE PromptReturns
  BY <1>6 DEF PromptReturns, AfterPrompt, Places, ImportsPlaced, OthersInTime,
     TypeParts, TypeThread, ThreadRow, FileRow, TypeUsed
<1>7. CASE PromptRaises
  BY <1>7 DEF PromptRaises, Goto, Places, ImportsPlaced, OthersInTime, TypeParts,
     TypeThread, ThreadRow, FileRow, TypeUsed
<1>8. CASE Replied
  BY <1>8 DEF Replied, ShouldContinue, WriteState, Goto, Places, ImportsPlaced,
     OthersInTime, TypeParts, TypeThread, ThreadRow, FileRow, TypeUsed
<1>9. CASE Continuing
  BY <1>9 DEF Continuing, WriteState, Goto, Places, ImportsPlaced, OthersInTime,
     TypeParts, TypeThread, ThreadRow, FileRow, TypeUsed
<1>10. CASE Join
  BY <1>10 DEF Join, WatcherLeft, Goto, Places, ImportsPlaced, OthersInTime,
     TypeParts, TypeThread, ThreadRow, FileRow, TypeUsed
<1>11. CASE Importing
  BY <1>11 DEF Importing, WriteState, Goto, Places, ImportsPlaced, OthersInTime,
     TypeParts, TypeThread, ThreadRow, FileRow, TypeUsed
<1>12. CASE ImportingMark
  BY <1>12 DEF ImportingMark, MarkRun, Goto, Places, ImportsPlaced, OthersInTime,
     TypeParts, TypeThread, ThreadRow, FileRow, TypeUsed
<1>13. CASE FailWrite
  BY <1>13 DEF FailWrite, WriteState, Goto, Places, ImportsPlaced, OthersInTime,
     TypeParts, TypeThread, ThreadRow, FileRow, TypeUsed
<1>14. CASE FailMark
  BY <1>14 DEF FailMark, MarkRun, Goto, Places, ImportsPlaced, OthersInTime,
     TypeParts, TypeThread, ThreadRow, FileRow, TypeUsed
<1>15. CASE Close
  BY <1>15 DEF Close, WatcherLeft, Goto, Places, ImportsPlaced, OthersInTime,
     TypeParts, TypeThread, ThreadRow, FileRow, TypeUsed
<1>16. CASE ReadStatus
  BY <1>16 DEF ReadStatus, Places, ImportsPlaced, OthersInTime, TypeParts, TypeThread,
     ThreadRow, FileRow, TypeUsed
<1>17. CASE ReaderCheck
  BY <1>17 DEF ReaderCheck, Alive, Places, ImportsPlaced, OthersInTime, TypeParts,
     TypeThread, ThreadRow, FileRow, TypeUsed
<1>18. CASE ReaderWrite
  BY <1>18 DEF ReaderWrite, WriteState, Places, ImportsPlaced, OthersInTime,
     TypeParts, TypeThread, ThreadRow, FileRow, TypeUsed
<1>19. CASE ReaderMark
  BY <1>19 DEF ReaderMark, MarkRun, Places, ImportsPlaced, OthersInTime, TypeParts,
     TypeThread, ThreadRow, FileRow, TypeUsed
<1>20. CASE CancelWrite
  BY <1>20 DEF CancelWrite, WriteState, Places, ImportsPlaced, OthersInTime,
     TypeParts, TypeThread, ThreadRow, FileRow, TypeUsed
<1>21. CASE CancelMark
  BY <1>21 DEF CancelMark, MarkRun, Places, ImportsPlaced, OthersInTime, TypeParts,
     TypeThread, ThreadRow, FileRow, TypeUsed
<1>22. CASE Launch
  BY <1>22 DEF Launch, WriteState, Places, ImportsPlaced, OthersInTime, TypeParts,
     TypeThread, ThreadRow, FileRow, TypeUsed
<1>23. CASE Cancel
  BY <1>23, Happened DEF Cancel, Happens, Incidents, Places, ImportsPlaced,
     OthersInTime, TypeParts, TypeThread, ThreadRow, FileRow, TypeUsed
<1>24. CASE PartialImport
  BY <1>0, <1>24, Begun, Returned DEF PartialImport, Became, Importers, WriteState,
     Goto, Places, ImportsPlaced, OthersInTime, TypeParts, TypeThread, ThreadRow,
     FileRow, TypeUsed
<1>25. CASE FinalImport
  BY <1>0, <1>25, Begun, Returned DEF FinalImport, Became, Importers, WriteState,
     Goto, Places, ImportsPlaced, OthersInTime, TypeParts, TypeThread, ThreadRow,
     FileRow, TypeUsed
<1>26. CASE WatchImport
  BY <1>0, <1>26, Begun, Returned DEF WatchImport, Became, Importers, Places,
     ImportsPlaced, OthersInTime, TypeParts, TypeThread, ThreadRow, FileRow, TypeUsed
<1>27. CASE OperatorImport
  BY <1>0, <1>27, Begun, Returned, Happened DEF OperatorImport, Became, Importers,
     Incidents, Places, ImportsPlaced, OthersInTime, TypeParts, TypeThread, ThreadRow,
     FileRow, TypeUsed
<1>28. ASSUME NEW p \in Importers, Lock(p)
      PROVE  OthersInTime'
  BY <1>0, <1>28, Locked DEF Lock, Became, Importers, Places, ImportsPlaced,
     OthersInTime, TypeParts, TypeThread, ThreadRow, FileRow, TypeUsed
<1>29. ASSUME NEW p \in Importers, Commit(p)
      PROVE  OthersInTime'
  BY <1>0, <1>29, Committed DEF Commit, Became, Importers, Partial, Places,
     ImportsPlaced, OthersInTime, TypeParts, TypeThread, ThreadRow, FileRow, TypeUsed
<1>30. ASSUME NEW p \in Importers, Fault(p)
      PROVE  OthersInTime'
  <2>1. UNCHANGED <<agent, reader, cancel>> /\ imp[p].at = "busy"
    BY <1>0, <1>30, Faulted
  <2>2. used'.cancel = used.cancel /\ used'.import = used.import
    BY <1>30, Happened DEF Fault, Incidents, TypeParts
  <2>3. p # "operator" => imp'["operator"] = imp["operator"]
    BY <1>0, <1>30, Faulted DEF Became, Importers
  <2>4. QED
    BY <2>1, <2>2, <2>3 DEF Places, OthersInTime
<1>31. CASE Crash
  BY <1>31, Crashed, Happened DEF Crash, NoImport, Importers, Incidents, Places,
     ImportsPlaced, OthersInTime, TypeParts, TypeThread, ThreadRow, FileRow, TypeUsed
<1>32. QED
  BY <1>1, <1>2, <1>3, <1>4, <1>5, <1>6, <1>7, <1>8, <1>9, <1>10, <1>11, <1>12, <1>13,
     <1>14, <1>15, <1>16, <1>17, <1>18, <1>19, <1>20, <1>21, <1>22, <1>23, <1>24,
     <1>25, <1>26, <1>27, <1>28, <1>29, <1>30, <1>31 DEF Next, Agent, Watcher, Reader,
     Canceller, Import, Importers, vars, StopWatcher, WatchPoll, WatchWrite,
     WatchMark, PiWrites, Age

(* Pi writes for a client only.                                            *)
LEMMA PiQuietNext ==
    ASSUME TypeParts, Places, PiQuiet, [Next]_vars
    PROVE  PiQuiet'
<1>0. TypeOK
  BY TypeApart
<1>1. CASE UNCHANGED <<pi, client, agent>>
  BY <1>1 DEF PiQuiet, BeforePi, Finishing, TypeParts, TypeThread, ThreadRow, FileRow
<1>2. CASE LaunchMark
  BY <1>2 DEF LaunchMark, MarkRun, Goto, PiQuiet, BeforePi, Finishing, TypeParts,
     TypeThread, ThreadRow, FileRow
<1>3. CASE Start
  BY <1>3 DEF Start, WriteState, Goto, PiQuiet, BeforePi, Finishing, TypeParts,
     TypeThread, ThreadRow, FileRow
<1>4. CASE PartialMark
  BY <1>4 DEF PartialMark, MarkRun, Goto, PiQuiet, BeforePi, Finishing, TypeParts,
     TypeThread, ThreadRow, FileRow
<1>5. CASE Open
  BY <1>5 DEF Open, Goto, PiQuiet, BeforePi, Finishing, TypeParts, TypeThread,
     ThreadRow, FileRow
<1>6. CASE PromptReturns
  BY <1>6 DEF PromptReturns, AfterPrompt, PiQuiet, BeforePi, Finishing, TypeParts,
     TypeThread, ThreadRow, FileRow
<1>7. CASE PromptRaises
  BY <1>7 DEF PromptRaises, Goto, PiQuiet, BeforePi, Finishing, TypeParts, TypeThread,
     ThreadRow, FileRow
<1>8. CASE Replied
  BY <1>8 DEF Replied, ShouldContinue, WriteState, Goto, PiQuiet, BeforePi, Finishing,
     TypeParts, TypeThread, ThreadRow, FileRow
<1>9. CASE Continuing
  BY <1>9 DEF Continuing, WriteState, Goto, PiQuiet, BeforePi, Finishing, TypeParts,
     TypeThread, ThreadRow, FileRow
<1>10. CASE Join
  BY <1>10 DEF Join, WatcherLeft, Goto, PiQuiet, BeforePi, Finishing, TypeParts,
     TypeThread, ThreadRow, FileRow
<1>11. CASE Importing
  BY <1>11 DEF Importing, WriteState, Goto, PiQuiet, BeforePi, Finishing, TypeParts,
     TypeThread, ThreadRow, FileRow
<1>12. CASE ImportingMark
  BY <1>12 DEF ImportingMark, MarkRun, Goto, PiQuiet, BeforePi, Finishing, TypeParts,
     TypeThread, ThreadRow, FileRow
<1>13. CASE FailWrite
  BY <1>13 DEF FailWrite, WriteState, Goto, PiQuiet, BeforePi, Finishing, TypeParts,
     TypeThread, ThreadRow, FileRow
<1>14. CASE FailMark
  BY <1>14 DEF FailMark, MarkRun, Goto, PiQuiet, BeforePi, Finishing, TypeParts,
     TypeThread, ThreadRow, FileRow
<1>15. CASE Close
  BY <1>15 DEF Close, WatcherLeft, Goto, PiQuiet, BeforePi, Finishing, TypeParts,
     TypeThread, ThreadRow, FileRow
<1>16. CASE Launch
  BY <1>16 DEF Launch, WriteState, PiQuiet, BeforePi, Finishing, TypeParts,
     TypeThread, ThreadRow, FileRow
<1>17. CASE Cancel
  BY <1>17 DEF Cancel, Happens, PiQuiet, BeforePi, Finishing, TypeParts, TypeThread,
     ThreadRow, FileRow
<1>18. CASE PartialImport
  BY <1>0, <1>18, Begun, Returned DEF PartialImport, Became, Importers, WriteState,
     Goto, PiQuiet, BeforePi, Finishing, TypeParts, TypeThread, ThreadRow, FileRow
<1>19. CASE FinalImport
  BY <1>0, <1>19, Begun, Returned DEF FinalImport, Became, Importers, WriteState,
     Goto, PiQuiet, BeforePi, Finishing, TypeParts, TypeThread, ThreadRow, FileRow
<1>20. CASE Crash
  BY <1>20, Crashed DEF Crash, NoImport, Importers, PiQuiet, BeforePi, Finishing,
     TypeParts, TypeThread, ThreadRow, FileRow
<1>21. QED
  BY <1>1, <1>2, <1>3, <1>4, <1>5, <1>6, <1>7, <1>8, <1>9, <1>10, <1>11, <1>12, <1>13,
     <1>14, <1>15, <1>16, <1>17, <1>18, <1>19, <1>20 DEF Next, Agent, Watcher, Reader,
     Canceller, Import, Importers, vars, StopWatcher, WatchPoll, WatchWrite,
     WatchMark, ReadStatus, ReaderCheck, ReaderWrite, ReaderMark, CancelWrite,
     CancelMark, PiWrites, Age, WatchImport, OperatorImport, Lock, Commit, Fault

(* What the file says ...                                                  *)
LEMMA FileStandsNext ==
    ASSUME TypeParts, Places, FileStands, [Next]_vars
    PROVE  FileStands'
<1>0. TypeOK
  BY TypeApart
<1>1. CASE UNCHANGED <<state, agent, used>>
  BY <1>1 DEF FileStands, Places, ImportsPlaced, ThreadImports, WatcherInside,
     OthersInTime, BeforePi, Final, AtWork, TypeParts, TypeThread, ThreadRow, FileRow,
     TypeUsed
<1>2. CASE LaunchMark
  BY <1>2 DEF LaunchMark, MarkRun, Goto, FileStands, Places, ImportsPlaced,
     ThreadImports, WatcherInside, OthersInTime, BeforePi, Final, AtWork, TypeParts,
     TypeThread, ThreadRow, FileRow, TypeUsed
<1>3. CASE Start
  BY <1>3 DEF Start, WriteState, Goto, FileStands, Places, ImportsPlaced,
     ThreadImports, WatcherInside, OthersInTime, BeforePi, Final, AtWork, TypeParts,
     TypeThread, ThreadRow, FileRow, TypeUsed
<1>4. CASE PartialMark
  BY <1>4 DEF PartialMark, MarkRun, Goto, FileStands, Places, ImportsPlaced,
     ThreadImports, WatcherInside, OthersInTime, BeforePi, Final, AtWork, TypeParts,
     TypeThread, ThreadRow, FileRow, TypeUsed
<1>5. CASE Open
  BY <1>5 DEF Open, Goto, FileStands, Places, ImportsPlaced, ThreadImports,
     WatcherInside, OthersInTime, BeforePi, Final, AtWork, TypeParts, TypeThread,
     ThreadRow, FileRow, TypeUsed
<1>6. CASE PromptReturns
  BY <1>6 DEF PromptReturns, AfterPrompt, FileStands, Places, ImportsPlaced,
     ThreadImports, WatcherInside, OthersInTime, BeforePi, Final, AtWork, TypeParts,
     TypeThread, ThreadRow, FileRow, TypeUsed
<1>7. CASE PromptRaises
  BY <1>7 DEF PromptRaises, Goto, FileStands, Places, ImportsPlaced, ThreadImports,
     WatcherInside, OthersInTime, BeforePi, Final, AtWork, TypeParts, TypeThread,
     ThreadRow, FileRow, TypeUsed
<1>8. CASE Replied
  BY <1>8 DEF Replied, ShouldContinue, WriteState, Goto, FileStands, Places,
     ImportsPlaced, ThreadImports, WatcherInside, OthersInTime, BeforePi, Final,
     AtWork, TypeParts, TypeThread, ThreadRow, FileRow, TypeUsed
<1>9. CASE Continuing
  BY <1>9 DEF Continuing, WriteState, Goto, FileStands, Places, ImportsPlaced,
     ThreadImports, WatcherInside, OthersInTime, BeforePi, Final, AtWork, TypeParts,
     TypeThread, ThreadRow, FileRow, TypeUsed
<1>10. CASE Join
  BY <1>10 DEF Join, WatcherLeft, Goto, FileStands, Places, ImportsPlaced,
     ThreadImports, WatcherInside, OthersInTime, BeforePi, Final, AtWork, TypeParts,
     TypeThread, ThreadRow, FileRow, TypeUsed
<1>11. CASE Importing
  BY <1>11 DEF Importing, WriteState, Goto, FileStands, Places, ImportsPlaced,
     ThreadImports, WatcherInside, OthersInTime, BeforePi, Final, AtWork, TypeParts,
     TypeThread, ThreadRow, FileRow, TypeUsed
<1>12. CASE ImportingMark
  BY <1>12 DEF ImportingMark, MarkRun, Goto, FileStands, Places, ImportsPlaced,
     ThreadImports, WatcherInside, OthersInTime, BeforePi, Final, AtWork, TypeParts,
     TypeThread, ThreadRow, FileRow, TypeUsed
<1>13. CASE FailWrite
  BY <1>13 DEF FailWrite, WriteState, Goto, FileStands, Places, ImportsPlaced,
     ThreadImports, WatcherInside, OthersInTime, BeforePi, Final, AtWork, TypeParts,
     TypeThread, ThreadRow, FileRow, TypeUsed
<1>14. CASE FailMark
  BY <1>14 DEF FailMark, MarkRun, Goto, FileStands, Places, ImportsPlaced,
     ThreadImports, WatcherInside, OthersInTime, BeforePi, Final, AtWork, TypeParts,
     TypeThread, ThreadRow, FileRow, TypeUsed
<1>15. CASE Close
  BY <1>15 DEF Close, WatcherLeft, Goto, FileStands, Places, ImportsPlaced,
     ThreadImports, WatcherInside, OthersInTime, BeforePi, Final, AtWork, TypeParts,
     TypeThread, ThreadRow, FileRow, TypeUsed
<1>16. CASE WatchWrite
  BY <1>16 DEF WatchWrite, WriteState, FileStands, Places, ImportsPlaced,
     ThreadImports, WatcherInside, OthersInTime, BeforePi, Final, AtWork, TypeParts,
     TypeThread, ThreadRow, FileRow, TypeUsed
<1>17. CASE ReaderWrite
  BY <1>17 DEF ReaderWrite, WriteState, FileStands, Places, ImportsPlaced,
     ThreadImports, WatcherInside, OthersInTime, BeforePi, Final, AtWork, TypeParts,
     TypeThread, ThreadRow, FileRow, TypeUsed
<1>18. CASE CancelWrite
  BY <1>18 DEF CancelWrite, WriteState, FileStands, Places, ImportsPlaced,
     ThreadImports, WatcherInside, OthersInTime, BeforePi, Final, AtWork, TypeParts,
     TypeThread, ThreadRow, FileRow, TypeUsed
<1>19. CASE Launch
  BY <1>19 DEF Launch, WriteState, FileStands, Places, ImportsPlaced, ThreadImports,
     WatcherInside, OthersInTime, BeforePi, Final, AtWork, TypeParts, TypeThread,
     ThreadRow, FileRow, TypeUsed
<1>20. CASE Cancel
  BY <1>20, Happened DEF Cancel, Happens, Incidents, FileStands, Places,
     ImportsPlaced, ThreadImports, WatcherInside, OthersInTime, BeforePi, Final,
     AtWork, TypeParts, TypeThread, ThreadRow, FileRow, TypeUsed
<1>21. CASE Age
  BY <1>21 DEF Age, FileStands, Places, ImportsPlaced, ThreadImports, WatcherInside,
     OthersInTime, BeforePi, Final, AtWork, TypeParts, TypeThread, ThreadRow, FileRow,
     TypeUsed
<1>22. CASE PartialImport
  BY <1>0, <1>22, Begun, Returned DEF PartialImport, Became, Importers, WriteState,
     Goto, FileStands, Places, ImportsPlaced, ThreadImports, WatcherInside,
     OthersInTime, BeforePi, Final, AtWork, TypeParts, TypeThread, ThreadRow, FileRow,
     TypeUsed
<1>23. CASE FinalImport
  BY <1>0, <1>23, Begun, Returned DEF FinalImport, Became, Importers, WriteState,
     Goto, FileStands, Places, ImportsPlaced, ThreadImports, WatcherInside,
     OthersInTime, BeforePi, Final, AtWork, TypeParts, TypeThread, ThreadRow, FileRow,
     TypeUsed
<1>24. CASE OperatorImport
  BY <1>0, <1>24, Begun, Returned, Happened DEF OperatorImport, Became, Importers,
     Incidents, FileStands, Places, ImportsPlaced, ThreadImports, WatcherInside,
     OthersInTime, BeforePi, Final, AtWork, TypeParts, TypeThread, ThreadRow, FileRow,
     TypeUsed
<1>25. ASSUME NEW p \in Importers, Fault(p)
      PROVE  FileStands'
  <2>1. UNCHANGED <<agent, state>>
    BY <1>0, <1>25, Faulted
  <2>2. used'.cancel = used.cancel
    BY <1>25, Happened DEF Fault, Incidents, TypeParts
  <2>3. QED
    BY <2>1, <2>2 DEF FileStands
<1>26. CASE Crash
  BY <1>26, Crashed, Happened DEF Crash, NoImport, Importers, Incidents, FileStands,
     Places, ImportsPlaced, ThreadImports, WatcherInside, OthersInTime, BeforePi,
     Final, AtWork, TypeParts, TypeThread, ThreadRow, FileRow, TypeUsed
<1>27. QED
  BY <1>1, <1>2, <1>3, <1>4, <1>5, <1>6, <1>7, <1>8, <1>9, <1>10, <1>11, <1>12, <1>13,
     <1>14, <1>15, <1>16, <1>17, <1>18, <1>19, <1>20, <1>21, <1>22, <1>23, <1>24,
     <1>25, <1>26 DEF Next, Agent, Watcher, Reader, Canceller, Import, Importers,
     vars, StopWatcher, WatchPoll, WatchMark, ReadStatus, ReaderCheck, ReaderMark,
     CancelMark, PiWrites, WatchImport, Lock, Commit

(* ... and what the row says, or will say once an import is through.       *)
LEMMA RowStandsNext ==
    ASSUME TypeParts, Places, RowStands, [Next]_vars
    PROVE  RowStands'
<1>0. TypeOK
  BY TypeApart
<1>1. CASE UNCHANGED <<run, imp, agent, watch, used>>
  BY <1>1 DEF RowStands, Places, ImportsPlaced, ThreadImports, WatcherInside,
     OthersInTime, NoImport, BeforePi, Final, AtWork, TypeParts, TypeThread,
     ThreadRow, FileRow, TypeWatch, TypeUsed
<1>2. CASE LaunchMark
  BY <1>2 DEF LaunchMark, MarkRun, Goto, RowStands, Places, ImportsPlaced,
     ThreadImports, WatcherInside, OthersInTime, NoImport, BeforePi, Final, AtWork,
     TypeParts, TypeThread, ThreadRow, FileRow, TypeWatch, TypeUsed
<1>3. CASE Start
  BY <1>3 DEF Start, WriteState, Goto, RowStands, Places, ImportsPlaced,
     ThreadImports, WatcherInside, OthersInTime, NoImport, BeforePi, Final, AtWork,
     TypeParts, TypeThread, ThreadRow, FileRow, TypeWatch, TypeUsed
<1>4. CASE PartialMark
  BY <1>4 DEF PartialMark, MarkRun, Goto, RowStands, Places, ImportsPlaced,
     ThreadImports, WatcherInside, OthersInTime, NoImport, BeforePi, Final, AtWork,
     TypeParts, TypeThread, ThreadRow, FileRow, TypeWatch, TypeUsed
<1>5. CASE Open
  BY <1>5 DEF Open, Goto, RowStands, Places, ImportsPlaced, ThreadImports,
     WatcherInside, OthersInTime, NoImport, BeforePi, Final, AtWork, TypeParts,
     TypeThread, ThreadRow, FileRow, TypeWatch, TypeUsed
<1>6. CASE PromptReturns
  BY <1>6 DEF PromptReturns, AfterPrompt, RowStands, Places, ImportsPlaced,
     ThreadImports, WatcherInside, OthersInTime, NoImport, BeforePi, Final, AtWork,
     TypeParts, TypeThread, ThreadRow, FileRow, TypeWatch, TypeUsed
<1>7. CASE PromptRaises
  BY <1>7 DEF PromptRaises, Goto, RowStands, Places, ImportsPlaced, ThreadImports,
     WatcherInside, OthersInTime, NoImport, BeforePi, Final, AtWork, TypeParts,
     TypeThread, ThreadRow, FileRow, TypeWatch, TypeUsed
<1>8. CASE Replied
  BY <1>8 DEF Replied, ShouldContinue, WriteState, Goto, RowStands, Places,
     ImportsPlaced, ThreadImports, WatcherInside, OthersInTime, NoImport, BeforePi,
     Final, AtWork, TypeParts, TypeThread, ThreadRow, FileRow, TypeWatch, TypeUsed
<1>9. CASE Continuing
  BY <1>9 DEF Continuing, WriteState, Goto, RowStands, Places, ImportsPlaced,
     ThreadImports, WatcherInside, OthersInTime, NoImport, BeforePi, Final, AtWork,
     TypeParts, TypeThread, ThreadRow, FileRow, TypeWatch, TypeUsed
<1>10. CASE StopWatcher
  BY <1>10 DEF StopWatcher, RowStands, Places, ImportsPlaced, ThreadImports,
     WatcherInside, OthersInTime, NoImport, BeforePi, Final, AtWork, TypeParts,
     TypeThread, ThreadRow, FileRow, TypeWatch, TypeUsed
<1>11. CASE Join
  BY <1>11 DEF Join, WatcherLeft, Goto, RowStands, Places, ImportsPlaced,
     ThreadImports, WatcherInside, OthersInTime, NoImport, BeforePi, Final, AtWork,
     TypeParts, TypeThread, ThreadRow, FileRow, TypeWatch, TypeUsed
<1>12. CASE Importing
  BY <1>12 DEF Importing, WriteState, Goto, RowStands, Places, ImportsPlaced,
     ThreadImports, WatcherInside, OthersInTime, NoImport, BeforePi, Final, AtWork,
     TypeParts, TypeThread, ThreadRow, FileRow, TypeWatch, TypeUsed
<1>13. CASE ImportingMark
  BY <1>13 DEF ImportingMark, MarkRun, Goto, RowStands, Places, ImportsPlaced,
     ThreadImports, WatcherInside, OthersInTime, NoImport, BeforePi, Final, AtWork,
     TypeParts, TypeThread, ThreadRow, FileRow, TypeWatch, TypeUsed
<1>14. CASE FailWrite
  BY <1>14 DEF FailWrite, WriteState, Goto, RowStands, Places, ImportsPlaced,
     ThreadImports, WatcherInside, OthersInTime, NoImport, BeforePi, Final, AtWork,
     TypeParts, TypeThread, ThreadRow, FileRow, TypeWatch, TypeUsed
<1>15. CASE FailMark
  BY <1>15 DEF FailMark, MarkRun, Goto, RowStands, Places, ImportsPlaced,
     ThreadImports, WatcherInside, OthersInTime, NoImport, BeforePi, Final, AtWork,
     TypeParts, TypeThread, ThreadRow, FileRow, TypeWatch, TypeUsed
<1>16. CASE Close
  BY <1>16 DEF Close, WatcherLeft, Goto, RowStands, Places, ImportsPlaced,
     ThreadImports, WatcherInside, OthersInTime, NoImport, BeforePi, Final, AtWork,
     TypeParts, TypeThread, ThreadRow, FileRow, TypeWatch, TypeUsed
<1>17. CASE WatchPoll
  BY <1>17 DEF WatchPoll, RowStands, Places, ImportsPlaced, ThreadImports,
     WatcherInside, OthersInTime, NoImport, BeforePi, Final, AtWork, TypeParts,
     TypeThread, ThreadRow, FileRow, TypeWatch, TypeUsed
<1>18. CASE WatchWrite
  BY <1>18 DEF WatchWrite, WriteState, RowStands, Places, ImportsPlaced,
     ThreadImports, WatcherInside, OthersInTime, NoImport, BeforePi, Final, AtWork,
     TypeParts, TypeThread, ThreadRow, FileRow, TypeWatch, TypeUsed
<1>19. CASE WatchMark
  BY <1>19 DEF WatchMark, MarkRun, RowStands, Places, ImportsPlaced, ThreadImports,
     WatcherInside, OthersInTime, NoImport, BeforePi, Final, AtWork, TypeParts,
     TypeThread, ThreadRow, FileRow, TypeWatch, TypeUsed
<1>20. CASE ReaderMark
  BY <1>20 DEF ReaderMark, MarkRun, RowStands, Places, ImportsPlaced, ThreadImports,
     WatcherInside, OthersInTime, NoImport, BeforePi, Final, AtWork, TypeParts,
     TypeThread, ThreadRow, FileRow, TypeWatch, TypeUsed
<1>21. CASE CancelMark
  BY <1>21 DEF CancelMark, MarkRun, RowStands, Places, ImportsPlaced, ThreadImports,
     WatcherInside, OthersInTime, NoImport, BeforePi, Final, AtWork, TypeParts,
     TypeThread, ThreadRow, FileRow, TypeWatch, TypeUsed
<1>22. CASE Launch
  BY <1>22 DEF Launch, WriteState, RowStands, Places, ImportsPlaced, ThreadImports,
     WatcherInside, OthersInTime, NoImport, BeforePi, Final, AtWork, TypeParts,
     TypeThread, ThreadRow, FileRow, TypeWatch, TypeUsed
<1>23. CASE Cancel
  BY <1>23, Happened DEF Cancel, Happens, Incidents, RowStands, Places, ImportsPlaced,
     ThreadImports, WatcherInside, OthersInTime, NoImport, BeforePi, Final, AtWork,
     TypeParts, TypeThread, ThreadRow, FileRow, TypeWatch, TypeUsed
<1>24. CASE PartialImport
  BY <1>0, <1>24, Begun, Returned DEF PartialImport, Became, Importers, WriteState,
     Goto, RowStands, Places, ImportsPlaced, ThreadImports, WatcherInside,
     OthersInTime, NoImport, BeforePi, Final, AtWork, TypeParts, TypeThread,
     ThreadRow, FileRow, TypeWatch, TypeUsed
<1>25. CASE FinalImport
  BY <1>0, <1>25, Begun, Returned DEF FinalImport, Became, Importers, WriteState,
     Goto, RowStands, Places, ImportsPlaced, ThreadImports, WatcherInside,
     OthersInTime, NoImport, BeforePi, Final, AtWork, TypeParts, TypeThread,
     ThreadRow, FileRow, TypeWatch, TypeUsed
<1>26. CASE WatchImport
  BY <1>0, <1>26, Begun, Returned DEF WatchImport, Became, Importers, RowStands,
     Places, ImportsPlaced, ThreadImports, WatcherInside, OthersInTime, NoImport,
     BeforePi, Final, AtWork, TypeParts, TypeThread, ThreadRow, FileRow, TypeWatch,
     TypeUsed
<1>27. CASE OperatorImport
  BY <1>0, <1>27, Begun, Returned, Happened DEF OperatorImport, Became, Importers,
     Incidents, RowStands, Places, ImportsPlaced, ThreadImports, WatcherInside,
     OthersInTime, NoImport, BeforePi, Final, AtWork, TypeParts, TypeThread,
     ThreadRow, FileRow, TypeWatch, TypeUsed
<1>28. ASSUME NEW p \in Importers, Lock(p)
      PROVE  RowStands'
  BY <1>0, <1>28, Locked DEF Lock, Became, Importers, RowStands, Places,
     ImportsPlaced, ThreadImports, WatcherInside, OthersInTime, NoImport, BeforePi,
     Final, AtWork, TypeParts, TypeThread, ThreadRow, FileRow, TypeWatch, TypeUsed
<1>29. ASSUME NEW p \in Importers, Commit(p)
      PROVE  RowStands'
  BY <1>0, <1>29, Committed DEF Commit, Became, Importers, Partial, RowStands, Places,
     ImportsPlaced, ThreadImports, WatcherInside, OthersInTime, NoImport, BeforePi,
     Final, AtWork, TypeParts, TypeThread, ThreadRow, FileRow, TypeWatch, TypeUsed
<1>30. ASSUME NEW p \in Importers, Fault(p)
      PROVE  RowStands'
  <2>1. UNCHANGED <<agent, watch>> /\ run' \in {run, "import_failed"}
        /\ used'.cancel = used.cancel /\ used'.import = used.import
    BY <1>0, <1>30, Faulted, Happened DEF Fault, Incidents, TypeParts
  <2>2. imp'[p].status = run' /\ \A q \in Importers \ {p} : imp'[q].status = imp[q].status
    BY <1>0, <1>30, Faulted DEF Became
  <2>3. \A q \in Importers : imp'[q].status \in {imp[q].status, run, "import_failed"}
    BY <2>1, <2>2
  <2>4. QED
    BY <2>1, <2>3 DEF RowStands, AtWork, Importers
<1>31. CASE Crash
  BY <1>31, Crashed, Happened DEF Crash, NoImport, Importers, Incidents, RowStands,
     Places, ImportsPlaced, ThreadImports, WatcherInside, OthersInTime, BeforePi,
     Final, AtWork, TypeParts, TypeThread, ThreadRow, FileRow, TypeWatch, TypeUsed
<1>32. QED
  BY <1>1, <1>2, <1>3, <1>4, <1>5, <1>6, <1>7, <1>8, <1>9, <1>10, <1>11, <1>12, <1>13,
     <1>14, <1>15, <1>16, <1>17, <1>18, <1>19, <1>20, <1>21, <1>22, <1>23, <1>24,
     <1>25, <1>26, <1>27, <1>28, <1>29, <1>30, <1>31 DEF Next, Agent, Watcher, Reader,
     Canceller, Import, Importers, vars, ReadStatus, ReaderCheck, ReaderWrite,
     CancelWrite, PiWrites, Age

(* The last import reads what there is ...                                 *)
LEMMA LastReadsNext ==
    ASSUME TypeParts, Places, PiQuiet, LastReads, [Next]_vars
    PROVE  LastReads'
<1>0. TypeOK
  BY TypeApart
<1>1. CASE UNCHANGED <<imp, agent, disk>>
  BY <1>1 DEF LastReads, PiQuiet, Finishing, Places, ImportsPlaced, ThreadImports,
     NoImport, TypeParts, TypeThread, ThreadRow, FileRow
<1>2. CASE LaunchMark
  BY <1>2 DEF LaunchMark, MarkRun, Goto, LastReads, PiQuiet, Finishing, Places,
     ImportsPlaced, ThreadImports, NoImport, TypeParts, TypeThread, ThreadRow, FileRow
<1>3. CASE Start
  BY <1>3 DEF Start, WriteState, Goto, LastReads, PiQuiet, Finishing, Places,
     ImportsPlaced, ThreadImports, NoImport, TypeParts, TypeThread, ThreadRow, FileRow
<1>4. CASE PartialMark
  BY <1>4 DEF PartialMark, MarkRun, Goto, LastReads, PiQuiet, Finishing, Places,
     ImportsPlaced, ThreadImports, NoImport, TypeParts, TypeThread, ThreadRow, FileRow
<1>5. CASE Open
  BY <1>5 DEF Open, Goto, LastReads, PiQuiet, Finishing, Places, ImportsPlaced,
     ThreadImports, NoImport, TypeParts, TypeThread, ThreadRow, FileRow
<1>6. CASE PromptReturns
  BY <1>6 DEF PromptReturns, AfterPrompt, LastReads, PiQuiet, Finishing, Places,
     ImportsPlaced, ThreadImports, NoImport, TypeParts, TypeThread, ThreadRow, FileRow
<1>7. CASE PromptRaises
  BY <1>7 DEF PromptRaises, Goto, LastReads, PiQuiet, Finishing, Places,
     ImportsPlaced, ThreadImports, NoImport, TypeParts, TypeThread, ThreadRow, FileRow
<1>8. CASE Replied
  BY <1>8 DEF Replied, ShouldContinue, WriteState, Goto, LastReads, PiQuiet,
     Finishing, Places, ImportsPlaced, ThreadImports, NoImport, TypeParts, TypeThread,
     ThreadRow, FileRow
<1>9. CASE Continuing
  BY <1>9 DEF Continuing, WriteState, Goto, LastReads, PiQuiet, Finishing, Places,
     ImportsPlaced, ThreadImports, NoImport, TypeParts, TypeThread, ThreadRow, FileRow
<1>10. CASE Join
  BY <1>10 DEF Join, WatcherLeft, Goto, LastReads, PiQuiet, Finishing, Places,
     ImportsPlaced, ThreadImports, NoImport, TypeParts, TypeThread, ThreadRow, FileRow
<1>11. CASE Importing
  BY <1>11 DEF Importing, WriteState, Goto, LastReads, PiQuiet, Finishing, Places,
     ImportsPlaced, ThreadImports, NoImport, TypeParts, TypeThread, ThreadRow, FileRow
<1>12. CASE ImportingMark
  BY <1>12 DEF ImportingMark, MarkRun, Goto, LastReads, PiQuiet, Finishing, Places,
     ImportsPlaced, ThreadImports, NoImport, TypeParts, TypeThread, ThreadRow, FileRow
<1>13. CASE FailWrite
  BY <1>13 DEF FailWrite, WriteState, Goto, LastReads, PiQuiet, Finishing, Places,
     ImportsPlaced, ThreadImports, NoImport, TypeParts, TypeThread, ThreadRow, FileRow
<1>14. CASE FailMark
  BY <1>14 DEF FailMark, MarkRun, Goto, LastReads, PiQuiet, Finishing, Places,
     ImportsPlaced, ThreadImports, NoImport, TypeParts, TypeThread, ThreadRow, FileRow
<1>15. CASE Close
  BY <1>15 DEF Close, WatcherLeft, Goto, LastReads, PiQuiet, Finishing, Places,
     ImportsPlaced, ThreadImports, NoImport, TypeParts, TypeThread, ThreadRow, FileRow
<1>16. CASE PiWrites
  BY <1>16 DEF PiWrites, LastReads, PiQuiet, Finishing, Places, ImportsPlaced,
     ThreadImports, NoImport, TypeParts, TypeThread, ThreadRow, FileRow
<1>17. CASE Launch
  BY <1>17 DEF Launch, WriteState, LastReads, PiQuiet, Finishing, Places,
     ImportsPlaced, ThreadImports, NoImport, TypeParts, TypeThread, ThreadRow, FileRow
<1>18. CASE PartialImport
  BY <1>0, <1>18, Begun, Returned DEF PartialImport, Became, Importers, WriteState,
     Goto, LastReads, PiQuiet, Finishing, Places, ImportsPlaced, ThreadImports,
     NoImport, TypeParts, TypeThread, ThreadRow, FileRow
<1>19. CASE FinalImport
  BY <1>0, <1>19, Begun, Returned DEF FinalImport, Became, Importers, WriteState,
     Goto, LastReads, PiQuiet, Finishing, Places, ImportsPlaced, ThreadImports,
     NoImport, TypeParts, TypeThread, ThreadRow, FileRow
<1>20. CASE WatchImport
  BY <1>0, <1>20, Begun, Returned DEF WatchImport, Became, Importers, LastReads,
     PiQuiet, Finishing, Places, ImportsPlaced, ThreadImports, NoImport, TypeParts,
     TypeThread, ThreadRow, FileRow
<1>21. CASE OperatorImport
  BY <1>0, <1>21, Begun, Returned DEF OperatorImport, Became, Importers, LastReads,
     PiQuiet, Finishing, Places, ImportsPlaced, ThreadImports, NoImport, TypeParts,
     TypeThread, ThreadRow, FileRow
<1>22. ASSUME NEW p \in Importers, Lock(p)
      PROVE  LastReads'
  BY <1>0, <1>22, Locked DEF Lock, Became, Importers, LastReads, PiQuiet, Finishing,
     Places, ImportsPlaced, ThreadImports, NoImport, TypeParts, TypeThread, ThreadRow,
     FileRow
<1>23. ASSUME NEW p \in Importers, Commit(p)
      PROVE  LastReads'
  BY <1>0, <1>23, Committed DEF Commit, Became, Importers, Partial, LastReads,
     PiQuiet, Finishing, Places, ImportsPlaced, ThreadImports, NoImport, TypeParts,
     TypeThread, ThreadRow, FileRow
<1>24. ASSUME NEW p \in Importers, Fault(p)
      PROVE  LastReads'
  BY <1>0, <1>24, Faulted DEF Fault, Became, Importers, LastReads, PiQuiet, Finishing,
     Places, ImportsPlaced, ThreadImports, NoImport, TypeParts, TypeThread, ThreadRow,
     FileRow
<1>25. CASE Crash
  BY <1>25, Crashed DEF Crash, NoImport, Importers, LastReads, PiQuiet, Finishing,
     Places, ImportsPlaced, ThreadImports, TypeParts, TypeThread, ThreadRow, FileRow
<1>26. QED
  BY <1>1, <1>2, <1>3, <1>4, <1>5, <1>6, <1>7, <1>8, <1>9, <1>10, <1>11, <1>12, <1>13,
     <1>14, <1>15, <1>16, <1>17, <1>18, <1>19, <1>20, <1>21, <1>22, <1>23, <1>24,
     <1>25 DEF Next, Agent, Watcher, Reader, Canceller, Import, Importers, vars,
     StopWatcher, WatchPoll, WatchWrite, WatchMark, ReadStatus, ReaderCheck,
     ReaderWrite, ReaderMark, CancelWrite, CancelMark, Cancel, Age

(* ... and nothing is lost or added after it.                              *)
LEMMA CoveredNext ==
    ASSUME RunInv, [Next]_vars
    PROVE  Covered'
<1>0. TypeOK
  BY TypeApart DEF RunInv
<1>1. CASE UNCHANGED <<imp, agent, disk, known, state, pi>>
  BY <1>1 DEF RunInv, Covered, Through, LastReads, PiQuiet, FileStands, BeforePi,
     Finishing, Places, ImportsPlaced, RowsHeld, ThreadImports, NoImport, TypeParts,
     TypeThread, ThreadRow, FileRow, TypeRest
<1>2. CASE LaunchMark
  BY <1>2 DEF LaunchMark, MarkRun, Goto, RunInv, Covered, Through, LastReads, PiQuiet,
     FileStands, BeforePi, Finishing, Places, ImportsPlaced, RowsHeld, ThreadImports,
     NoImport, TypeParts, TypeThread, ThreadRow, FileRow, TypeRest
<1>3. CASE Start
  BY <1>3 DEF Start, WriteState, Goto, RunInv, Covered, Through, LastReads, PiQuiet,
     FileStands, BeforePi, Finishing, Places, ImportsPlaced, RowsHeld, ThreadImports,
     NoImport, TypeParts, TypeThread, ThreadRow, FileRow, TypeRest
<1>4. CASE PartialMark
  BY <1>4 DEF PartialMark, MarkRun, Goto, RunInv, Covered, Through, LastReads,
     PiQuiet, FileStands, BeforePi, Finishing, Places, ImportsPlaced, RowsHeld,
     ThreadImports, NoImport, TypeParts, TypeThread, ThreadRow, FileRow, TypeRest
<1>5. CASE Open
  BY <1>5 DEF Open, Goto, RunInv, Covered, Through, LastReads, PiQuiet, FileStands,
     BeforePi, Finishing, Places, ImportsPlaced, RowsHeld, ThreadImports, NoImport,
     TypeParts, TypeThread, ThreadRow, FileRow, TypeRest
<1>6. CASE PromptReturns
  BY <1>6 DEF PromptReturns, AfterPrompt, RunInv, Covered, Through, LastReads,
     PiQuiet, FileStands, BeforePi, Finishing, Places, ImportsPlaced, RowsHeld,
     ThreadImports, NoImport, TypeParts, TypeThread, ThreadRow, FileRow, TypeRest
<1>7. CASE PromptRaises
  BY <1>7 DEF PromptRaises, Goto, RunInv, Covered, Through, LastReads, PiQuiet,
     FileStands, BeforePi, Finishing, Places, ImportsPlaced, RowsHeld, ThreadImports,
     NoImport, TypeParts, TypeThread, ThreadRow, FileRow, TypeRest
<1>8. CASE Replied
  BY <1>8 DEF Replied, ShouldContinue, WriteState, Goto, RunInv, Covered, Through,
     LastReads, PiQuiet, FileStands, BeforePi, Finishing, Places, ImportsPlaced,
     RowsHeld, ThreadImports, NoImport, TypeParts, TypeThread, ThreadRow, FileRow,
     TypeRest
<1>9. CASE Continuing
  BY <1>9 DEF Continuing, WriteState, Goto, RunInv, Covered, Through, LastReads,
     PiQuiet, FileStands, BeforePi, Finishing, Places, ImportsPlaced, RowsHeld,
     ThreadImports, NoImport, TypeParts, TypeThread, ThreadRow, FileRow, TypeRest
<1>10. CASE Join
  BY <1>10 DEF Join, WatcherLeft, Goto, RunInv, Covered, Through, LastReads, PiQuiet,
     FileStands, BeforePi, Finishing, Places, ImportsPlaced, RowsHeld, ThreadImports,
     NoImport, TypeParts, TypeThread, ThreadRow, FileRow, TypeRest
<1>11. CASE Importing
  BY <1>11 DEF Importing, WriteState, Goto, RunInv, Covered, Through, LastReads,
     PiQuiet, FileStands, BeforePi, Finishing, Places, ImportsPlaced, RowsHeld,
     ThreadImports, NoImport, TypeParts, TypeThread, ThreadRow, FileRow, TypeRest
<1>12. CASE ImportingMark
  BY <1>12 DEF ImportingMark, MarkRun, Goto, RunInv, Covered, Through, LastReads,
     PiQuiet, FileStands, BeforePi, Finishing, Places, ImportsPlaced, RowsHeld,
     ThreadImports, NoImport, TypeParts, TypeThread, ThreadRow, FileRow, TypeRest
<1>13. CASE FailWrite
  BY <1>13 DEF FailWrite, WriteState, Goto, RunInv, Covered, Through, LastReads,
     PiQuiet, FileStands, BeforePi, Finishing, Places, ImportsPlaced, RowsHeld,
     ThreadImports, NoImport, TypeParts, TypeThread, ThreadRow, FileRow, TypeRest
<1>14. CASE FailMark
  BY <1>14 DEF FailMark, MarkRun, Goto, RunInv, Covered, Through, LastReads, PiQuiet,
     FileStands, BeforePi, Finishing, Places, ImportsPlaced, RowsHeld, ThreadImports,
     NoImport, TypeParts, TypeThread, ThreadRow, FileRow, TypeRest
<1>15. CASE Close
  BY <1>15 DEF Close, WatcherLeft, Goto, RunInv, Covered, Through, LastReads, PiQuiet,
     FileStands, BeforePi, Finishing, Places, ImportsPlaced, RowsHeld, ThreadImports,
     NoImport, TypeParts, TypeThread, ThreadRow, FileRow, TypeRest
<1>16. CASE WatchWrite
  BY <1>16 DEF WatchWrite, WriteState, RunInv, Covered, Through, LastReads, PiQuiet,
     FileStands, BeforePi, Finishing, Places, ImportsPlaced, RowsHeld, ThreadImports,
     NoImport, TypeParts, TypeThread, ThreadRow, FileRow, TypeRest
<1>17. CASE ReaderWrite
  BY <1>17 DEF ReaderWrite, WriteState, RunInv, Covered, Through, LastReads, PiQuiet,
     FileStands, BeforePi, Finishing, Places, ImportsPlaced, RowsHeld, ThreadImports,
     NoImport, TypeParts, TypeThread, ThreadRow, FileRow, TypeRest
<1>18. CASE CancelWrite
  BY <1>18 DEF CancelWrite, WriteState, RunInv, Covered, Through, LastReads, PiQuiet,
     FileStands, BeforePi, Finishing, Places, ImportsPlaced, RowsHeld, ThreadImports,
     NoImport, TypeParts, TypeThread, ThreadRow, FileRow, TypeRest
<1>19. CASE PiWrites
  BY <1>19 DEF PiWrites, RunInv, Covered, Through, LastReads, PiQuiet, FileStands,
     BeforePi, Finishing, Places, ImportsPlaced, RowsHeld, ThreadImports, NoImport,
     TypeParts, TypeThread, ThreadRow, FileRow, TypeRest
<1>20. CASE Launch
  BY <1>20 DEF Launch, WriteState, RunInv, Covered, Through, LastReads, PiQuiet,
     FileStands, BeforePi, Finishing, Places, ImportsPlaced, RowsHeld, ThreadImports,
     NoImport, TypeParts, TypeThread, ThreadRow, FileRow, TypeRest
<1>21. CASE Cancel
  BY <1>21 DEF Cancel, Happens, RunInv, Covered, Through, LastReads, PiQuiet,
     FileStands, BeforePi, Finishing, Places, ImportsPlaced, RowsHeld, ThreadImports,
     NoImport, TypeParts, TypeThread, ThreadRow, FileRow, TypeRest
<1>22. CASE Age
  BY <1>22 DEF Age, RunInv, Covered, Through, LastReads, PiQuiet, FileStands,
     BeforePi, Finishing, Places, ImportsPlaced, RowsHeld, ThreadImports, NoImport,
     TypeParts, TypeThread, ThreadRow, FileRow, TypeRest
<1>23. CASE PartialImport
  BY <1>0, <1>23, Begun, Returned DEF PartialImport, Became, Importers, WriteState,
     Goto, RunInv, Covered, Through, LastReads, PiQuiet, FileStands, BeforePi,
     Finishing, Places, ImportsPlaced, RowsHeld, ThreadImports, NoImport, TypeParts,
     TypeThread, ThreadRow, FileRow, TypeRest
<1>24. CASE FinalImport
  BY <1>0, <1>24, Begun, Returned DEF FinalImport, Became, Importers, WriteState,
     Goto, RunInv, Covered, Through, LastReads, PiQuiet, FileStands, BeforePi,
     Finishing, Places, ImportsPlaced, RowsHeld, ThreadImports, NoImport, TypeParts,
     TypeThread, ThreadRow, FileRow, TypeRest
<1>25. CASE WatchImport
  BY <1>0, <1>25, Begun, Returned DEF WatchImport, Became, Importers, RunInv, Covered,
     Through, LastReads, PiQuiet, FileStands, BeforePi, Finishing, Places,
     ImportsPlaced, RowsHeld, ThreadImports, NoImport, TypeParts, TypeThread,
     ThreadRow, FileRow, TypeRest
<1>26. CASE OperatorImport
  BY <1>0, <1>26, Begun, Returned DEF OperatorImport, Became, Importers, RunInv,
     Covered, Through, LastReads, PiQuiet, FileStands, BeforePi, Finishing, Places,
     ImportsPlaced, RowsHeld, ThreadImports, NoImport, TypeParts, TypeThread,
     ThreadRow, FileRow, TypeRest
<1>27. ASSUME NEW p \in Importers, Lock(p)
      PROVE  Covered'
  <2>1. UNCHANGED <<agent, state, pi, disk, known>>
    BY <1>27 DEF Lock
  <2>2. /\ p = "operator" => imp'[p].seen = disk
        /\ p # "operator" => imp'["operator"] = imp["operator"]
        /\ imp'[p].at = "busy" /\ (p # "agent" => imp'["agent"] = imp["agent"])
    BY <1>0, <1>27, Locked DEF Became, Importers
  <2>3. Through' => Through
    BY <2>1, <2>2 DEF Through
  <2>4. QED
    BY <2>1, <2>2, <2>3 DEF RunInv, Covered
<1>28. ASSUME NEW p \in Importers, Commit(p)
      PROVE  Covered'
  <2>1. /\ UNCHANGED <<agent, state, pi, disk>> /\ lock = p /\ imp[p].at = "busy"
        /\ known \in Nat /\ disk \in Nat /\ known <= disk /\ imp[p].seen <= disk
        /\ imp[p].seen \in Nat
    BY <1>0, <1>28, Imports DEF Commit, RunInv, Places, ImportsPlaced, RowsHeld,
       TypeParts, TypeRest, ImportRow
  <2>2. \A q \in Importers \ {p} : imp'[q] = imp[q] /\ imp[q].at # "busy"
    BY <1>0, <1>28, <2>1, Committed DEF Became, RunInv, Places, ImportsPlaced,
       RowsHeld
  <2>3. imp'["operator"].at # "busy"
    BY <1>0, <1>28, <2>2, Committed DEF Became, Importers, RunInv, Places
  <2>4. known' = IF p # "operator" /\ known >= imp[p].seen THEN known ELSE imp[p].seen
    BY <1>0, <1>28, Committed DEF RunInv, Places
  <2>5. CASE Through
    BY <2>1, <2>3, <2>4, <2>5 DEF RunInv, Covered, Importers
  <2>6. CASE ~Through /\ Through'
    <3>1. p = "agent" /\ agent.at = "final" /\ ~agent.late
      BY <2>1, <2>2, <2>6 DEF Through, Importers
    <3>2. imp[p].seen = disk /\ pi # "working"
      BY <2>1, <3>1 DEF RunInv, LastReads, PiQuiet, Finishing
    <3>3. QED
      BY <2>1, <2>3, <2>4, <3>2 DEF Covered
  <2>7. QED
    BY <2>5, <2>6 DEF Covered
<1>29. ASSUME NEW p \in Importers, Fault(p)
      PROVE  Covered'
  <2>1. UNCHANGED <<agent, state, pi, disk, known>> /\ imp[p].at = "busy"
    BY <1>0, <1>29, Faulted
  <2>2. p # "agent" => imp'["agent"] = imp["agent"]
    BY <1>0, <1>29, Faulted DEF Became, Importers
  <2>3. p = "agent" => imp'["agent"].at = "raised" \/ imp'["agent"].status = "import_failed"
    BY <1>0, <1>29, Faulted DEF Became
  <2>4. imp'["operator"].at = "busy" => imp'["operator"] = imp["operator"]
    BY <1>0, <1>29, Faulted DEF Became, Importers
  <2>5. Through' => Through
    BY <2>1, <2>2, <2>3 DEF Through
  <2>6. QED
    BY <2>1, <2>4, <2>5 DEF RunInv, Covered
<1>30. CASE Crash
  BY <1>30, Crashed DEF Crash, NoImport, Importers, RunInv, Covered, Through,
     LastReads, PiQuiet, FileStands, BeforePi, Finishing, Places, ImportsPlaced,
     RowsHeld, ThreadImports, TypeParts, TypeThread, ThreadRow, FileRow, TypeRest
<1>31. QED
  BY <1>1, <1>2, <1>3, <1>4, <1>5, <1>6, <1>7, <1>8, <1>9, <1>10, <1>11, <1>12, <1>13,
     <1>14, <1>15, <1>16, <1>17, <1>18, <1>19, <1>20, <1>21, <1>22, <1>23, <1>24,
     <1>25, <1>26, <1>27, <1>28, <1>29, <1>30 DEF Next, Agent, Watcher, Reader,
     Canceller, Import, Importers, vars, StopWatcher, WatchPoll, WatchMark,
     ReadStatus, ReaderCheck, ReaderMark, CancelMark
-----------------------------------------------------------------------------
(* Types and places of the imports hold together, first and after every    *)
(* step.                                                                   *)
LEMMA RowsInit == Init => ImportsPlaced
BY Numbers DEF Init, ImportsPlaced, RowsHeld, ThreadImports, NoImport, Importers

LEMMA RowsNext == TypeParts /\ ImportsPlaced /\ [Next]_vars => TypeParts' /\ ImportsPlaced'
BY TypeNext, RowsHeldNext, ThreadImportsNext DEF ImportsPlaced

(* TypeOK: the run's row and file, its thread, watcher, requests, imports  *)
(* and counters keep their types, whatever races are allowed.              *)
THEOREM RunTypeCorrect == Spec => []TypeOK
BY TypeInit, RowsInit, RowsNext, TypeApart, PTL DEF Spec

(* The whole invariant: first, after every step, and always.               *)
LEMMA RunInit == Init => RunInv
<1> SUFFICES ASSUME Init PROVE RunInv
  OBVIOUS
<1>1. TypeParts /\ ImportsPlaced
  BY TypeInit, RowsInit
<1>2. WatcherInside /\ OthersInTime
  BY DEF Init, WatcherInside, OthersInTime, NoImport, Importers
<1>3. PiQuiet /\ FileStands /\ RowStands
  BY DEF Init, PiQuiet, FileStands, RowStands, NoImport, Importers, BeforePi,
         Finishing, AtWork
<1>4. LastReads /\ Covered
  BY DEF Init, LastReads, Covered, Through
<1>5. QED
  BY <1>1, <1>2, <1>3, <1>4 DEF RunInv, Places

LEMMA RunNext == Races \subseteq {"torn_state"} => (RunInv /\ [Next]_vars => RunInv')
<1> SUFFICES ASSUME Races \subseteq {"torn_state"}, RunInv, [Next]_vars PROVE RunInv'
  OBVIOUS
<1>1. TypeParts' /\ ImportsPlaced'
  BY RowsNext DEF RunInv, Places
<1>2. WatcherInside' /\ OthersInTime'
  BY WatcherInsideNext, OthersInTimeNext DEF RunInv
<1>3. PiQuiet' /\ FileStands' /\ RowStands'
  BY PiQuietNext, FileStandsNext, RowStandsNext DEF RunInv
<1>4. LastReads' /\ Covered'
  BY LastReadsNext, CoveredNext DEF RunInv
<1>5. QED
  BY <1>1, <1>2, <1>3, <1>4 DEF RunInv, Places

LEMMA RunInvAlways == ASSUME Races \subseteq {"torn_state"} PROVE Spec => []RunInv
<1>1. Races \subseteq {"torn_state"}
  OBVIOUS
<1>2. RunInv /\ [Next]_vars => RunInv'
  BY <1>1, RunNext
<1>3. QED
  BY RunInit, <1>2, PTL DEF Spec

(* WorkingIsReported: an agent at work is shown as neither failed nor      *)
(* imported (status() of the runtimes), however partial imports, watchers, *)
(* stale readers and relaunches interleave, unless it was cancelled or     *)
(* imported by hand.                                                       *)
THEOREM WorkingStaysReported ==
    ASSUME Races \subseteq {"torn_state"}
    PROVE  Spec => []WorkingIsReported
<1>1. RunInv => WorkingIsReported
  BY DEF RunInv, FileStands, RowStands, WorkingIsReported, Reported, AtWork, Settled,
         TypeParts, TypeUsed
<1>2. QED
  BY <1>1, RunInvAlways, PTL

(* ImportComplete: types are right, and when the runtime has imported to   *)
(* the end within Pi's deadline, the database knows everything Pi wrote,   *)
(* although the watcher and the operator import the same directory.        *)
THEOREM NothingIsMissed ==
    ASSUME Races \subseteq {"torn_state"}
    PROVE  Spec => []ImportComplete
<1>1. RunInv => NothingMissed
  BY DEF RunInv, Covered, Through, NothingMissed
<1>2. NothingMissed /\ TypeOK => ImportComplete
  BY DEF ImportComplete
<1>3. QED
  BY <1>1, <1>2, RunInvAlways, RunTypeCorrect, PTL

(* Only a launch, or a partial import that was under way before one by     *)
(* hand, marks an imported run as running.                                 *)
LEMMA MarksOnlyRunning ==
    ASSUME RunInv, Next, run = "imported", run' = "running"
    PROVE  agent.at = "launching" \/ used.import > 0
<1>0. TypeOK /\ ImportsPlaced /\ used.import \in Nat
  BY TypeApart DEF RunInv, Places, TypeParts, TypeUsed
<1>1. CASE PartialMark
  BY <1>0, <1>1 DEF PartialMark, RunInv, RowStands, AtWork
<1>2. CASE WatchMark
  BY <1>0, <1>2 DEF WatchMark, RunInv, RowStands
<1>3. ASSUME NEW p \in Importers, Commit(p)
      PROVE  agent.at = "launching" \/ used.import > 0
  <2>1. Partial(p) /\ imp[p].at = "busy" /\ imp[p].status = "running"
    BY <1>3 DEF Commit
  <2>2. p = "watcher" => watch.at # "off"
    BY <2>1 DEF RunInv, Places, WatcherInside, NoImport
  <2>3. QED
    BY <1>0, <2>1, <2>2 DEF Partial, RunInv, RowStands, AtWork
<1>4. ASSUME NEW p \in Importers, Fault(p)
      PROVE  FALSE
  BY <1>0, <1>4, Faulted
<1>5. CASE LaunchMark
  BY <1>5 DEF LaunchMark
<1>6. QED
  BY <1>1, <1>2, <1>3, <1>4, <1>5 DEF Next, Agent, Watcher, Reader, Canceller, Import,
     Importers, MarkRun, Start, PartialImport, Open, PromptReturns, PromptRaises,
     Replied, Continuing, StopWatcher, Join, Importing, ImportingMark, FinalImport,
     FailWrite, FailMark, Close, WatchPoll, WatchImport, WatchWrite, ReadStatus,
     ReaderCheck, ReaderWrite, ReaderMark, CancelWrite, CancelMark, PiWrites,
     OperatorImport, Lock, Launch, Cancel, Crash, Age

(* ImportStands: what the runtime imported to the end is not marked as     *)
(* running again by a watcher or a reader that is late, only by a launch   *)
(* or once somebody imports by hand.                                       *)
THEOREM ImportsStand ==
    ASSUME Races \subseteq {"torn_state"}
    PROVE  Spec => ImportStands
<1>1. RunInv /\ [Next]_vars => [run = "imported" /\ run' = "running"
                                   => agent.at = "launching" \/ used.import > 0]_run
  BY MarksOnlyRunning DEF vars
<1>2. QED
  BY <1>1, RunInvAlways, PTL DEF Spec, ImportStands
=============================================================================
