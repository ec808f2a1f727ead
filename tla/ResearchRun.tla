---------------------------- MODULE ResearchRun -----------------------------
(***************************************************************************)
(* One run of a specialist agent: the thread that prompts Pi and imports   *)
(* what it wrote, the watcher that imports while Pi still writes, the      *)
(* readers of its status, and the operator who cancels, imports or         *)
(* launches it again.  They share a state file without a lock and one row  *)
(* of the table runs; all but the file and the row die with the process.   *)
(*                                                                         *)
(* The four runtimes differ in a few steps (kind): CompanyResearchRuntime, *)
(* JobResearchRuntime, JobVerificationRuntime, ApplicationDraftRuntime.    *)
(* Their names for a status are abstracted to the part they share:         *)
(* "running" is research_running or application_draft_running, "imported"  *)
(* is imported or imported_with_errors.                                    *)
(*                                                                         *)
(* The artifacts on disk are counted: disk is how often Pi has written,    *)
(* and stands for the watcher's fingerprint; known is how much of it the   *)
(* database has.  What an import makes of a file is RunImport's business.  *)
(***************************************************************************)
EXTENDS Integers, FiniteSets, FiniteSetsExt

CONSTANTS
    Kinds,            \* the runtimes, of "company", "job", "verification", "draft"
    Target,           \* artifacts asked for: max_companies, max_jobs
    MaxContinuations, \* MAX_CONTINUATION_PROMPTS
    Races,            \* of "slow_import", "slow_reader", "torn_state": see README
    MaxArtifacts,     \* bound: what Pi writes
    MaxLaunches,      \* bound
    MaxIncidents      \* bound: crashes, cancellations, imports by hand, failing imports

ASSUME ResearchRunAssumption ==
    /\ Kinds \subseteq {"company", "job", "verification", "draft"} /\ Kinds # {}
    /\ Target \in Nat \ {0} /\ MaxContinuations \in Nat
    /\ Races \subseteq {"slow_import", "slow_reader", "torn_state"}
    /\ {MaxArtifacts, MaxLaunches, MaxIncidents} \subseteq Nat

VARIABLES
    kind,    \* which runtime; never changes
    state,   \* company_research_state.json: its status and its age
    run,     \* runs.status
    lock,    \* who holds the lock on the row: an import from its first write on
    agent,   \* the thread of the run
    pi,      \* external: the Pi process
    client,  \* whether the registry of clients holds a client of the run
    watch,   \* the import watcher
    imp,     \* the imports under way
    reader,  \* one request that reads the status
    cancel,  \* one request that cancels
    disk, known,
    used     \* how much of each bound is used

vars == <<kind, state, run, lock, agent, pi, client, watch, imp, reader, cancel,
          disk, known, used>>
-----------------------------------------------------------------------------
Importers == {"agent", "watcher", "operator"}
Settled   == {"imported", "import_failed", "failed"}

(* What tells the runtimes apart: the two researches are watched, only     *)
(* they may prompt again, and two of the four mark the row before they     *)
(* import.                                                                 *)
Watched == kind \in {"company", "job"}
AfterPrompt == CASE kind = "verification" -> "join"
                 [] kind = "draft" -> "importing"
                 [] OTHER -> "replied"
MarksImport == kind \in {"company", "draft"}

(* Steps of the thread up to its last prompt, and all its steps.           *)
AtWork == {"start", "partial", "partial_mark", "open", "prompt",
           "replied", "continuing"}
AgentSteps == {"off", "launching", "join", "importing", "importing_mark", "final",
               "fail_write", "fail_mark", "close"} \cup AtWork

(* status: what the import read at its start, then what it committed.      *)
NoImport == [at |-> "none", status |-> "prepared", seen |-> 0]

TypeOK ==
    /\ kind \in Kinds
    /\ state \in [status : {"not_started", "unknown", "running", "continuing",
                            "importing"} \cup Settled,
                  age : {"none", "fresh", "before", "old"}]
    /\ run \in {"prepared", "running", "importing"} \cup Settled
    /\ lock \in Importers \cup {"free"}
    /\ agent \in [at : AgentSteps, turns : 0..MaxContinuations, late : BOOLEAN]
    /\ pi \in {"off", "idle", "working", "closed"} /\ client \in BOOLEAN
    /\ watch \in [at : {"off", "poll", "import", "write", "mark"}, stop : BOOLEAN,
                  previous : 0..MaxArtifacts, imported : 0..MaxArtifacts,
                  current : 0..MaxArtifacts]
    /\ imp \in [Importers -> [at : {"none", "waiting", "busy", "done", "raised"},
                              status : {"prepared", "running", "importing"} \cup Settled,
                              seen : 0..MaxArtifacts]]
    /\ reader \in {"idle", "check", "write", "mark"}
    /\ cancel \in {"idle", "write", "mark"}
    /\ disk \in 0..MaxArtifacts /\ known \in 0..disk
    /\ used \in [{"launch", "import", "cancel", "crash", "fault"} -> Nat]

Init ==
    /\ kind \in Kinds
    /\ state = [status |-> "not_started", age |-> "none"]
    /\ run = "prepared" /\ lock = "free"
    /\ agent = [at |-> "off", turns |-> 0, late |-> FALSE]
    /\ pi = "off" /\ client = FALSE
    /\ watch = [at |-> "off", stop |-> FALSE, previous |-> 0, imported |-> 0, current |-> 0]
    /\ imp = [p \in Importers |-> NoImport]
    /\ reader = "idle" /\ cancel = "idle"
    /\ disk = 0 /\ known = 0
    /\ used = [launch |-> 0, import |-> 0, cancel |-> 0, crash |-> 0, fault |-> 0]

(* An incident happens once, and few of them in one behaviour.             *)
Incidents == {"crash", "cancel", "import", "fault"}
Happens(what) ==
    /\ used[what] = 0
    /\ MapThenSumSet(LAMBDA i : used[i], Incidents) < MaxIncidents
    /\ used' = [used EXCEPT ![what] = 1]

Goto(step) == agent' = [agent EXCEPT !.at = step]
Alive == agent.at \notin {"off", "launching"}

(* _write_state: whatever the file said, it now says this.                 *)
WriteState(status) == state' = [status |-> status, age |-> "fresh"]

(* _mark_run: one UPDATE, which waits while an import holds the row.       *)
MarkRun(status) == lock = "free" /\ run' = status
-----------------------------------------------------------------------------
(* RunImportService.import_run, as its callers see it.  It reads the run   *)
(* and lists the directory; its first write takes the row; it commits      *)
(* everything at once, and gives the row its old status back unless it is  *)
(* the final import.                                                       *)
Partial(p) == p = "watcher" \/ (p = "agent" /\ agent.at = "partial")

BeginAsPolled(p) ==  \* mutant: imports what the watcher has seen
    /\ imp[p].at = "none"
    /\ imp' = [imp EXCEPT ![p] = [at |-> "waiting", status |-> run, seen |-> watch.previous]]

Begin(p) ==
    /\ imp[p].at = "none"
    /\ imp' = [imp EXCEPT ![p] = [at |-> "waiting", status |-> run, seen |-> disk]]

Lock(p) ==
    /\ imp[p].at = "waiting" /\ lock = "free"
    /\ lock' = p
    \* The operator's import clears the rows first and lists afterwards.
    /\ imp' = [imp EXCEPT ![p].at = "busy", ![p].seen = IF p = "operator" THEN disk ELSE @]
    /\ UNCHANGED <<kind, state, run, agent, pi, client, watch, reader, cancel, disk, known, used>>

AlwaysFinal(p) ==  \* mutant: a partial import settles the run
    /\ imp[p].at = "busy"
    /\ run' = "imported"
    /\ known' = Max({known, imp[p].seen})
    /\ imp' = [imp EXCEPT ![p] = [NoImport EXCEPT !.at = "done", !.status = run']]
    /\ lock' = "free"
    /\ UNCHANGED <<kind, state, agent, pi, client, watch, reader, cancel, disk, used>>

Commit(p) ==
    /\ imp[p].at = "busy"
    /\ run' = IF Partial(p) THEN imp[p].status ELSE "imported"
    /\ known' = IF p = "operator" THEN imp[p].seen ELSE Max({known, imp[p].seen})
    /\ imp' = [imp EXCEPT ![p] = [NoImport EXCEPT !.at = "done", !.status = run']]
    /\ lock' = "free"
    /\ UNCHANGED <<kind, state, agent, pi, client, watch, reader, cancel, disk, used>>

(* An exception inside: rolled back, and import_failed is committed; or it *)
(* comes from the database and the caller gets it.                         *)
Fault(p) ==
    /\ imp[p].at = "busy"
    /\ Happens("fault")
    /\ \E raises \in BOOLEAN :
          /\ run' = IF raises THEN run ELSE "import_failed"
          /\ imp' = [imp EXCEPT ![p] = [NoImport EXCEPT !.at = IF raises THEN "raised" ELSE "done",
                                                      !.status = run']]
    /\ lock' = "free"
    /\ UNCHANGED <<kind, state, agent, pi, client, watch, reader, cancel, disk, known>>

Return(p) == imp' = [imp EXCEPT ![p] = NoImport]
-----------------------------------------------------------------------------
(* launch: refused while the thread of the run is alive.                   *)
Launch ==
    /\ agent.at = "off"
    /\ watch.at = "off"    \* bound: no watcher of an earlier launch is left
    /\ reader = "idle" \/ "slow_reader" \in Races
    /\ used["launch"] < MaxLaunches
    /\ used' = [used EXCEPT !["launch"] = @ + 1]
    /\ WriteState("running")
    /\ agent' = [at |-> "launching", turns |-> 0, late |-> FALSE]
    /\ UNCHANGED <<kind, run, lock, pi, client, watch, imp, reader, cancel, disk, known>>

LaunchMark ==
    /\ agent.at = "launching"
    /\ MarkRun("running")
    /\ Goto(IF kind = "company" THEN "start" ELSE "open")
    /\ UNCHANGED <<kind, state, lock, pi, client, watch, imp, reader, cancel, disk, known, used>>

(* _should_continue_research.  late: the time budget is used up.           *)
ShouldContinue ==
    disk < Target /\ ~agent.late /\ agent.turns < MaxContinuations

Start ==
    /\ agent.at = "start"
    /\ WriteState("running")
    /\ Goto(IF ~ShouldContinue THEN "join" ELSE IF disk > 0 THEN "partial" ELSE "open")
    /\ UNCHANGED <<kind, run, lock, pi, client, watch, imp, reader, cancel, disk, known, used>>

(* The import of what an earlier launch left, before the first prompt.     *)
PartialImport ==
    /\ agent.at = "partial"
    /\ \/ Begin("agent") /\ UNCHANGED <<agent, state>>
       \/ imp["agent"].at = "done" /\ Return("agent") /\ WriteState("running") /\ Goto("partial_mark")
       \/ imp["agent"].at = "raised" /\ Return("agent") /\ Goto("fail_write") /\ UNCHANGED state
    /\ UNCHANGED <<kind, run, lock, pi, client, watch, reader, cancel, disk, known, used>>

PartialMark ==
    /\ agent.at = "partial_mark"
    /\ MarkRun("running") /\ Goto("open")
    /\ UNCHANGED <<kind, state, lock, pi, client, watch, imp, reader, cancel, disk, known, used>>

(* _client, and the watcher of the research runtimes.  Pi may not start.   *)
Open ==
    /\ agent.at = "open"
    /\ \/ /\ pi' = "working" /\ client' = TRUE /\ Goto("prompt")
          /\ watch' = IF ~Watched THEN watch
                      ELSE [at |-> "poll", stop |-> FALSE, previous |-> 0,
                            imported |-> 0, current |-> 0]
       \/ Goto("fail_write") /\ UNCHANGED <<pi, client, watch>>
    /\ UNCHANGED <<kind, state, run, lock, imp, reader, cancel, disk, known, used>>

(* Pi writes artifacts while it works on a prompt.                         *)
PiWrites ==
    /\ pi = "working" /\ disk < MaxArtifacts
    /\ disk' = disk + 1
    /\ UNCHANGED <<kind, state, run, lock, agent, pi, client, watch, imp, reader, cancel, known, used>>

(* prompt returns: the turn ended, or the deadline passed after some text; *)
(* or it raises: no answer, Pi died, or the client was closed.             *)
PromptReturns ==
    /\ agent.at = "prompt" /\ pi = "working"
    /\ \E late \in BOOLEAN :
          agent' = [agent EXCEPT !.at = AfterPrompt, !.late = late]
    /\ pi' \in {"idle", "working"} /\ (pi' = "working" => agent'.late)
    /\ UNCHANGED <<kind, state, run, lock, client, watch, imp, reader, cancel, disk, known, used>>

PromptRaises ==
    /\ agent.at = "prompt"
    /\ Goto("fail_write")
    /\ UNCHANGED <<kind, state, run, lock, pi, client, watch, imp, reader, cancel, disk, known, used>>

(* The reply is recorded; another prompt, or the end.                      *)
Replied ==
    /\ agent.at = "replied"
    /\ WriteState("running")
    /\ IF ShouldContinue
       THEN agent' = [agent EXCEPT !.turns = @ + 1, !.at = "continuing"]
       ELSE Goto("join")
    /\ UNCHANGED <<kind, run, lock, pi, client, watch, imp, reader, cancel, disk, known, used>>

Continuing ==
    /\ agent.at = "continuing"
    /\ IF kind = "company" THEN WriteState("continuing") ELSE UNCHANGED state
    /\ Goto("prompt")
    /\ pi' = IF pi = "closed" THEN pi ELSE "working"
    /\ UNCHANGED <<kind, run, lock, client, watch, imp, reader, cancel, disk, known, used>>

-----------------------------------------------------------------------------
(* The watcher is told to stop and waited for, for five seconds.           *)
StopWatcher ==
    /\ agent.at \in {"join", "close"} /\ watch.at # "off" /\ ~watch.stop
    /\ watch' = [watch EXCEPT !.stop = TRUE]
    /\ UNCHANGED <<kind, state, run, lock, agent, pi, client, imp, reader, cancel, disk, known, used>>

Told == watch.at = "off" \/ watch.stop  \* mutant: told to stop, not waited for
WatcherLeft == watch.at = "off" \/ (watch.stop /\ "slow_import" \in Races)

(* The verifier's artifacts may break its contract.                        *)
Join ==
    /\ agent.at = "join" /\ WatcherLeft
    /\ \/ Goto("importing")
       \/ kind = "verification" /\ Goto("fail_write")
    /\ UNCHANGED <<kind, state, run, lock, pi, client, watch, imp, reader, cancel, disk, known, used>>

Importing ==
    /\ agent.at = "importing"
    /\ WriteState("importing")
    /\ Goto(IF MarksImport THEN "importing_mark" ELSE "final")
    /\ UNCHANGED <<kind, run, lock, pi, client, watch, imp, reader, cancel, disk, known, used>>

ImportingMark ==
    /\ agent.at = "importing_mark"
    /\ MarkRun("importing") /\ Goto("final")
    /\ UNCHANGED <<kind, state, lock, pi, client, watch, imp, reader, cancel, disk, known, used>>

FinalImport ==
    /\ agent.at = "final"
    /\ \/ Begin("agent") /\ UNCHANGED <<agent, state>>
       \/ imp["agent"].at = "done" /\ Return("agent")
          /\ WriteState(imp["agent"].status) /\ Goto("close")
       \/ imp["agent"].at = "raised" /\ Return("agent") /\ Goto("fail_write") /\ UNCHANGED state
    /\ UNCHANGED <<kind, run, lock, pi, client, watch, reader, cancel, disk, known, used>>

FailWrite ==
    /\ agent.at = "fail_write"
    /\ WriteState("failed") /\ Goto("fail_mark")
    /\ UNCHANGED <<kind, run, lock, pi, client, watch, imp, reader, cancel, disk, known, used>>

FailMark ==
    /\ agent.at = "fail_mark"
    /\ MarkRun("failed") /\ Goto("close")
    /\ UNCHANGED <<kind, state, lock, pi, client, watch, imp, reader, cancel, disk, known, used>>

(* finally: the watcher is stopped only now when the run failed.           *)
Close ==
    /\ agent.at = "close" /\ WatcherLeft
    /\ Goto("off")
    /\ client' = FALSE
    /\ pi' = IF client THEN "off" ELSE pi
    /\ UNCHANGED <<kind, state, run, lock, watch, imp, reader, cancel, disk, known, used>>
-----------------------------------------------------------------------------
(* _watch_research_artifacts: artifacts that did not change since the last *)
(* poll and were not imported yet are imported.                            *)
WatchPoll ==
    /\ watch.at = "poll"
    /\ watch' = IF watch.stop THEN [watch EXCEPT !.at = "off"]
                ELSE IF disk = 0 \/ disk # watch.previous \/ disk = watch.imported
                THEN [watch EXCEPT !.previous = disk]
                ELSE [watch EXCEPT !.at = "import", !.current = disk]
    /\ UNCHANGED <<kind, state, run, lock, agent, pi, client, imp, reader, cancel, disk, known, used>>

WatchImport ==
    /\ watch.at = "import"
    /\ \/ Begin("watcher") /\ UNCHANGED watch
       \/ imp["watcher"].at = "done" /\ Return("watcher")
          /\ watch' = [watch EXCEPT !.at = "write", !.imported = watch.current]
       \/ imp["watcher"].at = "raised" /\ Return("watcher")
          /\ watch' = [watch EXCEPT !.at = "poll", !.previous = watch.current]
    /\ UNCHANGED <<kind, state, run, lock, agent, pi, client, reader, cancel, disk, known, used>>

WatchWrite ==
    /\ watch.at = "write"
    /\ WriteState("running") /\ watch' = [watch EXCEPT !.at = "mark"]
    /\ UNCHANGED <<kind, run, lock, agent, pi, client, imp, reader, cancel, disk, known, used>>

WatchMark ==
    /\ watch.at = "mark"
    /\ MarkRun("running")
    /\ watch' = [watch EXCEPT !.at = "poll", !.previous = watch.current]
    /\ UNCHANGED <<kind, state, lock, agent, pi, client, imp, reader, cancel, disk, known, used>>
-----------------------------------------------------------------------------
(* POST .../import.                                                        *)
OperatorImport ==
    /\ \/ Begin("operator") /\ Happens("import")
       \/ imp["operator"].at \in {"done", "raised"} /\ Return("operator") /\ UNCHANGED used
    /\ UNCHANGED <<kind, state, run, lock, agent, pi, client, watch, reader, cancel, disk, known>>

(* _state_is_stale.  The age of the file: written by an earlier process    *)
(* (updated_at < _PROCESS_STARTED_AT, which the draft runtime does not     *)
(* ask), or longer ago than a prompt can take.                             *)
OnlyOrphans == state.age = "before" /\ kind # "draft"  \* mutant: no timeout
Stale == state.age = "old" \/ (state.age = "before" /\ kind # "draft")

(* status(): the file and the row are read; only what comes of a stale     *)
(* reading changes anything.                                               *)
ReadStatus ==
    /\ reader = "idle" /\ Stale
    /\ \/ state.status \in {"running", "continuing", "importing"}
       \/ run \in {"running", "importing"}
    /\ reader' = "check"
    /\ UNCHANGED <<kind, state, run, lock, agent, pi, client, watch, imp, cancel, disk, known, used>>

(* The lock over the table of threads is held by launch until it started.  *)
ReaderCheck ==
    /\ reader = "check" /\ agent.at # "launching"
    /\ reader' = IF Alive THEN "idle" ELSE "write"
    /\ UNCHANGED <<kind, state, run, lock, agent, pi, client, watch, imp, cancel, disk, known, used>>

ReaderWrite ==
    /\ reader = "write"
    /\ WriteState("failed") /\ reader' = "mark"
    /\ UNCHANGED <<kind, run, lock, agent, pi, client, watch, imp, cancel, disk, known, used>>

ReaderMark ==
    /\ reader = "mark"
    /\ MarkRun("failed") /\ reader' = "idle"
    /\ UNCHANGED <<kind, state, lock, agent, pi, client, watch, imp, cancel, disk, known, used>>

(* cancel: the client is closed, the thread is not waited for.  Only a     *)
(* vacancy search is ever cancelled, when its scope changes.               *)
Cancel ==
    /\ kind = "job" /\ cancel = "idle"
    /\ Happens("cancel")
    /\ cancel' = "write"
    /\ client' = FALSE
    /\ pi' = IF client THEN "closed" ELSE pi
    /\ UNCHANGED <<kind, state, run, lock, agent, watch, imp, reader, disk, known>>

CancelWrite ==
    /\ cancel = "write"
    /\ WriteState("failed") /\ cancel' = "mark"
    /\ UNCHANGED <<kind, run, lock, agent, pi, client, watch, imp, reader, disk, known, used>>

CancelMark ==
    /\ cancel = "mark"
    /\ MarkRun("failed") /\ cancel' = "idle"
    /\ UNCHANGED <<kind, state, lock, agent, pi, client, watch, imp, reader, disk, known, used>>

(* The process dies and starts again; transactions are rolled back.  The   *)
(* state file is truncated before it is written.                           *)
Crash ==
    /\ Happens("crash")
    /\ \/ state' = IF state.age = "fresh" THEN [state EXCEPT !.age = "before"] ELSE state
       \/ "torn_state" \in Races /\ state' = [status |-> "unknown", age |-> "none"]
    /\ lock' = "free" /\ imp' = [p \in Importers |-> NoImport]
    /\ agent' = [agent EXCEPT !.at = "off"]
    /\ pi' = "off" /\ client' = FALSE
    /\ watch' = [watch EXCEPT !.at = "off"]
    /\ reader' = "idle" /\ cancel' = "idle"
    /\ UNCHANGED <<kind, run, disk, known>>

(* More time than any prompt may take passes without a word.               *)
Age ==
    /\ agent.at = "off" /\ state.age \in {"fresh", "before"}
    /\ state' = [state EXCEPT !.age = "old"]
    /\ UNCHANGED <<kind, run, lock, agent, pi, client, watch, imp, reader, cancel, disk, known, used>>
-----------------------------------------------------------------------------
Import(p) == Lock(p) \/ Commit(p)

Agent ==
    \/ LaunchMark \/ Start \/ PartialImport \/ PartialMark \/ Open
    \/ PromptReturns \/ PromptRaises \/ Replied \/ Continuing
    \/ StopWatcher \/ Join \/ Importing \/ ImportingMark \/ FinalImport
    \/ FailWrite \/ FailMark \/ Close \/ Import("agent")

Watcher == WatchPoll \/ WatchImport \/ WatchWrite \/ WatchMark \/ Import("watcher")

Reader == ReadStatus \/ ReaderCheck \/ ReaderWrite \/ ReaderMark

Canceller == CancelWrite \/ CancelMark

Next ==
    \/ Agent \/ Watcher \/ Reader \/ Canceller \/ PiWrites
    \/ OperatorImport \/ Import("operator") \/ Launch \/ Cancel \/ Crash \/ Age
    \/ \E p \in Importers : Fault(p)

(* Threads are scheduled, a prompt has a deadline, time passes, and the    *)
(* worker reads the status of the runs of its tasks again and again.       *)
Fairness ==
    /\ WF_vars(Agent) /\ WF_vars(Watcher) /\ WF_vars(Reader) /\ WF_vars(Canceller)
    /\ WF_vars(Import("operator")) /\ WF_vars(Age)

Spec == Init /\ [][Next]_vars /\ Fairness
-----------------------------------------------------------------------------
(* What status() shows.                                                    *)
Reported == IF run \in Settled THEN run ELSE state.status

(* An agent that still works is shown neither as failed nor as imported,   *)
(* unless somebody cancelled it or imported by hand: partial imports give  *)
(* the row its status back, and a reader asks for the thread before it     *)
(* believes the age of the file.                                           *)
WorkingIsReported ==
    agent.at \in AtWork /\ used.cancel = 0 /\ used.import = 0
        => Reported \notin {"failed", "imported"}

(* When the runtime itself has imported to the end and Pi kept its         *)
(* deadline, everything Pi wrote is known to the database, however the     *)
(* watcher's and the operator's imports overlapped with the last one.      *)
NothingMissed ==
    agent.at = "off" /\ state.status = "imported" /\ ~agent.late => known = disk

(* What the runtime imported to the end is not shown as running again      *)
(* until somebody launches the run or imports by hand: the watcher, which  *)
(* marks the run as running after each partial import, is gone by then.    *)
ImportStands ==
    [][run = "imported" /\ run' = "running"
          => agent.at = "launching" \/ used.import > 0]_run

(* A run that is shown as running settles in the end, through its thread,  *)
(* or, when the process died or the watcher wrote last, through a reader.  *)
RunSettles == run \in {"running", "importing"} ~> run \in Settled

(* The run's row, file and threads keep their types, and none of its       *)
(* artifacts is missed.                                                    *)
ImportComplete == TypeOK /\ NothingMissed
=============================================================================
