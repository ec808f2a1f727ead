---------------------------- MODULE WorkflowTasks ---------------------------
(***************************************************************************)
(* The durable task queue: WorkflowWorker.run_once, the launch and         *)
(* reconcile halves of WorkflowEngine, the specialist agents they start,   *)
(* and the product routes that change a task from outside.                 *)
(*                                                                         *)
(* A worker is one API process: its worker thread, its database sessions   *)
(* and the agents it started, which are threads of that process and die    *)
(* with it.  run_once selects a task, claims it with one conditional       *)
(* UPDATE, commits, loads the row again in a second session and works on   *)
(* that copy; what it writes later is what it changed relative to the copy *)
(* is not conditional on still holding the lease.  A request of the        *)
(* operator does the same: it reads rows, and commits what it changed in   *)
(* them later, by id, whatever has happened to them since.                 *)
(*                                                                         *)
(* Time is abstract: a lease that has been held for longer than            *)
(* WORKFLOW_TASK_LEASE_SECONDS is "expired", a task whose available_at has *)
(* passed is due.                                                          *)
(***************************************************************************)
EXTENDS Integers, Sequences, FiniteSets

CONSTANTS
    Tasks,              \* rows of agent_tasks, all of one campaign
    Workers,            \* worker ids, one per start of the API process
    KindOf,             \* [Tasks -> {"target", "agent", "send"}]
    MaxAttempts,        \* AgentTask.max_attempts
    TargetConcurrency,  \* settings.research_target_max_concurrency
    Concurrent,         \* TRUE: several API processes at a time
    MaxRefreshes, MaxResolves, MaxPauses,  \* bounds: requests of the operator
    MaxFaults,          \* bound: statements the database fails
    MaxActs,            \* bound: all of these together
    MaxStale,           \* bound: requests that commit over rows changed meanwhile
    NoRun, NoWorker

ASSUME WorkflowAssumption ==
    /\ IsFiniteSet(Tasks) /\ Tasks # {} /\ IsFiniteSet(Workers)
    /\ KindOf \in [Tasks -> {"target", "agent", "send"}]
    /\ MaxAttempts \in Nat \ {0} /\ TargetConcurrency \in Nat \ {0}
    /\ Concurrent \in BOOLEAN
    /\ MaxRefreshes \in Nat /\ MaxResolves \in Nat /\ MaxPauses \in Nat
    /\ MaxFaults \in Nat /\ MaxActs \in Nat /\ MaxStale \in Nat
    /\ NoRun \notin Nat /\ NoWorker \notin Workers

VARIABLES
    task,   \* the committed rows
    exc,    \* whether a ReviewException was ever raised for a task
    runs,   \* external: the agents ever started, by run id
    pc,     \* where each worker is
    sel,    \* the task a worker works on
    seen,   \* the copy of its row in the worker's session
    op,     \* the request of the operator under way (bound: one at a time)
    used    \* how much of each bound is used

vars == <<task, exc, runs, pc, sel, seen, op, used>>
-----------------------------------------------------------------------------
Statuses == {"none", "queued", "retry", "running", "paused", "blocked", "completed"}

Row == [status   : Statuses,
        run      : Nat \cup {NoRun},
        attempts : Nat,
        owner    : Workers \cup {NoWorker},      \* locked_by
        lease    : {"none", "fresh", "expired"}, \* locked_at
        due      : BOOLEAN]                      \* available_at <= now

(* client: the agent's process can be told to stop; recorded: the status   *)
(* of its run row and state file.                                          *)
Run == [task : Tasks, worker : Workers, client : BOOLEAN, alive : BOOLEAN,
        recorded : {"running", "failed", "imported"}]

Steps == {"off", "idle", "claim", "reclaim", "load_claimed", "load_reclaimed",
          "launch", "record", "block", "reconcile", "complete", "fail", "renew",
          "dead"}

(* The task a worker is said to work on while it works on none.            *)
AnyTask == CHOOSE t \in Tasks : TRUE

NewRow == [status |-> "none", run |-> NoRun, attempts |-> 0,
           owner |-> NoWorker, lease |-> "none", due |-> FALSE]

(* What a request is about to do ("cancel" comes before "refresh"), the    *)
(* process that serves it, the rows it will write and how it read them;    *)
(* turn: a draft that becomes contact research.                            *)
Request == [what : {"none", "pause", "resume", "cancel", "refresh", "resolve"},
            by   : Workers \cup {NoWorker},
            rows : SUBSET Tasks,
            saw  : [Tasks -> Row],
            turn : BOOLEAN]

NoRequest == [what |-> "none", by |-> NoWorker, rows |-> {},
              saw |-> [t \in Tasks |-> NewRow], turn |-> FALSE]

Unlocked(row) == [row EXCEPT !.owner = NoWorker, !.lease = "none"]

(* A session writes the columns it changed, and only those.                *)
Flush(row, loaded, new) ==
    [f \in DOMAIN row |-> IF new[f] = loaded[f] THEN row[f] ELSE new[f]]

Up(k)  == pc[k] \notin {"off", "dead"}
Current(k) == task[sel[k]]

(* The agents of task t that are at work.                                  *)
AtWork(t) == {r \in DOMAIN runs : runs[r].task = t /\ runs[r].alive}

Running == {t \in Tasks : task[t].status = "running" /\ KindOf[t] # "send"}
Targets(S) == {t \in S : KindOf[t] = "target"}
Launchable == {t \in Tasks : task[t].status \in {"queued", "retry"} /\ task[t].due}
OwnOnly(k) == {t \in Running : task[t].owner = k}  \* mutant: leases do not expire
Reclaimable(k) ==
    {t \in Running : task[t].owner = k \/ task[t].lease \in {"none", "expired"}}

(* Mutant: one search too many.                                            *)
CanLaunchOneMore ==
    /\ Targets(Launchable) # {}
    /\ Cardinality(Targets(Running)) <= TargetConcurrency
    /\ Running = Targets(Running)

CanLaunchTarget ==
    /\ Targets(Launchable) # {}
    /\ Cardinality(Targets(Running)) < TargetConcurrency
    /\ Running = Targets(Running)

(* The rows one of which the pass takes.                                   *)
Candidates(k) ==
    IF CanLaunchTarget THEN Targets(Launchable)
    ELSE IF Reclaimable(k) # {} THEN Reclaimable(k)
    ELSE IF Running # {} THEN {}
    ELSE Launchable
-----------------------------------------------------------------------------
Init ==
    /\ task = [t \in Tasks |-> NewRow]
    /\ exc = [t \in Tasks |-> FALSE]
    /\ runs = <<>>
    /\ pc = [k \in Workers |-> "off"]
    /\ sel = [k \in Workers |-> AnyTask]
    /\ seen = [k \in Workers |-> NewRow]
    /\ op = NoRequest
    /\ used = [refresh |-> 0, resolve |-> 0, pause |-> 0, fault |-> 0, stale |-> 0]

Spend(request, bound) ==
    /\ used[request] < bound
    /\ used.refresh + used.resolve + used.pause + used.fault < MaxActs
    /\ used' = [used EXCEPT ![request] = @ + 1]

Goto(k, step) == pc' = [pc EXCEPT ![k] = step]

(* The pass is over: its sessions are closed.                              *)
Done(k, step) ==
    /\ Goto(k, step)
    /\ sel' = [sel EXCEPT ![k] = AnyTask]
    /\ seen' = [seen EXCEPT ![k] = NewRow]

(* Worker k writes its changes to the row it works on.                     *)
Save(k, new) == task' = [task EXCEPT ![sel[k]] = Flush(@, seen[k], new)]

(* A new row: WorkflowEngine.enqueue, the confirmation of a plan, a route. *)
Enqueue(t) ==
    /\ task[t].status = "none"
    /\ task' = [task EXCEPT ![t] = [NewRow EXCEPT !.status = "queued", !.due = TRUE]]
    /\ UNCHANGED <<exc, runs, pc, sel, seen, op, used>>

(* The API process starts and with it a worker with a new id.              *)
Start(k) ==
    /\ pc[k] = "off"
    /\ Concurrent \/ \A j \in Workers : ~Up(j)
    /\ Goto(k, "idle")
    /\ UNCHANGED <<task, exc, runs, sel, seen, op, used>>

(* run_once: the reads that choose a task.                                 *)
Select(k) ==
    /\ pc[k] = "idle"
    /\ \E t \in Candidates(k) :
          /\ sel' = [sel EXCEPT ![k] = t]
          /\ Goto(k, IF task[t].status = "running" THEN "reclaim" ELSE "claim")
    /\ UNCHANGED <<task, exc, runs, seen, op, used>>

(* run_once: the conditional UPDATE that starts an attempt, and its commit.*)
Claim(k) ==
    /\ pc[k] = "claim"
    /\ \/ /\ sel[k] \in Launchable
          /\ task' = [task EXCEPT ![sel[k]] =
                        [task[sel[k]] EXCEPT !.status = "running", !.attempts = @ + 1,
                                             !.owner = k, !.lease = "fresh"]]
          /\ Goto(k, "load_claimed")
          /\ UNCHANGED <<sel, seen>>
       \/ sel[k] \notin Launchable /\ Done(k, "idle") /\ UNCHANGED task
    /\ UNCHANGED <<exc, runs, op, used>>

(* run_once: the conditional UPDATE that takes or keeps the lease.         *)
Reclaim(k) ==
    /\ pc[k] = "reclaim"
    /\ \/ /\ sel[k] \in Reclaimable(k)
          /\ task' = [task EXCEPT ![sel[k]].owner = k, ![sel[k]].lease = "fresh"]
          /\ Goto(k, "load_reclaimed")
          /\ UNCHANGED <<sel, seen>>
       \/ sel[k] \notin Reclaimable(k) /\ Done(k, "idle") /\ UNCHANGED task
    /\ UNCHANGED <<exc, runs, op, used>>

(* The second session loads the row.  A claimed task that is no longer     *)
(* running is left alone; a reclaimed one that has no run id is blocked.   *)
LoadInto(k, step) ==
    /\ seen' = [seen EXCEPT ![k] = Current(k)]
    /\ Goto(k, step)
    /\ UNCHANGED sel

Load(k) ==
    /\ \/ /\ pc[k] = "load_claimed"
          /\ IF Current(k).status = "running" /\ Current(k).owner # NoWorker
             THEN LoadInto(k, "launch") ELSE Done(k, "idle")
       \/ /\ pc[k] = "load_reclaimed"
          /\ LoadInto(k, IF Current(k).run = NoRun THEN "block" ELSE "reconcile")
    /\ UNCHANGED <<task, exc, runs, op, used>>

(* block_uncertain_external_launch                                         *)
Block(k) ==
    /\ pc[k] = "block"
    /\ Save(k, [Unlocked(seen[k]) EXCEPT !.status = "blocked"])
    /\ exc' = [exc EXCEPT ![sel[k]] = TRUE]
    /\ Done(k, "idle")
    /\ UNCHANGED <<runs, op, used>>

(* process: the run is prepared, which commits and so reloads the row, and *)
(* the agent starts, outside the transaction that will record its run id;  *)
(* or something before that raises.                                        *)
LaunchAgent(k) ==
    /\ pc[k] = "launch" /\ KindOf[sel[k]] # "send"
    /\ \/ /\ runs' = Append(runs, [task |-> sel[k], worker |-> k, client |-> FALSE,
                                   alive |-> TRUE, recorded |-> "running"])
          /\ seen' = [seen EXCEPT ![k] = Current(k)]
          /\ Goto(k, "record")
       \/ /\ \E row \in {seen[k], Current(k)} : seen' = [seen EXCEPT ![k] = row]
          /\ Goto(k, "fail")
          /\ UNCHANGED runs
    /\ UNCHANGED <<task, exc, sel, op, used>>

(* _send_application: the gate delivers the message or it does not; the    *)
(* records and the task's status are committed together afterwards.        *)
SendApplication(k) ==
    /\ pc[k] = "launch" /\ KindOf[sel[k]] = "send"
    /\ \/ Goto(k, "complete") \/ Goto(k, "fail")
    /\ UNCHANGED <<task, exc, runs, sel, seen, op, used>>

LastRun(k) == CHOOSE r \in DOMAIN runs :
                 /\ runs[r].worker = k
                 /\ \A s \in DOMAIN runs : runs[s].worker = k => s <= r

(* The run id is committed.                                                *)
RecordRun(k) ==
    /\ pc[k] = "record"
    /\ task' = [task EXCEPT ![sel[k]].run = LastRun(k)]
    /\ Done(k, "idle")
    /\ UNCHANGED <<exc, runs, op, used>>

(* CompanyResearchRuntime._state_is_stale: a run nobody is known to be     *)
(* running is declared orphaned.  An agent of this process is known to be  *)
(* alive; one of another process is judged by the age of its last update,  *)
(* which a process that runs alone has always outlived.                    *)
NotFinished(k, r) == runs[r].recorded = "running"  \* mutant: threads ignored
MayBeOrphaned(k, r) ==
    runs[r].recorded = "running" /\ ~(runs[r].alive /\ runs[r].worker = k)

(* WorkflowEngine.reconcile: inspect the run, and act on what it reports.  *)
(* A target's task is completed whatever its run's outcome; an imported    *)
(* run of another kind may still lack the artifact the task is for.        *)
Reconcile(k) ==
    LET r == seen[k].run
        Act(status) ==
            CASE status = "running" -> Goto(k, "renew")
              [] status # "running" /\ KindOf[sel[k]] = "target" -> Goto(k, "complete")
              [] status = "failed" /\ KindOf[sel[k]] # "target" -> Goto(k, "fail")
              [] status = "imported" /\ KindOf[sel[k]] # "target" ->
                    \E step \in {"complete", "fail", "block"} : Goto(k, step)
    IN  /\ pc[k] = "reconcile"
        /\ \/ /\ MayBeOrphaned(k, r)
              /\ runs' = [runs EXCEPT ![r].recorded = "failed"]
              /\ Act("failed")
           \/ /\ ~MayBeOrphaned(k, r) \/ Concurrent
              /\ UNCHANGED runs
              /\ Act(runs[r].recorded)
        /\ UNCHANGED <<task, exc, sel, seen, op, used>>

(* reconcile raises before it has learnt the run's outcome: a query or a    *)
(* read of the run's files fails.  The agent goes on.                      *)
ReconcileFails(k) ==
    /\ pc[k] = "reconcile"
    /\ Spend("fault", MaxFaults)
    /\ Goto(k, "fail")
    /\ UNCHANGED <<task, exc, runs, sel, seen, op>>

(* run_once after a reconcile that left the task running: the lease is     *)
(* renewed if the reloaded row is still this worker's.                     *)
Renew(k) ==
    /\ pc[k] = "renew"
    /\ task' = IF Current(k).status = "running" /\ Current(k).owner = k
               THEN [task EXCEPT ![sel[k]].lease = "fresh"] ELSE task
    /\ Done(k, "idle")
    /\ UNCHANGED <<exc, runs, op, used>>

(* _complete                                                               *)
Complete(k) ==
    /\ pc[k] = "complete"
    /\ Save(k, [Unlocked(seen[k]) EXCEPT !.status = "completed"])
    /\ Done(k, "idle")
    /\ UNCHANGED <<exc, runs, op, used>>

(* _fail: the run id of the failed attempt stays in the row.               *)
Fail(k) ==
    /\ pc[k] = "fail"
    /\ IF seen[k].attempts < MaxAttempts
       THEN /\ Save(k, [Unlocked(seen[k]) EXCEPT !.status = "retry", !.due = FALSE])
            /\ UNCHANGED exc
       ELSE /\ Save(k, [Unlocked(seen[k]) EXCEPT !.status = "blocked"])
            /\ exc' = [exc EXCEPT ![sel[k]] = TRUE]
    /\ Done(k, "idle")
    /\ UNCHANGED <<runs, op, used>>

(* A statement or a commit fails, before or in the work on the row; _fail  *)
(* runs in the session it broke and raises too, or fails itself, and the   *)
(* loop goes on.  The row stays as it was committed last; an agent that    *)
(* was started goes on.                                                    *)
StatementFails(k) ==
    /\ Up(k) /\ pc[k] # "idle"
    /\ Spend("fault", MaxFaults)
    /\ Done(k, "idle")
    /\ UNCHANGED <<task, exc, runs, op>>
-----------------------------------------------------------------------------
(* _run_agent: the agent process is opened.                                *)
AgentOpens(r) ==
    /\ runs[r].alive /\ ~runs[r].client
    /\ runs' = [runs EXCEPT ![r].client = TRUE]
    /\ UNCHANGED <<task, exc, pc, sel, seen, op, used>>

(* _run_agent ends: its artifacts are imported, or it failed.              *)
AgentEnds(r) ==
    /\ runs[r].alive
    /\ \E outcome \in IF runs[r].client THEN {"imported", "failed"} ELSE {"failed"} :
          runs' = [runs EXCEPT ![r].recorded = outcome, ![r].alive = FALSE]
    /\ UNCHANGED <<task, exc, pc, sel, seen, op, used>>

(* The API process dies, and its agents with it.                           *)
Crash(k) ==
    /\ Up(k)
    /\ \E j \in Workers \ {k} : pc[j] # "dead"
    /\ Done(k, "dead")
    /\ runs' = [r \in DOMAIN runs |->
                  IF runs[r].worker = k THEN [runs[r] EXCEPT !.alive = FALSE] ELSE runs[r]]
    /\ op' = IF op.by = k THEN NoRequest ELSE op
    /\ UNCHANGED <<task, exc, used>>

LeaseExpires(t) ==
    /\ task[t].status = "running" /\ task[t].lease = "fresh"
    /\ task' = [task EXCEPT ![t].lease = "expired"]
    /\ UNCHANGED <<exc, runs, pc, sel, seen, op, used>>

BackoffElapses(t) ==
    /\ task[t].status \in {"queued", "retry"} /\ ~task[t].due
    /\ task' = [task EXCEPT ![t].due = TRUE]
    /\ UNCHANGED <<exc, runs, pc, sel, seen, op, used>>

(* Process k takes a request up: it reads the rows it will write.          *)
Ask(k, what, rows, turn) ==
    /\ Up(k) /\ op = NoRequest
    /\ op' = [what |-> what, by |-> k, rows |-> rows, turn |-> turn,
              saw |-> [t \in Tasks |-> IF t \in rows THEN task[t] ELSE NewRow]]
    /\ UNCHANGED <<task, exc, runs, pc, sel, seen>>

(* Mutant: any task of the campaign is taken for an active one.            *)
AskRefreshAny(k, t) ==
    /\ KindOf[t] = "agent" /\ task[t].status # "none"
    /\ Ask(k, "refresh", {t}, FALSE)
    /\ Spend("refresh", MaxRefreshes)

(* refresh_job_campaign, of a campaign with no plan: the search that runs  *)
(* starts over; an agent whose run id is known is stopped first.           *)
AskRefresh(k, t) ==
    /\ KindOf[t] = "agent" /\ task[t].status = "running"
    /\ Ask(k, IF task[t].run = NoRun THEN "refresh" ELSE "cancel", {t}, FALSE)
    /\ Spend("refresh", MaxRefreshes)

(* CompanyResearchRuntime.cancel, in a session of its own: the run is      *)
(* recorded as failed, and its agent stops if this process has its client. *)
CancelRun ==
    /\ op.what = "cancel"
    /\ \E t \in op.rows :
         LET r == op.saw[t].run
             stopped == runs[r].worker = op.by /\ runs[r].client
         IN  runs' = [runs EXCEPT ![r].recorded = "failed", ![r].alive = @ /\ ~stopped]
    /\ op' = [op EXCEPT !.what = "refresh"]
    /\ UNCHANGED <<task, exc, pc, sel, seen, used>>

(* resolve_exception with "retry", of an open or a resolved exception: an  *)
(* application draft without a contact turns into contact research.        *)
AskResolve(k, t) ==
    /\ exc[t]
    /\ \E turn \in IF KindOf[t] = "agent" THEN BOOLEAN ELSE {FALSE} :
          Ask(k, "resolve", {t}, turn)
    /\ Spend("resolve", MaxResolves)

(* pause_campaign; with no such row it changes none.                       *)
AskPause(k) ==
    LET waiting == {t \in Tasks : task[t].status \in {"queued", "retry"}}
    IN  /\ waiting # {} /\ Ask(k, "pause", waiting, FALSE)
        /\ Spend("pause", MaxPauses)

(* resume_campaign                                                         *)
AskResume(k) ==
    LET paused == {t \in Tasks : task[t].status = "paused"}
    IN  paused # {} /\ Ask(k, "resume", paused, FALSE) /\ UNCHANGED used

(* The row the request makes of the one it read.                           *)
Asked(t) ==
    LET row == op.saw[t]
    IN  CASE op.what = "pause"   -> [row EXCEPT !.status = "paused"]
          [] op.what = "resume"  -> [row EXCEPT !.status = "queued"]
          [] op.what = "refresh" -> [Unlocked(row) EXCEPT !.status = "retry",
                                        !.attempts = IF @ = 0 THEN 0 ELSE @ - 1]
          [] op.what = "resolve" -> [row EXCEPT !.status = "queued", !.attempts = 0,
                                                !.run = IF op.turn THEN NoRun ELSE @]

(* A row of the request has been claimed, reported on or completed since.  *)
Overtaken ==
    \E t \in op.rows : \E column \in {"status", "run", "attempts", "owner"} :
        task[t][column] # op.saw[t][column]

(* The request commits, whatever the rows hold by now; all but a pause set *)
(* available_at to now.                                                    *)
CommitRequest ==
    /\ op.what \in {"pause", "resume", "refresh", "resolve"}
    /\ IF Overtaken
       THEN /\ used.stale < MaxStale
            /\ used' = [used EXCEPT !.stale = @ + 1]
       ELSE UNCHANGED used
    /\ task' = [t \in Tasks |->
                  IF t \in op.rows
                  THEN [Flush(task[t], op.saw[t], Asked(t)) EXCEPT
                           !.due = @ \/ op.what # "pause"]
                  ELSE task[t]]
    /\ op' = NoRequest
    /\ UNCHANGED <<exc, runs, pc, sel, seen>>

(* The request fails, and its writes are rolled back.                      *)
DropRequest ==
    /\ op # NoRequest
    /\ op' = NoRequest
    /\ UNCHANGED <<task, exc, runs, pc, sel, seen, used>>

WorkerStep(k) ==
    \/ Select(k) \/ Claim(k) \/ Reclaim(k) \/ Load(k) \/ Block(k)
    \/ LaunchAgent(k) \/ SendApplication(k) \/ RecordRun(k)
    \/ Reconcile(k) \/ Renew(k) \/ Complete(k) \/ Fail(k)

Next ==
    \/ \E k \in Workers : Start(k) \/ WorkerStep(k) \/ Crash(k)
                       \/ StatementFails(k) \/ ReconcileFails(k)
                       \/ AskPause(k) \/ AskResume(k)
    \/ \E r \in DOMAIN runs : AgentOpens(r) \/ AgentEnds(r)
    \/ \E t \in Tasks : Enqueue(t) \/ LeaseExpires(t) \/ BackoffElapses(t)
    \/ \E k \in Workers, t \in Tasks : AskRefresh(k, t) \/ AskResolve(k, t)
    \/ CancelRun \/ CommitRequest \/ DropRequest

Spec == Init /\ [][Next]_vars

(* How many agents the bounds let start.                                   *)
MaxRuns == Cardinality(Tasks) * MaxAttempts * (1 + MaxResolves + MaxRefreshes)

(* A live process is scheduled, a dead one is started again, an agent ends *)
(* at its time budget, and time passes.                                    *)
Fairness ==
    /\ \A k \in Workers : WF_vars(Start(k)) /\ WF_vars(WorkerStep(k))
    /\ \A r \in 1..MaxRuns : WF_vars(r \in DOMAIN runs /\ AgentEnds(r))
    /\ \A t \in Tasks : WF_vars(LeaseExpires(t)) /\ WF_vars(BackoffElapses(t))

LiveSpec == Spec /\ Fairness
-----------------------------------------------------------------------------
(* Every row, run and worker holds values of its kind.                     *)
TypeOK ==
    /\ task \in [Tasks -> Row]
    /\ exc \in [Tasks -> BOOLEAN]
    /\ runs \in Seq(Run)
    /\ pc \in [Workers -> Steps]
    /\ sel \in [Workers -> Tasks]
    /\ seen \in [Workers -> Row]
    /\ op \in Request
    /\ used \in [{"refresh", "resolve", "pause", "fault", "stale"} -> Nat]

(* A task never has two agents at work.                                    *)
OneAgentPerTask == \A t \in Tasks : Cardinality(AtWork(t)) <= 1

(* No more targeted searches run than the concurrency ceiling allows, and  *)
(* no other agent runs beside one.                                         *)
FanOutBounded ==
    /\ Cardinality(Targets(Running)) <= TargetConcurrency
    /\ Cardinality(Running \ Targets(Running)) <= 1
    /\ Targets(Running) = {} \/ Running = Targets(Running)

(* A task is attempted at most max_attempts times between two decisions of *)
(* the operator, and once more for each request a claim has overtaken.     *)
AttemptsBounded == \A t \in Tasks : task[t].attempts <= MaxAttempts + used.stale

(* Only a request of the operator reopens a completed task: a retry, or    *)
(* one that read the task before it was completed.                         *)
Reopens(t) ==
    /\ t \in op.rows /\ op' = NoRequest
    /\ op.what = "resolve" \/ op.saw[t].status # "completed"

CompletedIsFinal ==
    [][\A t \in Tasks : task[t].status = "completed" /\ task'[t].status # "completed"
                            => Reopens(t)]_vars

(* A task that waits or runs is eventually completed, blocked for review   *)
(* or paused, through failing statements and crashes of the process that   *)
(* runs it, but for a send that one of these left running: no list of      *)
(* types to recover names it.  It holds nobody else back.                  *)
LeftRunning(t) ==
    /\ KindOf[t] = "send" /\ task[t].status = "running"
    /\ \/ pc[task[t].owner] = "dead"
       \/ used.fault > 0 /\ \A k \in Workers : pc[k] # "idle" => sel[k] # t

Settled(t) == task[t].status \in {"completed", "blocked", "paused"} \/ LeftRunning(t)

TaskSettles ==
    \A t \in Tasks : task[t].status \in {"queued", "retry", "running"} ~> Settled(t)

(* The queue of one process is sound under retries, expired leases and     *)
(* restarts: the rows keep their types, recovery never adds an agent to a  *)
(* task that has one, and every attempt is counted.                        *)
QueueSound == TypeOK /\ OneAgentPerTask /\ AttemptsBounded
=============================================================================
