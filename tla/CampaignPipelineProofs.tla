----------------------- MODULE CampaignPipelineProofs -----------------------
(***************************************************************************)
(* Proofs about WorkflowTasks and CampaignPipeline.                        *)
(*                                                                         *)
(* About the queue: the types of its tables for any number of processes;   *)
(* and, where one process runs at a time, that attempts and fan-out stay   *)
(* bounded, that a completed task is only reopened by the operator, and    *)
(* that a task has one agent at work.                                      *)
(*                                                                         *)
(* About the pipeline that runs on it: a company on its way is never       *)
(* forgotten, its stage has its evidence, and a message that left without  *)
(* a record holds its row, for any number of tasks, of starts of the       *)
(* process and of requests of the operator.                                *)
(***************************************************************************)
EXTENDS CampaignPipeline, FiniteSetTheorems, SequenceTheorems, TLAPS

(* From the load of the row to the end of the pass.                        *)
Holding == {"launch", "record", "block", "reconcile", "complete", "fail", "renew"}
Working == Holding \cup {"load_claimed", "load_reclaimed"}

(* r is the run that worker k started last.                                *)
IsLastRun(k, r) ==
    /\ runs[r].worker = k
    /\ \A s \in DOMAIN runs : runs[s].worker = k => s <= r

(* Run ids name runs, the copy a worker reconciles has one, and a worker   *)
(* that records a launch has launched.                                     *)
References ==
    /\ \A t \in Tasks : task[t].run \in DOMAIN runs \cup {NoRun}
    /\ \A k \in Workers : seen[k].run \in DOMAIN runs \cup {NoRun}
    /\ \A k \in Workers : pc[k] = "reconcile" => seen[k].run # NoRun
    /\ \A k \in Workers : pc[k] = "record" => \E r \in DOMAIN runs : IsLastRun(k, r)
    /\ op.what = "cancel" => \A t \in op.rows : op.saw[t].run \in DOMAIN runs

TypeInv == TypeOK /\ References

(* One process runs at a time.                                             *)
Alone == \A j, k \in Workers : Up(j) /\ Up(k) => j = k

(* What waits has an attempt left, or was written by a request that came   *)
(* late, and a worker's copy counts the attempts it knows of.              *)
Waiting == {"queued", "retry", "paused"}
Ceiling == MaxAttempts + used["stale"]
AttemptsCounted ==
    /\ \A t \in Tasks : task[t].attempts <= Ceiling
    /\ \A t \in Tasks : task[t].status \in Waiting => task[t].attempts < Ceiling
    /\ \A k \in Workers : pc[k] \in Holding => task[sel[k]].attempts <= seen[k].attempts

(* A worker that has chosen a task to start has seen that there is room.   *)
Room(t) ==
    IF KindOf[t] = "target"
    THEN Running = Targets(Running) /\ Cardinality(Running) < TargetConcurrency
    ELSE Running = {}
RoomLeft == \A k \in Workers : pc[k] = "claim" => Room(sel[k])

(* A worker does not work on a completed task.                             *)
NotCompleted ==
    \A k \in Workers : pc[k] \in Working => task[sel[k]].status # "completed"

(* A request has read rows of the status it looks for, and attempts have   *)
(* only been added to them since; a row not inserted yet has none.          *)
Sought ==
    CASE op.what = "pause" -> {"queued", "retry"}
      [] op.what = "resume" -> {"paused"}
      [] op.what \in {"cancel", "refresh"} -> {"running"}
      [] OTHER -> Statuses
RequestTrue ==
    /\ \A t \in Tasks : task[t].status = "none" => task[t].attempts = 0
    /\ \A t \in op.rows : op.saw[t].status \in Sought
    /\ \A t \in op.rows : op.saw[t].attempts <= task[t].attempts
    /\ op.what \in {"cancel", "refresh"} => used["refresh"] # 0

Orderly == /\ TypeInv /\ Alone /\ AttemptsCounted /\ FanOutBounded /\ RoomLeft
           /\ NotCompleted
QueueInv == Orderly /\ RequestTrue

(* No statement has failed, no search was refreshed, no request has come   *)
(* too late, and the operator has decided at most one retry.               *)
Undisturbed ==
    /\ used["fault"] = 0 /\ used["refresh"] = 0 /\ used["stale"] = 0
    /\ used["resolve"] <= 1

(* Until the operator decides, a task with an exception is blocked.        *)
Unresolved ==
    /\ used["resolve"] = 0 => \A t \in Tasks : exc[t] => task[t].status = "blocked"
    /\ op.what = "resolve" =>
          used["resolve"] # 0 /\ \A t \in op.rows : op.saw[t].status = "blocked"

(* The task a worker works on runs, and its copy is true of it.            *)
CopyOf(k) ==
    /\ pc[k] \in Working => task[sel[k]].status = "running"
    /\ pc[k] \in Holding => seen[k].status = "running"
    /\ pc[k] = "reconcile" => seen[k].run = task[sel[k]].run
CopyTrue == \A k \in Workers : CopyOf(k)

(* An agent at work belongs to the process that is up and to a running     *)
(* task, which names it or is about to.                                    *)
Launching(k, r) == pc[k] = "record" /\ sel[k] = runs[r].task
AgentsKnown ==
    \A r \in DOMAIN runs, k \in Workers :
        runs[r].alive /\ k = runs[r].worker =>
            /\ runs[r].recorded = "running" /\ Up(k)
            /\ task[runs[r].task].status = "running"
            /\ IF Launching(k, r) THEN IsLastRun(k, r) ELSE task[runs[r].task].run = r

(* Where a worker is about to start an agent, or to end the task's         *)
(* attempt, none is at work.                                               *)
NoneFor(k) ==
    pc[k] \in {"load_claimed", "launch", "block", "complete", "fail"}
        => \A r \in DOMAIN runs : ~(runs[r].alive /\ runs[r].task = sel[k])
NoneAtWork == \A k \in Workers : NoneFor(k)

Known == Unresolved /\ CopyTrue /\ AgentsKnown /\ NoneAtWork
AgentInv == Undisturbed => Known
-----------------------------------------------------------------------------
(* What is written over a row is, column by column, the row's own value or *)
(* the new one.                                                            *)
LEMMA FlushEffect ==
    ASSUME NEW row \in Row, NEW loaded \in Row, NEW new \in Row
    PROVE  /\ Flush(row, loaded, new) \in Row
           /\ Flush(row, loaded, new).status =
                 IF new.status = loaded.status THEN row.status ELSE new.status
           /\ Flush(row, loaded, new).run = IF new.run = loaded.run THEN row.run ELSE new.run
           /\ Flush(row, loaded, new).attempts =
                 IF new.attempts = loaded.attempts THEN row.attempts ELSE new.attempts
<1>1. DOMAIN row = {"status", "run", "attempts", "owner", "lease", "due"}
  BY DEF Row
<1>2. QED
  BY <1>1, Zenon, SMT DEF Flush, Row

(* A function over the runs whose values are runs is a sequence of runs.   *)
LEMMA RunsKept ==
    ASSUME runs \in Seq(Run), NEW f, f = [r \in DOMAIN runs |-> f[r]],
           \A r \in DOMAIN runs : f[r] \in Run
    PROVE  f \in Seq(Run) /\ DOMAIN f = DOMAIN runs
<1>1. Len(runs) \in Nat /\ DOMAIN runs = 1..Len(runs)
  BY LenProperties
<1>2. f \in [1..Len(runs) -> Run]
  BY <1>1
<1>3. QED
  BY <1>1, <1>2, SeqDef

(* Every run has a number, and names a task and a worker.                  *)
LEMMA RunsTyped ==
    ASSUME TypeInv, NEW r \in DOMAIN runs
    PROVE  r \in Nat /\ runs[r] \in Run /\ runs[r].task \in Tasks /\ runs[r].worker \in Workers
<1>1. r \in Nat /\ runs[r] \in Run
  BY LenProperties DEF TypeInv, TypeOK
<1>2. QED
  BY <1>1 DEF Run

(* One more run leaves the others as they were.                            *)
LEMMA RunAdded ==
    ASSUME runs \in Seq(Run), NEW x \in Run
    PROVE  /\ Append(runs, x) \in Seq(Run)
           /\ Len(runs) + 1 \in Nat /\ Len(runs) + 1 \notin DOMAIN runs
           /\ \A r \in DOMAIN runs : r <= Len(runs) /\ r \in Nat
           /\ DOMAIN Append(runs, x) = DOMAIN runs \cup {Len(runs) + 1}
           /\ \A r \in DOMAIN runs : Append(runs, x)[r] = runs[r]
           /\ Append(runs, x)[Len(runs) + 1] = x
<1>1. Len(runs) \in Nat /\ DOMAIN runs = 1..Len(runs)
  BY LenProperties
<1>2. QED
  BY <1>1

(* The run a worker started last is found.                                 *)
LEMMA LastRunFound ==
    ASSUME runs \in Seq(Run), NEW k \in Workers, NEW q \in DOMAIN runs, IsLastRun(k, q)
    PROVE  LastRun(k) = q
<1>1. DOMAIN runs \subseteq Nat
  BY LenProperties
<1>2. \A r \in DOMAIN runs : IsLastRun(k, r) => r = q
  BY <1>1 DEF IsLastRun
<1>3. LastRun(k) \in DOMAIN runs /\ IsLastRun(k, LastRun(k))
  BY DEF LastRun, IsLastRun
<1>4. QED
  BY <1>2, <1>3
(* A worker writes its own row only.                                       *)
LEMMA SaveEffect ==
    ASSUME TypeInv, NEW k \in Workers, NEW new \in Row, Save(k, new)
    PROVE  /\ task' \in [Tasks -> Row]
           /\ \A t \in Tasks : t # sel[k] => task'[t] = task[t]
           /\ task'[sel[k]] = Flush(task[sel[k]], seen[k], new)
           /\ task'[sel[k]].status = IF new.status = seen[k].status
                                     THEN task[sel[k]].status ELSE new.status
           /\ task'[sel[k]].run = IF new.run = seen[k].run
                                  THEN task[sel[k]].run ELSE new.run
           /\ task'[sel[k]].attempts = IF new.attempts = seen[k].attempts
                                       THEN task[sel[k]].attempts ELSE new.attempts
<1>1. task \in [Tasks -> Row] /\ sel[k] \in Tasks /\ seen[k] \in Row
  BY DEF TypeInv, TypeOK
<1>2. task[sel[k]] \in Row
  BY <1>1
<1>3. task'[sel[k]] = Flush(task[sel[k]], seen[k], new)
  BY <1>1 DEF Save
<1>4. \A t \in Tasks : t # sel[k] => task'[t] = task[t]
  BY <1>1 DEF Save
<1>5. Flush(task[sel[k]], seen[k], new) \in Row
  BY <1>1, <1>2, FlushEffect
<1>6. task' \in [Tasks -> Row]
  BY <1>1, <1>5 DEF Save
<1>7. QED
  BY <1>1, <1>2, <1>3, <1>4, <1>6, FlushEffect

(* The rows the program writes are rows.                                   *)
LEMMA NewRowTyped ==
    /\ NewRow \in Row /\ NewRow.run = NoRun /\ NewRow.status = "none" /\ NewRow.attempts = 0
    /\ [NewRow EXCEPT !.status = "queued", !.due = TRUE] \in Row
    /\ [NewRow EXCEPT !.status = "queued", !.due = TRUE].run = NoRun
BY DEF NewRow, Row, Statuses

(* No request is one.                                                      *)
LEMMA NoRequestTyped ==
    /\ NoRequest \in Request /\ NoRequest.what = "none" /\ NoRequest.rows = {}
BY NewRowTyped DEF NoRequest, Request

(* ... also with another status ...                                        *)
LEMMA Restated ==
    ASSUME NEW row \in Row, NEW status \in Statuses
    PROVE  LET new == [Unlocked(row) EXCEPT !.status = status]
           IN  /\ new \in Row /\ new.run = row.run /\ new.attempts = row.attempts
               /\ new.status = status
BY DEF Row, Unlocked

(* ... and put back.                                                       *)
LEMMA Retried ==
    ASSUME NEW row \in Row
    PROVE  LET new == [Unlocked(row) EXCEPT !.status = "retry", !.due = FALSE]
           IN  /\ new \in Row /\ new.run = row.run /\ new.attempts = row.attempts
               /\ new.status = "retry"
BY DEF Row, Unlocked, Statuses
(* What refers to a run still does when no run is lost and nobody starts to *)
(* record a launch.                                                        *)
LEMMA ReferencesKept ==
    ASSUME TypeInv, DOMAIN runs' = DOMAIN runs,
           \A r \in DOMAIN runs : runs'[r].worker = runs[r].worker,
           \A t \in Tasks : task'[t].run \in DOMAIN runs \cup {NoRun},
           \A k \in Workers : seen'[k].run \in DOMAIN runs \cup {NoRun},
           \A k \in Workers : pc'[k] = "reconcile" => seen'[k].run # NoRun,
           \A k \in Workers : pc'[k] = "record" => pc[k] = "record",
           op'.what = "cancel" => op' = op
    PROVE  References'
<1>1. \A k \in Workers, r \in DOMAIN runs : IsLastRun(k, r) => IsLastRun(k, r)'
  BY DEF IsLastRun
<1>2. QED
  BY <1>1 DEF TypeInv, References

(* A worker that ends its pass.                                            *)
LEMMA DoneTyped ==
    ASSUME TypeInv, NEW k \in Workers, NEW step \in {"idle", "dead"}, Done(k, step)
    PROVE  /\ pc' \in [Workers -> Steps]
           /\ pc'[k] = step /\ \A j \in Workers : j # k => pc'[j] = pc[j]
           /\ sel' \in [Workers -> Tasks]
           /\ \A j \in Workers : j # k => sel'[j] = sel[j] /\ seen'[j] = seen[j]
           /\ seen' \in [Workers -> Row]
           /\ \A j \in Workers : seen'[j].run \in DOMAIN runs \cup {NoRun}
           /\ \A j \in Workers : pc'[j] = "reconcile" => seen'[j].run # NoRun
           /\ \A j \in Workers : pc'[j] = "record" => pc[j] = "record"
<1>1. AnyTask \in Tasks
  BY DEF AnyTask, TypeInv, TypeOK
<1>2. QED
  BY <1>1, NewRowTyped DEF TypeInv, TypeOK, Done, Goto, Steps, References

(* A worker that goes on to another step.                                  *)
LEMMA GotoTyped ==
    ASSUME TypeInv, NEW k \in Workers, NEW step \in Steps, Goto(k, step)
    PROVE  /\ pc' \in [Workers -> Steps]
           /\ pc'[k] = step /\ \A j \in Workers : j # k => pc'[j] = pc[j]
BY DEF TypeInv, TypeOK, Goto

(* The row of one task is replaced.                                        *)
LEMMA RowPut ==
    ASSUME TypeInv, NEW t \in Tasks, NEW row \in Row, task' = [task EXCEPT ![t] = row]
    PROVE  /\ task' \in [Tasks -> Row] /\ task'[t] = row
           /\ \A u \in Tasks : u # t => task'[u] = task[u]
           /\ row.run \in DOMAIN runs \cup {NoRun} =>
                 \A u \in Tasks : task'[u].run \in DOMAIN runs \cup {NoRun}
BY DEF TypeInv, TypeOK, References
(* A request is counted once.                                              *)
LEMMA SpendEffect ==
    ASSUME TypeInv, NEW what \in {"refresh", "resolve", "pause", "fault", "stale"}, NEW bound,
           Spend(what, bound)
    PROVE  /\ used' \in [{"refresh", "resolve", "pause", "fault", "stale"} -> Nat]
           /\ used'[what] = used[what] + 1
           /\ \A other \in {"refresh", "resolve", "pause", "fault", "stale"} :
                 other # what => used'[other] = used[other]
           /\ used[what] < bound
BY DEF Spend, TypeInv, TypeOK

(* What tells two states of a task's row apart, but for its lease.         *)
Same(t) == /\ task'[t].status = task[t].status /\ task'[t].run = task[t].run
           /\ task'[t].attempts = task[t].attempts

(* The steps that write rows without a copy, row by row.                   *)
LEMMA ClaimEffect ==
    ASSUME TypeInv, NEW k \in Workers, Claim(k), sel[k] \in Launchable
    PROVE  /\ task' \in [Tasks -> Row]
           /\ \A t \in Tasks : t # sel[k] => task'[t] = task[t]
           /\ task'[sel[k]].status = "running" /\ task'[sel[k]].run = task[sel[k]].run
           /\ task'[sel[k]].attempts = task[sel[k]].attempts + 1
           /\ Goto(k, "load_claimed") /\ UNCHANGED <<exc, runs, sel, seen, op, used>>
<1> DEFINE row == [task[sel[k]] EXCEPT !.status = "running", !.attempts = @ + 1,
                                      !.owner = k, !.lease = "fresh"]
<1>1. task[sel[k]] \in Row /\ sel[k] \in Tasks
  BY DEF TypeInv, TypeOK
<1>2. /\ row \in Row /\ row.status = "running" /\ row.run = task[sel[k]].run
      /\ row.attempts = task[sel[k]].attempts + 1
  <2>1. task[sel[k]].attempts + 1 \in Nat
    BY <1>1 DEF Row
  <2>2. QED
    BY <1>1, <2>1 DEF Row, Statuses
<1>3. task' = [task EXCEPT ![sel[k]] = row]
  BY DEF Claim
<1>4. QED
  BY <1>1, <1>2, <1>3, RowPut DEF Claim

(* A lease that is taken or kept changes nothing else of the row.          *)
LEMMA ReclaimEffect ==
    ASSUME TypeInv, NEW k \in Workers, Reclaim(k)
    PROVE  task' \in [Tasks -> Row] /\ \A t \in Tasks : Same(t)
<1>1. task \in [Tasks -> Row] /\ sel[k] \in Tasks
  BY DEF TypeInv, TypeOK
<1>2. CASE task' = [task EXCEPT ![sel[k]].owner = k, ![sel[k]].lease = "fresh"]
  <2>1. [task[sel[k]] EXCEPT !.owner = k, !.lease = "fresh"] \in Row
    BY <1>1 DEF Row
  <2>2. task' = [task EXCEPT ![sel[k]] = [task[sel[k]] EXCEPT !.owner = k, !.lease = "fresh"]]
    BY <1>1, <1>2
  <2>3. QED
    BY <1>1, <2>1, <2>2, RowPut DEF Same, Row
<1>3. QED
  BY <1>1, <1>2 DEF Reclaim, Same

(* Nor does a lease that is renewed.                                       *)
LEMMA RenewEffect ==
    ASSUME TypeInv, NEW k \in Workers, Renew(k)
    PROVE  task' \in [Tasks -> Row] /\ \A t \in Tasks : Same(t)
<1>1. task \in [Tasks -> Row] /\ sel[k] \in Tasks
  BY DEF TypeInv, TypeOK
<1>2. CASE task' = [task EXCEPT ![sel[k]].lease = "fresh"]
  <2>1. [task[sel[k]] EXCEPT !.lease = "fresh"] \in Row
    BY <1>1 DEF Row
  <2>2. task' = [task EXCEPT ![sel[k]] = [task[sel[k]] EXCEPT !.lease = "fresh"]]
    BY <1>1, <1>2
  <2>3. QED
    BY <1>1, <2>1, <2>2, RowPut DEF Same, Row
<1>3. QED
  BY <1>1, <1>2 DEF Renew, Same

(* The row is given the run its worker started last, and that run exists.  *)
LEMMA RecordEffect ==
    ASSUME TypeInv, NEW k \in Workers, RecordRun(k)
    PROVE  /\ task' \in [Tasks -> Row] /\ LastRun(k) \in DOMAIN runs
           /\ IsLastRun(k, LastRun(k))
           /\ \A t \in Tasks : t # sel[k] => task'[t] = task[t]
           /\ task'[sel[k]].run = LastRun(k)
           /\ task'[sel[k]].status = task[sel[k]].status
           /\ task'[sel[k]].attempts = task[sel[k]].attempts
<1>1. task[sel[k]] \in Row /\ sel[k] \in Tasks /\ task \in [Tasks -> Row]
      /\ DOMAIN runs \subseteq Nat
  BY LenProperties DEF TypeInv, TypeOK
<1>2. LastRun(k) \in DOMAIN runs /\ IsLastRun(k, LastRun(k))
  BY LastRunFound DEF RecordRun, TypeInv, TypeOK, References
<1>3. [task[sel[k]] EXCEPT !.run = LastRun(k)] \in Row
  BY <1>1, <1>2 DEF Row
<1>4. task' = [task EXCEPT ![sel[k]] = [task[sel[k]] EXCEPT !.run = LastRun(k)]]
  BY <1>1 DEF RecordRun
<1>5. QED
  BY <1>1, <1>2, <1>3, <1>4, RowPut DEF Row

(* Time changes leases and due dates only.                                 *)
LEMMA TimeEffect ==
    ASSUME TypeInv, NEW t \in Tasks, LeaseExpires(t) \/ BackoffElapses(t)
    PROVE  task' \in [Tasks -> Row] /\ \A u \in Tasks : Same(u)
<1>1. task \in [Tasks -> Row]
  BY DEF TypeInv, TypeOK
<1>2. /\ [task[t] EXCEPT !.lease = "expired"] \in Row
      /\ [task[t] EXCEPT !.due = TRUE] \in Row
  BY <1>1 DEF Row
<1>3. \/ task' = [task EXCEPT ![t] = [task[t] EXCEPT !.lease = "expired"]]
      \/ task' = [task EXCEPT ![t] = [task[t] EXCEPT !.due = TRUE]]
  BY <1>1 DEF LeaseExpires, BackoffElapses
<1>4. QED
  <2>1. CASE task' = [task EXCEPT ![t] = [task[t] EXCEPT !.lease = "expired"]]
    BY <1>1, <1>2, <2>1, RowPut DEF Same, Row
  <2>2. CASE task' = [task EXCEPT ![t] = [task[t] EXCEPT !.due = TRUE]]
    BY <1>1, <1>2, <2>2, RowPut DEF Same, Row
  <2>3. QED
    BY <1>3, <2>1, <2>2

(* A request has read rows of the status it looks for.                     *)
Asks(k, t) == AskPause(k) \/ AskResume(k) \/ AskRefresh(k, t) \/ AskResolve(k, t)

LEMMA AskEffect ==
    ASSUME TypeInv, NEW k \in Workers, NEW rows \in SUBSET Tasks, NEW turn \in BOOLEAN,
           NEW what \in {"pause", "resume", "cancel", "refresh", "resolve"},
           Ask(k, what, rows, turn)
    PROVE  /\ op' \in Request /\ op'.what = what /\ op'.rows = rows
           /\ \A t \in rows : op'.saw[t] = task[t]
           /\ UNCHANGED <<task, exc, runs, pc, sel, seen>>
<1> DEFINE saw == [t \in Tasks |-> IF t \in rows THEN task[t] ELSE NewRow]
<1>1. saw \in [Tasks -> Row] /\ \A t \in rows : saw[t] = task[t]
  BY NewRowTyped DEF TypeInv, TypeOK
<1>2. op' = [what |-> what, by |-> k, rows |-> rows, turn |-> turn, saw |-> saw]
      /\ UNCHANGED <<task, exc, runs, pc, sel, seen>>
  BY DEF Ask
<1> HIDE DEF saw
<1>3. QED
  BY <1>1, <1>2 DEF Request

LEMMA AsksEffect ==
    ASSUME TypeInv, NEW k \in Workers, NEW t \in Tasks, Asks(k, t)
    PROVE  /\ op' \in Request
           /\ UNCHANGED <<task, exc, runs, pc, sel, seen>>
           /\ used' \in [{"refresh", "resolve", "pause", "fault", "stale"} -> Nat]
           /\ used'["stale"] = used["stale"]
           /\ \A u \in op'.rows : op'.saw[u] = task[u] /\ task[u].status \in Sought'
           /\ op'.what = "cancel" => \A u \in op'.rows : op'.saw[u].run # NoRun
           /\ op'.what \in {"cancel", "refresh"} => used'["refresh"] # 0
           /\ op'.what = "resolve" =>
                 used'["resolve"] = used["resolve"] + 1 /\ \A u \in op'.rows : exc[u]
           /\ op'.what # "resolve" => used'["resolve"] = used["resolve"]
<1>0. /\ \A u \in Tasks : task[u] \in Row /\ task[u].status \in Statuses
      /\ used \in [{"refresh", "resolve", "pause", "fault", "stale"} -> Nat]
  BY DEF TypeInv, TypeOK, Row
<1>1. CASE AskPause(k)
  <2> DEFINE rows == {u \in Tasks : task[u].status \in {"queued", "retry"}}
  <2>1. Ask(k, "pause", rows, FALSE) /\ Spend("pause", MaxPauses)
    BY <1>1 DEF AskPause
  <2>2. rows \in SUBSET Tasks /\ \A u \in rows : task[u].status \in {"queued", "retry"}
    OBVIOUS
  <2> HIDE DEF rows
  <2>3. QED
    BY <1>0, <2>1, <2>2, AskEffect, SpendEffect DEF Sought
<1>2. CASE AskResume(k)
  <2> DEFINE rows == {u \in Tasks : task[u].status = "paused"}
  <2>1. Ask(k, "resume", rows, FALSE) /\ UNCHANGED used
    BY <1>2 DEF AskResume
  <2>2. rows \in SUBSET Tasks /\ \A u \in rows : task[u].status = "paused"
    OBVIOUS
  <2> HIDE DEF rows
  <2>3. QED
    BY <1>0, <2>1, <2>2, AskEffect DEF Sought
<1>3. CASE AskRefresh(k, t)
  <2>1. PICK what \in {"refresh", "cancel"} :
           /\ Ask(k, what, {t}, FALSE) /\ Spend("refresh", MaxRefreshes)
           /\ what = "cancel" => task[t].run # NoRun
    BY <1>3 DEF AskRefresh
  <2>2. task[t].status = "running"
    BY <1>3 DEF AskRefresh
  <2>3. /\ op' \in Request /\ op'.what = what /\ op'.rows = {t} /\ op'.saw[t] = task[t]
        /\ UNCHANGED <<task, exc, runs, pc, sel, seen>>
    BY <2>1, AskEffect
  <2>4. /\ used' \in [{"refresh", "resolve", "pause", "fault", "stale"} -> Nat]
        /\ used'["stale"] = used["stale"] /\ used'["resolve"] = used["resolve"]
        /\ used'["refresh"] = used["refresh"] + 1
    BY <2>1, SpendEffect
  <2>5. QED
    BY <1>0, <2>1, <2>2, <2>3, <2>4 DEF Sought
<1>4. CASE AskResolve(k, t)
  <2>1. PICK turn \in BOOLEAN : Ask(k, "resolve", {t}, turn)
    BY <1>4 DEF AskResolve
  <2>2. Spend("resolve", MaxResolves) /\ exc[t]
    BY <1>4 DEF AskResolve
  <2>5. {t} \in SUBSET Tasks
    OBVIOUS
  <2>3. /\ op' \in Request /\ op'.what = "resolve" /\ op'.rows = {t}
        /\ op'.saw[t] = task[t] /\ UNCHANGED <<task, exc, runs, pc, sel, seen>>
    BY <2>1, <2>5, AskEffect, Zenon
  <2>4. /\ used' \in [{"refresh", "resolve", "pause", "fault", "stale"} -> Nat]
        /\ used'["stale"] = used["stale"] /\ used'["resolve"] = used["resolve"] + 1
    BY <2>2, SpendEffect
  <2>6. QED
    BY <1>0, <2>2, <2>3, <2>4 DEF Sought
<1>5. QED
  BY <1>1, <1>2, <1>3, <1>4 DEF Asks

(* A run that is cancelled keeps its task and its worker.                  *)
LEMMA CancelEffect ==
    ASSUME TypeInv, CancelRun
    PROVE  /\ runs' = [q \in DOMAIN runs |-> runs'[q]]
           /\ \A q \in DOMAIN runs :
                 runs'[q] \in Run /\ runs'[q].worker = runs[q].worker
           /\ op' \in Request /\ op'.what = "refresh" /\ op.what = "cancel"
           /\ op'.rows = op.rows /\ op'.saw = op.saw
           /\ UNCHANGED <<task, exc, pc, sel, seen, used>>
<1>0. (\A q \in DOMAIN runs : runs[q] \in Run) /\ op \in Request
  BY LenProperties DEF TypeInv, TypeOK
<1>1. PICK t \in op.rows :
         LET r == op.saw[t].run
             stopped == runs[r].worker = op.by /\ runs[r].client
         IN  runs' = [runs EXCEPT ![r].recorded = "failed", ![r].alive = @ /\ ~stopped]
  BY DEF CancelRun
<1> DEFINE r == op.saw[t].run
           x == [runs[r] EXCEPT !.recorded = "failed",
                                !.alive = @ /\ ~(runs[r].worker = op.by /\ runs[r].client)]
<1>2. r \in DOMAIN runs /\ runs[r] \in Run
  BY <1>0, <1>1 DEF CancelRun, TypeInv, References
<1>3. (runs[r].alive /\ ~(runs[r].worker = op.by /\ runs[r].client)) \in BOOLEAN
  BY <1>2 DEF Run
<1>4. x \in Run /\ x.worker = runs[r].worker
  BY <1>2, <1>3 DEF Run
<1>5. runs' = [runs EXCEPT ![r] = x]
  BY <1>1
<1> HIDE DEF x, r
<1>6. /\ runs' = [q \in DOMAIN runs |-> runs'[q]]
      /\ \A q \in DOMAIN runs : runs'[q] \in Run /\ runs'[q].worker = runs[q].worker
  BY <1>0, <1>2, <1>4, <1>5
<1>7. op' = [op EXCEPT !.what = "refresh"]
  BY DEF CancelRun
<1>8. /\ op' \in Request /\ op'.what = "refresh"
      /\ op'.rows = op.rows /\ op'.saw = op.saw
  BY <1>0, <1>7 DEF Request
<1>9. QED
  BY <1>6, <1>8 DEF CancelRun

(* What a request makes of a row it read.                                  *)
LEMMA AskedEffect ==
    ASSUME TypeInv, NEW t \in op.rows,
           op.what \in {"pause", "resume", "refresh", "resolve"}
    PROVE  /\ t \in Tasks /\ op.saw[t] \in Row /\ Asked(t) \in Row
           /\ Asked(t).status \in {"queued", "retry", "paused"}
           /\ Asked(t).run = op.saw[t].run \/ (Asked(t).run = NoRun /\ op.what = "resolve")
           /\ Asked(t).attempts <= op.saw[t].attempts
           /\ op.what \in {"pause", "resume"} => Asked(t).attempts = op.saw[t].attempts
           /\ op.what \notin {"pause", "resume"} =>
                 Asked(t).attempts = 0 \/ Asked(t).attempts < op.saw[t].attempts
<1> DEFINE loaded == op.saw[t]
           new == Asked(t)
<1>0. t \in Tasks /\ loaded \in Row /\ loaded.attempts \in Nat
  BY DEF TypeInv, TypeOK, Request, Row
<1>1. CASE op.what = "pause"
  <2>1. new = [loaded EXCEPT !.status = "paused"]
    BY <1>1 DEF Asked
  <2>2. QED
    BY <1>0, <1>1, <2>1 DEF Row, Statuses
<1>2. CASE op.what = "resume"
  <2>1. new = [loaded EXCEPT !.status = "queued"]
    BY <1>2 DEF Asked
  <2>2. QED
    BY <1>0, <1>2, <2>1 DEF Row, Statuses
<1>3. CASE op.what = "refresh"
  <2> DEFINE n == IF loaded.attempts = 0 THEN 0 ELSE loaded.attempts - 1
  <2>1. new = [loaded EXCEPT !.owner = NoWorker, !.lease = "none", !.status = "retry",
                             !.attempts = n]
    BY <1>0, <1>3 DEF Asked, Unlocked, Row
  <2>2. n \in Nat /\ n <= loaded.attempts /\ (n = 0 \/ n < loaded.attempts)
    BY <1>0
  <2> HIDE DEF n
  <2>3. QED
    BY <1>0, <1>3, <2>1, <2>2 DEF Row, Statuses
<1>4. CASE op.what = "resolve"
  <2> DEFINE run == IF op.turn THEN NoRun ELSE loaded.run
  <2>1. new = [loaded EXCEPT !.status = "queued", !.attempts = 0, !.run = run]
    BY <1>0, <1>4 DEF Asked, Row
  <2>2. run \in Nat \cup {NoRun} /\ run \in {loaded.run, NoRun}
    BY <1>0 DEF Row
  <2> HIDE DEF run, loaded, new
  <2>3. new \in Row /\ new.status = "queued" /\ new.attempts = 0 /\ new.run = run
    BY <1>0, <2>1, <2>2 DEF Row, Statuses
  <2>4. QED
    BY <1>0, <1>4, <2>2, <2>3 DEF loaded, new
<1>5. QED
  BY <1>1, <1>2, <1>3, <1>4

(* A request writes the columns it changes over the row as it is now.      *)
LEMMA CommitRow ==
    ASSUME TypeInv, CommitRequest, NEW t \in op.rows
    PROVE  /\ t \in Tasks /\ task'[t] \in Row
           /\ LET row == task[t]  loaded == op.saw[t]  new == Asked(t)
              IN  /\ task'[t].status = IF new.status = loaded.status THEN row.status ELSE new.status
                  /\ task'[t].run = IF new.run = loaded.run THEN row.run ELSE new.run
                  /\ task'[t].attempts =
                        IF new.attempts = loaded.attempts THEN row.attempts ELSE new.attempts
<1> DEFINE row == task[t]
           loaded == op.saw[t]
           new == Asked(t)
           flushed == Flush(row, loaded, new)
<1>1. t \in Tasks /\ row \in Row /\ loaded \in Row /\ new \in Row
  BY AskedEffect DEF CommitRequest, TypeInv, TypeOK
<1>2. task'[t] = [flushed EXCEPT !.due = @ \/ op.what # "pause"]
  BY <1>1 DEF CommitRequest
<1> HIDE DEF row, loaded, new
<1>3. /\ flushed \in Row
      /\ flushed.status = IF new.status = loaded.status THEN row.status ELSE new.status
      /\ flushed.run = IF new.run = loaded.run THEN row.run ELSE new.run
      /\ flushed.attempts = IF new.attempts = loaded.attempts THEN row.attempts ELSE new.attempts
  BY <1>1, FlushEffect
<1> HIDE DEF flushed
<1>4. (flushed.due \/ op.what # "pause") \in BOOLEAN
  OBVIOUS
<1>5. /\ task'[t] \in Row /\ task'[t].status = flushed.status
      /\ task'[t].run = flushed.run /\ task'[t].attempts = flushed.attempts
  BY <1>2, <1>3, <1>4 DEF Row
<1>6. QED
  BY <1>1, <1>3, <1>5 DEF row, loaded, new

(* ... and so keeps the types of the rows.                                 *)
LEMMA CommitTyped ==
    ASSUME TypeInv, CommitRequest
    PROVE  /\ task' \in [Tasks -> Row] /\ op' = NoRequest
           /\ UNCHANGED <<exc, runs, pc, sel, seen>>
           /\ used' \in [{"refresh", "resolve", "pause", "fault", "stale"} -> Nat]
           /\ used'["stale"] = IF Overtaken THEN used["stale"] + 1 ELSE used["stale"]
           /\ \A what \in {"refresh", "resolve", "pause", "fault"} : used'[what] = used[what]
           /\ \A t \in Tasks : t \notin op.rows => task'[t] = task[t]
           /\ \A t \in Tasks : task'[t].run \in {task[t].run, NoRun}
<1>0. /\ task \in [Tasks -> Row] /\ op.rows \subseteq Tasks
      /\ used \in [{"refresh", "resolve", "pause", "fault", "stale"} -> Nat]
  BY DEF TypeInv, TypeOK, Request
<1>1. /\ op' = NoRequest /\ UNCHANGED <<exc, runs, pc, sel, seen>>
      /\ op.what \in {"pause", "resume", "refresh", "resolve"}
      /\ \A t \in Tasks : t \notin op.rows => task'[t] = task[t]
      /\ task' = [t \in Tasks |-> task'[t]]
  BY DEF CommitRequest
<1>2. /\ used' \in [{"refresh", "resolve", "pause", "fault", "stale"} -> Nat]
      /\ used'["stale"] = IF Overtaken THEN used["stale"] + 1 ELSE used["stale"]
      /\ \A what \in {"refresh", "resolve", "pause", "fault"} : used'[what] = used[what]
  BY <1>0 DEF CommitRequest
<1>3. ASSUME NEW t \in op.rows PROVE task'[t] \in Row /\ task'[t].run \in {task[t].run, NoRun}
  BY <1>1, <1>3, CommitRow, AskedEffect
<1>4. \A t \in Tasks : task'[t] \in Row
  BY <1>0, <1>1, <1>3
<1>5. task' \in [Tasks -> Row]
  BY <1>1, <1>4
<1>6. QED
  BY <1>1, <1>2, <1>3, <1>5

(* No row is made to run or completed, and none counts more attempts.      *)
LEMMA CommitEffect ==
    ASSUME TypeInv, RequestTrue, CommitRequest, NEW t \in op.rows
    PROVE  /\ op.what # "resolve" => task'[t].run = task[t].run
           /\ task'[t].attempts <= task[t].attempts
           /\ task'[t].status = task[t].status \/ task'[t].status \in Waiting
           /\ ~Overtaken =>
                 /\ task[t].status \in Sought /\ task[t].status = op.saw[t].status
                 /\ task'[t].status \in Waiting
                 /\ op.what \in {"pause", "resume"} => task'[t].attempts = task[t].attempts
                 /\ op.what \notin {"pause", "resume"} =>
                       task'[t].attempts = 0 \/ task'[t].attempts < task[t].attempts
<1> DEFINE row == task[t]
           loaded == op.saw[t]
           new == Asked(t)
<1>1. /\ t \in Tasks /\ loaded \in Row /\ new \in Row
      /\ new.status \in {"queued", "retry", "paused"}
      /\ new.run = loaded.run \/ (new.run = NoRun /\ op.what = "resolve")
      /\ new.attempts <= loaded.attempts
      /\ op.what \in {"pause", "resume"} => new.attempts = loaded.attempts
      /\ op.what \notin {"pause", "resume"} =>
            new.attempts = 0 \/ new.attempts < loaded.attempts
  BY AskedEffect DEF CommitRequest
<1>2. row.attempts \in Nat /\ loaded.attempts \in Nat /\ new.attempts \in Nat
  BY <1>1 DEF TypeInv, TypeOK, Row
<1>3. /\ task'[t].status = IF new.status = loaded.status THEN row.status ELSE new.status
      /\ task'[t].run = IF new.run = loaded.run THEN row.run ELSE new.run
      /\ task'[t].attempts = IF new.attempts = loaded.attempts THEN row.attempts ELSE new.attempts
  BY CommitRow
<1>4. loaded.attempts <= row.attempts /\ loaded.status \in Sought
  BY DEF RequestTrue
<1>5. ~Overtaken => row.status = loaded.status /\ row.attempts = loaded.attempts
  BY DEF Overtaken
<1> HIDE DEF row, loaded, new
<1>6. /\ op.what # "resolve" => task'[t].run = row.run
      /\ task'[t].attempts <= row.attempts
      /\ task'[t].status = row.status \/ task'[t].status \in Waiting
  BY <1>1, <1>2, <1>3, <1>4 DEF Waiting
<1>7. ~Overtaken =>
         /\ row.status \in Sought /\ row.status = loaded.status
         /\ task'[t].status \in Waiting
         /\ op.what \in {"pause", "resume"} => task'[t].attempts = row.attempts
         /\ op.what \notin {"pause", "resume"} =>
               task'[t].attempts = 0 \/ task'[t].attempts < row.attempts
  BY <1>1, <1>2, <1>3, <1>4, <1>5 DEF Waiting
<1>8. QED
  BY <1>6, <1>7 DEF row, loaded

(* The steps that write a row relative to a worker's copy.                 *)
Saves(k, status) ==
    /\ Done(k, "idle") /\ UNCHANGED <<runs, op, used>>
    /\ task' \in [Tasks -> Row]
    /\ \A t \in Tasks : t # sel[k] => task'[t] = task[t]
    /\ task'[sel[k]].run = task[sel[k]].run
    /\ task'[sel[k]].attempts = task[sel[k]].attempts
    /\ task'[sel[k]].status = IF seen[k].status = status THEN task[sel[k]].status ELSE status

(* What a worker does to its row when it blocks, completes or fails it.    *)
LEMMA SavesEffect ==
    ASSUME TypeInv, NEW k \in Workers, Block(k) \/ Complete(k) \/ Fail(k)
    PROVE  /\ Block(k) => Saves(k, "blocked")
           /\ Complete(k) => Saves(k, "completed")
           /\ Fail(k) => Saves(k, IF seen[k].attempts < MaxAttempts THEN "retry" ELSE "blocked")
           /\ exc' \in [Tasks -> BOOLEAN]
<1>1. seen[k] \in Row
  BY DEF TypeInv, TypeOK
<1>2. ASSUME NEW status \in Statuses, Done(k, "idle"), UNCHANGED <<runs, op, used>>,
             Save(k, [Unlocked(seen[k]) EXCEPT !.status = status])
      PROVE  Saves(k, status)
  <2> DEFINE new == [Unlocked(seen[k]) EXCEPT !.status = status]
  <2>1. new \in Row /\ new.run = seen[k].run /\ new.attempts = seen[k].attempts
        /\ new.status = status
    BY <1>1, Restated
  <2> HIDE DEF new
  <2>2. Save(k, new)
    BY <1>2 DEF new
  <2>3. QED
    BY <1>2, <2>1, <2>2, SaveEffect DEF Saves
<1>3. Block(k) => Saves(k, "blocked")
  BY <1>2 DEF Block, Statuses
<1>4. Complete(k) => Saves(k, "completed")
  BY <1>2 DEF Complete, Statuses
<1>5. ASSUME Fail(k), seen[k].attempts < MaxAttempts PROVE Saves(k, "retry")
  <2> DEFINE new == [Unlocked(seen[k]) EXCEPT !.status = "retry", !.due = FALSE]
  <2>1. new \in Row /\ new.run = seen[k].run /\ new.attempts = seen[k].attempts
        /\ new.status = "retry"
    BY <1>1, Retried
  <2>2. Save(k, new)
    BY <1>5 DEF Fail
  <2> HIDE DEF new
  <2>3. QED
    BY <1>5, <2>1, <2>2, SaveEffect DEF Saves, Fail
<1>6. ASSUME Fail(k), ~(seen[k].attempts < MaxAttempts) PROVE Saves(k, "blocked")
  BY <1>2, <1>6 DEF Fail, Statuses
<1>7. exc' \in [Tasks -> BOOLEAN]
  BY DEF Block, Complete, Fail, TypeInv, TypeOK
<1>8. QED
  BY <1>3, <1>4, <1>5, <1>6, <1>7

(* What one step does to the runs other than to start one.                 *)
LEMMA RunsEffect ==
    ASSUME TypeInv, NEW f, f = [r \in DOMAIN runs |-> f[r]], runs' = f,
           \A r \in DOMAIN runs : f[r] \in Run /\ f[r].worker = runs[r].worker
    PROVE  /\ runs' \in Seq(Run) /\ DOMAIN runs' = DOMAIN runs
           /\ \A r \in DOMAIN runs : runs'[r].worker = runs[r].worker
BY RunsKept DEF TypeInv, TypeOK

(* Every step keeps the types of the tables and what refers to a run.      *)
LEMMA TypeNext == TypeInv /\ [Next]_vars => TypeInv'
<1> SUFFICES ASSUME TypeInv, [Next]_vars PROVE TypeInv'
  OBVIOUS
<1>0. /\ task \in [Tasks -> Row] /\ exc \in [Tasks -> BOOLEAN] /\ runs \in Seq(Run)
      /\ pc \in [Workers -> Steps] /\ sel \in [Workers -> Tasks]
      /\ seen \in [Workers -> Row]
      /\ used \in [{"refresh", "resolve", "pause", "fault", "stale"} -> Nat]
      /\ op \in Request
      /\ op.what = "cancel" => \A t \in op.rows : op.saw[t].run \in DOMAIN runs
      /\ \A r \in DOMAIN runs : runs[r] \in Run
      /\ DOMAIN runs \subseteq Nat /\ NoRun \notin Nat
      /\ \A t \in Tasks : task[t].run \in DOMAIN runs \cup {NoRun}
      /\ \A k \in Workers : seen[k].run \in DOMAIN runs \cup {NoRun}
      /\ \A k \in Workers : pc[k] = "reconcile" => seen[k].run # NoRun
  BY LenProperties, WorkflowAssumption DEF TypeInv, TypeOK, References
<1>1. ASSUME NEW k \in Workers, Start(k) PROVE TypeInv'
  <2>1. UNCHANGED <<task, exc, runs, sel, seen, op, used>> /\ Goto(k, "idle")
    BY <1>1 DEF Start
  <2>2. QED
    BY <1>0, <2>1, GotoTyped, ReferencesKept DEF TypeInv, TypeOK, Steps
<1>2. ASSUME NEW k \in Workers, Select(k) PROVE TypeInv'
  <2>1. PICK t \in Candidates(k) :
           /\ sel' = [sel EXCEPT ![k] = t]
           /\ Goto(k, IF task[t].status = "running" THEN "reclaim" ELSE "claim")
    BY <1>2 DEF Select
  <2>2. t \in Tasks
    BY DEF Candidates, Targets, Launchable, Reclaimable, Running
  <2>3. UNCHANGED <<task, exc, runs, seen, op, used>>
    BY <1>2 DEF Select
  <2>4. \E step \in {"reclaim", "claim"} : Goto(k, step)
    BY <2>1
  <2>5. QED
    BY <1>0, <2>1, <2>2, <2>3, <2>4, GotoTyped, ReferencesKept DEF TypeInv, TypeOK, Steps
<1>3. ASSUME NEW k \in Workers, Claim(k) PROVE TypeInv'
  <2>1. CASE sel[k] \in Launchable
    <3>1. /\ \A t \in Tasks : task'[t].run = task[t].run
          /\ task' \in [Tasks -> Row] /\ UNCHANGED <<exc, runs, sel, seen, op, used>>
          /\ Goto(k, "load_claimed")
      BY <1>3, <2>1, ClaimEffect
    <3>2. /\ pc' \in [Workers -> Steps] /\ pc'[k] = "load_claimed"
          /\ \A j \in Workers : j # k => pc'[j] = pc[j]
      BY <3>1, GotoTyped DEF Steps
    <3>3. QED
      BY <1>0, <3>1, <3>2, ReferencesKept DEF TypeInv, TypeOK
  <2>2. CASE sel[k] \notin Launchable
    <3>1. Done(k, "idle") /\ UNCHANGED <<task, exc, runs, op, used>>
      BY <1>3, <2>2 DEF Claim
    <3>2. QED
      BY <1>0, <3>1, DoneTyped, ReferencesKept DEF TypeInv, TypeOK
  <2>3. QED
    BY <2>1, <2>2
<1>4. ASSUME NEW k \in Workers, Reclaim(k) PROVE TypeInv'
  <2>1. task' \in [Tasks -> Row] /\ \A t \in Tasks : task'[t].run = task[t].run
    BY <1>4, ReclaimEffect DEF Same
  <2>2. UNCHANGED <<exc, runs, op, used>>
    BY <1>4 DEF Reclaim
  <2>3. CASE Goto(k, "load_reclaimed") /\ UNCHANGED <<sel, seen>>
    BY <1>0, <2>1, <2>2, <2>3, GotoTyped, ReferencesKept DEF TypeInv, TypeOK, Steps
  <2>4. CASE Done(k, "idle")
    BY <1>0, <2>1, <2>2, <2>4, DoneTyped, ReferencesKept DEF TypeInv, TypeOK
  <2>5. QED
    BY <1>4, <2>3, <2>4 DEF Reclaim
<1>5. ASSUME NEW k \in Workers, Load(k) PROVE TypeInv'
  <2>1. UNCHANGED <<task, exc, runs, op, used>>
    BY <1>5 DEF Load
  <2>2. CASE Done(k, "idle")
    BY <1>0, <2>1, <2>2, DoneTyped, ReferencesKept DEF TypeInv, TypeOK
  <2>3. ASSUME NEW step \in {"launch", "block", "reconcile"}, LoadInto(k, step),
               step = "reconcile" => Current(k).run # NoRun
        PROVE  TypeInv'
    <3>1. /\ seen' \in [Workers -> Row] /\ Goto(k, step) /\ sel' = sel
          /\ seen'[k] = task[sel[k]] /\ \A j \in Workers : j # k => seen'[j] = seen[j]
      BY <1>0, <2>3 DEF LoadInto, Current
    <3>2. /\ pc' \in [Workers -> Steps] /\ pc'[k] = step
          /\ \A j \in Workers : j # k => pc'[j] = pc[j]
      BY <3>1, GotoTyped DEF Steps
    <3>3. /\ \A j \in Workers : seen'[j].run \in DOMAIN runs \cup {NoRun}
          /\ \A j \in Workers : pc'[j] = "reconcile" => seen'[j].run # NoRun
          /\ \A j \in Workers : pc'[j] = "record" => pc[j] = "record"
      BY <1>0, <2>3, <3>1, <3>2 DEF Current
    <3>4. QED
      BY <1>0, <2>1, <3>1, <3>2, <3>3, ReferencesKept DEF TypeInv, TypeOK
  <2>4. QED
    BY <1>5, <2>2, <2>3 DEF Load
<1>6. ASSUME NEW k \in Workers, Block(k) \/ Complete(k) \/ Fail(k) PROVE TypeInv'
  <2>1. /\ task' \in [Tasks -> Row] /\ \A t \in Tasks : task'[t].run = task[t].run
        /\ Done(k, "idle") /\ UNCHANGED <<runs, op, used>> /\ exc' \in [Tasks -> BOOLEAN]
    BY <1>6, SavesEffect DEF Saves
  <2>2. QED
    BY <1>0, <2>1, DoneTyped, ReferencesKept DEF TypeInv, TypeOK
<1>7. ASSUME NEW k \in Workers, LaunchAgent(k) PROVE TypeInv'
  <2>0. UNCHANGED <<task, exc, sel, op, used>>
    BY <1>7 DEF LaunchAgent
  <2>1. CASE Goto(k, "record")
    <3> DEFINE x == [task |-> sel[k], worker |-> k, client |-> FALSE,
                     alive |-> TRUE, recorded |-> "running"]
    <3>1. runs' = Append(runs, x) /\ seen' = [seen EXCEPT ![k] = Current(k)]
      BY <1>0, <1>7, <2>1 DEF LaunchAgent, Goto
    <3>2. x \in Run
      BY <1>0 DEF Run
    <3>3. x.worker = k
      OBVIOUS
    <3> HIDE DEF x
    <3>4. /\ runs' \in Seq(Run) /\ DOMAIN runs' = DOMAIN runs \cup {Len(runs) + 1}
          /\ \A r \in DOMAIN runs : runs'[r] = runs[r]
          /\ runs'[Len(runs) + 1] = x
          /\ \A r \in DOMAIN runs : r <= Len(runs) /\ r \in Nat
          /\ Len(runs) \in Nat
      BY <1>0, <3>1, <3>2, RunAdded, LenProperties
    <3>5. PICK n \in DOMAIN runs' : n = Len(runs) + 1
      BY <3>4
    <3>12. IsLastRun(k, n)'
      <4>1. \A s \in DOMAIN runs' : s <= n
        BY <3>4, <3>5
      <4>2. QED
        BY <3>3, <3>4, <3>5, <4>1 DEF IsLastRun
    <3>6. ASSUME NEW j \in Workers, j # k, NEW r \in DOMAIN runs, IsLastRun(j, r)
          PROVE  IsLastRun(j, r)'
      BY <3>3, <3>4, <3>6 DEF IsLastRun
    <3>7. pc' \in [Workers -> Steps] /\ \A j \in Workers : j # k => pc'[j] = pc[j]
      BY <2>1, GotoTyped DEF Steps
    <3>8. \A j \in Workers : pc'[j] = "record" => \E r \in DOMAIN runs' : IsLastRun(j, r)'
      <4> TAKE j \in Workers
      <4>1. CASE j = k
        BY <3>5, <3>12, <4>1
      <4>2. CASE j # k
        BY <3>4, <3>6, <3>7, <4>2 DEF TypeInv, References
      <4>3. QED
        BY <4>1, <4>2
    <3>9. /\ seen' \in [Workers -> Row] /\ seen'[k] = task[sel[k]]
          /\ \A j \in Workers : j # k => seen'[j] = seen[j]
      BY <1>0, <3>1 DEF Current
    <3>10. \A j \in Workers : pc'[j] = "reconcile" => seen'[j].run # NoRun
      BY <1>0, <2>1, <3>7, <3>9 DEF Goto
    <3>11. QED
      BY <1>0, <2>0, <3>4, <3>7, <3>8, <3>9, <3>10 DEF TypeInv, TypeOK, References
  <2>2. ASSUME Goto(k, "fail"), runs' = runs, NEW row \in {seen[k], Current(k)},
               seen' = [seen EXCEPT ![k] = row]
        PROVE  TypeInv'
    <3>1. row \in Row /\ row.run \in DOMAIN runs \cup {NoRun}
      BY <1>0 DEF Current
    <3>2. /\ seen' \in [Workers -> Row] /\ seen'[k] = row
          /\ \A j \in Workers : j # k => seen'[j] = seen[j]
      BY <1>0, <2>2, <3>1
    <3>3. QED
      BY <1>0, <2>0, <2>2, <3>1, <3>2, GotoTyped, ReferencesKept DEF TypeInv, TypeOK, Steps
  <2>3. QED
    BY <1>7, <2>1, <2>2 DEF LaunchAgent
<1>8. ASSUME NEW k \in Workers, SendApplication(k) \/ ReconcileFails(k) PROVE TypeInv'
  <2>1. \E step \in {"complete", "fail"} : Goto(k, step)
    BY <1>8 DEF SendApplication, ReconcileFails
  <2>2. /\ UNCHANGED <<task, exc, runs, sel, seen, op>>
        /\ used' \in [{"refresh", "resolve", "pause", "fault", "stale"} -> Nat]
    BY <1>0, <1>8, SpendEffect DEF SendApplication, ReconcileFails
  <2>3. QED
    BY <1>0, <2>1, <2>2, GotoTyped, ReferencesKept DEF TypeInv, TypeOK, Steps
<1>9. ASSUME NEW k \in Workers, RecordRun(k) PROVE TypeInv'
  <2>1. Done(k, "idle") /\ UNCHANGED <<exc, runs, op, used>>
    BY <1>9 DEF RecordRun
  <2>2. \A t \in Tasks : task'[t].run \in DOMAIN runs \cup {NoRun}
    BY <1>0, <1>9, RecordEffect
  <2>3. QED
    BY <1>0, <1>9, <2>1, <2>2, RecordEffect, DoneTyped, ReferencesKept DEF TypeInv, TypeOK
<1>10. ASSUME NEW k \in Workers, StatementFails(k) \/ Renew(k) PROVE TypeInv'
  <2>1. Done(k, "idle") /\ UNCHANGED <<exc, runs, op>>
    BY <1>10 DEF StatementFails, Renew
  <2>2. task' \in [Tasks -> Row] /\ \A t \in Tasks : task'[t].run = task[t].run
    <3>1. CASE StatementFails(k)
      BY <1>0, <3>1 DEF StatementFails
    <3>2. CASE Renew(k)
      BY <3>2, RenewEffect DEF Same
    <3>3. QED
      BY <1>10, <3>1, <3>2
  <2>3. used' \in [{"refresh", "resolve", "pause", "fault", "stale"} -> Nat]
    BY <1>0, <1>10, SpendEffect DEF StatementFails, Renew
  <2>4. QED
    BY <1>0, <2>1, <2>2, <2>3, DoneTyped, ReferencesKept DEF TypeInv, TypeOK
<1>11. ASSUME NEW k \in Workers, Reconcile(k) PROVE TypeInv'
  <2> DEFINE r == seen[k].run
  <2>1. r \in DOMAIN runs
    BY <1>0, <1>11 DEF Reconcile
  <2>2. runs' \in Seq(Run) /\ DOMAIN runs' = DOMAIN runs
        /\ \A q \in DOMAIN runs : runs'[q].worker = runs[q].worker
    <3>1. CASE runs' = runs
      BY <1>0, <3>1
    <3>2. CASE runs' = [runs EXCEPT ![r].recorded = "failed"]
      <4>1. /\ runs' = [q \in DOMAIN runs |-> runs'[q]]
            /\ \A q \in DOMAIN runs : runs'[q] \in Run /\ runs'[q].worker = runs[q].worker
        BY <2>1, <3>2, <1>0 DEF Run
      <4>2. QED
        BY <4>1, RunsEffect
    <3>3. QED
      BY <1>11, <3>1, <3>2 DEF Reconcile
  <2>3. \E step \in {"renew", "complete", "fail", "block"} : Goto(k, step)
    <3>1. runs[r].recorded \in {"running", "failed", "imported"}
      BY <1>0, <2>1 DEF Run
    <3>2. QED
      BY <1>11, <3>1 DEF Reconcile
  <2>4. UNCHANGED <<task, exc, sel, seen, op, used>>
    BY <1>11 DEF Reconcile
  <2>5. QED
    BY <1>0, <2>2, <2>3, <2>4, GotoTyped, ReferencesKept DEF TypeInv, TypeOK, Steps
<1>12. ASSUME NEW r \in DOMAIN runs, AgentOpens(r) \/ AgentEnds(r) PROVE TypeInv'
  <2>1. /\ runs' = [q \in DOMAIN runs |-> runs'[q]]
        /\ \A q \in DOMAIN runs : runs'[q] \in Run /\ runs'[q].worker = runs[q].worker
    <3>1. runs[r] \in Run
      BY <1>0
    <3>2. CASE AgentOpens(r)
      BY <1>0, <3>1, <3>2 DEF AgentOpens, Run
    <3>3. ASSUME NEW outcome \in {"imported", "failed"},
                 runs' = [runs EXCEPT ![r].recorded = outcome, ![r].alive = FALSE]
          PROVE  <2>1!1 /\ <2>1!2
      <4>1. [runs[r] EXCEPT !.recorded = outcome, !.alive = FALSE] \in Run
        BY <3>1 DEF Run
      <4>2. [runs[r] EXCEPT !.recorded = outcome, !.alive = FALSE].worker = runs[r].worker
        BY <3>1 DEF Run
      <4>3. runs' = [runs EXCEPT ![r] = [runs[r] EXCEPT !.recorded = outcome, !.alive = FALSE]]
        BY <3>3
      <4>4. QED
        BY <1>0, <4>1, <4>2, <4>3
    <3>4. QED
      BY <1>12, <3>2, <3>3 DEF AgentEnds
  <2>2. runs' \in Seq(Run) /\ DOMAIN runs' = DOMAIN runs
    BY <2>1, RunsEffect
  <2>3. UNCHANGED <<task, exc, pc, sel, seen, op, used>>
    BY <1>12 DEF AgentOpens, AgentEnds
  <2>4. QED
    BY <1>0, <2>1, <2>2, <2>3, ReferencesKept DEF TypeInv, TypeOK
<1>13. ASSUME NEW k \in Workers, Crash(k) PROVE TypeInv'
  <2>1. /\ runs' = [q \in DOMAIN runs |-> runs'[q]]
        /\ \A q \in DOMAIN runs : runs'[q] \in Run /\ runs'[q].worker = runs[q].worker
    BY <1>13, <1>0 DEF Crash, Run
  <2>2. runs' \in Seq(Run) /\ DOMAIN runs' = DOMAIN runs
    BY <2>1, RunsEffect
  <2>3. Done(k, "dead") /\ UNCHANGED <<task, exc, used>> /\ op' \in {op, NoRequest}
    BY <1>13 DEF Crash
  <2>4. QED
    BY <1>0, <2>1, <2>2, <2>3, NoRequestTyped, DoneTyped, ReferencesKept DEF TypeInv, TypeOK
<1>14. ASSUME NEW t \in Tasks, Enqueue(t) PROVE TypeInv'
  <2>1. /\ task' = [task EXCEPT ![t] = [NewRow EXCEPT !.status = "queued", !.due = TRUE]]
        /\ UNCHANGED <<exc, runs, pc, sel, seen, op, used>>
    BY <1>14 DEF Enqueue
  <2>2. task' \in [Tasks -> Row] /\ \A u \in Tasks : task'[u].run \in DOMAIN runs \cup {NoRun}
    BY <2>1, NewRowTyped, RowPut
  <2>3. QED
    BY <1>0, <2>1, <2>2, ReferencesKept DEF TypeInv, TypeOK
<1>15. ASSUME NEW t \in Tasks, LeaseExpires(t) \/ BackoffElapses(t) PROVE TypeInv'
  <2>1. UNCHANGED <<exc, runs, pc, sel, seen, op, used>>
    BY <1>15 DEF LeaseExpires, BackoffElapses
  <2>2. QED
    BY <1>0, <1>15, <2>1, TimeEffect, ReferencesKept DEF TypeInv, TypeOK, Same
<1>16. ASSUME NEW k \in Workers, NEW t \in Tasks, Asks(k, t) PROVE TypeInv'
  <2>1. /\ op' \in Request /\ UNCHANGED <<task, exc, runs, pc, sel, seen>>
        /\ used' \in [{"refresh", "resolve", "pause", "fault", "stale"} -> Nat]
        /\ op'.rows \subseteq Tasks
        /\ \A u \in op'.rows : op'.saw[u] = task[u]
        /\ op'.what = "cancel" => \A u \in op'.rows : op'.saw[u].run # NoRun
    BY <1>16, AsksEffect DEF Request
  <2>2. op'.what = "cancel" => \A u \in op'.rows : op'.saw[u].run \in DOMAIN runs
    BY <1>0, <2>1
  <2>3. QED
    BY <1>0, <2>1, <2>2 DEF TypeInv, TypeOK, References, IsLastRun
<1>17. CASE CancelRun
  <2>1. runs' \in Seq(Run) /\ DOMAIN runs' = DOMAIN runs
    BY <1>17, CancelEffect, RunsEffect
  <2>2. QED
    BY <1>0, <1>17, <2>1, CancelEffect, ReferencesKept DEF TypeInv, TypeOK
<1>18. CASE CommitRequest
  <2>1. UNCHANGED <<exc, runs, pc, sel, seen>> /\ op' = NoRequest
    BY <1>18 DEF CommitRequest
  <2>2. /\ task' \in [Tasks -> Row]
        /\ used' \in [{"refresh", "resolve", "pause", "fault", "stale"} -> Nat]
        /\ \A u \in Tasks : task'[u].run \in DOMAIN runs \cup {NoRun}
    BY <1>0, <1>18, CommitTyped
  <2>3. QED
    BY <1>0, <2>1, <2>2, NoRequestTyped, ReferencesKept DEF TypeInv, TypeOK
<1>19. CASE DropRequest
  BY <1>0, <1>19, NoRequestTyped, ReferencesKept DEF DropRequest, TypeInv, TypeOK
<1>20. ASSUME NEW k \in Workers, AskPause(k) \/ AskResume(k) PROVE TypeInv'
  <2>1. AnyTask \in Tasks
    BY WorkflowAssumption DEF AnyTask
  <2>2. QED
    BY <1>16, <1>20, <2>1 DEF Asks
<1>21. ASSUME NEW k \in Workers, NEW t \in Tasks, AskRefresh(k, t) \/ AskResolve(k, t)
       PROVE  TypeInv'
  BY <1>16, <1>21 DEF Asks
<1>22. CASE UNCHANGED vars
  BY <1>0, <1>22, ReferencesKept DEF vars, TypeInv, TypeOK
<1>23. QED
  BY <1>1, <1>2, <1>3, <1>4, <1>5, <1>6, <1>7, <1>8, <1>9, <1>10, <1>11, <1>12, <1>13,
     <1>14, <1>15, <1>17, <1>18, <1>22, <1>19, <1>20, <1>21 DEF Next, WorkerStep
(* The initial state has the types.                                        *)
LEMMA TypeInit == Init => TypeInv
<1> SUFFICES ASSUME Init PROVE TypeInv
  OBVIOUS
<1>0. AnyTask \in Tasks
  BY WorkflowAssumption DEF AnyTask
<1>1. runs \in Seq(Run) /\ DOMAIN runs = {}
  BY EmptySeq DEF Init
<1>2. sel \in [Workers -> Tasks]
  BY <1>0 DEF Init
<1>3. QED
  BY <1>1, <1>2, NewRowTyped, NoRequestTyped DEF Init, TypeInv, TypeOK, References, Steps
-----------------------------------------------------------------------------
(* No step takes back what is used, and each use is counted.               *)
LEMMA UsedGrows ==
    ASSUME TypeInv, [Next]_vars
    PROVE  /\ used' \in [{"refresh", "resolve", "pause", "fault", "stale"} -> Nat]
           /\ \A what \in {"refresh", "resolve", "pause", "fault", "stale"} :
                 used[what] \in Nat /\ used[what] <= used'[what]
           /\ \A k \in Workers :
                 StatementFails(k) \/ ReconcileFails(k) => used'["fault"] = used["fault"] + 1
           /\ CommitRequest /\ Overtaken => used'["stale"] = used["stale"] + 1
<1>0. /\ used \in [{"refresh", "resolve", "pause", "fault", "stale"} -> Nat]
      /\ used' \in [{"refresh", "resolve", "pause", "fault", "stale"} -> Nat]
  BY TypeNext DEF TypeInv, TypeOK
<1> DEFINE Grows == \A what \in {"refresh", "resolve", "pause", "fault", "stale"} :
                       used[what] <= used'[what]
<1>1. UNCHANGED used => Grows
  BY <1>0
<1>2. ASSUME NEW what \in {"refresh", "resolve", "pause", "fault", "stale"}, NEW bound,
             Spend(what, bound)
      PROVE  Grows /\ used'[what] = used[what] + 1
  BY <1>0, <1>2, SpendEffect
<1>3. \A k \in Workers : StatementFails(k) \/ ReconcileFails(k) =>
         Grows /\ used'["fault"] = used["fault"] + 1
  BY <1>2 DEF ReconcileFails, StatementFails
<1>4. CommitRequest => Grows /\ (Overtaken => used'["stale"] = used["stale"] + 1)
  BY <1>0, CommitTyped
<1>5. ASSUME NEW k \in Workers, Start(k) \/ WorkerStep(k) \/ Crash(k) PROVE UNCHANGED used
  BY <1>5 DEF Start, WorkerStep, Select, Claim, Reclaim, Load, Block, LaunchAgent,
              SendApplication, RecordRun, Reconcile, Renew, Complete, Fail, Crash
<1>6. ASSUME NEW r \in DOMAIN runs, AgentOpens(r) \/ AgentEnds(r) PROVE UNCHANGED used
  BY <1>6 DEF AgentOpens, AgentEnds
<1>7. ASSUME NEW t \in Tasks, Enqueue(t) \/ LeaseExpires(t) \/ BackoffElapses(t)
      PROVE  UNCHANGED used
  BY <1>7 DEF Enqueue, LeaseExpires, BackoffElapses
<1>8. CancelRun \/ DropRequest => UNCHANGED used
  BY DEF CancelRun, DropRequest
<1>9. UNCHANGED vars => UNCHANGED used
  BY DEF vars
<1>10. ASSUME NEW k \in Workers, AskPause(k) PROVE Grows
  BY <1>2, <1>10 DEF AskPause
<1>11. ASSUME NEW k \in Workers, AskResume(k) PROVE UNCHANGED used
  BY <1>11 DEF AskResume
<1>12. ASSUME NEW k \in Workers, NEW t \in Tasks, AskRefresh(k, t) \/ AskResolve(k, t)
       PROVE  Grows
  BY <1>2, <1>12 DEF AskRefresh, AskResolve
<1>13. Grows
  BY <1>1, <1>3, <1>4, <1>5, <1>6, <1>7, <1>8, <1>9, <1>10, <1>11, <1>12 DEF Next
<1>14. QED
  BY <1>0, <1>3, <1>4, <1>13

(* One process at a time: what a step may do to the queue.  The rows count *)
(* no more attempts, nothing starts to run, and a worker goes on with its  *)
(* task only while the task is not completed.                              *)
Calm(t) ==
    /\ task'[t].attempts <= task[t].attempts
    /\ task'[t].status \in Waiting => task'[t].attempts < Ceiling'
    /\ task'[t].status = "running" => task[t].status = "running"

GoesOn(k) ==
    /\ pc'[k] = "claim" => pc[k] = "claim" /\ sel'[k] = sel[k]
    /\ pc'[k] \in Working => sel'[k] = sel[k] /\ task'[sel[k]].status # "completed"
    /\ pc'[k] \in Holding => \/ pc[k] \in Holding /\ seen'[k] = seen[k]
                             \/ seen'[k].attempts = task[sel[k]].attempts
    /\ pc[k] \in {"off", "dead"} => pc'[k] \in {"off", "dead"}

(* Where nothing starts to run, the fan-out stays bounded and the room a   *)
(* worker has seen stays free.                                             *)
LEMMA FewerRun ==
    ASSUME FanOutBounded, RoomLeft, task' \in [Tasks -> Row],
           \A t \in Tasks : task'[t].status = "running" => task[t].status = "running",
           \A k \in Workers : pc'[k] = "claim" => pc[k] = "claim" /\ sel'[k] = sel[k]
    PROVE  FanOutBounded' /\ RoomLeft'
<1>1. Running' \subseteq Running
  BY DEF Running
<1>2. /\ Targets(Running)' \subseteq Targets(Running)
      /\ (Running \ Targets(Running))' \subseteq Running \ Targets(Running)
  BY <1>1 DEF Targets
<1>3. IsFiniteSet(Running)
  BY FS_Subset, WorkflowAssumption DEF Running
<1>4. /\ IsFiniteSet(Targets(Running)) /\ IsFiniteSet(Running \ Targets(Running))
  BY <1>3, FS_Subset DEF Targets
<1>5. /\ Cardinality(Targets(Running)') <= Cardinality(Targets(Running))
      /\ Cardinality((Running \ Targets(Running))') <= Cardinality(Running \ Targets(Running))
      /\ Cardinality(Running') <= Cardinality(Running)
      /\ Cardinality(Targets(Running)) \in Nat /\ Cardinality(Running) \in Nat
      /\ Cardinality(Running \ Targets(Running)) \in Nat
      /\ Cardinality(Targets(Running)') \in Nat /\ Cardinality(Running') \in Nat
      /\ Cardinality((Running \ Targets(Running))') \in Nat
  BY <1>1, <1>2, <1>3, <1>4, FS_Subset, FS_CardinalityType
<1>6. TargetConcurrency \in Nat
  BY WorkflowAssumption
<1>7. Targets(Running) = {} \/ Running = Targets(Running)
      => Targets(Running)' = {} \/ Running' = Targets(Running)'
  BY <1>1, <1>2 DEF Targets
<1>8. FanOutBounded'
  BY <1>5, <1>6, <1>7 DEF FanOutBounded
<1>9. ASSUME NEW t, Room(t) PROVE Room(t)'
  BY <1>1, <1>5, <1>6, <1>9 DEF Room, Targets
<1>10. RoomLeft'
  BY <1>9 DEF RoomLeft, Room
<1>11. QED
  BY <1>8, <1>10

LEMMA CeilingTyped ==
    /\ TypeInv => Ceiling \in Nat /\ MaxAttempts <= Ceiling
    /\ TypeInv' => Ceiling' \in Nat
BY WorkflowAssumption DEF Ceiling, TypeInv, TypeOK

(* A calm step keeps the queue sound.                                      *)
LEMMA CalmStep ==
    ASSUME QueueInv, TypeInv', Ceiling <= Ceiling', \A t \in Tasks : Calm(t), \A k \in Workers : GoesOn(k)
    PROVE  Orderly'
<1>1. FanOutBounded' /\ RoomLeft'
  BY FewerRun DEF QueueInv, Orderly, TypeInv, TypeOK, Calm, GoesOn
<1>2. Alone'
  BY DEF QueueInv, Orderly, Alone, Up, GoesOn
<1>3. NotCompleted'
  BY DEF NotCompleted, GoesOn
<1>4. AttemptsCounted'
  <2>0. /\ Ceiling \in Nat /\ Ceiling' \in Nat
        /\ \A t \in Tasks : task[t].attempts \in Nat /\ task'[t].attempts \in Nat
        /\ \A k \in Workers : seen[k].attempts \in Nat /\ seen'[k].attempts \in Nat
        /\ \A k \in Workers : sel[k] \in Tasks
    <3>1. Ceiling \in Nat /\ Ceiling' \in Nat
      BY CeilingTyped DEF QueueInv, Orderly
    <3>2. QED
      BY <3>1 DEF QueueInv, Orderly, TypeInv, TypeOK, Row
  <2>1. \A t \in Tasks : task'[t].attempts <= Ceiling'
    BY <2>0 DEF QueueInv, Orderly, AttemptsCounted, Calm
  <2>2. ASSUME NEW k \in Workers, pc'[k] \in Holding
        PROVE  task'[sel'[k]].attempts <= seen'[k].attempts
    <3>1. sel'[k] = sel[k]
      BY <2>2 DEF GoesOn, Working
    <3>2. task[sel[k]].attempts <= seen'[k].attempts
      BY <2>0, <2>2 DEF GoesOn, QueueInv, Orderly, AttemptsCounted
    <3>3. QED
      BY <2>0, <3>1, <3>2 DEF Calm
  <2>3. QED
    BY <2>1, <2>2 DEF AttemptsCounted, Calm
<1>5. QED
  BY <1>1, <1>2, <1>3, <1>4 DEF QueueInv, Orderly
(* ... of a worker, beside which no other is up.                           *)
LEMMA WorkerCalm ==
    ASSUME QueueInv, TypeInv', Ceiling <= Ceiling', NEW k \in Workers, Up(k),
           \A j \in Workers : j # k => pc'[j] = pc[j],
           \A t \in Tasks : Calm(t), GoesOn(k)
    PROVE  Orderly'
<1>1. \A j \in Workers : j # k => pc[j] \in {"off", "dead"}
  BY DEF QueueInv, Orderly, Alone, Up
<1>2. \A j \in Workers : GoesOn(j)
  BY <1>1 DEF GoesOn, Working, Holding
<1>3. QED
  BY <1>2, CalmStep

(* ... of anybody else.                                                    *)
LEMMA RequestCalm ==
    ASSUME QueueInv, TypeInv', Ceiling <= Ceiling', UNCHANGED <<pc, sel, seen>>,
           \A t \in Tasks : Calm(t),
           \A t \in Tasks : task'[t].status = "completed" => task[t].status = "completed"
    PROVE  Orderly'
<1>1. \A k \in Workers : GoesOn(k)
  BY DEF QueueInv, Orderly, NotCompleted, GoesOn, TypeInv, TypeOK
<1>2. QED
  BY <1>1, CalmStep

(* A row that keeps its status and its attempts is calm.                   *)
LEMMA SameCalm ==
    ASSUME QueueInv, TypeInv', Ceiling <= Ceiling', \A t \in Tasks : Same(t)
    PROVE  \A t \in Tasks : Calm(t)
<1>1. /\ \A t \in Tasks : task[t].attempts \in Nat
      /\ Ceiling \in Nat /\ Ceiling' \in Nat
  BY CeilingTyped DEF QueueInv, Orderly, TypeInv, TypeOK, Row
<1>2. QED
  BY <1>1 DEF QueueInv, Orderly, AttemptsCounted, Same, Calm

(* Every step of a queue that one process works on keeps it sound.         *)
LEMMA OrderlyNext == ~Concurrent => (QueueInv /\ [Next]_vars => Orderly')
<1> SUFFICES ASSUME ~Concurrent, QueueInv, [Next]_vars PROVE Orderly'
  OBVIOUS
<1>t. TypeInv /\ TypeInv'
  BY TypeNext DEF QueueInv, Orderly
<1>c. Ceiling \in Nat /\ Ceiling' \in Nat /\ Ceiling <= Ceiling'
  BY <1>t, UsedGrows, WorkflowAssumption DEF Ceiling
<1>0. /\ task \in [Tasks -> Row] /\ pc \in [Workers -> Steps]
      /\ sel \in [Workers -> Tasks] /\ seen \in [Workers -> Row]
      /\ \A t \in Tasks : task[t].attempts \in Nat
      /\ MaxAttempts \in Nat \ {0} /\ MaxAttempts <= Ceiling
  BY <1>t, CeilingTyped, WorkflowAssumption DEF TypeInv, TypeOK, Row
<1>d. ASSUME NEW k \in Workers, Up(k), NEW step \in {"idle", "dead"}, Done(k, step),
             \A t \in Tasks : Calm(t)
      PROVE  Orderly'
  <2>1. GoesOn(k)
    BY <1>t, <1>c, <1>d, DoneTyped DEF GoesOn, Working, Holding, Up
  <2>2. QED
    BY <1>t, <1>c, <1>d, <2>1, DoneTyped, WorkerCalm
<1>u. ASSUME UNCHANGED task PROVE \A t \in Tasks : Calm(t)
  BY <1>t, <1>c, <1>u, SameCalm DEF Same
<1>1. ASSUME NEW k \in Workers, Start(k) PROVE Orderly'
  <2>1. UNCHANGED <<task, exc, runs, sel, seen, op, used>> /\ Goto(k, "idle")
        /\ \A j \in Workers : ~Up(j)
    BY <1>1 DEF Start
  <2>2. /\ pc'[k] = "idle" /\ \A j \in Workers : j # k => pc'[j] = pc[j]
    BY <1>t, <1>c, <2>1, GotoTyped DEF Steps
  <2>3. \A j \in Workers : pc'[j] \in {"off", "dead", "idle"}
    BY <2>1, <2>2 DEF Up
  <2>4. FanOutBounded' /\ RoomLeft'
    BY <1>0, <2>1, <2>3, FewerRun DEF QueueInv, Orderly
  <2>5. Alone'
    BY <2>1, <2>2 DEF Alone, Up
  <2>6. NotCompleted' /\ AttemptsCounted'
    BY <1>0, <1>c, <2>1, <2>3
       DEF Ceiling, NotCompleted, AttemptsCounted, QueueInv, Orderly, Working, Holding
  <2>7. QED
    BY <1>t, <1>c, <2>4, <2>5, <2>6 DEF QueueInv, Orderly
<1>2. ASSUME NEW k \in Workers, Select(k) PROVE Orderly'
  <2>1. PICK t \in Candidates(k) :
           /\ sel' = [sel EXCEPT ![k] = t]
           /\ Goto(k, IF task[t].status = "running" THEN "reclaim" ELSE "claim")
    BY <1>2 DEF Select
  <2>2. t \in Tasks
    BY DEF Candidates, Targets, Launchable, Reclaimable, Running
  <2>3. UNCHANGED <<task, exc, runs, seen, op, used>> /\ pc[k] = "idle"
    BY <1>2 DEF Select
  <2>4. /\ pc'[k] = IF task[t].status = "running" THEN "reclaim" ELSE "claim"
        /\ \A j \in Workers : j # k => pc'[j] = pc[j]
    BY <1>0, <2>1 DEF Goto
  <2>5. sel'[k] = t /\ \A j \in Workers : j # k => sel'[j] = sel[j]
    BY <1>0, <2>1
  <2>6. \A j \in Workers : j # k => pc[j] \in {"off", "dead"}
    BY <2>3 DEF QueueInv, Orderly, Alone, Up
  <2>7. task[t].status # "running" => Room(t)
    <3> SUFFICES ASSUME task[t].status # "running" PROVE Room(t)
      OBVIOUS
    <3>1. CASE CanLaunchTarget
      <4>1. KindOf[t] = "target"
        BY <2>1, <3>1 DEF Candidates, Targets
      <4>2. QED
        BY <3>1, <4>1 DEF CanLaunchTarget, Room
    <3>2. CASE ~CanLaunchTarget
      <4>1. t \notin Running
        BY DEF Running
      <4>2. Running = {}
        BY <2>1, <3>2, <4>1 DEF Candidates, Reclaimable
      <4>3. Targets(Running) = {} /\ Cardinality(Running) = 0 /\ TargetConcurrency \in Nat \ {0}
        BY <4>2, FS_EmptySet, WorkflowAssumption DEF Targets
      <4>4. QED
        BY <4>2, <4>3 DEF Room
    <3>3. QED
      BY <3>1, <3>2
  <2>8. UNCHANGED <<Running, Targets(Running)>> /\ FanOutBounded'
    BY <2>3 DEF Running, Targets, FanOutBounded, QueueInv, Orderly
  <2>9. RoomLeft'
    BY <2>4, <2>5, <2>6, <2>7, <2>8 DEF RoomLeft, Room
  <2>10. Alone'
    BY <2>3, <2>4 DEF QueueInv, Orderly, Alone, Up
  <2>11. NotCompleted' /\ AttemptsCounted'
    BY <1>0, <2>3, <2>4, <2>6
       DEF Ceiling, NotCompleted, AttemptsCounted, QueueInv, Orderly, Working, Holding
  <2>12. QED
    BY <1>t, <1>c, <2>8, <2>9, <2>10, <2>11 DEF QueueInv, Orderly
<1>3. ASSUME NEW k \in Workers, Claim(k) PROVE Orderly'
  <2>0. Up(k) /\ pc[k] = "claim"
    BY <1>3 DEF Claim, Up
  <2>1. CASE sel[k] \in Launchable
    <3> DEFINE t == sel[k]
    <3>1. /\ \A u \in Tasks : u # t => task'[u] = task[u]
          /\ task'[t].status = "running" /\ task'[t].attempts = task[t].attempts + 1
          /\ UNCHANGED <<sel, seen>> /\ Goto(k, "load_claimed") /\ task' \in [Tasks -> Row]
      BY <1>t, <1>c, <1>3, <2>1, ClaimEffect
    <3>2. task[t].status \in Waiting /\ t \in Tasks /\ task[t].status # "running"
      BY <1>0, <2>1 DEF Launchable, Waiting
    <3>3. pc'[k] = "load_claimed" /\ \A j \in Workers : j # k => pc'[j] = pc[j]
      BY <1>t, <1>c, <3>1, GotoTyped DEF Steps
    <3>4. \A j \in Workers : j # k => pc[j] \in {"off", "dead"}
      BY <2>0 DEF QueueInv, Orderly, Alone, Up
    <3>5. AttemptsCounted'
      <4>1. UNCHANGED used
        BY <1>3 DEF Claim
      <4>2. \A u \in Tasks : /\ task'[u].attempts <= Ceiling
                             /\ task'[u].status \in Waiting => task'[u].attempts < Ceiling
        BY <1>0, <1>c, <3>1, <3>2 DEF AttemptsCounted, QueueInv, Orderly, Waiting
      <4>3. \A j \in Workers : pc'[j] \notin Holding
        BY <3>3, <3>4 DEF Holding
      <4>4. QED
        BY <4>1, <4>2, <4>3 DEF AttemptsCounted, Ceiling
    <3>6. NotCompleted'
      BY <3>1, <3>3, <3>4 DEF NotCompleted, Working, Holding
    <3>7. RoomLeft' /\ Alone'
      BY <2>0, <3>3, <3>4 DEF RoomLeft, Alone, Up, QueueInv, Orderly
    <3>8. Room(t)
      BY <2>0 DEF QueueInv, Orderly, RoomLeft
    <3>9. CASE KindOf[t] = "send"
      <4>1. UNCHANGED Running
        BY <3>1, <3>9 DEF Running
      <4>2. QED
        BY <1>t, <1>c, <3>5, <3>6, <3>7, <4>1 DEF QueueInv, Orderly, FanOutBounded, Targets
    <3>10. CASE KindOf[t] # "send"
      <4>1. Running' = Running \cup {t} /\ t \notin Running
        BY <3>1, <3>2, <3>10 DEF Running
      <4>2. IsFiniteSet(Running) /\ Cardinality(Running) \in Nat
            /\ Cardinality(Running') = Cardinality(Running) + 1
        BY <4>1, FS_Subset, FS_AddElement, FS_CardinalityType, WorkflowAssumption DEF Running
      <4>3. FanOutBounded'
        <5>1. CASE KindOf[t] = "target"
          <6>1. Targets(Running)' = Running' /\ (Running \ Targets(Running))' = {}
            BY <3>8, <4>1, <5>1 DEF Room, Targets
          <6>2. QED
            BY <3>8, <4>2, <5>1, <6>1, FS_EmptySet, WorkflowAssumption DEF Room, FanOutBounded
        <5>2. CASE KindOf[t] # "target"
          <6>1. Running = {} /\ Running' = {t} /\ Targets(Running)' = {}
            BY <3>8, <4>1, <5>2 DEF Room, Targets
          <6>2. Cardinality({t}) = 1 /\ Cardinality({}) = 0
            BY FS_EmptySet, FS_Singleton
          <6>3. QED
            BY <6>1, <6>2, WorkflowAssumption DEF FanOutBounded
        <5>3. QED
          BY <5>1, <5>2
      <4>4. QED
        BY <1>t, <1>c, <3>5, <3>6, <3>7, <4>3 DEF QueueInv, Orderly
    <3>11. QED
      BY <3>9, <3>10
  <2>2. CASE sel[k] \notin Launchable
    BY <1>3, <1>d, <1>u, <2>0, <2>2 DEF Claim
  <2>3. QED
    BY <2>1, <2>2
<1>4. ASSUME NEW k \in Workers, Reclaim(k) PROVE Orderly'
  <2>0. Up(k) /\ pc[k] = "reclaim"
    BY <1>4 DEF Reclaim, Up
  <2>1. \A t \in Tasks : Same(t) /\ Calm(t)
    BY <1>t, <1>c, <1>4, ReclaimEffect, SameCalm
  <2>2. CASE Done(k, "idle")
    BY <1>d, <2>0, <2>1, <2>2
  <2>3. CASE sel[k] \in Reclaimable(k) /\ Goto(k, "load_reclaimed") /\ UNCHANGED <<sel, seen>>
    <3>1. pc'[k] = "load_reclaimed" /\ \A j \in Workers : j # k => pc'[j] = pc[j]
      BY <1>t, <1>c, <2>3, GotoTyped DEF Steps
    <3>2. GoesOn(k)
      BY <1>0, <2>0, <2>1, <2>3, <3>1 DEF GoesOn, Holding, Reclaimable, Running, Same
    <3>3. QED
      BY <1>t, <1>c, <2>0, <2>1, <3>1, <3>2, WorkerCalm
  <2>4. QED
    BY <1>4, <2>2, <2>3 DEF Reclaim
<1>5. ASSUME NEW k \in Workers, Load(k) PROVE Orderly'
  <2>0. Up(k) /\ pc[k] \in Working /\ task' = task /\ \A t \in Tasks : Calm(t)
    BY <1>5, <1>u DEF Load, Up, Working, Holding
  <2>1. CASE Done(k, "idle")
    BY <1>d, <2>0, <2>1
  <2>2. ASSUME NEW step \in {"launch", "block", "reconcile"}, LoadInto(k, step)
        PROVE  Orderly'
    <3>1. pc'[k] = step /\ sel' = sel /\ seen'[k] = task[sel[k]]
          /\ \A j \in Workers : j # k => pc'[j] = pc[j]
      BY <1>0, <2>2 DEF LoadInto, Goto, Current
    <3>2. GoesOn(k)
      BY <2>0, <3>1 DEF GoesOn, Holding, Working, QueueInv, Orderly, NotCompleted
    <3>3. QED
      BY <1>t, <1>c, <2>0, <3>1, <3>2, WorkerCalm
  <2>3. QED
    BY <1>5, <2>1, <2>2 DEF Load
<1>6. ASSUME NEW k \in Workers, Block(k) \/ Complete(k) \/ Fail(k) PROVE Orderly'
  <2>0. Up(k) /\ pc[k] \in Holding
    BY <1>6 DEF Block, Complete, Fail, Up, Holding
  <2> DEFINE t == sel[k]
  <2>1. PICK status \in {"blocked", "completed", "retry"} :
           /\ Saves(k, status)
           /\ status = "retry" => seen[k].attempts < MaxAttempts
    BY <1>t, <1>c, <1>6, SavesEffect
  <2>2. task[t].attempts <= seen[k].attempts /\ seen[k].attempts \in Nat /\ t \in Tasks
    BY <1>0, <2>0 DEF QueueInv, Orderly, AttemptsCounted, Row
  <2>3. Calm(t)
    BY <1>0, <1>c, <2>1, <2>2 DEF Saves, Calm, QueueInv, Orderly, AttemptsCounted, Waiting
  <2>4. \A u \in Tasks : u # t => Calm(u)
    BY <1>0, <1>c, <2>1 DEF Saves, Calm, QueueInv, Orderly, AttemptsCounted
  <2>5. QED
    BY <1>d, <2>0, <2>1, <2>3, <2>4 DEF Saves
<1>7. ASSUME NEW k \in Workers,
             LaunchAgent(k) \/ SendApplication(k) \/ Reconcile(k) \/ ReconcileFails(k)
      PROVE  Orderly'
  <2>0. Up(k) /\ pc[k] \in Holding /\ UNCHANGED <<task, sel>> /\ \A t \in Tasks : Calm(t)
    BY <1>7, <1>u DEF LaunchAgent, SendApplication, Reconcile, ReconcileFails, Up, Holding
  <2>1. \A j \in Workers : j # k => pc'[j] = pc[j]
    <3>1. \E step \in Steps : Goto(k, step)
      <4>1. CASE LaunchAgent(k) \/ SendApplication(k) \/ ReconcileFails(k)
        BY <4>1 DEF LaunchAgent, SendApplication, ReconcileFails, Steps
      <4>2. CASE Reconcile(k)
        <5>1. seen[k].run \in DOMAIN runs /\ \A q \in DOMAIN runs : runs[q] \in Run
          BY <1>t, <1>c, <4>2 DEF Reconcile, TypeInv, TypeOK, References
        <5>2. runs[seen[k].run].recorded \in {"running", "failed", "imported"}
          BY <5>1 DEF Run
        <5>3. QED
          BY <4>2, <5>2 DEF Reconcile, Steps
      <4>3. QED
        BY <1>7, <4>1, <4>2
    <3>2. QED
      BY <1>0, <3>1 DEF Goto
  <2>2. seen' = seen \/ seen'[k] = task[sel[k]] \/ seen'[k] = seen[k]
    BY <1>0, <1>7 DEF LaunchAgent, SendApplication, Reconcile, ReconcileFails, Current
  <2>3. pc'[k] \notin {"claim", "off", "dead"}
    <3>1. CASE LaunchAgent(k) \/ SendApplication(k) \/ ReconcileFails(k)
      BY <1>0, <3>1 DEF LaunchAgent, SendApplication, ReconcileFails, Goto
    <3>2. CASE Reconcile(k)
      <4>1. seen[k].run \in DOMAIN runs /\ \A q \in DOMAIN runs : runs[q] \in Run
        BY <1>t, <1>c, <3>2 DEF Reconcile, TypeInv, TypeOK, References
      <4>2. runs[seen[k].run].recorded \in {"running", "failed", "imported"}
        BY <4>1 DEF Run
      <4>3. \E step \in {"renew", "complete", "fail", "block"} : Goto(k, step)
        BY <3>2, <4>2 DEF Reconcile
      <4>4. QED
        BY <1>0, <4>3 DEF Goto
    <3>3. QED
      BY <1>7, <3>1, <3>2
  <2>4. GoesOn(k)
    BY <2>0, <2>2, <2>3 DEF GoesOn, Working, Holding, QueueInv, Orderly, NotCompleted, Up
  <2>5. QED
    BY <1>t, <1>c, <2>0, <2>1, <2>4, WorkerCalm
<1>8. ASSUME NEW k \in Workers, RecordRun(k) \/ StatementFails(k) \/ Renew(k) PROVE Orderly'
  <2>1. Up(k) /\ Done(k, "idle")
    BY <1>8 DEF RecordRun, StatementFails, Renew, Up
  <2>2. \A t \in Tasks : task'[t].attempts = task[t].attempts /\ task'[t].status = task[t].status
    <3>1. CASE RecordRun(k)
      BY <1>t, <1>c, <3>1, RecordEffect
    <3>2. CASE StatementFails(k)
      BY <3>2 DEF StatementFails
    <3>3. CASE Renew(k)
      BY <1>t, <1>c, <3>3, RenewEffect DEF Same
    <3>4. QED
      BY <1>8, <3>1, <3>2, <3>3
  <2>3. \A t \in Tasks : Calm(t)
    BY <1>0, <1>c, <2>2 DEF QueueInv, Orderly, AttemptsCounted, Calm
  <2>4. QED
    BY <1>d, <2>1, <2>3
<1>9. ASSUME NEW k \in Workers, Crash(k) PROVE Orderly'
  BY <1>9, <1>d, <1>u DEF Crash
<1>10. ASSUME NEW r \in DOMAIN runs, AgentOpens(r) \/ AgentEnds(r) PROVE Orderly'
  BY <1>10, <1>t, <1>c, <1>u, RequestCalm DEF AgentOpens, AgentEnds
<1>11. ASSUME NEW t \in Tasks, Enqueue(t) PROVE Orderly'
  <2>1. /\ task' = [task EXCEPT ![t] = [NewRow EXCEPT !.status = "queued", !.due = TRUE]]
        /\ UNCHANGED <<pc, sel, seen>>
    BY <1>11 DEF Enqueue
  <2>2. /\ task'[t].status = "queued" /\ task'[t].attempts = 0
        /\ \A u \in Tasks : u # t => task'[u] = task[u]
    BY <1>0, <2>1 DEF NewRow
  <2>3. \A u \in Tasks : Calm(u)
    BY <1>0, <1>c, <2>2 DEF Calm, QueueInv, Orderly, AttemptsCounted
  <2>4. QED
    BY <1>t, <1>c, <2>1, <2>2, <2>3, RequestCalm
<1>12. ASSUME NEW t \in Tasks, LeaseExpires(t) \/ BackoffElapses(t) PROVE Orderly'
  <2>1. UNCHANGED <<pc, sel, seen>>
    BY <1>12 DEF LeaseExpires, BackoffElapses
  <2>2. \A u \in Tasks : Same(u)
    BY <1>t, <1>c, <1>12, TimeEffect
  <2>3. QED
    BY <1>t, <1>c, <2>1, <2>2, SameCalm, RequestCalm DEF Same
<1>13. ASSUME NEW k \in Workers, NEW t \in Tasks, Asks(k, t) PROVE Orderly'
  <2>1. UNCHANGED <<task, pc, sel, seen>>
    BY <1>t, <1>13, AsksEffect
  <2>2. QED
    BY <1>t, <1>c, <1>u, <2>1, RequestCalm
<1>14. CASE CancelRun \/ DropRequest
  <2>1. UNCHANGED <<task, pc, sel, seen>>
    BY <1>14 DEF CancelRun, DropRequest
  <2>2. QED
    BY <1>t, <1>c, <1>u, <2>1, RequestCalm
<1>15. CASE CommitRequest
  <2>1. UNCHANGED <<pc, sel, seen>>
    BY <1>15 DEF CommitRequest
  <2>2. \A u \in op.rows : Calm(u) /\ (task'[u].status = "completed" => task[u].status = "completed")
    <3> SUFFICES ASSUME NEW u \in op.rows
                 PROVE  Calm(u) /\ (task'[u].status = "completed" => task[u].status = "completed")
      OBVIOUS
    <3>1. u \in Tasks /\ task'[u] \in Row
      BY <1>t, <1>15, CommitRow
    <3>2. /\ task'[u].attempts <= task[u].attempts
          /\ task'[u].status = task[u].status \/ task'[u].status \in Waiting
          /\ ~Overtaken =>
                /\ task[u].status \in Sought
                /\ op.what \in {"pause", "resume"} => task'[u].attempts = task[u].attempts
                /\ op.what \notin {"pause", "resume"} =>
                      task'[u].attempts = 0 \/ task'[u].attempts < task[u].attempts
      BY <1>t, <1>15, CommitEffect DEF QueueInv
    <3>3. task'[u].attempts \in Nat /\ task[u].attempts \in Nat
      BY <1>0, <3>1 DEF Row
    <3>4. /\ task[u].attempts <= Ceiling
          /\ task[u].status \in Waiting => task[u].attempts < Ceiling
      BY <3>1 DEF QueueInv, Orderly, AttemptsCounted
    <3>5. Overtaken => Ceiling' = Ceiling + 1
      BY <1>t, <1>15, CommitTyped, WorkflowAssumption DEF Ceiling, TypeInv, TypeOK
    <3>6. task'[u].attempts < Ceiling' \/ task'[u].status \notin Waiting
      <4>1. CASE Overtaken
        BY <1>c, <3>2, <3>3, <3>4, <3>5, <4>1
      <4>2. CASE ~Overtaken /\ op.what \in {"pause", "resume"}
        BY <1>c, <3>2, <3>3, <3>4, <4>2 DEF Sought, Waiting
      <4>3. CASE ~Overtaken /\ op.what \notin {"pause", "resume"}
        BY <1>0, <1>c, <3>2, <3>3, <3>4, <4>3
      <4>4. QED
        BY <4>1, <4>2, <4>3
    <3>7. QED
      BY <3>2, <3>6 DEF Calm, Waiting
  <2>3. \A u \in Tasks : u \notin op.rows => Same(u)
    BY <1>t, <1>15, CommitTyped DEF Same
  <2>4. \A u \in Tasks : u \notin op.rows =>
           Calm(u) /\ (task'[u].status = "completed" => task[u].status = "completed")
    BY <1>0, <1>c, <2>3 DEF Calm, Same, QueueInv, Orderly, AttemptsCounted
  <2>5. QED
    BY <1>t, <1>c, <2>1, <2>2, <2>4, RequestCalm
<1>16. CASE UNCHANGED vars
  BY <1>16, <1>t, <1>c, <1>u, RequestCalm DEF vars
<1>17. \A k \in Workers : AskPause(k) \/ AskResume(k) => Asks(k, AnyTask)
  BY DEF Asks
<1>18. AnyTask \in Tasks
  BY WorkflowAssumption DEF AnyTask
<1>19. ASSUME NEW k \in Workers, AskPause(k) \/ AskResume(k) PROVE Orderly'
  BY <1>13, <1>17, <1>18, <1>19
<1>20. ASSUME NEW k \in Workers, NEW t \in Tasks, AskRefresh(k, t) \/ AskResolve(k, t)
       PROVE  Orderly'
  BY <1>13, <1>20 DEF Asks
<1>21. QED
  BY <1>1, <1>2, <1>3, <1>4, <1>5, <1>6, <1>7, <1>8, <1>9, <1>10, <1>11, <1>12,
     <1>14, <1>15, <1>16, <1>19, <1>20 DEF Next, WorkerStep

(* What a request has read stays true while it is under way.               *)
LEMMA RequestKept ==
    ASSUME TypeInv, RequestTrue, op' = op \/ op' = NoRequest,
           used'["refresh"] = used["refresh"],
           \A t \in Tasks : /\ task[t].attempts <= task'[t].attempts
                            /\ task'[t].status = "none" => /\ task[t].status = "none"
                                                           /\ task'[t].attempts = task[t].attempts
           , \A t \in Tasks : task'[t].attempts \in Nat
    PROVE  RequestTrue'
<1>1. /\ op.rows \subseteq Tasks
      /\ \A t \in Tasks : task[t].attempts \in Nat /\ op.saw[t].attempts \in Nat
  BY DEF TypeInv, TypeOK, Request, Row
<1>2. CASE op' = op
  <2>1. Sought' = Sought
    BY <1>2 DEF Sought
  <2>2. QED
    BY <1>1, <1>2, <2>1 DEF RequestTrue
<1>3. CASE op' = NoRequest
  BY <1>3, NoRequestTyped DEF RequestTrue
<1>4. QED
  BY <1>2, <1>3

LEMMA RequestNext == QueueInv /\ [Next]_vars => RequestTrue'
<1> SUFFICES ASSUME QueueInv, [Next]_vars PROVE RequestTrue'
  OBVIOUS
<1>t. TypeInv /\ TypeInv' /\ RequestTrue
  BY TypeNext DEF QueueInv, Orderly
<1>0. /\ task \in [Tasks -> Row] /\ task' \in [Tasks -> Row]
      /\ \A t \in Tasks : task[t].attempts \in Nat /\ task'[t].attempts \in Nat
      /\ used \in [{"refresh", "resolve", "pause", "fault", "stale"} -> Nat]
  BY <1>t DEF TypeInv, TypeOK, Row
<1>u. ASSUME UNCHANGED task, op' = op \/ op' = NoRequest, used'["refresh"] = used["refresh"]
      PROVE  RequestTrue'
  BY <1>t, <1>0, <1>u, RequestKept
<1>s. ASSUME \A t \in Tasks : Same(t), UNCHANGED <<op, used>> PROVE RequestTrue'
  BY <1>t, <1>0, <1>s, RequestKept DEF Same
<1>1. ASSUME NEW k \in Workers,
             Start(k) \/ Select(k) \/ Load(k) \/ LaunchAgent(k) \/ SendApplication(k)
                \/ Reconcile(k) \/ ReconcileFails(k) \/ StatementFails(k) \/ Crash(k)
      PROVE  RequestTrue'
  <2>1. UNCHANGED task /\ (op' = op \/ op' = NoRequest)
    BY <1>1 DEF Start, Select, Load, LaunchAgent, SendApplication, Reconcile,
                ReconcileFails, StatementFails, Crash
  <2>2. used'["refresh"] = used["refresh"]
    BY <1>t, <1>1, SpendEffect DEF Start, Select, Load, LaunchAgent, SendApplication, Reconcile,
                ReconcileFails, StatementFails, Crash
  <2>3. QED
    BY <1>u, <2>1, <2>2
<1>2. ASSUME NEW k \in Workers, Claim(k) PROVE RequestTrue'
  <2>1. UNCHANGED <<op, used>>
    BY <1>2 DEF Claim
  <2>2. CASE sel[k] \in Launchable
    <3>1. /\ \A t \in Tasks : t # sel[k] => task'[t] = task[t]
          /\ task'[sel[k]].status = "running"
          /\ task'[sel[k]].attempts = task[sel[k]].attempts + 1
      BY <1>t, <1>2, <2>2, ClaimEffect
    <3>2. QED
      BY <1>t, <1>0, <2>1, <3>1, RequestKept
  <2>3. CASE sel[k] \notin Launchable
    BY <1>2, <1>u, <2>1, <2>3 DEF Claim
  <2>4. QED
    BY <2>2, <2>3
<1>3. ASSUME NEW k \in Workers, Reclaim(k) \/ Renew(k) PROVE RequestTrue'
  BY <1>t, <1>s, <1>3, ReclaimEffect, RenewEffect DEF Reclaim, Renew
<1>4. ASSUME NEW k \in Workers, RecordRun(k) PROVE RequestTrue'
  <2>1. \A t \in Tasks : task'[t].attempts = task[t].attempts /\ task'[t].status = task[t].status
    BY <1>t, <1>4, RecordEffect
  <2>2. UNCHANGED <<op, used>>
    BY <1>4 DEF RecordRun
  <2>3. QED
    BY <1>t, <1>0, <2>1, <2>2, RequestKept
<1>5. ASSUME NEW k \in Workers, Block(k) \/ Complete(k) \/ Fail(k) PROVE RequestTrue'
  <2>1. PICK status \in {"blocked", "completed", "retry"} : Saves(k, status)
    BY <1>t, <1>5, SavesEffect
  <2>2. \A t \in Tasks : /\ task'[t].attempts = task[t].attempts
                         /\ task'[t].status = "none" => task[t].status = "none"
    BY <1>0, <2>1 DEF Saves
  <2>3. UNCHANGED <<op, used>>
    BY <1>5 DEF Block, Complete, Fail
  <2>4. QED
    BY <1>t, <1>0, <2>2, <2>3, RequestKept
<1>6. ASSUME NEW r \in DOMAIN runs, AgentOpens(r) \/ AgentEnds(r) PROVE RequestTrue'
  BY <1>6, <1>u DEF AgentOpens, AgentEnds
<1>7. ASSUME NEW t \in Tasks, Enqueue(t) PROVE RequestTrue'
  <2>1. /\ task'[t].status = "queued" /\ task'[t].attempts = 0 /\ task[t].status = "none"
        /\ \A u \in Tasks : u # t => task'[u] = task[u]
        /\ UNCHANGED <<op, used>>
    BY <1>0, <1>7 DEF Enqueue, NewRow
  <2>2. task[t].attempts = 0
    BY <1>t, <2>1 DEF RequestTrue
  <2>3. QED
    BY <1>t, <1>0, <2>1, <2>2, RequestKept
<1>8. ASSUME NEW t \in Tasks, LeaseExpires(t) \/ BackoffElapses(t) PROVE RequestTrue'
  BY <1>t, <1>8, <1>s, TimeEffect DEF LeaseExpires, BackoffElapses
<1>9. ASSUME NEW k \in Workers, NEW t \in Tasks, Asks(k, t) PROVE RequestTrue'
  <2>1. /\ UNCHANGED task /\ op'.rows \subseteq Tasks
        /\ \A u \in op'.rows : op'.saw[u] = task[u] /\ task[u].status \in Sought'
        /\ op'.what \in {"cancel", "refresh"} => used'["refresh"] # 0
    BY <1>t, <1>9, AsksEffect DEF Request
  <2>2. QED
    BY <1>t, <1>0, <2>1 DEF RequestTrue
<1>10. CASE CancelRun
  <2>1. /\ UNCHANGED <<task, used>> /\ op.what = "cancel" /\ op'.what = "refresh"
        /\ op'.rows = op.rows /\ op'.saw = op.saw
    BY <1>t, <1>10, CancelEffect
  <2>2. Sought' = Sought
    BY <2>1 DEF Sought
  <2>3. QED
    BY <1>t, <2>1, <2>2 DEF RequestTrue
<1>11. CASE CommitRequest
  <2>1. ASSUME NEW t \in Tasks, task'[t].status = "none" PROVE task'[t].attempts = 0
    <3>1. CASE t \in op.rows
      <4>1. task[t].status = "none" /\ task'[t].attempts <= task[t].attempts
        BY <1>t, <1>11, <2>1, <3>1, CommitEffect DEF Waiting
      <4>2. QED
        BY <1>t, <1>0, <4>1 DEF RequestTrue
    <3>2. CASE t \notin op.rows
      BY <1>t, <1>11, <2>1, <3>2, CommitTyped DEF RequestTrue
    <3>3. QED
      BY <3>1, <3>2
  <2>2. op' = NoRequest
    BY <1>11 DEF CommitRequest
  <2>3. QED
    BY <2>1, <2>2, NoRequestTyped DEF RequestTrue
<1>12. CASE DropRequest
  BY <1>12, <1>u DEF DropRequest
<1>13. CASE UNCHANGED vars
  BY <1>13, <1>u DEF vars
<1>14. \A k \in Workers : AskPause(k) \/ AskResume(k) => Asks(k, AnyTask)
  BY DEF Asks
<1>15. AnyTask \in Tasks
  BY WorkflowAssumption DEF AnyTask
<1>16. ASSUME NEW k \in Workers, AskPause(k) \/ AskResume(k) PROVE RequestTrue'
  BY <1>9, <1>14, <1>15, <1>16
<1>17. ASSUME NEW k \in Workers, NEW t \in Tasks, AskRefresh(k, t) \/ AskResolve(k, t)
       PROVE  RequestTrue'
  BY <1>9, <1>17 DEF Asks
<1>18. QED
  BY <1>1, <1>2, <1>3, <1>4, <1>5, <1>6, <1>7, <1>8, <1>10, <1>11, <1>12, <1>13, <1>16, <1>17
     DEF Next, WorkerStep

LEMMA QueueNext == ~Concurrent => (QueueInv /\ [Next]_vars => QueueInv')
BY OrderlyNext, RequestNext DEF QueueInv

(* Initially the queue is sound and no agent is at work.                   *)
LEMMA QueueInit == Init => QueueInv /\ AgentInv
<1> SUFFICES ASSUME Init PROVE QueueInv /\ AgentInv
  OBVIOUS
<1>1. TypeInv
  BY TypeInit
<1>2. /\ \A t \in Tasks : task[t] = NewRow /\ ~exc[t]
      /\ \A k \in Workers : pc[k] = "off"
      /\ DOMAIN runs = {}
  BY DEF Init
<1>3. Running = {} /\ Targets(Running) = {} /\ Running \ Targets(Running) = {}
  BY <1>2 DEF Running, Targets, NewRow
<1>4. FanOutBounded
  BY <1>3, FS_EmptySet, WorkflowAssumption DEF FanOutBounded
<1>5. AttemptsCounted
  BY <1>2, WorkflowAssumption DEF Init, AttemptsCounted, NewRow, Holding, Waiting, Ceiling
<1>9. RequestTrue
  <2>1. op = NoRequest
    BY DEF Init
  <2>2. QED
    BY <1>2, <2>1, NoRequestTyped DEF RequestTrue, NewRow
<1>6. Alone /\ RoomLeft /\ NotCompleted
  BY <1>2 DEF Alone, RoomLeft, NotCompleted, Up, Working, Holding
<1>7. AgentInv
  BY <1>2, NoRequestTyped DEF Init, AgentInv, Known, Unresolved, CopyTrue, CopyOf, AgentsKnown,
         NoneAtWork, NoneFor, Working, Holding
<1>8. QED
  BY <1>1, <1>4, <1>5, <1>6, <1>7, <1>9 DEF QueueInv, Orderly

(* Only a request that retries it, or has read it earlier, makes a         *)
(* completed task anything else: no worker works on one.                   *)
LEMMA CompletedStep ==
    ASSUME QueueInv, Next, NEW t \in Tasks,
           task[t].status = "completed", task'[t].status # "completed"
    PROVE  Reopens(t)
<1>t. TypeInv
  BY DEF QueueInv, Orderly
<1>0. /\ task \in [Tasks -> Row] /\ sel \in [Workers -> Tasks]
  BY <1>t DEF TypeInv, TypeOK
<1>1. ~(UNCHANGED task)
  OBVIOUS
<1>2. ASSUME NEW k \in Workers, Start(k) \/ Select(k) \/ Load(k) \/ LaunchAgent(k)
             \/ SendApplication(k) \/ Reconcile(k) \/ ReconcileFails(k) \/ StatementFails(k)
             \/ Crash(k)
      PROVE  FALSE
  BY <1>1, <1>2 DEF Start, Select, Load, LaunchAgent, SendApplication, Reconcile,
                    ReconcileFails, StatementFails, Crash
<1>3. ASSUME NEW k \in Workers, Claim(k) PROVE FALSE
  <2>1. sel[k] \in Launchable
    BY <1>1, <1>3 DEF Claim
  <2>2. task[sel[k]].status # "completed"
    BY <2>1 DEF Launchable
  <2>3. QED
    BY <1>t, <1>3, <2>1, <2>2, ClaimEffect
<1>4. ASSUME NEW k \in Workers, Reclaim(k) \/ Renew(k) \/ RecordRun(k) PROVE FALSE
  BY <1>t, <1>4, ReclaimEffect, RenewEffect, RecordEffect DEF Same
<1>5. ASSUME NEW k \in Workers, Block(k) \/ Complete(k) \/ Fail(k) PROVE FALSE
  <2>1. pc[k] \in Working
    BY <1>5 DEF Block, Complete, Fail, Working, Holding
  <2>2. task[sel[k]].status # "completed"
    BY <2>1 DEF QueueInv, Orderly, NotCompleted
  <2>3. \A u \in Tasks : u # sel[k] => task'[u] = task[u]
    BY <1>t, <1>5, SavesEffect DEF Saves
  <2>4. QED
    BY <2>2, <2>3
<1>6. ASSUME NEW r \in DOMAIN runs, AgentOpens(r) \/ AgentEnds(r) PROVE FALSE
  BY <1>1, <1>6 DEF AgentOpens, AgentEnds
<1>7. ASSUME NEW u \in Tasks, Enqueue(u) PROVE FALSE
  BY <1>0, <1>7 DEF Enqueue
<1>8. ASSUME NEW u \in Tasks, LeaseExpires(u) \/ BackoffElapses(u) PROVE FALSE
  BY <1>t, <1>8, TimeEffect DEF Same
<1>9. ASSUME NEW k \in Workers, NEW u \in Tasks, Asks(k, u) PROVE FALSE
  BY <1>t, <1>1, <1>9, AsksEffect
<1>10. CASE CancelRun \/ DropRequest
  BY <1>1, <1>10 DEF CancelRun, DropRequest
<1>11. CASE CommitRequest
  <2>1. t \in op.rows /\ op' = NoRequest
    BY <1>t, <1>11, CommitTyped
  <2>2. op.what \in {"pause", "resume", "refresh", "resolve"}
    BY <1>11 DEF CommitRequest
  <2>3. op.what = "resolve" \/ op.saw[t].status # "completed"
    BY <2>1, <2>2 DEF QueueInv, RequestTrue, Sought
  <2>4. QED
    BY <2>1, <2>3 DEF Reopens
<1>12. AnyTask \in Tasks
  BY WorkflowAssumption DEF AnyTask
<1>13. ASSUME NEW k \in Workers, AskPause(k) \/ AskResume(k) PROVE FALSE
  BY <1>9, <1>12, <1>13 DEF Asks
<1>14. ASSUME NEW k \in Workers, NEW u \in Tasks, AskRefresh(k, u) \/ AskResolve(k, u)
       PROVE  FALSE
  BY <1>9, <1>14 DEF Asks
<1>15. QED
  BY <1>2, <1>3, <1>4, <1>5, <1>6, <1>7, <1>8, <1>10, <1>11, <1>13, <1>14 DEF Next, WorkerStep

(* The rows of the queue, the runs and the workers keep their types, for   *)
(* any number of tasks and of processes, at a time or one after the other. *)
THEOREM QueueTypeCorrect == Spec => []TypeOK
<1>1. TypeInv => TypeOK
  BY DEF TypeInv
<1>2. QED
  BY <1>1, TypeInit, TypeNext, PTL DEF Spec

(* Where one process runs at a time, the queue stays sound.                *)
LEMMA QueueStaysSound == ASSUME ~Concurrent PROVE Spec => []QueueInv
<1>1. Init => QueueInv
  BY QueueInit
<1>2. QueueInv /\ [Next]_vars => QueueInv'
  BY QueueNext
<1>3. QED
  BY <1>1, <1>2, PTL DEF Spec

(* Where one process runs at a time, no more targeted searches run than    *)
(* the ceiling allows, and no other agent beside one: a worker claims a    *)
(* task after it has read which tasks run, and between the two only a      *)
(* request can come, which never makes a task run.                         *)
THEOREM FanOutStaysBounded == ASSUME ~Concurrent PROVE Spec => []FanOutBounded
<1>1. QueueInv => FanOutBounded
  BY DEF QueueInv, Orderly
<1>2. QED
  BY <1>1, QueueStaysSound, PTL

(* Where one process runs at a time, a completed task is only reopened by  *)
(* the commit of a retry, or of a refresh, a pause or a resume that read   *)
(* its row before it was completed: no worker reopens one, whatever was    *)
(* requested, failed or expired while it held a copy of a row.             *)
THEOREM CompletedStaysFinal == ASSUME ~Concurrent PROVE Spec => CompletedIsFinal
<1>1. QueueInv /\ [Next]_vars =>
        [\A t \in Tasks : task[t].status = "completed" /\ task'[t].status # "completed"
                              => Reopens(t)]_vars
  BY CompletedStep DEF vars
<1>2. QED
  BY <1>1, QueueStaysSound, PTL DEF Spec, CompletedIsFinal
-----------------------------------------------------------------------------
(* While nothing disturbs the queue, a task has one agent at work.         *)

(* Agents that go on working, for workers and tasks that keep them.        *)
LEMMA AgentsLeft ==
    ASSUME TypeInv, AgentsKnown, DOMAIN runs' = DOMAIN runs,
           \A r \in DOMAIN runs :
              /\ runs'[r].task = runs[r].task /\ runs'[r].worker = runs[r].worker
              /\ runs'[r].alive => runs[r].alive /\ runs'[r].recorded = runs[r].recorded,
           \A k \in Workers : Up(k) =>
              /\ pc'[k] \notin {"off", "dead"}
              /\ pc'[k] = "record" <=> pc[k] = "record"
              /\ pc[k] = "record" => sel'[k] = sel[k],
           \A r \in DOMAIN runs : runs'[r].alive =>
              /\ task'[runs[r].task].status = task[runs[r].task].status
              /\ task'[runs[r].task].run = task[runs[r].task].run
    PROVE  AgentsKnown'
<1> SUFFICES ASSUME NEW r \in DOMAIN runs, NEW k \in Workers,
                    runs'[r].alive, k = runs[r].worker
    PROVE  /\ runs'[r].recorded = "running" /\ Up(k)'
           /\ task'[runs'[r].task].status = "running"
           /\ IF Launching(k, r)' THEN IsLastRun(k, r)' ELSE task'[runs'[r].task].run = r
  BY DEF AgentsKnown
<1>1. /\ runs[r].recorded = "running" /\ Up(k)
      /\ task[runs[r].task].status = "running"
      /\ IF Launching(k, r) THEN IsLastRun(k, r) ELSE task[runs[r].task].run = r
  BY DEF AgentsKnown
<1>2. Launching(k, r)' <=> Launching(k, r)
  BY <1>1 DEF Launching
<1>3. IsLastRun(k, r) => IsLastRun(k, r)'
  BY DEF IsLastRun
<1>4. QED
  BY <1>1, <1>2, <1>3 DEF Up

(* A step of the only worker that is up.                                   *)
LEMMA WorkerKnown ==
    ASSUME QueueInv, NEW k \in Workers, Up(k),
           \A j \in Workers : j # k => pc'[j] = pc[j],
           Unresolved', CopyOf(k)', NoneFor(k)', AgentsKnown'
    PROVE  Known'
<1>1. \A j \in Workers : j # k => pc'[j] \in {"off", "dead"}
  BY DEF QueueInv, Orderly, Alone, Up
<1>2. ASSUME NEW j \in Workers, j # k PROVE CopyOf(j)' /\ NoneFor(j)'
  BY <1>1, <1>2 DEF CopyOf, NoneFor, Working, Holding
<1>3. QED
  BY <1>2 DEF Known, CopyTrue, NoneAtWork

(* The end of a pass that has started no agent.                            *)
LEMMA DoneKnown ==
    ASSUME QueueInv, Known, Unresolved', NEW k \in Workers, Up(k), pc[k] # "record",
           Done(k, "idle"), runs' = runs,
           \A r \in DOMAIN runs : runs[r].alive =>
              /\ task'[runs[r].task].status = task[runs[r].task].status
              /\ task'[runs[r].task].run = task[runs[r].task].run
    PROVE  Known'
<1>1. TypeInv
  BY DEF QueueInv, Orderly
<1>2. pc'[k] = "idle" /\ \A j \in Workers : j # k => pc'[j] = pc[j] /\ sel'[j] = sel[j]
  BY <1>1, DoneTyped
<1>3. CopyOf(k)' /\ NoneFor(k)'
  BY <1>2 DEF CopyOf, NoneFor, Working, Holding
<1>4. AgentsKnown'
  BY <1>1, <1>2, AgentsLeft DEF Known, Up
<1>5. QED
  BY <1>2, <1>3, <1>4, WorkerKnown

(* A worker that goes on with its pass.                                    *)
LEMMA GoesOnKnown ==
    ASSUME QueueInv, Known, Unresolved', NEW k \in Workers, Up(k), pc[k] # "record",
           NEW step \in Steps \ {"off", "dead", "record"}, Goto(k, step), sel' = sel,
           CopyOf(k)', NoneFor(k)', runs' = runs,
           \A r \in DOMAIN runs : runs[r].alive =>
              /\ task'[runs[r].task].status = task[runs[r].task].status
              /\ task'[runs[r].task].run = task[runs[r].task].run
    PROVE  Known'
<1>1. TypeInv
  BY DEF QueueInv, Orderly
<1>2. pc'[k] = step /\ \A j \in Workers : j # k => pc'[j] = pc[j]
  BY <1>1, GotoTyped
<1>3. AgentsKnown'
  BY <1>1, <1>2, AgentsLeft DEF Known, Up
<1>4. QED
  BY <1>2, <1>3, WorkerKnown

(* Steps of anybody but a worker that stop agents at most and leave the    *)
(* running rows alone.                                                     *)
LEMMA RequestKnown ==
    ASSUME TypeInv, Known, Unresolved', UNCHANGED <<pc, sel, seen>>,
           DOMAIN runs' = DOMAIN runs,
           \A r \in DOMAIN runs :
              /\ runs'[r].task = runs[r].task /\ runs'[r].worker = runs[r].worker
              /\ runs'[r].alive => runs[r].alive /\ runs'[r].recorded = runs[r].recorded,
           \A t \in Tasks : task[t].status = "running" =>
              task'[t].status = "running" /\ task'[t].run = task[t].run
    PROVE  Known'
<1>0. /\ sel \in [Workers -> Tasks]
      /\ \A r \in DOMAIN runs : runs[r].task \in Tasks /\ runs[r].worker \in Workers
  <2>1. \A r \in DOMAIN runs : runs[r] \in Run
    BY LenProperties DEF TypeInv, TypeOK
  <2>2. QED
    BY <2>1 DEF TypeInv, TypeOK, Run
<1>1. ASSUME NEW k \in Workers PROVE CopyOf(k)' /\ NoneFor(k)'
  <2>1. CopyOf(k) /\ NoneFor(k) /\ sel[k] \in Tasks
    BY <1>0 DEF Known, CopyTrue, NoneAtWork
  <2>2. QED
    BY <2>1 DEF CopyOf, NoneFor, Working, Holding
<1>2. \A r \in DOMAIN runs : runs[r].alive => task[runs[r].task].status = "running"
  BY <1>0 DEF Known, AgentsKnown
<1>3. AgentsKnown'
  BY <1>0, <1>2, AgentsLeft DEF Known, Up
<1>4. QED
  BY <1>1, <1>3 DEF Known, CopyTrue, NoneAtWork

(* A worker that selects, claims, takes the lease or loads the row.        *)
LEMMA PickUpKnown ==
    ASSUME QueueInv, Known, Unresolved', NEW k \in Workers,
           Select(k) \/ Claim(k) \/ Reclaim(k) \/ Load(k)
    PROVE  Known'
<1>0. /\ TypeInv /\ Up(k) /\ pc[k] # "record" /\ runs' = runs
      /\ pc \in [Workers -> Steps] /\ sel \in [Workers -> Tasks]
      /\ task \in [Tasks -> Row] /\ seen \in [Workers -> Row]
      /\ NoRun \notin Nat /\ DOMAIN runs \subseteq Nat
      /\ \A r \in DOMAIN runs : runs[r] \in Run
  BY LenProperties, WorkflowAssumption
     DEF QueueInv, Orderly, TypeInv, TypeOK, Select, Claim, Reclaim, Load, Up
<1>1. CopyOf(k) /\ NoneFor(k)
  BY DEF Known, CopyTrue, NoneAtWork
<1>2. \A r \in DOMAIN runs : runs[r].alive =>
         /\ runs[r].worker = k /\ task[runs[r].task].status = "running"
         /\ task[runs[r].task].run = r /\ runs[r].task \in Tasks
  <2>1. \A r \in DOMAIN runs : runs[r].worker \in Workers /\ runs[r].task \in Tasks
    BY <1>0 DEF Run
  <2>2. QED
    BY <1>0, <2>1 DEF Known, AgentsKnown, Launching, QueueInv, Orderly, Alone
<1>3. CASE Select(k)
  <2>1. PICK t \in Candidates(k) :
           /\ sel' = [sel EXCEPT ![k] = t]
           /\ Goto(k, IF task[t].status = "running" THEN "reclaim" ELSE "claim")
    BY <1>3 DEF Select
  <2>2. /\ pc'[k] \in {"reclaim", "claim"}
        /\ \A j \in Workers : j # k => pc'[j] = pc[j] /\ sel'[j] = sel[j]
    BY <1>0, <2>1 DEF Goto
  <2>3. CopyOf(k)' /\ NoneFor(k)'
    BY <2>2 DEF CopyOf, NoneFor, Working, Holding
  <2>4. AgentsKnown'
    BY <1>0, <1>3, <2>2, AgentsLeft DEF Known, Up, Select
  <2>5. QED
    BY <1>0, <2>2, <2>3, <2>4, WorkerKnown
<1>4. CASE Claim(k) /\ sel[k] \in Launchable
  <2>1. /\ \A t \in Tasks : t # sel[k] => task'[t] = task[t]
        /\ task'[sel[k]].status = "running"
        /\ Goto(k, "load_claimed") /\ UNCHANGED <<exc, runs, sel, seen, op, used>>
    BY <1>0, <1>4, ClaimEffect
  <2>2. \A r \in DOMAIN runs : runs[r].alive => runs[r].task # sel[k]
    BY <1>2, <1>4 DEF Launchable
  <2>3. pc'[k] = "load_claimed"
    BY <1>0, <2>1 DEF Goto
  <2>4. CopyOf(k)' /\ NoneFor(k)'
    BY <1>0, <2>1, <2>2, <2>3 DEF CopyOf, NoneFor, Working, Holding
  <2>5. QED
    BY <1>0, <1>2, <2>1, <2>2, <2>4, GoesOnKnown DEF Steps
<1>5. CASE (Claim(k) \/ Reclaim(k) \/ Load(k)) /\ Done(k, "idle") /\ task' = task
  BY <1>0, <1>5, DoneKnown
<1>6. CASE Reclaim(k) /\ sel[k] \in Reclaimable(k) /\ Goto(k, "load_reclaimed") /\ sel' = sel
  <2>1. \A t \in Tasks : Same(t)
    BY <1>0, <1>6, ReclaimEffect
  <2>2. pc'[k] = "load_reclaimed" /\ task[sel[k]].status = "running" /\ sel[k] \in Tasks
    BY <1>0, <1>6 DEF Goto, Reclaimable, Running
  <2>3. CopyOf(k)' /\ NoneFor(k)'
    BY <1>6, <2>1, <2>2 DEF CopyOf, NoneFor, Working, Holding, Same
  <2>4. QED
    BY <1>0, <1>2, <1>6, <2>1, <2>3, GoesOnKnown DEF Steps, Same
<1>7. CASE Load(k) /\ ~Done(k, "idle")
  <2>1. PICK step \in {"launch", "block", "reconcile"} :
           /\ LoadInto(k, step)
           /\ step = "launch" => pc[k] = "load_claimed"
           /\ step = "block" => pc[k] = "load_reclaimed" /\ task[sel[k]].run = NoRun
    BY <1>7 DEF Load, Current
  <2>2. /\ pc[k] \in Working /\ task' = task /\ sel' = sel /\ Goto(k, step)
        /\ pc'[k] = step /\ seen'[k] = task[sel[k]]
    BY <1>0, <1>7, <2>1 DEF Load, LoadInto, Goto, Working, Current
  <2>3. CopyOf(k)'
    BY <1>1, <2>2 DEF CopyOf, Working, Holding
  <2>4. NoneFor(k)'
    BY <1>0, <1>1, <1>2, <2>1, <2>2 DEF NoneFor
  <2>5. QED
    BY <1>0, <1>2, <2>2, <2>3, <2>4, GoesOnKnown DEF Steps
<1>8. QED
  BY <1>3, <1>4, <1>5, <1>6, <1>7 DEF Claim, Reclaim, Load

(* A worker that starts an agent and records it.                           *)
LEMMA LaunchKnown ==
    ASSUME QueueInv, Known, Unresolved', NEW k \in Workers,
           LaunchAgent(k) \/ SendApplication(k) \/ RecordRun(k)
    PROVE  Known'
<1>0. /\ TypeInv /\ Up(k)
      /\ pc \in [Workers -> Steps] /\ sel \in [Workers -> Tasks]
      /\ task \in [Tasks -> Row] /\ seen \in [Workers -> Row] /\ runs \in Seq(Run)
      /\ \A r \in DOMAIN runs : runs[r] \in Run
  BY LenProperties
     DEF QueueInv, Orderly, TypeInv, TypeOK, LaunchAgent, SendApplication, RecordRun, Up
<1>1. CopyOf(k) /\ NoneFor(k)
  BY DEF Known, CopyTrue, NoneAtWork
<1>2. \A r \in DOMAIN runs : runs[r].alive =>
         /\ runs[r].worker = k /\ runs[r].recorded = "running"
         /\ task[runs[r].task].status = "running" /\ runs[r].task \in Tasks
         /\ IF Launching(k, r) THEN IsLastRun(k, r) ELSE task[runs[r].task].run = r
  <2>1. \A r \in DOMAIN runs : runs[r].worker \in Workers /\ runs[r].task \in Tasks
    BY <1>0 DEF Run
  <2>2. QED
    BY <1>0, <2>1 DEF Known, AgentsKnown, QueueInv, Orderly, Alone
<1>3. ASSUME pc[k] = "launch", NEW step \in {"fail", "complete"}, Goto(k, step),
             UNCHANGED <<task, sel, runs>>, seen'[k] \in {seen[k], task[sel[k]]}
      PROVE  Known'
  <2>1. pc'[k] = step
    BY <1>0, <1>3 DEF Goto
  <2>2. CopyOf(k)' /\ NoneFor(k)'
    BY <1>1, <1>3, <2>1 DEF CopyOf, NoneFor, Working, Holding
  <2>3. QED
    BY <1>0, <1>3, <2>2, GoesOnKnown DEF Steps
<1>4. CASE LaunchAgent(k) /\ UNCHANGED runs
  BY <1>0, <1>3, <1>4 DEF LaunchAgent, Current
<1>5. CASE SendApplication(k)
  BY <1>0, <1>3, <1>5 DEF SendApplication
<1>6. CASE LaunchAgent(k) /\ ~UNCHANGED runs
  <2> DEFINE x == [task |-> sel[k], worker |-> k, client |-> FALSE, alive |-> TRUE,
                   recorded |-> "running"]
  <2>1. /\ pc[k] = "launch" /\ UNCHANGED <<task, sel>> /\ Goto(k, "record")
        /\ runs' = Append(runs, x) /\ seen'[k] = task[sel[k]]
    BY <1>0, <1>6 DEF LaunchAgent, Current
  <2>2. pc'[k] = "record" /\ \A j \in Workers : j # k => pc'[j] = pc[j]
    BY <1>0, <2>1, GotoTyped DEF Steps
  <2>3. x \in Run
    BY <1>0 DEF Run
  <2>4. PICK n \in Nat : /\ n \notin DOMAIN runs
                         /\ \A r \in DOMAIN runs : r <= n /\ r \in Nat
                         /\ DOMAIN runs' = DOMAIN runs \cup {n}
                         /\ \A r \in DOMAIN runs : runs'[r] = runs[r]
                         /\ runs'[n] = x
    <3>1. \A r \in DOMAIN runs : r <= Len(runs) + 1
      BY <1>0, <2>3, RunAdded
    <3> HIDE DEF x
    <3>2. QED
      BY <1>0, <2>1, <2>3, <3>1, RunAdded
  <2>5. CopyOf(k)' /\ NoneFor(k)'
    BY <1>1, <2>1, <2>2 DEF CopyOf, NoneFor, Working, Holding
  <2>6. AgentsKnown'
    <3> SUFFICES ASSUME NEW r \in DOMAIN runs', NEW j \in Workers,
                        runs'[r].alive, j = runs'[r].worker
        PROVE  /\ runs'[r].recorded = "running" /\ Up(j)'
               /\ task'[runs'[r].task].status = "running"
               /\ IF Launching(j, r)' THEN IsLastRun(j, r)' ELSE task'[runs'[r].task].run = r
      BY DEF AgentsKnown
    <3>1. CASE r = n
      <4>1. j = k /\ Launching(k, r)'
        BY <2>1, <2>2, <2>4, <3>1 DEF Launching
      <4>2. IsLastRun(k, r)'
        BY <2>4, <3>1 DEF IsLastRun
      <4>3. QED
        BY <1>1, <2>1, <2>2, <2>4, <3>1, <4>1, <4>2 DEF CopyOf, Working, Holding, Up
    <3>2. CASE r # n
      <4>1. r \in DOMAIN runs /\ runs'[r] = runs[r] /\ j = k
        BY <1>2, <2>4, <3>2
      <4>2. runs[r].task # sel[k] /\ ~Launching(k, r) /\ ~Launching(k, r)'
        BY <1>1, <2>1, <4>1 DEF NoneFor, Launching
      <4>3. QED
        BY <1>2, <2>1, <2>2, <4>1, <4>2 DEF Up
    <3>3. QED
      BY <3>1, <3>2
  <2>7. QED
    BY <1>0, <2>2, <2>5, <2>6, WorkerKnown
<1>7. CASE RecordRun(k)
  <2>1. PICK q \in DOMAIN runs :
           /\ IsLastRun(k, q) /\ task'[sel[k]].run = q
           /\ task'[sel[k]].status = task[sel[k]].status
           /\ \A t \in Tasks : t # sel[k] => task'[t] = task[t]
    BY <1>0, <1>7, RecordEffect
  <2>2. /\ Done(k, "idle") /\ pc[k] = "record" /\ runs' = runs
        /\ pc'[k] = "idle" /\ \A j \in Workers : j # k => pc'[j] = pc[j]
    BY <1>0, <1>7, DoneTyped DEF RecordRun
  <2>3. CopyOf(k)' /\ NoneFor(k)'
    BY <2>2 DEF CopyOf, NoneFor, Working, Holding
  <2>4. AgentsKnown'
    <3> SUFFICES ASSUME NEW r \in DOMAIN runs, runs[r].alive
        PROVE  /\ runs[r].recorded = "running" /\ runs[r].worker = k
               /\ task'[runs[r].task].status = "running" /\ task'[runs[r].task].run = r
      BY <2>2 DEF AgentsKnown, Up, Launching
    <3>1. CASE runs[r].task = sel[k]
      <4>1. IsLastRun(k, r)
        BY <1>2, <2>2, <3>1 DEF Launching
      <4>2. r = q
        BY <1>0, <2>1, <4>1, LenProperties DEF IsLastRun
      <4>3. QED
        BY <1>2, <2>1, <3>1, <4>2
    <3>2. CASE runs[r].task # sel[k]
      BY <1>2, <2>1, <3>2 DEF Launching
    <3>3. QED
      BY <3>1, <3>2
  <2>5. QED
    BY <1>0, <2>2, <2>3, <2>4, WorkerKnown
<1>8. QED
  BY <1>4, <1>5, <1>6, <1>7

(* A worker that learns what became of an agent: the one that is at work   *)
(* for its task, if any, is the one its copy names, and where one process  *)
(* runs alone a live agent is never taken for an orphan.                   *)
LEMMA ReconcileKnown ==
    ASSUME ~Concurrent, QueueInv, Known, Unresolved', NEW k \in Workers, Reconcile(k)
    PROVE  Known'
<1> DEFINE r == seen[k].run
<1>0. /\ TypeInv /\ Up(k) /\ pc[k] = "reconcile" /\ UNCHANGED <<task, sel, seen>>
      /\ pc \in [Workers -> Steps] /\ r \in DOMAIN runs /\ runs \in Seq(Run)
      /\ \A q \in DOMAIN runs : runs[q] \in Run
  BY LenProperties DEF QueueInv, Orderly, TypeInv, TypeOK, References, Reconcile, Up
<1>1. CopyOf(k)
  BY DEF Known, CopyTrue
<1>2. \A q \in DOMAIN runs : runs[q].alive =>
         /\ runs[q].worker = k /\ runs[q].recorded = "running"
         /\ runs[q].task = sel[k] => q = r
  <2>1. \A q \in DOMAIN runs : runs[q].worker \in Workers
    BY <1>0 DEF Run
  <2>2. \A q \in DOMAIN runs : runs[q].alive =>
           runs[q].worker = k /\ runs[q].recorded = "running" /\ task[runs[q].task].run = q
    BY <1>0, <2>1 DEF Known, AgentsKnown, Launching, QueueInv, Orderly, Alone
  <2>3. r = task[sel[k]].run
    BY <1>0, <1>1 DEF CopyOf
  <2>4. QED
    BY <2>2, <2>3
<1>3. PICK step \in {"renew", "complete", "fail", "block"} :
         Goto(k, step) /\ (step # "renew" => ~runs[r].alive)
  <2>1. runs[r].recorded \in {"running", "failed", "imported"} /\ runs[r].worker \in Workers
    BY <1>0 DEF Run
  <2>2. CASE MayBeOrphaned(k, r)
    <3>1. ~runs[r].alive
      BY <1>0, <1>2, <2>2 DEF MayBeOrphaned
    <3>2. \E step \in {"renew", "complete", "fail", "block"} : Goto(k, step)
      BY <2>1 DEF Reconcile
    <3>3. QED
      BY <3>1, <3>2
  <2>3. CASE ~MayBeOrphaned(k, r)
    BY <1>0, <1>2, <2>1, <2>3 DEF Reconcile
  <2>4. QED
    BY <2>2, <2>3
<1>4. /\ DOMAIN runs' = DOMAIN runs
      /\ \A q \in DOMAIN runs :
            /\ runs'[q].task = runs[q].task /\ runs'[q].worker = runs[q].worker
            /\ runs'[q].alive = runs[q].alive
            /\ runs'[q].alive => runs'[q].recorded = runs[q].recorded
  <2>1. CASE MayBeOrphaned(k, r) /\ runs' = [runs EXCEPT ![r].recorded = "failed"]
    <3>1. ~runs[r].alive
      BY <1>0, <1>2, <2>1 DEF MayBeOrphaned
    <3>2. runs' = [q \in DOMAIN runs |-> IF q = r THEN [runs[r] EXCEPT !.recorded = "failed"]
                                         ELSE runs[q]]
      BY <1>0, <2>1
    <3>3. [runs[r] EXCEPT !.recorded = "failed"].task = runs[r].task
          /\ [runs[r] EXCEPT !.recorded = "failed"].worker = runs[r].worker
          /\ [runs[r] EXCEPT !.recorded = "failed"].alive = runs[r].alive
      BY <1>0 DEF Run
    <3>4. QED
      BY <3>1, <3>2, <3>3
  <2>2. CASE runs' = runs
    BY <2>2
  <2>3. QED
    BY <2>1, <2>2 DEF Reconcile
<1>5. pc'[k] = step /\ \A j \in Workers : j # k => pc'[j] = pc[j]
  BY <1>0, <1>3 DEF Goto
<1>6. CopyOf(k)' /\ NoneFor(k)'
  BY <1>0, <1>1, <1>2, <1>3, <1>4, <1>5 DEF CopyOf, NoneFor, Working, Holding
<1>7. AgentsKnown'
  BY <1>0, <1>4, <1>5, AgentsLeft DEF Known, Up
<1>8. QED
  BY <1>0, <1>5, <1>6, <1>7, WorkerKnown

(* A worker that ends its pass with a change of its row, or the lease.     *)
LEMMA SaveKnown ==
    ASSUME QueueInv, Known, NEW k \in Workers,
           Block(k) \/ Complete(k) \/ Fail(k) \/ Renew(k)
    PROVE  Known'
<1>0. /\ TypeInv /\ Up(k) /\ pc[k] # "record" /\ UNCHANGED <<runs, op, used>>
      /\ Done(k, "idle") /\ pc[k] \in Working /\ pc[k] \in Holding /\ sel[k] \in Tasks
      /\ exc \in [Tasks -> BOOLEAN]
  BY DEF QueueInv, Orderly, TypeInv, TypeOK, Block, Complete, Fail, Renew, Up, Working, Holding
<1>1. CopyOf(k) /\ NoneFor(k) /\ Unresolved
  BY DEF Known, CopyTrue, NoneAtWork
<1>2. CASE Renew(k)
  <2>1. \A t \in Tasks : Same(t)
    BY <1>0, <1>2, RenewEffect
  <2>2. \A r \in DOMAIN runs : runs[r].task \in Tasks
    BY <1>0, RunsTyped
  <2>3. Unresolved'
    BY <1>0, <1>1, <1>2, <2>1 DEF Unresolved, Same, Renew
  <2>4. QED
    BY <1>0, <2>1, <2>2, <2>3, DoneKnown DEF Same
<1>3. CASE Block(k) \/ Complete(k) \/ Fail(k)
  <2>1. PICK status \in {"blocked", "completed", "retry"} :
           /\ Saves(k, status)
           /\ status # "blocked" => exc' = exc
           /\ \A t \in Tasks : t # sel[k] => exc'[t] = exc[t]
    <3>1. \/ Saves(k, "blocked")
          \/ Saves(k, "completed") /\ exc' = exc
          \/ Saves(k, "retry") /\ exc' = exc
      <4>1. CASE Block(k)
        BY <1>0, <4>1, SavesEffect
      <4>2. CASE Complete(k)
        BY <1>0, <4>2, SavesEffect DEF Complete
      <4>3. CASE Fail(k)
        <5>1. Saves(k, IF seen[k].attempts < MaxAttempts THEN "retry" ELSE "blocked")
          BY <1>0, <4>3, SavesEffect
        <5>2. seen[k].attempts < MaxAttempts => exc' = exc
          BY <4>3 DEF Fail
        <5>3. QED
          BY <5>1, <5>2
      <4>4. QED
        BY <1>3, <4>1, <4>2, <4>3
    <3>2. \A t \in Tasks : t # sel[k] => exc'[t] = exc[t]
      BY <1>0, <1>3 DEF Block, Complete, Fail
    <3>3. QED
      BY <3>1, <3>2
  <2>2. task'[sel[k]].status = status /\ \A t \in Tasks : t # sel[k] => task'[t] = task[t]
    BY <1>0, <1>1, <2>1 DEF Saves, CopyOf
  <2>3. Unresolved'
    BY <1>0, <1>1, <2>1, <2>2 DEF Unresolved, CopyOf
  <2>4. \A r \in DOMAIN runs : runs[r].alive => runs[r].task # sel[k] /\ runs[r].task \in Tasks
    <3>1. \A r \in DOMAIN runs : runs[r].task \in Tasks
      BY <1>0, RunsTyped
    <3>2. pc[k] \in {"block", "complete", "fail"}
      BY <1>3 DEF Block, Complete, Fail
    <3>3. QED
      BY <1>1, <3>1, <3>2 DEF NoneFor
  <2>5. QED
    BY <1>0, <2>2, <2>3, <2>4, DoneKnown
<1>4. QED
  BY <1>2, <1>3

(* Every step of a queue that one process works on keeps what is known of  *)
(* its agents, while nothing disturbs it.                                  *)
LEMMA AgentNext ==
    ASSUME ~Concurrent, QueueInv, AgentInv, Undisturbed', [Next]_vars
    PROVE  Known'
<1>0. TypeInv /\ (\A r \in DOMAIN runs : runs[r] \in Run) /\ runs \in Seq(Run)
      /\ exc \in [Tasks -> BOOLEAN] /\ task \in [Tasks -> Row]
      /\ used \in [{"refresh", "resolve", "pause", "fault", "stale"} -> Nat]
  BY LenProperties DEF QueueInv, Orderly, TypeInv, TypeOK
<1>a. /\ \A k \in Workers : ~StatementFails(k) /\ ~ReconcileFails(k)
      /\ CommitRequest => ~Overtaken
      /\ Undisturbed
  <2>1. /\ used' \in [{"refresh", "resolve", "pause", "fault", "stale"} -> Nat]
        /\ \A what \in {"refresh", "resolve", "pause", "fault", "stale"} :
              used[what] <= used'[what]
        /\ \A k \in Workers :
              StatementFails(k) \/ ReconcileFails(k) => used'["fault"] = used["fault"] + 1
        /\ CommitRequest /\ Overtaken => used'["stale"] = used["stale"] + 1
    BY <1>0, UsedGrows
  <2>2. /\ used'["fault"] = 0 /\ used'["refresh"] = 0 /\ used'["stale"] = 0
        /\ used'["resolve"] <= 1
    BY DEF Undisturbed
  <2>3. used["fault"] = 0 /\ used["refresh"] = 0 /\ used["stale"] = 0 /\ used["resolve"] <= 1
    BY <1>0, <2>1, <2>2
  <2>4. QED
    BY <2>1, <2>2, <2>3 DEF Undisturbed
<1>b. Known /\ Unresolved
  BY <1>a DEF AgentInv, Known
<1>c. \A r \in DOMAIN runs : runs[r].task \in Tasks /\ runs[r].worker \in Workers
  BY <1>0 DEF Run
<1>d. ASSUME UNCHANGED <<exc, used>>, op' = op \/ op' = NoRequest,
             \A t \in Tasks : task[t].status = "blocked" => task'[t].status = "blocked"
      PROVE  Unresolved'
  BY <1>b, <1>d, NoRequestTyped DEF Unresolved
<1>1. ASSUME NEW k \in Workers, Start(k) PROVE Known'
  <2>1. UNCHANGED <<task, exc, runs, sel, seen, op, used>> /\ (\A j \in Workers : ~Up(j))
        /\ \A j \in Workers : pc'[j] \in {"off", "dead", "idle"}
    BY <1>0, <1>1 DEF Start, Goto, Up, TypeInv, TypeOK
  <2>2. \A r \in DOMAIN runs : ~runs[r].alive
    BY <1>b, <1>c, <2>1 DEF Known, AgentsKnown
  <2>3. QED
    BY <1>d, <2>1, <2>2
       DEF Known, CopyTrue, CopyOf, AgentsKnown, NoneAtWork, NoneFor, Working, Holding
<1>2. ASSUME NEW k \in Workers, Select(k) \/ Claim(k) \/ Reclaim(k) \/ Load(k)
      PROVE  Known'
  <2>1. UNCHANGED <<exc, op, used>>
    BY <1>2 DEF Select, Claim, Reclaim, Load
  <2>2. \A t \in Tasks : task[t].status = "blocked" => task'[t].status = "blocked"
    <3>1. CASE Claim(k) /\ sel[k] \in Launchable
      BY <1>0, <3>1, ClaimEffect DEF Launchable
    <3>2. CASE Reclaim(k)
      BY <1>0, <3>2, ReclaimEffect DEF Same
    <3>3. CASE UNCHANGED task
      BY <3>3
    <3>4. QED
      BY <1>2, <3>1, <3>2, <3>3 DEF Select, Claim, Load
  <2>3. QED
    BY <1>2, <1>b, <1>d, <2>1, <2>2, PickUpKnown
<1>3. ASSUME NEW k \in Workers, LaunchAgent(k) \/ SendApplication(k) \/ RecordRun(k)
      PROVE  Known'
  <2>1. UNCHANGED <<exc, op, used>>
    BY <1>3 DEF LaunchAgent, SendApplication, RecordRun
  <2>2. \A t \in Tasks : task'[t].status = task[t].status
    BY <1>0, <1>3, RecordEffect DEF LaunchAgent, SendApplication
  <2>3. QED
    BY <1>3, <1>b, <1>d, <2>1, <2>2, LaunchKnown
<1>4. ASSUME NEW k \in Workers, Reconcile(k) PROVE Known'
  <2>1. UNCHANGED <<task, exc, op, used>>
    BY <1>4 DEF Reconcile
  <2>2. QED
    BY <1>4, <1>b, <1>d, <2>1, ReconcileKnown
<1>5. ASSUME NEW k \in Workers, Block(k) \/ Complete(k) \/ Fail(k) \/ Renew(k) PROVE Known'
  BY <1>5, <1>b, SaveKnown
<1>6. ASSUME NEW k \in Workers, Crash(k) PROVE Known'
  <2>1. /\ UNCHANGED <<task, exc, used>> /\ Up(k) /\ Done(k, "dead")
        /\ op' = op \/ op' = NoRequest
        /\ runs' = [r \in DOMAIN runs |->
                      IF runs[r].worker = k THEN [runs[r] EXCEPT !.alive = FALSE] ELSE runs[r]]
    BY <1>6 DEF Crash
  <2>2. pc'[k] = "dead" /\ \A j \in Workers : j # k => pc'[j] = pc[j]
    BY <1>0, <2>1, DoneTyped
  <2>3. CopyOf(k)' /\ NoneFor(k)'
    BY <2>2 DEF CopyOf, NoneFor, Working, Holding
  <2>4. \A r \in DOMAIN runs : runs[r].alive => runs[r].worker = k
    BY <1>b, <1>c, <2>1 DEF Known, AgentsKnown, QueueInv, Orderly, Alone
  <2>5. DOMAIN runs' = DOMAIN runs /\ \A r \in DOMAIN runs : ~runs'[r].alive
    BY <1>0, <2>1, <2>4 DEF Run
  <2>6. AgentsKnown'
    BY <2>5 DEF AgentsKnown
  <2>7. QED
    BY <1>d, <2>1, <2>2, <2>3, <2>6, WorkerKnown
<1>7. ASSUME NEW r \in DOMAIN runs, AgentOpens(r) \/ AgentEnds(r) PROVE Known'
  <2>1. UNCHANGED <<task, exc, op, used, pc, sel, seen>>
    BY <1>7 DEF AgentOpens, AgentEnds
  <2>2. PICK x : /\ runs' = [runs EXCEPT ![r] = x]
                 /\ x.task = runs[r].task /\ x.worker = runs[r].worker
                 /\ (x.alive => runs[r].alive /\ x.recorded = runs[r].recorded)
    <3>1. CASE AgentOpens(r)
      <4>1. runs' = [runs EXCEPT ![r] = [runs[r] EXCEPT !.client = TRUE]] /\ runs[r] \in Run
        BY <1>0, <3>1 DEF AgentOpens
      <4> DEFINE y == [runs[r] EXCEPT !.client = TRUE]
      <4>2. /\ y.task = runs[r].task /\ y.worker = runs[r].worker
            /\ y.alive = runs[r].alive /\ y.recorded = runs[r].recorded
        BY <4>1 DEF Run
      <4>3. QED
        BY <4>1, <4>2
    <3>2. CASE AgentEnds(r)
      <4>1. PICK outcome : runs' = [runs EXCEPT ![r].recorded = outcome, ![r].alive = FALSE]
        BY <3>2 DEF AgentEnds
      <4>2. runs' = [runs EXCEPT ![r] = [runs[r] EXCEPT !.recorded = outcome, !.alive = FALSE]]
            /\ runs[r] \in Run
        BY <1>0, <4>1
      <4> DEFINE y == [runs[r] EXCEPT !.recorded = outcome, !.alive = FALSE]
      <4>3. y.task = runs[r].task /\ y.worker = runs[r].worker /\ ~y.alive
        BY <4>2 DEF Run
      <4>4. QED
        BY <4>2, <4>3
    <3>3. QED
      BY <1>7, <3>1, <3>2
  <2>3. /\ DOMAIN runs' = DOMAIN runs
        /\ \A q \in DOMAIN runs :
              /\ runs'[q].task = runs[q].task /\ runs'[q].worker = runs[q].worker
              /\ runs'[q].alive => runs[q].alive /\ runs'[q].recorded = runs[q].recorded
    BY <1>0, <2>2
  <2>4. QED
    BY <1>0, <1>b, <1>d, <2>1, <2>3, RequestKnown
<1>r. ASSUME UNCHANGED <<pc, sel, seen, runs>>, Unresolved',
             \A t \in Tasks : task[t].status = "running" =>
                task'[t].status = "running" /\ task'[t].run = task[t].run
      PROVE  Known'
  BY <1>0, <1>b, <1>r, RequestKnown
<1>8. ASSUME NEW t \in Tasks, Enqueue(t) PROVE Known'
  <2>1. /\ UNCHANGED <<exc, op, used, pc, sel, seen, runs>> /\ task[t].status = "none"
        /\ \A u \in Tasks : u # t => task'[u] = task[u]
    BY <1>0, <1>8 DEF Enqueue
  <2>2. QED
    BY <1>d, <1>r, <2>1
<1>9. ASSUME NEW t \in Tasks, LeaseExpires(t) \/ BackoffElapses(t) PROVE Known'
  <2>1. UNCHANGED <<exc, op, used, pc, sel, seen, runs>>
    BY <1>9 DEF LeaseExpires, BackoffElapses
  <2>2. \A u \in Tasks : Same(u)
    BY <1>0, <1>9, TimeEffect
  <2>3. QED
    BY <1>d, <1>r, <2>1, <2>2 DEF Same
<1>10. ASSUME NEW k \in Workers, NEW t \in Tasks, Asks(k, t) PROVE Known'
  <2>1. /\ UNCHANGED <<task, exc, pc, sel, seen, runs>> /\ op'.rows \subseteq Tasks
        /\ \A u \in op'.rows : op'.saw[u] = task[u]
        /\ op'.what = "resolve" =>
              used'["resolve"] = used["resolve"] + 1 /\ \A u \in op'.rows : exc[u]
        /\ op'.what # "resolve" => used'["resolve"] = used["resolve"]
    BY <1>0, <1>10, AsksEffect DEF Request
  <2>2. Unresolved'
    <3>1. CASE op'.what = "resolve"
      <4>1. used["resolve"] = 0 /\ used'["resolve"] # 0
        BY <1>0, <2>1, <3>1 DEF Undisturbed
      <4>2. \A u \in op'.rows : op'.saw[u].status = "blocked"
        BY <1>b, <2>1, <3>1, <4>1 DEF Unresolved
      <4>3. QED
        BY <4>1, <4>2 DEF Unresolved
    <3>2. CASE op'.what # "resolve"
      BY <1>b, <2>1, <3>2 DEF Unresolved
    <3>3. QED
      BY <3>1, <3>2
  <2>3. QED
    BY <1>r, <2>1, <2>2
<1>11. CASE CommitRequest
  <2>1. /\ UNCHANGED <<exc, pc, sel, seen, runs>> /\ ~Overtaken /\ op' = NoRequest
        /\ used'["resolve"] = used["resolve"]
        /\ \A t \in Tasks : t \notin op.rows => task'[t] = task[t]
        /\ op.what \in {"pause", "resume", "refresh", "resolve"}
    BY <1>0, <1>11, <1>a, CommitTyped DEF CommitRequest
  <2>2. op.what # "refresh"
    BY <1>a DEF QueueInv, RequestTrue, Undisturbed
  <2>3. \A t \in op.rows : task[t].status \in Sought /\ task[t].status = op.saw[t].status
    BY <1>0, <1>11, <2>1, CommitEffect DEF QueueInv
  <2>4. \A t \in op.rows : /\ task[t].status # "running"
                           /\ used["resolve"] = 0 => task[t].status # "blocked"
    BY <1>b, <2>1, <2>2, <2>3 DEF Unresolved, Sought
  <2>5. Unresolved'
    BY <1>b, <2>1, <2>4, NoRequestTyped DEF Unresolved
  <2>6. QED
    BY <1>r, <2>1, <2>4, <2>5
<1>14. CASE CancelRun
  <2>1. used["refresh"] # 0
    BY <1>14 DEF CancelRun, QueueInv, RequestTrue
  <2>2. QED
    BY <1>a, <2>1 DEF Undisturbed
<1>15. CASE DropRequest
  <2>1. UNCHANGED <<task, exc, pc, sel, seen, runs, used>> /\ op' = NoRequest
    BY <1>15 DEF DropRequest
  <2>2. QED
    BY <1>d, <1>r, <2>1
<1>16. AnyTask \in Tasks
  BY WorkflowAssumption DEF AnyTask
<1>17. ASSUME NEW k \in Workers, AskPause(k) \/ AskResume(k) PROVE Known'
  BY <1>10, <1>16, <1>17 DEF Asks
<1>18. ASSUME NEW k \in Workers, NEW t \in Tasks, AskRefresh(k, t) \/ AskResolve(k, t)
       PROVE  Known'
  BY <1>10, <1>18 DEF Asks
<1>12. CASE UNCHANGED vars
  BY <1>12, <1>d, <1>r DEF vars
<1>13. QED
  BY <1>a, <1>1, <1>2, <1>3, <1>4, <1>5, <1>6, <1>7, <1>8, <1>9, <1>11, <1>12,
     <1>14, <1>15, <1>17, <1>18 DEF Next, WorkerStep

(* Two agents at work for a task would belong to the process that is up,   *)
(* and the task, or the launch that is being recorded, names one run.      *)
LEMMA OneAgent ==
    ASSUME QueueInv, Known
    PROVE  OneAgentPerTask
<1>0. \A r \in DOMAIN runs : runs[r].worker \in Workers
  BY RunsTyped DEF QueueInv, Orderly
<1>n. DOMAIN runs \subseteq Nat
  BY RunsTyped DEF QueueInv, Orderly
<1>1. ASSUME NEW t \in Tasks, NEW r \in AtWork(t), NEW s \in AtWork(t) PROVE r = s
  <2>1. /\ r \in DOMAIN runs /\ s \in DOMAIN runs /\ r \in Nat /\ s \in Nat
        /\ runs[r].task = t /\ runs[s].task = t /\ runs[r].alive /\ runs[s].alive
    BY <1>1, <1>n DEF AtWork
  <2>2. PICK k \in Workers : runs[r].worker = k /\ runs[s].worker = k
    BY <1>0, <2>1 DEF Known, AgentsKnown, QueueInv, Orderly, Alone
  <2>3. Launching(k, r) <=> Launching(k, s)
    BY <2>1 DEF Launching
  <2>4. IF Launching(k, r) THEN IsLastRun(k, r) ELSE task[t].run = r
    BY <2>1, <2>2 DEF Known, AgentsKnown
  <2>5. IF Launching(k, s) THEN IsLastRun(k, s) ELSE task[t].run = s
    BY <2>1, <2>2 DEF Known, AgentsKnown
  <2>6. QED
    BY <2>1, <2>3, <2>4, <2>5 DEF IsLastRun
<1>2. ASSUME NEW t \in Tasks PROVE Cardinality(AtWork(t)) <= 1
  <2>1. CASE AtWork(t) = {}
    BY <2>1, FS_EmptySet
  <2>2. ASSUME NEW r \in AtWork(t) PROVE Cardinality(AtWork(t)) <= 1
    <3>1. AtWork(t) = {r}
      BY <1>1, <2>2
    <3>2. Cardinality({r}) = 1
      BY FS_Singleton
    <3>3. QED
      BY <3>1, <3>2
  <2>3. QED
    BY <2>1, <2>2
<1>3. QED
  BY <1>2 DEF OneAgentPerTask

(* A crash, an expired lease, a pause or one retry never adds an agent.    *)
LEMMA OneAgentWhileUndisturbed ==
    ASSUME ~Concurrent PROVE Spec => [](Undisturbed => OneAgentPerTask)
<1>1. Init => AgentInv
  BY QueueInit
<1>2. QueueInv /\ AgentInv /\ [Next]_vars => AgentInv'
  BY AgentNext DEF AgentInv
<1>3. QueueInv /\ AgentInv => (Undisturbed => OneAgentPerTask)
  BY OneAgent DEF AgentInv
<1>4. QED
  BY <1>1, <1>2, <1>3, QueueStaysSound, PTL DEF Spec

(* Where one process runs at a time, the rows keep their types and no task *)
(* is attempted more often than it may, whatever fails, is refreshed,      *)
(* retried or comes late; and until the first failing statement, refresh,  *)
(* late request or second retry, a task has one agent at work, through     *)
(* crashes, expired leases and pauses.  Each of the four can add one.      *)
THEOREM QueueSoundUndisturbed ==
    ASSUME ~Concurrent
    PROVE  Spec => [](TypeOK /\ AttemptsBounded /\ (Undisturbed => QueueSound))
<1>1. QueueInv => TypeOK /\ AttemptsBounded
  BY DEF QueueInv, Orderly, TypeInv, AttemptsCounted, AttemptsBounded, Ceiling
<1>2. TypeOK /\ AttemptsBounded /\ OneAgentPerTask => QueueSound
  BY DEF QueueSound
<1>3. QED
  BY <1>1, <1>2, QueueStaysSound, OneAgentWhileUndisturbed, PTL
-----------------------------------------------------------------------------
(* From the choice of a row to the end of the pass.                        *)
Inside == Working \cup {"claim", "reclaim"}

Pending(status) == status \notin {"none", "completed"}
Going == company.stage \in {"qualified", "preparing"} /\ ~spent.late

(* Queue and tables hold values of their kind, and the queue is sound.     *)
TableInv == QueueInv /\ PipelineTypeOK

(* A worker works on a row that exists, and reconciles only agents' rows;  *)
(* a row's role fits its kind; nothing exists for a company that is not    *)
(* retained.                                                               *)
RowsInHand ==
    /\ \A k \in Workers : pc[k] \in Inside => task[sel[k]].status # "none"
    /\ \A k \in Workers : pc[k] \in {"reclaim", "load_reclaimed", "reconcile"}
                             => KindOf[sel[k]] # "send"
    /\ \A t \in Tasks : role[t] = "send" <=> KindOf[t] = "send"
    /\ \A t \in Tasks : exc[t] => task[t].status # "none"
    /\ company.stage = "none" =>
          request = "none" /\ \A t \in Tasks : task[t].status = "none"

(* A request is about rows that exist, and no draft's row is a send's.     *)
Asking ==
    /\ op.what \in {"none", "pause", "resume", "resolve"}
    /\ \A t \in op.rows : task[t].status # "none"
    /\ op.turn => \A t \in op.rows : KindOf[t] # "send"

(* What the session of a worker still has to write is true.                *)
NoteTrue(k) ==
    /\ note[k].what # "none" =>
          pc[k] = IF note[k].what = "doubt" THEN "fail" ELSE "complete"
    /\ note[k].what = "due" => KindOf[sel[k]] # "send"
    /\ note[k].what = "sent" => \E e \in mailed : e.draft = note[k].draft
    /\ note[k].what = "ready" => company.drafts > 0
    /\ pc[k] = "complete" /\ role[sel[k]] = "draft" => company.drafts > 0
NotesTrue == \A k \in Workers : NoteTrue(k)

(* Once a draft's row has been completed, a draft exists and the contact   *)
(* it needs stays; the company is on its way again only with another draft.*)
Drafted == \E t \in Tasks : \/ role[t] = "draft" /\ task[t].status = "completed"
                            \/ role[t] = "send" /\ task[t].status # "none"
DraftedOnce ==
    Drafted =>
      /\ company.drafts > 0
      /\ Going => company.contact
      /\ Going => \E t \in Tasks : role[t] = "draft" /\ Pending(task[t].status)
      /\ \A k \in Workers : pc[k] = "record" /\ role[sel[k]] = "draft" => company.contact

(* A worker that has nothing left to hand over and is about to complete    *)
(* its row leaves another one behind.                                      *)
LeavesOne(k) ==
    pc[k] = "complete" /\ note[k].what = "none" /\ Going =>
        /\ role[sel[k]] # "draft"
        /\ \E t \in Tasks \ {sel[k]} : Pending(task[t].status)
HandedOver == \A k \in Workers : LeavesOne(k)

(* A message in doubt is of a row that runs, and the only worker that goes *)
(* on with that row is about to commit its record.                         *)
Recording(k) ==
    pc[k] \in Working =>
        \A e \in Loose(sel[k]) :
            /\ \/ pc[k] = "complete" /\ note[k].what = "sent"
               \/ pc[k] = "fail" /\ note[k].what = "doubt"
            /\ note[k].draft = e.draft
InDoubt ==
    /\ \A e \in mailed : KindOf[e.task] = "send"
    /\ \A t \in Tasks : Loose(t) # {} => task[t].status = "running"
    /\ \A k \in Workers : Recording(k)

FlowInv == RowsInHand /\ NotesTrue /\ DraftedOnce /\ HandedOver /\ PipelineAlive
PipelineInv == TableInv /\ StageBacked /\ FlowInv /\ InDoubt /\ Asking
-----------------------------------------------------------------------------
(* A row that is inserted was free, and is queued with no attempt used.    *)
Inserted(t, what) ==
    /\ task[t].status = "none" /\ (KindOf[t] = "send" <=> what = "send")
    /\ task' = [task EXCEPT ![t] = [NewRow EXCEPT !.status = "queued", !.due = TRUE]]
    /\ task' \in [Tasks -> Row]
    /\ task'[t].status = "queued" /\ task'[t].attempts = 0 /\ task'[t].run = NoRun
    /\ \A u \in Tasks : u # t => task'[u] = task[u]
    /\ role'[t] = what /\ \A u \in Tasks : u # t => role'[u] = role[u]
    /\ role' \in [Tasks -> Roles]

(* Inserting a row takes a free one and makes it queued, due and of the    *)
(* role it is for.                                                         *)
LEMMA InsertEffect ==
    ASSUME TypeInv, role \in [Tasks -> Roles], NEW what \in Roles, InsertRow(what)
    PROVE  \E t \in Tasks : Inserted(t, what)
<1> DEFINE t == CHOOSE t \in FreeRows(what) : TRUE
           row == [NewRow EXCEPT !.status = "queued", !.due = TRUE]
<1>1. t \in FreeRows(what)
  BY DEF InsertRow
<1>2. /\ t \in Tasks /\ task[t].status = "none" /\ (KindOf[t] = "send" <=> what = "send")
  BY <1>1 DEF FreeRows
<1>3. task' = [task EXCEPT ![t] = row] /\ role' = [role EXCEPT ![t] = what]
  BY DEF InsertRow
<1>4. row \in Row /\ row.status = "queued" /\ row.attempts = 0 /\ row.run = NoRun
  BY NewRowTyped DEF NewRow
<1> HIDE DEF t
<1>5. /\ task' \in [Tasks -> Row] /\ task'[t] = row
      /\ \A u \in Tasks : u # t => task'[u] = task[u]
  BY <1>2, <1>3, <1>4, RowPut
<1>6. /\ role'[t] = what /\ \A u \in Tasks : u # t => role'[u] = role[u]
      /\ role' \in [Tasks -> Roles]
  BY <1>2, <1>3
<1>7. Inserted(t, what)
  BY <1>2, <1>3, <1>4, <1>5, <1>6 DEF Inserted
<1>8. QED
  BY <1>2, <1>7

(* A hand-over with an insert writes one free row, reloads its worker's    *)
(* copy and moves the company; every other step is one of the queue's.     *)
NextOf(k) == IF role[sel[k]] = "contact" THEN "draft"
             ELSE IF company.mode = "gated_autosend" THEN "send" ELSE "none"
StageOf(k) == IF role[sel[k]] = "draft" THEN "ready" ELSE company.stage
HandsOver(k, t) ==
    /\ pc[k] = "complete" /\ note[k].what = "due" /\ NextOf(k) \in {"draft", "send"}
    /\ Inserted(t, NextOf(k))
    /\ seen' = [seen EXCEPT ![k] = Current(k)]
    /\ SetStage(StageOf(k)) /\ Noted(k, "none", 0)
    /\ UNCHANGED <<exc, runs, pc, sel, op, used, made, mailed, request, spent>>

(* A hand-over inserts the next row and records the stage, or finds the    *)
(* row there already and only records it.                                  *)
LEMMA HandOverEffect ==
    ASSUME TypeInv, role \in [Tasks -> Roles], NEW k \in Workers, HandOver(k)
    PROVE  \/ \E t \in Tasks : HandsOver(k, t)
           \/ /\ pc[k] = "complete" /\ note[k].what = "due"
              /\ NextOf(k) = "none" \/ Existing(NextOf(k)) # {}
              /\ Noted(k, IF StageOf(k) = company.stage THEN "none" ELSE StageOf(k), 0)
              /\ UNCHANGED <<vars, role, company, made, mailed, request, spent>>
<1>1. ASSUME NextOf(k) # "none", InsertRow(NextOf(k)), seen' = [seen EXCEPT ![k] = Current(k)],
             SetStage(StageOf(k)), Noted(k, "none", 0)
      PROVE  \E t \in Tasks : HandsOver(k, t)
  <2>1. NextOf(k) \in {"draft", "send"} /\ NextOf(k) \in Roles
    BY <1>1 DEF NextOf, Roles
  <2>2. PICK t \in Tasks : Inserted(t, NextOf(k))
    BY <1>1, <2>1, InsertEffect
  <2>3. QED
    BY <1>1, <2>1, <2>2 DEF HandsOver, HandOver
<1>2. QED
  BY <1>1 DEF HandOver, NextOf, StageOf, vars

(* Seen from the queue, a step of the pipeline is a step of WorkflowTasks  *)
(* or a hand-over.                                                         *)
LEMMA PipelineSteps ==
    ASSUME TypeInv, role \in [Tasks -> Roles], request \in {"none", "contact", "draft"},
           [PipelineNext]_pipeVars
    PROVE  [Next]_vars \/ \E k \in Workers, t \in Tasks : HandsOver(k, t)
<1>1. ASSUME NEW what \in Roles, InsertRow(what), UNCHANGED <<exc, runs, pc, sel, seen, op, used>>
      PROVE  Next
  <2>1. PICK t \in Tasks : Inserted(t, what)
    BY <1>1, InsertEffect
  <2>2. Enqueue(t)
    BY <1>1, <2>1 DEF Inserted, Enqueue
  <2>3. QED
    BY <2>2 DEF Next
<1>2. Retain => Next
  BY <1>1 DEF Retain, NextRole, Roles
<1>3. InsertPrepared => Next
  BY <1>1 DEF InsertPrepared, Roles
<1>4. TimePasses => Next
  BY DEF TimePasses, Next
<1>5. ASSUME NEW k \in Workers, QueueStep(k) \/ Launch(k) \/ Record(k) \/ Inspect(k)
                                \/ FinishTask(k) \/ Send(k) \/ Die(k) \/ Break(k)
      PROVE  Next
  BY <1>5 DEF QueueStep, Launch, Record, Inspect, FinishTask, Send, Die, Break, Next, WorkerStep
<1>6. ASSUME NEW k \in Workers, HandOver(k)
      PROVE  UNCHANGED vars \/ \E t \in Tasks : HandsOver(k, t)
  BY <1>6, HandOverEffect
<1>7. ASSUME NEW r \in DOMAIN runs, Finish(r) PROVE Next
  BY <1>7 DEF Finish, Next
<1>8. DecidePrepare \/ SetMode \/ Skip \/ LoseContact \/ (\E d \in 1..MaxDrafts : Queue(d))
      => UNCHANGED vars
  BY DEF DecidePrepare, SetMode, Skip, LoseContact, Queue
<1>9. Answer \/ Refuse => Next
  BY DEF Answer, Refuse, Next
<1>10. ASSUME NEW k \in Workers, AskPauseOrResume(k) \/ (\E t \in Tasks : AskRetry(k, t))
       PROVE  Next
  BY <1>10 DEF AskPauseOrResume, AskRetry, Next
<1>11. UNCHANGED pipeVars => UNCHANGED vars
  BY DEF pipeVars
<1>12. QED
  BY <1>2, <1>3, <1>4, <1>5, <1>6, <1>7, <1>8, <1>9, <1>10, <1>11 DEF PipelineNext

(* A hand-over keeps the queue sound.                                      *)
LEMMA HandsOverQueue ==
    ASSUME QueueInv, NEW k \in Workers, NEW t \in Tasks, HandsOver(k, t)
    PROVE  QueueInv'
<1>0. /\ TypeInv /\ task \in [Tasks -> Row] /\ seen \in [Workers -> Row]
      /\ sel \in [Workers -> Tasks] /\ pc \in [Workers -> Steps]
      /\ \A u \in Tasks : task[u].attempts \in Nat
      /\ Ceiling \in Nat /\ MaxAttempts \in Nat \ {0} /\ MaxAttempts <= Ceiling
  BY WorkflowAssumption, CeilingTyped DEF QueueInv, Orderly, TypeInv, TypeOK, Row
<1>1. /\ task' \in [Tasks -> Row] /\ task'[t].status = "queued" /\ task'[t].attempts = 0
      /\ task'[t].run = NoRun /\ \A u \in Tasks : u # t => task'[u] = task[u]
      /\ seen' = [seen EXCEPT ![k] = task[sel[k]]] /\ pc[k] = "complete"
      /\ task[t].status = "none"
      /\ UNCHANGED <<exc, runs, pc, sel, op, used>>
  BY DEF HandsOver, Inserted, Current
<1>2. seen' \in [Workers -> Row] /\ seen'[k] = task[sel[k]]
      /\ \A j \in Workers : j # k => seen'[j] = seen[j]
  BY <1>0, <1>1
<1>3. References'
  <2>1. /\ \A u \in Tasks : task'[u].run \in DOMAIN runs \cup {NoRun}
        /\ \A j \in Workers : seen'[j].run \in DOMAIN runs \cup {NoRun}
        /\ \A j \in Workers : pc'[j] = "reconcile" => seen'[j].run # NoRun
    BY <1>0, <1>1, <1>2 DEF TypeInv, References
  <2>2. QED
    BY <1>0, <1>1, <2>1, ReferencesKept
<1>4. TypeInv' /\ Ceiling' = Ceiling
  BY <1>0, <1>1, <1>2, <1>3 DEF TypeInv, TypeOK, Ceiling
<1>5. \A u \in Tasks : Calm(u)
  BY <1>0, <1>1, <1>4 DEF Calm, QueueInv, Orderly, AttemptsCounted
<1>6. \A j \in Workers : GoesOn(j)
  <2>1. ASSUME NEW j \in Workers, pc[j] \in Working PROVE task'[sel[j]].status # "completed"
    BY <1>0, <1>1, <2>1 DEF QueueInv, Orderly, NotCompleted
  <2>2. QED
    BY <1>0, <1>1, <1>2, <2>1 DEF GoesOn
<1>7. Orderly'
  BY <1>0, <1>4, <1>5, <1>6, CalmStep
<1>8. RequestTrue'
  <2>1. RequestTrue /\ task[t].attempts = 0
    BY <1>1 DEF QueueInv, RequestTrue
  <2>2. \A u \in Tasks : task'[u].attempts \in Nat
    BY <1>1 DEF Row
  <2>3. \A u \in Tasks : task[u].attempts <= task'[u].attempts
    BY <1>0, <1>1, <2>1
  <2>4. \A u \in Tasks : task'[u].status = "none" =>
            task[u].status = "none" /\ task'[u].attempts = task[u].attempts
    BY <1>1
  <2>5. QED
    BY <1>0, <1>1, <2>1, <2>2, <2>3, <2>4, RequestKept
<1>9. QED
  BY <1>7, <1>8 DEF QueueInv

(* The queue beside a pipeline is as sound as the queue on its own.        *)
LEMMA QueueKept == TableInv /\ [PipelineNext]_pipeVars => QueueInv'
<1> SUFFICES ASSUME TableInv, [PipelineNext]_pipeVars PROVE QueueInv'
  OBVIOUS
<1>1. [Next]_vars \/ \E k \in Workers, t \in Tasks : HandsOver(k, t)
  BY PipelineSteps DEF TableInv, QueueInv, Orderly, PipelineTypeOK
<1>2. QED
  BY <1>1, QueueNext, HandsOverQueue, PipelineAssumption DEF TableInv
-----------------------------------------------------------------------------
(* What the rows about the company hold, column by column.                 *)
Modes == {"prepare_only", "gated_autosend"}
LEMMA CompanyColumns ==
    company \in Company =>
      /\ company.stage \in Stages /\ company.contact \in BOOLEAN
      /\ company.drafts \in 0..MaxDrafts /\ company.intents \in Seq(1..MaxDrafts)
      /\ company.outreach \subseteq 1..MaxDrafts /\ company.doubt \subseteq 1..MaxDrafts
      /\ company.mode \in Modes
      /\ MaxDrafts \in Nat
BY PipelineAssumption DEF Company, Modes

(* An assignment to a column keeps the row about the company.              *)
LEMMA CompanyChanged ==
    ASSUME company \in Company
    PROVE  /\ \A v \in Stages : [company EXCEPT !.stage = v] \in Company
           /\ \A v \in BOOLEAN : [company EXCEPT !.contact = v] \in Company
           /\ \A v \in 0..MaxDrafts : [company EXCEPT !.drafts = v] \in Company
           /\ \A v \in Seq(1..MaxDrafts) : [company EXCEPT !.intents = v] \in Company
           /\ \A v \in Modes : [company EXCEPT !.mode = v] \in Company
           /\ \A v \in Stages, w \in SUBSET (1..MaxDrafts) :
                 [company EXCEPT !.stage = v, !.outreach = w] \in Company
           /\ \A w \in SUBSET (1..MaxDrafts) : [company EXCEPT !.doubt = w] \in Company
BY DEF Company, Modes

(* What a worker writes about the company as it ends its row.              *)
LEMMA WrittenEffect ==
    ASSUME PipelineTypeOK, NEW k \in Workers
    PROVE  /\ Written(k) \in Company
           /\ Written(k).stage = IF note[k].what \in {"ready", "sent"} THEN note[k].what
                                 ELSE company.stage
           /\ Written(k).outreach = IF note[k].what = "sent"
                                    THEN company.outreach \cup ({note[k].draft} \ {0})
                                    ELSE company.outreach
           /\ Written(k).doubt = IF note[k].what = "doubt"
                                 THEN company.doubt \cup ({note[k].draft} \ {0})
                                 ELSE company.doubt
           /\ Written(k).contact = company.contact /\ Written(k).drafts = company.drafts
<1>1. company \in Company /\ note[k].draft \in 0..MaxDrafts
      /\ note[k].what \in {"none", "due", "ready", "sent", "doubt"}
  BY DEF PipelineTypeOK
<1>2. CASE note[k].what = "ready"
  <2>1. Written(k) = [company EXCEPT !.stage = "ready"]
    BY <1>2 DEF Written
  <2>2. /\ Written(k) \in Company /\ Written(k).stage = "ready"
        /\ Written(k).outreach = company.outreach /\ Written(k).doubt = company.doubt
        /\ Written(k).contact = company.contact /\ Written(k).drafts = company.drafts
    BY <1>1, <2>1 DEF Company, Stages
  <2>3. QED
    BY <1>2, <2>2
<1>3. CASE note[k].what = "sent"
  <2> DEFINE records == company.outreach \cup ({note[k].draft} \ {0})
  <2>1. records \in SUBSET (1..MaxDrafts)
    BY <1>1, CompanyColumns
  <2>2. Written(k) = [company EXCEPT !.stage = "sent", !.outreach = records]
    BY <1>3 DEF Written
  <2> HIDE DEF records
  <2>3. Written(k) \in Company /\ Written(k).stage = "sent" /\ Written(k).outreach = records
        /\ Written(k).doubt = company.doubt
        /\ Written(k).contact = company.contact /\ Written(k).drafts = company.drafts
    BY <1>1, <2>1, <2>2 DEF Company, Stages
  <2>4. QED
    BY <1>3, <2>3 DEF records
<1>4. CASE note[k].what = "doubt"
  <2> DEFINE records == company.doubt \cup ({note[k].draft} \ {0})
  <2>1. records \in SUBSET (1..MaxDrafts)
    BY <1>1, CompanyColumns
  <2>2. Written(k) = [company EXCEPT !.doubt = records]
    BY <1>4 DEF Written
  <2> HIDE DEF records
  <2>3. Written(k) \in Company /\ Written(k).doubt = records
        /\ Written(k).stage = company.stage /\ Written(k).outreach = company.outreach
        /\ Written(k).contact = company.contact /\ Written(k).drafts = company.drafts
    BY <1>1, <2>1, <2>2 DEF Company, Stages
  <2>4. QED
    BY <1>4, <2>3 DEF records
<1>5. CASE note[k].what \in {"none", "due"}
  <2>1. Written(k) = company
    BY <1>5 DEF Written
  <2>2. QED
    BY <1>1, <1>5, <2>1
<1>6. QED
  BY <1>1, <1>2, <1>3, <1>4, <1>5

Notable == [what : {"none", "due", "ready", "sent", "doubt"}, draft : 0..MaxDrafts]
Messages == [draft : 1..MaxDrafts, task : Tasks, freed : BOOLEAN]

(* What a worker notes is what it holds afterwards, and nobody else's      *)
(* note changes.                                                           *)
LEMMA NotedTyped ==
    ASSUME note \in [Workers -> Notable], NEW k \in Workers,
           NEW what \in {"none", "due", "ready", "sent", "doubt"}, NEW draft \in 0..MaxDrafts,
           Noted(k, what, draft)
    PROVE  /\ note' \in [Workers -> Notable]
           /\ note'[k].what = what /\ note'[k].draft = draft
           /\ \A j \in Workers : j # k => note'[j] = note[j]
BY DEF Noted, Notable

(* A message is about the newest draft with an intent, and of its sender's *)
(* row; one that is freed is the same message.                             *)
LEMMA NewestIntent ==
    ASSUME company \in Company, company.intents # <<>>
    PROVE  Newest \in 1..MaxDrafts
<1> DEFINE intents == company.intents
<1>1. intents \in Seq(1..MaxDrafts) /\ intents # <<>>
  BY CompanyColumns
<1> HIDE DEF intents
<1>2. Len(intents) \in 1..Len(intents)
  BY <1>1, EmptySeq
<1>3. intents[Len(intents)] \in 1..MaxDrafts
  BY <1>1, <1>2, ElementOfSeq
<1>4. QED
  BY <1>3 DEF intents, Newest

(* A message about a draft of the company, with its columns.               *)
LEMMA MessageTyped ==
    ASSUME NEW t \in Tasks, NEW draft \in 1..MaxDrafts
    PROVE  /\ Message(t, draft) \in Messages
           /\ Message(t, draft).draft = draft /\ Message(t, draft).task = t
           /\ Message(t, draft).freed = (task[t].status # "running")
BY DEF Message, Messages

Freed(e) == [e EXCEPT !.freed = TRUE]
(* Freeing a message changes nothing else of it.                           *)
LEMMA FreedTyped ==
    ASSUME NEW e \in Messages
    PROVE  Freed(e) \in Messages /\ Freed(e).draft = e.draft /\ Freed(e).task = e.task
           /\ Freed(e).freed = TRUE
BY DEF Freed, Messages
-----------------------------------------------------------------------------
(* The commit of a request writes the rows it read; a retry turns the role *)
(* of its row to the search of a contact, and it frees its messages to be  *)
(* sent again, as one that comes late does.                                *)
Frees(e) == e.task \in op.rows /\ (op.what = "resolve" \/ Overtaken)
LEMMA AnswerEffect ==
    ASSUME TableInv, Answer
    PROVE  /\ \A t \in Tasks : t \notin op.rows => task'[t] = task[t]
           /\ \A t \in op.rows : /\ task'[t].status = task[t].status
                                    \/ task'[t].status \in Waiting
                                 /\ ~Overtaken => task[t].status \in Sought
           /\ role' \in [Tasks -> Roles]
           /\ \A t \in Tasks : \/ role'[t] = role[t]
                               \/ op.turn /\ t \in op.rows /\ role'[t] = "contact"
           /\ mailed' = {IF Frees(e) THEN Freed(e) ELSE e : e \in mailed}
           /\ spent'.late = (spent.late \/ (op.turn /\ company.contact))
           /\ op' = NoRequest /\ CommitRequest
           /\ UNCHANGED <<pc, sel, seen, runs, exc, made, company, note, request>>
<1>0. /\ TypeInv /\ RequestTrue /\ role \in [Tasks -> Roles] /\ mailed \subseteq Messages
      /\ spent \in [prepare : Nat, mode : Nat, loss : Nat, late : BOOLEAN]
      /\ op.turn \in BOOLEAN /\ company.contact \in BOOLEAN
  BY CompanyColumns DEF TableInv, QueueInv, Orderly, TypeInv, TypeOK,
        Request, PipelineTypeOK, Messages
<1>1. CommitRequest
  BY DEF Answer
<1>2. /\ op' = NoRequest /\ UNCHANGED <<exc, runs, pc, sel, seen>>
      /\ \A t \in Tasks : t \notin op.rows => task'[t] = task[t]
  BY <1>0, <1>1, CommitTyped
<1>3. \A t \in op.rows : /\ task'[t].status = task[t].status \/ task'[t].status \in Waiting
                         /\ ~Overtaken => task[t].status \in Sought
  BY <1>0, <1>1, CommitEffect
<1>4. /\ role' \in [Tasks -> Roles]
      /\ \A t \in Tasks : role'[t] = role[t] \/ (op.turn /\ t \in op.rows /\ role'[t] = "contact")
  BY <1>0 DEF Answer, Roles
<1>5. mailed' = {IF Frees(e) THEN Freed(e) ELSE e : e \in mailed}
  <2>1. mailed' = {[e EXCEPT !.freed = @ \/ Frees(e)] : e \in mailed}
    BY DEF Answer, Frees
  <2>2. ASSUME NEW e \in mailed
        PROVE  [e EXCEPT !.freed = @ \/ Frees(e)] = IF Frees(e) THEN Freed(e) ELSE e
    <3>1. e \in Messages
      BY <1>0
    <3>2. Frees(e) \in BOOLEAN
      BY DEF Frees
    <3>3. CASE Frees(e)
      BY <3>1, <3>3 DEF Freed, Messages
    <3>4. CASE ~Frees(e)
      <4>1. e.freed \in BOOLEAN /\ e = [e EXCEPT !.freed = e.freed]
        BY <3>1 DEF Messages
      <4>2. (e.freed \/ Frees(e)) = e.freed
        BY <3>4, <4>1
      <4>3. QED
        BY <3>4, <4>1, <4>2
    <3>5. QED
      BY <3>3, <3>4
  <2>3. QED
    BY <2>1, <2>2
<1>6. spent'.late = (spent.late \/ (op.turn /\ company.contact))
  BY <1>0 DEF Answer
<1>7. QED
  BY <1>1, <1>2, <1>3, <1>4, <1>5, <1>6 DEF Answer

(* Rows, runs, company, notes, messages and requests keep their types.     *)
LEMMA RolesTyped ==
    ASSUME TableInv, [PipelineNext]_pipeVars PROVE role' \in [Tasks -> Roles]
<1>0. TypeInv /\ role \in [Tasks -> Roles] /\ request \in {"none", "contact", "draft"}
  BY DEF TableInv, QueueInv, Orderly, PipelineTypeOK
<1>1. CASE UNCHANGED role
  BY <1>0, <1>1
<1>2. ASSUME NEW what \in Roles, InsertRow(what) PROVE role' \in [Tasks -> Roles]
  BY <1>0, <1>2, InsertEffect DEF Inserted
<1>3. CASE Retain
  BY <1>2, <1>3 DEF Retain, NextRole, Roles
<1>4. CASE InsertPrepared
  BY <1>0, <1>2, <1>4 DEF InsertPrepared, Roles
<1>5. ASSUME NEW k \in Workers, HandOver(k) PROVE role' \in [Tasks -> Roles]
  BY <1>0, <1>5, HandOverEffect DEF HandsOver, Inserted
<1>6. CASE Answer
  BY <1>6, AnswerEffect
<1>7. QED
  BY <1>1, <1>3, <1>4, <1>5, <1>6 DEF PipelineNext, pipeVars, TimePasses, QueueStep,
     Launch, Record, Inspect, FinishTask, Send, Break, Die, Finish, DecidePrepare, SetMode,
     Skip, AskPauseOrResume, AskRetry, Refuse, LoseContact, Queue

(* The record of what the specialists made keeps its type.                 *)
LEMMA MadeTyped ==
    ASSUME TableInv, [PipelineNext]_pipeVars PROVE made' \in Seq(Roles)
<1>0. made \in Seq(Roles)
  BY DEF TableInv, PipelineTypeOK
<1>1. CASE UNCHANGED made
  BY <1>0, <1>1
<1>2. ASSUME NEW k \in Workers, Launch(k) PROVE made' \in Seq(Roles)
  <2>1. made' = made \/ made' = Append(made, "contact") \/ made' = Append(made, "draft")
    BY <1>2 DEF Launch, PrepareSearch, PrepareDraft
  <2>2. QED
    BY <1>0, <2>1, AppendProperties DEF Roles
<1>3. QED
  BY <1>1, <1>2 DEF PipelineNext, pipeVars, Retain, TimePasses, QueueStep, Record,
     Inspect, HandOver, FinishTask, Send, Break, Die, Finish, DecidePrepare, InsertPrepared,
     SetMode, Skip, AskPauseOrResume, AskRetry, Answer, Refuse, LoseContact, Queue

(* The row about the company keeps its type, step by step.                 *)
LEMMA CompanyTyped ==
    ASSUME TableInv, [PipelineNext]_pipeVars PROVE company' \in Company
<1>0. company \in Company /\ TypeInv /\ role \in [Tasks -> Roles]
  BY DEF TableInv, QueueInv, Orderly, PipelineTypeOK
<1>1. CASE UNCHANGED company
  BY <1>0, <1>1
<1>2. ASSUME NEW stage \in Stages, SetStage(stage) PROVE company' \in Company
  BY <1>0, <1>2, CompanyChanged DEF SetStage
<1>3. CASE Retain \/ Skip
  BY <1>2, <1>3 DEF Retain, Skip, Stages
<1>4. ASSUME NEW k \in Workers, Record(k) PROVE company' \in Company
  BY <1>1, <1>2, <1>4 DEF Record, Stages
<1>5. ASSUME NEW r \in DOMAIN runs, Finish(r) PROVE company' \in Company
  <2>1. \/ company' = company \/ company' = [company EXCEPT !.contact = TRUE]
        \/ /\ company.drafts < MaxDrafts
           /\ company' = [company EXCEPT !.drafts = company.drafts + 1]
    BY <1>5 DEF Finish
  <2>2. company.drafts < MaxDrafts => company.drafts + 1 \in 0..MaxDrafts
    BY <1>0, CompanyColumns
  <2>3. QED
    BY <1>0, <2>1, <2>2, CompanyChanged
<1>6. ASSUME NEW k \in Workers, HandOver(k) PROVE company' \in Company
  <2>1. StageOf(k) \in Stages
    BY <1>0, CompanyColumns DEF StageOf, Stages
  <2>2. QED
    BY <1>0, <1>2, <1>6, <2>1, HandOverEffect DEF HandsOver
<1>7. ASSUME NEW k \in Workers, FinishTask(k) PROVE company' \in Company
  BY <1>7, WrittenEffect DEF FinishTask, TableInv
<1>8. ASSUME NEW d \in 1..MaxDrafts, Queue(d) PROVE company' \in Company
  <2>1. Append(company.intents, d) \in Seq(1..MaxDrafts)
    BY <1>0, CompanyColumns, AppendProperties
  <2>2. QED
    BY <1>0, <1>8, <2>1, CompanyChanged DEF Queue
<1>9. CASE SetMode \/ LoseContact
  BY <1>0, <1>9, CompanyChanged DEF SetMode, LoseContact, Modes
<1>10. QED
  BY <1>1, <1>3, <1>4, <1>5, <1>6, <1>7, <1>8, <1>9 DEF PipelineNext, pipeVars,
     TimePasses, QueueStep, Launch, Inspect, Send, Break, Die, DecidePrepare, InsertPrepared,
     AskPauseOrResume, AskRetry, Answer, Refuse

(* The notes of the workers keep their type.                               *)
LEMMA NotesTyped ==
    ASSUME TableInv, [PipelineNext]_pipeVars PROVE note' \in [Workers -> Notable]
<1>0. /\ note \in [Workers -> Notable] /\ company \in Company /\ MaxDrafts \in Nat
      /\ TypeInv /\ role \in [Tasks -> Roles]
  BY PipelineAssumption DEF TableInv, QueueInv, Orderly, PipelineTypeOK, Notable
<1>1. CASE UNCHANGED note
  BY <1>0, <1>1
<1>2. ASSUME NEW k \in Workers, NEW what \in {"none", "due", "ready", "sent", "doubt"},
             NEW draft \in 0..MaxDrafts, Noted(k, what, draft)
      PROVE  note' \in [Workers -> Notable]
  BY <1>0, <1>2, NotedTyped
<1>3. 0 \in 0..MaxDrafts
  BY <1>0
<1>4. ASSUME NEW k \in Workers, Inspect(k) \/ FinishTask(k) \/ Break(k) \/ Die(k)
      PROVE  note' \in [Workers -> Notable]
  <2>1. Noted(k, "none", 0) \/ Noted(k, "due", 0)
    BY <1>4 DEF Inspect, FinishTask, Break, Die
  <2>2. QED
    BY <1>2, <1>3, <2>1
<1>5. ASSUME NEW k \in Workers, HandOver(k) PROVE note' \in [Workers -> Notable]
  <2>1. Noted(k, "none", 0) \/ (Noted(k, StageOf(k), 0) /\ StageOf(k) # company.stage)
    BY <1>0, <1>5, HandOverEffect DEF HandsOver
  <2>2. StageOf(k) # company.stage => StageOf(k) = "ready"
    BY DEF StageOf
  <2>3. QED
    BY <1>2, <1>3, <2>1, <2>2
<1>6. ASSUME NEW k \in Workers, Send(k) PROVE note' \in [Workers -> Notable]
  <2>1. \/ note' = note
        \/ /\ company.intents # <<>>
           /\ Noted(k, "sent", Newest) \/ Noted(k, "doubt", Newest)
    BY <1>6 DEF Send, Deliverable
  <2>2. company.intents # <<>> => Newest \in 0..MaxDrafts
    BY <1>0, NewestIntent
  <2>3. QED
    BY <1>0, <1>2, <2>1, <2>2
<1>7. QED
  BY <1>1, <1>4, <1>5, <1>6 DEF PipelineNext, pipeVars, Retain, TimePasses, QueueStep,
     Launch, Record, Finish, DecidePrepare, InsertPrepared, SetMode, Skip,
     AskPauseOrResume, AskRetry, Answer, Refuse, LoseContact, Queue

(* The messages that left keep their type.                                 *)
LEMMA MailTyped ==
    ASSUME TableInv, [PipelineNext]_pipeVars PROVE mailed' \subseteq Messages
<1>0. mailed \subseteq Messages /\ company \in Company /\ sel \in [Workers -> Tasks]
  BY DEF TableInv, QueueInv, Orderly, TypeInv, TypeOK, PipelineTypeOK, Messages
<1>1. CASE UNCHANGED mailed
  BY <1>0, <1>1
<1>2. ASSUME NEW k \in Workers, Send(k) \/ Break(k) PROVE mailed' \subseteq Messages
  <2>1. \/ mailed' = mailed
        \/ company.intents # <<>> /\ mailed' = mailed \cup {Message(sel[k], Newest)}
    BY <1>2 DEF Send, Break, Deliverable
  <2>2. company.intents # <<>> => Newest \in 1..MaxDrafts
    BY <1>0, NewestIntent
  <2>3. QED
    BY <1>0, <2>1, <2>2, MessageTyped
<1>3. ASSUME Answer PROVE mailed' \subseteq Messages
  <2> SUFFICES ASSUME NEW f \in mailed' PROVE f \in Messages
    OBVIOUS
  <2>1. PICK e \in mailed : f = IF Frees(e) THEN Freed(e) ELSE e
    BY <1>3, AnswerEffect
  <2>2. QED
    BY <1>0, <2>1, FreedTyped
<1>4. QED
  BY <1>1, <1>2, <1>3 DEF PipelineNext, pipeVars, Retain, TimePasses, QueueStep, Launch,
     Record, Inspect, HandOver, FinishTask, Die, Finish, DecidePrepare, InsertPrepared,
     SetMode, Skip, AskPauseOrResume, AskRetry, Refuse, LoseContact, Queue

(* The request under way keeps its type.                                   *)
LEMMA RequestTyped ==
    ASSUME TableInv, [PipelineNext]_pipeVars PROVE request' \in {"none", "contact", "draft"}
<1>0. request \in {"none", "contact", "draft"}
  BY DEF TableInv, PipelineTypeOK
<1>1. CASE UNCHANGED request
  BY <1>0, <1>1
<1>2. CASE DecidePrepare \/ InsertPrepared
  BY <1>2 DEF DecidePrepare, InsertPrepared, NextRole
<1>3. QED
  BY <1>1, <1>2 DEF PipelineNext, pipeVars, Retain, TimePasses, QueueStep, Launch,
     Record, Inspect, HandOver, FinishTask, Send, Break, Die, Finish, SetMode, Skip,
     AskPauseOrResume, AskRetry, Answer, Refuse, LoseContact, Queue

(* The use of the bounds keeps its type.                                   *)
LEMMA SpentTyped ==
    ASSUME TableInv, [PipelineNext]_pipeVars
    PROVE  spent' \in [prepare : Nat, mode : Nat, loss : Nat, late : BOOLEAN]
<1>0. /\ spent \in [prepare : Nat, mode : Nat, loss : Nat, late : BOOLEAN]
      /\ op.turn \in BOOLEAN /\ company.contact \in BOOLEAN
  BY CompanyColumns DEF TableInv, QueueInv, Orderly, TypeInv, TypeOK, Request, PipelineTypeOK
<1>1. CASE UNCHANGED spent
  BY <1>0, <1>1
<1>2. CASE DecidePrepare \/ SetMode \/ LoseContact
  BY <1>0, <1>2 DEF DecidePrepare, SetMode, LoseContact, Use
<1>3. CASE Answer
  <2>1. (spent.late \/ (op.turn /\ company.contact)) \in BOOLEAN
    OBVIOUS
  <2>2. QED
    BY <1>0, <1>3, <2>1 DEF Answer
<1>4. QED
  BY <1>1, <1>2, <1>3 DEF PipelineNext, pipeVars, Retain, TimePasses, QueueStep, Launch,
     Record, Inspect, HandOver, FinishTask, Send, Break, Die, Finish, InsertPrepared, Skip,
     AskPauseOrResume, AskRetry, Refuse, Queue

(* The tables keep their invariant and their types.                        *)
LEMMA TableNext == TableInv /\ [PipelineNext]_pipeVars => TableInv'
<1> SUFFICES ASSUME TableInv, [PipelineNext]_pipeVars PROVE TableInv'
  OBVIOUS
<1>1. QueueInv'
  BY QueueKept
<1>2. TypeOK'
  BY <1>1 DEF QueueInv, Orderly, TypeInv
<1>3. QED
  BY <1>1, <1>2, RolesTyped, MadeTyped, CompanyTyped, NotesTyped, MailTyped, RequestTyped,
     SpentTyped
     DEF TableInv, PipelineTypeOK, Notable, Messages

LEMMA TableInit == PipelineInit => TableInv
<1> SUFFICES ASSUME PipelineInit PROVE TableInv
  OBVIOUS
<1>1. QueueInv
  BY QueueInit DEF PipelineInit
<1>2. TypeOK
  BY <1>1 DEF QueueInv, Orderly, TypeInv
<1>3. /\ role \in [Tasks -> Roles] /\ made \in Seq(Roles) /\ mailed = {} /\ request = "none"
      /\ note = [k \in Workers |-> NoNote] /\ MaxDrafts \in Nat
      /\ spent = [prepare |-> 0, mode |-> 0, loss |-> 0, late |-> FALSE]
  BY PipelineAssumption DEF PipelineInit, Roles
<1>4. PICK contact \in BOOLEAN, mode \in Modes :
        company = [stage |-> "none", contact |-> contact, drafts |-> 0,
                   intents |-> <<>>, outreach |-> {}, doubt |-> {}, mode |-> mode]
  BY DEF PipelineInit, Modes
<1>5. company \in Company
  BY <1>3, <1>4, EmptySeq DEF Company, Stages, Modes
<1>6. NoNote \in Notable
  BY <1>3 DEF NoNote, Notable
<1>7. QED
  BY <1>1, <1>2, <1>3, <1>5, <1>6 DEF TableInv, PipelineTypeOK, Notable
-----------------------------------------------------------------------------
(* Most steps of the queue say nothing about the company: no row appears   *)
(* or is completed, a row is given up only by the worker that holds it,    *)
(* and no worker gets where it completes a row.                            *)
Keeps(t) ==
    /\ \/ task'[t].status = task[t].status
       \/ Pending(task[t].status) /\ Pending(task'[t].status)
    /\ exc'[t] => exc[t] \/ task[t].status # "none"

Reporting == {"complete", "fail"}
Stays(t) ==
    task[t].status = "running" /\ task'[t].status # "running" =>
        \E k \in Workers : sel[k] = t /\ pc[k] \in Working \ Reporting

GoesInside(k) ==
    /\ pc'[k] \in Inside \ {"complete"} /\ task[sel'[k]].status # "none"
    /\ \/ pc'[k] \in {"claim", "reclaim"}
       \/ /\ sel'[k] = sel[k] /\ pc[k] \in Inside \ Reporting
          /\ pc[k] = "claim" => task[sel[k]].status # "running"
    /\ pc'[k] \in {"reclaim", "load_reclaimed", "reconcile"} => KindOf[sel'[k]] # "send"
    /\ pc'[k] = "record" /\ role[sel'[k]] = "draft" => company.contact

Passes(k) ==
    \/ pc'[k] = pc[k] /\ sel'[k] = sel[k] /\ note'[k] = note[k]
    \/ /\ note'[k].what = "none" \/ (note'[k].what = "doubt" /\ pc'[k] = "fail")
       /\ pc'[k] \notin Inside \/ GoesInside(k)

Steady ==
    /\ UNCHANGED <<role, request, spent>> /\ mailed \subseteq mailed'
    /\ company'.stage = company.stage /\ company'.contact = company.contact
    /\ company'.drafts = company.drafts
    /\ \A t \in Tasks : Keeps(t)
    /\ \A k \in Workers : Passes(k)

Quiet == Steady /\ UNCHANGED <<company, mailed>> /\ \A t \in Tasks : Stays(t)

(* Such a step keeps what is said of the rows, the notes, the drafts and   *)
(* the rows left behind ...                                                *)
LEMMA QuietFlow ==
    ASSUME TableInv, TableInv', FlowInv, Steady
    PROVE  FlowInv'
<1>0. /\ \A k \in Workers : sel[k] \in Tasks /\ sel'[k] \in Tasks
      /\ UNCHANGED <<role, request, spent>> /\ mailed \subseteq mailed'
      /\ company'.stage = company.stage /\ company'.contact = company.contact
      /\ company'.drafts = company.drafts
      /\ \A t \in Tasks : Keeps(t)
      /\ \A k \in Workers : Passes(k)
  BY DEF TableInv, QueueInv, Orderly, TypeInv, TypeOK, Steady
<1>1. /\ \A t \in Tasks : task'[t].status = "none" <=> task[t].status = "none"
      /\ \A t \in Tasks : task'[t].status = "completed" <=> task[t].status = "completed"
      /\ \A t \in Tasks : Pending(task[t].status) => Pending(task'[t].status)
  BY <1>0 DEF Keeps, Pending
<1>2. RowsInHand'
  <2>1. ASSUME NEW k \in Workers
        PROVE  /\ pc'[k] \in Inside => task[sel'[k]].status # "none"
               /\ pc'[k] \in {"reclaim", "load_reclaimed", "reconcile"}
                     => KindOf[sel'[k]] # "send"
    <3>1. CASE pc'[k] = pc[k] /\ sel'[k] = sel[k]
      BY <3>1 DEF FlowInv, RowsInHand
    <3>2. CASE pc'[k] \notin Inside
      BY <3>2 DEF Inside, Working, Holding
    <3>3. CASE GoesInside(k)
      BY <3>3 DEF GoesInside
    <3>4. QED
      BY <1>0, <3>1, <3>2, <3>3 DEF Passes
  <2>2. \A t \in Tasks : exc'[t] => task'[t].status # "none"
    BY <1>0, <1>1 DEF FlowInv, RowsInHand, Keeps
  <2>3. QED
    BY <1>0, <1>1, <2>1, <2>2 DEF FlowInv, RowsInHand
<1>3. NotesTrue'
  <2> SUFFICES ASSUME NEW k \in Workers PROVE NoteTrue(k)'
    BY DEF NotesTrue
  <2>1. CASE pc'[k] = pc[k] /\ sel'[k] = sel[k] /\ note'[k] = note[k]
    BY <1>0, <2>1 DEF FlowInv, NotesTrue, NoteTrue
  <2>2. CASE note'[k].what = "none" /\ pc'[k] # "complete"
    BY <2>2 DEF NoteTrue
  <2>3. CASE note'[k].what = "doubt" /\ pc'[k] = "fail"
    BY <2>3 DEF NoteTrue
  <2>4. QED
    BY <1>0, <2>1, <2>2, <2>3 DEF Passes, GoesInside, Inside, Working, Holding
<1>4. DraftedOnce'
  <2> SUFFICES ASSUME Drafted'
               PROVE  /\ company.drafts > 0
                      /\ Going => company.contact
                      /\ Going => \E t \in Tasks : role[t] = "draft" /\ Pending(task'[t].status)
                      /\ \A k \in Workers :
                            pc'[k] = "record" /\ role[sel'[k]] = "draft" => company.contact
    BY <1>0 DEF DraftedOnce, Going
  <2>1. Drafted
    BY <1>0, <1>1 DEF Drafted
  <2>2. ASSUME NEW k \in Workers, pc'[k] = "record", role[sel'[k]] = "draft"
        PROVE  company.contact
    BY <1>0, <2>1, <2>2
       DEF FlowInv, DraftedOnce, Passes, GoesInside, Inside, Working, Holding, Reporting
  <2>3. QED
    BY <1>1, <2>1, <2>2 DEF FlowInv, DraftedOnce
<1>5. HandedOver'
  <2> SUFFICES ASSUME NEW k \in Workers, pc'[k] = "complete", note'[k].what = "none", Going
               PROVE  /\ role[sel'[k]] # "draft"
                      /\ \E t \in Tasks \ {sel'[k]} : Pending(task'[t].status)
    BY <1>0 DEF HandedOver, LeavesOne, Going
  <2>1. pc[k] = "complete" /\ sel'[k] = sel[k] /\ note'[k] = note[k]
    BY <1>0 DEF Passes, GoesInside, Inside, Working, Holding
  <2>2. QED
    BY <1>0, <1>1, <2>1 DEF FlowInv, HandedOver, LeavesOne, Going
<1>6. PipelineAlive'
  <2>1. \A t \in Tasks : /\ task[t].status \in Statuses /\ task'[t].status \in Statuses
    BY DEF TableInv, QueueInv, Orderly, TypeInv, TypeOK, Row
  <2>2. QED
    BY <1>0, <1>1, <2>1 DEF FlowInv, PipelineAlive, Pending, Statuses
<1>7. QED
  BY <1>2, <1>3, <1>4, <1>5, <1>6 DEF FlowInv

(* ... and of the messages in doubt.                                       *)
LEMMA QuietDoubt ==
    ASSUME TableInv, TableInv', RowsInHand, InDoubt, Quiet
    PROVE  InDoubt'
<1>0. /\ \A k \in Workers : sel[k] \in Tasks /\ sel'[k] \in Tasks
      /\ UNCHANGED <<role, company, mailed, request>>
      /\ \A t \in Tasks : Keeps(t) /\ Stays(t)
      /\ \A k \in Workers : Passes(k)
  BY DEF TableInv, QueueInv, Orderly, TypeInv, TypeOK, Quiet, Steady
<1>1. \A t \in Tasks : Loose(t)' = Loose(t)
  BY <1>0 DEF Loose, OnRecord
<1>2. ASSUME NEW k \in Workers, pc[k] \in Working \ Reporting PROVE Loose(sel[k]) = {}
  BY <1>2 DEF InDoubt, Recording, Reporting
<1>3. ASSUME NEW t \in Tasks, Loose(t) # {} PROVE task'[t].status = "running"
  BY <1>0, <1>2, <1>3 DEF InDoubt, Stays
<1>4. ASSUME NEW k \in Workers PROVE Recording(k)'
  <2>1. CASE pc'[k] = pc[k] /\ sel'[k] = sel[k] /\ note'[k] = note[k]
    BY <1>0, <2>1 DEF InDoubt, Recording, Loose, OnRecord
  <2>2. CASE pc'[k] \notin Working
    BY <2>2 DEF Recording
  <2>3. CASE pc'[k] \in Working /\ GoesInside(k)
    <3>1. sel'[k] = sel[k] /\ pc[k] \in Inside \ Reporting
          /\ (pc[k] = "claim" => task[sel[k]].status # "running")
      BY <2>3 DEF GoesInside, Working, Holding
    <3>2. Loose(sel[k]) = {}
      <4>1. CASE pc[k] = "claim"
        BY <1>0, <3>1, <4>1 DEF InDoubt
      <4>2. CASE pc[k] = "reclaim"
        BY <1>0, <4>2 DEF InDoubt, RowsInHand, Loose
      <4>3. QED
        BY <1>2, <3>1, <4>1, <4>2 DEF Inside
    <3>3. QED
      BY <1>0, <3>1, <3>2 DEF Recording, Loose, OnRecord
  <2>4. QED
    BY <1>0, <2>1, <2>2, <2>3 DEF Passes, Inside
<1>5. QED
  BY <1>0, <1>1, <1>3, <1>4 DEF InDoubt
(* A worker that ends its pass, or goes on with its row, is quiet.         *)
LEMMA EndsQuiet ==
    ASSUME TableInv, FlowInv, NEW k \in Workers, NEW step \in {"idle", "dead"}, Done(k, step),
           Noted(k, "none", 0) \/ (UNCHANGED note /\ pc[k] \notin Reporting)
    PROVE  \A j \in Workers : Passes(j)
<1>0. TypeInv /\ note \in [Workers -> Notable] /\ 0 \in 0..MaxDrafts
  BY PipelineAssumption DEF TableInv, QueueInv, Orderly, PipelineTypeOK, Notable
<1>1. /\ pc'[k] = step
      /\ \A j \in Workers : j # k => pc'[j] = pc[j] /\ sel'[j] = sel[j]
  BY <1>0, DoneTyped
<1>2. note'[k].what = "none" /\ \A j \in Workers : j # k => note'[j] = note[j]
  <2>1. CASE Noted(k, "none", 0)
    BY <1>0, <2>1, NotedTyped
  <2>2. CASE UNCHANGED note /\ pc[k] \notin Reporting
    BY <2>2 DEF FlowInv, NotesTrue, NoteTrue, Reporting
  <2>3. QED
    BY <2>1, <2>2
<1>3. QED
  BY <1>1, <1>2 DEF Passes, Inside, Working, Holding

(* Moving a worker to another point of its turn says nothing new about     *)
(* the others, unless it is the claim of a running row or the completion.  *)
LEMMA GoesQuiet ==
    ASSUME TableInv, FlowInv, NEW k \in Workers, NEW step \in Steps, Goto(k, step),
           UNCHANGED sel, Noted(k, "none", 0) \/ UNCHANGED note,
           pc[k] \in Inside \/ step \notin Inside,
           pc[k] \notin Reporting, step \notin {"complete", "claim", "reclaim"},
           pc[k] = "claim" /\ step \in Inside => task[sel[k]].status # "running",
           step \in {"load_reclaimed", "reconcile"} => pc[k] \in {"reclaim", "load_reclaimed"},
           step = "record" /\ role[sel[k]] = "draft" => company.contact
    PROVE  \A j \in Workers : Passes(j)
<1>0. TypeInv /\ note \in [Workers -> Notable] /\ 0 \in 0..MaxDrafts
  BY PipelineAssumption DEF TableInv, QueueInv, Orderly, PipelineTypeOK, Notable
<1>1. pc'[k] = step /\ \A j \in Workers : j # k => pc'[j] = pc[j]
  BY <1>0, GotoTyped
<1>2. note'[k].what = "none" /\ \A j \in Workers : j # k => note'[j] = note[j]
  <2>1. CASE Noted(k, "none", 0)
    BY <1>0, <2>1, NotedTyped
  <2>2. CASE UNCHANGED note
    BY <2>2 DEF FlowInv, NotesTrue, NoteTrue, Reporting
  <2>3. QED
    BY <2>1, <2>2
<1>3. CASE step \notin Inside
  BY <1>1, <1>2, <1>3 DEF Passes
<1>4. CASE step \in Inside
  <2>1. pc[k] \in Inside \ Reporting /\ task[sel[k]].status # "none"
    BY <1>4 DEF FlowInv, RowsInHand
  <2>2. step \in {"load_reclaimed", "reconcile"} => KindOf[sel[k]] # "send"
    BY DEF FlowInv, RowsInHand
  <2>3. GoesInside(k)
    BY <1>1, <1>4, <2>1, <2>2 DEF GoesInside
  <2>4. QED
    BY <1>1, <1>2, <2>3 DEF Passes
<1>5. QED
  BY <1>3, <1>4

(* Where only the status of the row in hand changes, and not to "none" or  *)
(* "completed", every row is kept.                                         *)
LEMMA RowKept ==
    ASSUME TableInv, FlowInv, NEW k \in Workers, pc[k] \in Inside \ Reporting,
           \A t \in Tasks : t # sel[k] => task'[t].status = task[t].status,
           \/ task'[sel[k]].status = task[sel[k]].status
           \/ Pending(task'[sel[k]].status) /\ task[sel[k]].status # "completed",
           task[sel[k]].status = "running" =>
               task'[sel[k]].status = "running" \/ pc[k] \in Working,
           \A t \in Tasks : t # sel[k] => exc'[t] = exc[t]
    PROVE  \A t \in Tasks : Keeps(t) /\ Stays(t)
<1>1. task[sel[k]].status # "none"
  BY DEF FlowInv, RowsInHand
<1>2. QED
  BY <1>1 DEF Keeps, Stays, Pending

(* A row whose status and exception stay keeps what is said of it.         *)
LEMMA SameKept ==
    ASSUME UNCHANGED exc, \A t \in Tasks : task'[t].status = task[t].status
    PROVE  \A t \in Tasks : Keeps(t) /\ Stays(t)
BY DEF Keeps, Stays

AllQuiet == /\ \A t \in Tasks : Keeps(t) /\ Stays(t)
            /\ \A j \in Workers : Passes(j)

(* The steps of the queue that concern nothing else are quiet.             *)
LEMMA QueueStepQuiet ==
    ASSUME TableInv, FlowInv, NEW k \in Workers, QueueStep(k)
    PROVE  Quiet
<1>0. /\ TypeInv /\ task \in [Tasks -> Row] /\ sel \in [Workers -> Tasks]
      /\ pc \in [Workers -> Steps] /\ exc \in [Tasks -> BOOLEAN]
      /\ UNCHANGED <<role, made, company, note, mailed, request, spent>>
  BY DEF TableInv, QueueInv, Orderly, TypeInv, TypeOK, QueueStep
<1> SUFFICES AllQuiet
  BY <1>0 DEF Quiet, Steady, AllQuiet
<1> USE DEF AllQuiet
<1>1. ASSUME Start(k) PROVE AllQuiet
  <2>1. UNCHANGED <<task, sel, exc>> /\ Goto(k, "idle") /\ pc[k] = "off"
    BY <1>1 DEF Start
  <2>2. QED
    BY <1>0, <2>1, SameKept, GoesQuiet DEF Steps, Inside, Working, Holding, Reporting
<1>2. ASSUME Select(k) PROVE AllQuiet
  <2>1. PICK t \in Candidates(k) :
           /\ sel' = [sel EXCEPT ![k] = t]
           /\ Goto(k, IF task[t].status = "running" THEN "reclaim" ELSE "claim")
    BY <1>2 DEF Select
  <2>2. pc[k] = "idle" /\ UNCHANGED <<task, exc>>
    BY <1>2 DEF Select
  <2>3. /\ t \in Tasks /\ task[t].status \in {"queued", "retry", "running"}
        /\ task[t].status = "running" => KindOf[t] # "send"
    BY DEF Candidates, Targets, Launchable, Reclaimable, Running
  <2>4. /\ pc'[k] = IF task[t].status = "running" THEN "reclaim" ELSE "claim"
        /\ sel'[k] = t
        /\ \A j \in Workers : j # k => pc'[j] = pc[j] /\ sel'[j] = sel[j]
    BY <1>0, <2>1 DEF Goto
  <2>5. note[k].what = "none"
    BY <2>2 DEF FlowInv, NotesTrue, NoteTrue
  <2>6. GoesInside(k)
    BY <2>3, <2>4 DEF GoesInside, Inside
  <2>7. QED
    BY <1>0, <2>2, <2>4, <2>5, <2>6, SameKept DEF Passes
<1>3. ASSUME Claim(k) PROVE AllQuiet
  <2>0. pc[k] = "claim"
    BY <1>3 DEF Claim
  <2>1. CASE sel[k] \in Launchable
    <3>1. task[sel[k]].status \in {"queued", "retry"}
      BY <2>1 DEF Launchable
    <3>2. /\ \A t \in Tasks : t # sel[k] => task'[t] = task[t]
          /\ task'[sel[k]].status = "running" /\ Goto(k, "load_claimed")
          /\ UNCHANGED <<sel, exc>>
      BY <1>0, <1>3, <2>1, ClaimEffect
    <3>3. \A t \in Tasks : Keeps(t) /\ Stays(t)
      BY <2>0, <3>1, <3>2, RowKept DEF Inside, Working, Holding, Reporting, Pending
    <3>4. \A j \in Workers : Passes(j)
      BY <1>0, <2>0, <3>1, <3>2, GoesQuiet DEF Steps, Inside, Working, Holding, Reporting
    <3>5. QED
      BY <3>3, <3>4
  <2>2. CASE sel[k] \notin Launchable
    BY <1>0, <1>3, <2>0, <2>2, EndsQuiet, SameKept DEF Claim, Reporting
  <2>3. QED
    BY <2>1, <2>2
<1>4. ASSUME Reclaim(k) PROVE AllQuiet
  <2>0. pc[k] = "reclaim" /\ \A t \in Tasks : Keeps(t) /\ Stays(t)
    BY <1>0, <1>4, ReclaimEffect, SameKept DEF Reclaim, Same
  <2>1. CASE Done(k, "idle")
    BY <1>0, <2>0, <2>1, EndsQuiet DEF Reporting
  <2>2. CASE Goto(k, "load_reclaimed") /\ UNCHANGED sel
    BY <1>0, <2>0, <2>2, GoesQuiet DEF Steps, Inside, Working, Holding, Reporting
  <2>3. QED
    BY <1>4, <2>0, <2>1, <2>2 DEF Reclaim
<1>5. ASSUME Load(k) PROVE AllQuiet
  <2>0. pc[k] \in {"load_claimed", "load_reclaimed"} /\ \A t \in Tasks : Keeps(t) /\ Stays(t)
    BY <1>5, SameKept DEF Load
  <2>1. CASE Done(k, "idle")
    BY <1>0, <2>0, <2>1, EndsQuiet DEF Reporting
  <2>2. CASE pc[k] = "load_claimed" /\ LoadInto(k, "launch")
    BY <1>0, <2>2, <2>0, GoesQuiet DEF LoadInto, Steps, Inside, Working, Holding, Reporting
  <2>3. ASSUME pc[k] = "load_reclaimed", NEW step \in {"block", "reconcile"}, LoadInto(k, step)
        PROVE  \A j \in Workers : Passes(j)
    BY <1>0, <2>3, GoesQuiet DEF LoadInto, Steps, Inside, Working, Holding, Reporting
  <2>4. QED
    BY <1>5, <2>0, <2>1, <2>2, <2>3 DEF Load
<1>6. ASSUME Block(k) PROVE AllQuiet
  <2>1. pc[k] \in Working \ Reporting
    BY <1>6 DEF Block, Working, Holding, Reporting
  <2>2. Saves(k, "blocked")
    BY <1>0, <1>6, SavesEffect
  <2>3. task[sel[k]].status # "completed" /\ task[sel[k]].status # "none"
    BY <2>1 DEF TableInv, QueueInv, Orderly, NotCompleted, FlowInv, RowsInHand, Inside
  <2>4. \A t \in Tasks : t # sel[k] => exc'[t] = exc[t]
    BY <1>0, <1>6 DEF Block
  <2>5. \A t \in Tasks : Keeps(t) /\ Stays(t)
    BY <2>1, <2>2, <2>3, <2>4, RowKept DEF Saves, Pending, Inside
  <2>6. QED
    BY <1>0, <2>1, <2>2, <2>5, EndsQuiet DEF Saves
<1>7. ASSUME Renew(k) PROVE AllQuiet
  <2>1. Done(k, "idle") /\ pc[k] \notin Reporting
    BY <1>7 DEF Renew, Reporting
  <2>2. \A t \in Tasks : Keeps(t) /\ Stays(t)
    BY <1>0, <1>7, RenewEffect, SameKept DEF Renew, Same
  <2>3. QED
    BY <1>0, <2>1, <2>2, EndsQuiet
<1>8. ASSUME ReconcileFails(k) PROVE AllQuiet
  <2>1. UNCHANGED <<task, sel, exc>> /\ Goto(k, "fail") /\ pc[k] = "reconcile"
    BY <1>8 DEF ReconcileFails
  <2>2. QED
    BY <1>0, <2>1, SameKept, GoesQuiet DEF Steps, Inside, Working, Holding, Reporting
<1>9. QED
  BY <1>1, <1>2, <1>3, <1>4, <1>5, <1>6, <1>7, <1>8 DEF QueueStep
(* So are a crash, what time does, and a request that asks or fails.       *)
LEMMA OutsideQuiet ==
    ASSUME TableInv, FlowInv,
           \/ TimePasses \/ Refuse \/ UNCHANGED pipeVars
           \/ \E k \in Workers : \/ Die(k) \/ AskPauseOrResume(k)
                                 \/ \E t \in Tasks : AskRetry(k, t)
    PROVE  Quiet
<1>0. TypeInv
  BY DEF TableInv, QueueInv, Orderly
<1>u. ASSUME UNCHANGED <<task, exc, pc, sel, note, role, company, mailed, request, spent>>
      PROVE  Quiet
  BY <1>u, SameKept DEF Quiet, Steady, Passes
<1>1. CASE TimePasses
  <2>1. UNCHANGED <<exc, pc, sel, note, role, company, mailed, request, spent>>
    BY <1>1 DEF TimePasses, BackoffElapses, LeaseExpires, AgentOpens
  <2>2. \A t \in Tasks : task'[t].status = task[t].status
    <3>1. ASSUME NEW t \in Tasks, BackoffElapses(t) \/ LeaseExpires(t)
          PROVE  \A u \in Tasks : task'[u].status = task[u].status
      BY <1>0, <3>1, TimeEffect DEF Same
    <3>2. ASSUME NEW r \in DOMAIN runs, AgentOpens(r) PROVE UNCHANGED task
      BY <3>2 DEF AgentOpens
    <3>3. QED
      BY <1>1, <3>1, <3>2 DEF TimePasses
  <2>3. QED
    BY <2>1, <2>2, SameKept DEF Quiet, Steady, Passes
<1>2. CASE Refuse \/ UNCHANGED pipeVars
  BY <1>2, <1>u DEF Refuse, DropRequest, pipeVars, vars
<1>3. ASSUME NEW k \in Workers, Die(k) PROVE Quiet
  <2>1. /\ UNCHANGED <<task, exc, role, company, mailed, request, spent>> /\ Done(k, "dead")
        /\ Noted(k, "none", 0)
    BY <1>3 DEF Die, Crash
  <2>2. QED
    BY <2>1, EndsQuiet, SameKept DEF Quiet, Steady
<1>4. ASSUME NEW k \in Workers, AskPauseOrResume(k) \/ (\E t \in Tasks : AskRetry(k, t))
      PROVE  Quiet
  BY <1>4, <1>u DEF AskPauseOrResume, AskRetry, AskPause, AskResume, AskResolve, Ask
<1>5. QED
  BY <1>1, <1>2, <1>3, <1>4

(* So are the launch of an agent, a record that leaves the company alone,  *)
(* and the inspection of a run that does not complete its row.             *)
LEMMA LaunchQuiet ==
    ASSUME TableInv, FlowInv, NEW k \in Workers, Launch(k)
    PROVE  Quiet
<1>1. /\ UNCHANGED <<task, exc, sel, note, role, company, mailed, request, spent>> /\ pc[k] = "launch"
      /\ Goto(k, "record") \/ Goto(k, "fail")
  BY DEF Launch, LaunchAgent
<1>2. pc \in [Workers -> Steps]
  BY DEF TableInv, QueueInv, Orderly, TypeInv, TypeOK
<1>3. pc'[k] = "record" /\ role[sel[k]] = "draft" => company.contact
  BY DEF Launch, PrepareSearch, PrepareDraft
<1>4. \A j \in Workers : Passes(j)
  <2>1. CASE Goto(k, "record")
    <3>1. pc'[k] = "record"
      BY <1>2, <2>1 DEF Goto
    <3>2. QED
      BY <1>1, <1>3, <2>1, <3>1, GoesQuiet DEF Steps, Inside, Working, Holding, Reporting
  <2>2. CASE Goto(k, "fail")
    BY <1>1, <2>2, GoesQuiet DEF Steps, Inside, Working, Holding, Reporting
  <2>3. QED
    BY <1>1, <2>1, <2>2
<1>5. QED
  BY <1>1, <1>4, SameKept DEF Quiet, Steady

(* The end of a run's record changes no status and ends the worker's       *)
(* turn.                                                                   *)
LEMMA RecordEnds ==
    ASSUME TableInv, FlowInv, NEW k \in Workers, Record(k)
    PROVE  /\ \A t \in Tasks : Keeps(t) /\ Stays(t) /\ task'[t].status = task[t].status
           /\ \A j \in Workers : Passes(j)
           /\ pc[k] = "record" /\ UNCHANGED <<role, mailed, request, note, exc, spent>>
<1>1. pc[k] = "record" /\ Done(k, "idle") /\ UNCHANGED <<role, mailed, request, note, exc, spent>>
  BY DEF Record, RecordRun
<1>2. \A t \in Tasks : task'[t].status = task[t].status
  BY RecordEffect DEF Record, TableInv, QueueInv, Orderly
<1>3. QED
  BY <1>1, <1>2, EndsQuiet, SameKept DEF Reporting

(* Reading the run moves the worker on, with a note only where the work    *)
(* is to be completed.                                                     *)
LEMMA InspectEffect ==
    ASSUME TableInv, NEW k \in Workers, Inspect(k)
    PROVE  \E step \in {"renew", "complete", "fail", "block"} :
              /\ Goto(k, step) /\ pc[k] = "reconcile" /\ pc'[k] = step
              /\ Noted(k, IF step = "complete" THEN "due" ELSE "none", 0)
              /\ UNCHANGED <<task, exc, sel, role, company, mailed, request, spent>>
<1>0. TypeInv /\ pc \in [Workers -> Steps]
  BY DEF TableInv, QueueInv, Orderly, TypeInv, TypeOK
<1>1. seen[k].run \in DOMAIN runs /\ \A q \in DOMAIN runs : runs[q] \in Run
  BY <1>0 DEF Inspect, Reconcile, TypeInv, TypeOK, References
<1>2. runs[seen[k].run].recorded \in {"running", "failed", "imported"}
  BY <1>1 DEF Run
<1>3. PICK step \in {"renew", "complete", "fail", "block"} : Goto(k, step)
  BY <1>2 DEF Inspect, Reconcile
<1>4. pc'[k] = step
  BY <1>0, <1>3 DEF Goto
<1>5. QED
  BY <1>3, <1>4 DEF Inspect, Reconcile

(* Unless the work is to be completed, reading the run is quiet.           *)
LEMMA InspectQuiet ==
    ASSUME TableInv, FlowInv, NEW k \in Workers, Inspect(k), pc'[k] # "complete"
    PROVE  Quiet
<1>1. PICK step \in {"renew", "complete", "fail", "block"} :
         /\ Goto(k, step) /\ pc[k] = "reconcile" /\ pc'[k] = step
         /\ Noted(k, IF step = "complete" THEN "due" ELSE "none", 0)
         /\ UNCHANGED <<task, exc, sel, role, company, mailed, request, spent>>
  BY InspectEffect
<1>2. step # "complete" /\ Noted(k, "none", 0)
  BY <1>1
<1>3. \A j \in Workers : Passes(j)
  BY <1>1, <1>2, GoesQuiet DEF Steps, Inside, Working, Holding, Reporting
<1>4. QED
  BY <1>1, <1>3, SameKept DEF Quiet, Steady

(* A step that touches only the company, its stage or its artifacts, and   *)
(* puts it on no way, loses no draft and no contact a draft refers to.     *)
CompanyOnly ==
    /\ UNCHANGED <<task, exc, pc, sel, role, note, mailed>>
    /\ company'.stage = "none" => company.stage = "none" /\ request' = request
    /\ Going' => Going
    /\ company'.drafts >= company.drafts
    /\ company.drafts > 0 /\ company.contact => company'.contact
    /\ company'.outreach = company.outreach /\ company'.doubt = company.doubt

(* A step on the row about the company alone keeps the flow of the work.   *)
LEMMA CompanyFlow ==
    ASSUME TableInv, TableInv', FlowInv, InDoubt, CompanyOnly
    PROVE  FlowInv' /\ InDoubt'
<1>0. /\ company.drafts \in Int /\ company'.drafts \in Int
      /\ UNCHANGED <<task, exc, pc, sel, role, note, mailed>>
  BY DEF TableInv, PipelineTypeOK, Company, CompanyOnly
<1>1. RowsInHand'
  BY <1>0 DEF FlowInv, RowsInHand, CompanyOnly
<1>2. NotesTrue'
  BY <1>0 DEF FlowInv, NotesTrue, NoteTrue, CompanyOnly
<1>3. DraftedOnce'
  BY <1>0 DEF FlowInv, DraftedOnce, Drafted, CompanyOnly
<1>4. HandedOver'
  BY <1>0 DEF FlowInv, HandedOver, LeavesOne, CompanyOnly
<1>5. PipelineAlive'
  BY <1>0 DEF FlowInv, PipelineAlive, Going, CompanyOnly
<1>6. InDoubt'
  BY <1>0 DEF InDoubt, Recording, Loose, OnRecord, CompanyOnly
<1>7. QED
  BY <1>1, <1>2, <1>3, <1>4, <1>5, <1>6 DEF FlowInv

(* The operator's decisions and the outcome of a run are such steps.       *)
LEMMA CompanySteps ==
    ASSUME TableInv, FlowInv,
           \/ DecidePrepare \/ SetMode \/ Skip \/ LoseContact
           \/ \E d \in 1..MaxDrafts : Queue(d)
           \/ \E r \in DOMAIN runs : Finish(r)
    PROVE  CompanyOnly
<1>0. /\ company.drafts \in Int /\ company \in Company
      /\ spent \in [prepare : Nat, mode : Nat, loss : Nat, late : BOOLEAN]
  BY DEF TableInv, PipelineTypeOK, Company
<1>1. CASE DecidePrepare
  BY <1>0, <1>1 DEF DecidePrepare, Use, CompanyOnly, vars, Going
<1>2. CASE SetMode \/ LoseContact
  <2>1. spent'.late = spent.late /\ UNCHANGED <<vars, role, note, mailed, request>>
    BY <1>0, <1>2 DEF SetMode, LoseContact, Use
  <2>2. /\ company'.stage = company.stage /\ company'.drafts = company.drafts
        /\ company'.outreach = company.outreach /\ company'.doubt = company.doubt
        /\ company.drafts > 0 /\ company.contact => company'.contact
    BY <1>0, <1>2 DEF SetMode, LoseContact, Company
  <2>3. QED
    BY <1>0, <2>1, <2>2 DEF CompanyOnly, vars, Going
<1>3. CASE Skip
  BY <1>0, <1>3 DEF Skip, SetStage, CompanyOnly, vars, Going, Company
<1>4. ASSUME NEW d \in 1..MaxDrafts, Queue(d) PROVE CompanyOnly
  BY <1>0, <1>4 DEF Queue, CompanyOnly, vars, Going, Company
<1>5. ASSUME NEW r \in DOMAIN runs, Finish(r) PROVE CompanyOnly
  <2>1. /\ UNCHANGED <<task, exc, pc, sel, role, note, mailed, request, spent>>
        /\ \/ company' = company \/ company' = [company EXCEPT !.contact = TRUE]
           \/ company' = [company EXCEPT !.drafts = company.drafts + 1]
    BY <1>5 DEF Finish, AgentEnds
  <2>2. QED
    BY <1>0, <2>1 DEF CompanyOnly, Going, Company
<1>6. QED
  BY <1>1, <1>2, <1>3, <1>4, <1>5
(* While a worker has a row in hand no other has one, or a note.           *)
LEMMA OthersAway ==
    ASSUME TableInv, FlowInv, NEW k \in Workers, pc[k] \in Inside, NEW j \in Workers, j # k
    PROVE  pc[j] \notin Inside /\ note[j].what = "none"
<1>1. pc[j] \in {"off", "dead"}
  BY DEF TableInv, QueueInv, Orderly, Alone, Up, Inside, Working, Holding
<1>2. QED
  BY <1>1 DEF FlowInv, NotesTrue, NoteTrue, Inside, Working, Holding

(* A row that is inserted for an agent: of a company that has none yet, or *)
(* beside others.                                                          *)
LEMMA InsertFlow ==
    ASSUME TableInv, TableInv', FlowInv, InDoubt, NEW what \in {"contact", "draft"},
           InsertRow(what), UNCHANGED <<exc, pc, sel, note, mailed, spent>>,
           \/ company.stage = "none" /\ SetStage("qualified")
           \/ company.stage # "none" /\ UNCHANGED company
    PROVE  FlowInv' /\ InDoubt'
<1>0. /\ TypeInv /\ role \in [Tasks -> Roles] /\ company \in Company
      /\ \A k \in Workers : sel[k] \in Tasks
      /\ \A t \in Tasks : task[t].status \in Statuses /\ task'[t].status \in Statuses
  BY DEF TableInv, QueueInv, Orderly, TypeInv, TypeOK, PipelineTypeOK, Row
<1>1. PICK t \in Tasks : Inserted(t, what)
  BY <1>0, InsertEffect DEF Roles
<1>2. /\ task[t].status = "none" /\ (KindOf[t] = "send" <=> what = "send")
      /\ task'[t].status = "queued" /\ role'[t] = what
      /\ \A u \in Tasks : u # t => task'[u] = task[u] /\ role'[u] = role[u]
  BY <1>1 DEF Inserted
<1>3. /\ company'.drafts = company.drafts /\ company'.contact = company.contact
      /\ company'.outreach = company.outreach /\ company'.doubt = company.doubt
      /\ company'.stage # "none"
      /\ company.stage # "none" => company' = company
  BY <1>0 DEF SetStage, Company
<1>4. \A k \in Workers : pc[k] \in Inside => sel[k] # t
  BY <1>2 DEF FlowInv, RowsInHand
<1>5. company.stage = "none" => \A k \in Workers : pc[k] \notin Inside
  BY <1>0 DEF FlowInv, RowsInHand
<1>6. RowsInHand'
  <2>1. \A k \in Workers : pc[k] \in Inside => task'[sel[k]].status # "none"
    BY <1>0, <1>2, <1>4 DEF FlowInv, RowsInHand
  <2>2. \A u \in Tasks : role'[u] = "send" <=> KindOf[u] = "send"
    BY <1>2 DEF FlowInv, RowsInHand
  <2>3. \A u \in Tasks : exc[u] => task'[u].status # "none"
    BY <1>2 DEF FlowInv, RowsInHand
  <2>4. QED
    BY <1>3, <2>1, <2>2, <2>3 DEF FlowInv, RowsInHand
<1>7. NotesTrue'
  <2> SUFFICES ASSUME NEW k \in Workers PROVE NoteTrue(k)'
    BY DEF NotesTrue
  <2>1. pc[k] = "complete" => role'[sel[k]] = role[sel[k]]
    BY <1>0, <1>2, <1>4 DEF Inside, Working, Holding
  <2>2. QED
    BY <1>3, <2>1 DEF FlowInv, NotesTrue, NoteTrue
<1>8. Drafted' => Drafted
  BY <1>2 DEF Drafted
<1>9. company.stage = "none" => ~Drafted
  BY <1>2 DEF FlowInv, RowsInHand, Drafted
<1>10. DraftedOnce'
  <2> SUFFICES ASSUME Drafted'
               PROVE  /\ company'.drafts > 0
                      /\ Going' => company'.contact
                      /\ Going' => \E u \in Tasks : role'[u] = "draft"
                                                    /\ Pending(task'[u].status)
                      /\ \A k \in Workers :
                            pc'[k] = "record" /\ role'[sel'[k]] = "draft" => company'.contact
    BY DEF DraftedOnce
  <2>1. Drafted /\ company' = company
    BY <1>3, <1>8, <1>9
  <2>2. \A u \in Tasks : Pending(task[u].status) =>
            Pending(task'[u].status) /\ role'[u] = role[u]
    BY <1>2 DEF Pending
  <2>3. \A k \in Workers : pc[k] = "record" => role'[sel[k]] = role[sel[k]]
    BY <1>0, <1>2, <1>4 DEF Inside, Working, Holding
  <2>4. QED
    BY <2>1, <2>2, <2>3 DEF FlowInv, DraftedOnce, Going
<1>11. HandedOver'
  <2> SUFFICES ASSUME NEW k \in Workers, pc[k] = "complete", note[k].what = "none", Going'
               PROVE  /\ role'[sel[k]] # "draft"
                      /\ \E u \in Tasks \ {sel[k]} : Pending(task'[u].status)
    BY DEF HandedOver, LeavesOne
  <2>1. pc[k] \in Inside
    BY DEF Inside, Working, Holding
  <2>2. company' = company /\ sel[k] # t
    BY <1>3, <1>4, <1>5, <2>1
  <2>3. role[sel[k]] # "draft"
    BY <2>2 DEF FlowInv, HandedOver, LeavesOne, Going
  <2>4. t \in Tasks \ {sel[k]} /\ Pending(task'[t].status)
    BY <1>2, <2>2 DEF Pending
  <2>5. QED
    BY <1>0, <1>2, <2>2, <2>3, <2>4
<1>12. PipelineAlive'
  BY <1>2 DEF PipelineAlive
<1>13. InDoubt'
  <2>1. \A u \in Tasks : Loose(u)' = Loose(u)
    BY <1>3 DEF Loose, OnRecord
  <2>2. ASSUME NEW k \in Workers PROVE Recording(k)'
    BY <1>3 DEF InDoubt, Recording, Loose, OnRecord
  <2>3. QED
    BY <1>2, <2>1, <2>2 DEF InDoubt
<1>14. QED
  BY <1>6, <1>7, <1>10, <1>11, <1>12, <1>13 DEF FlowInv

(* The record of a draft's run puts the company on its way again: the row  *)
(* of the draft is at work.                                                *)
LEMMA RecordFlow ==
    ASSUME TableInv, TableInv', FlowInv, InDoubt, NEW k \in Workers, Record(k)
    PROVE  FlowInv' /\ InDoubt'
<1>0. /\ TypeInv /\ role \in [Tasks -> Roles] /\ company \in Company
      /\ \A j \in Workers : sel[j] \in Tasks
      /\ \A t \in Tasks : task[t].status \in Statuses /\ task'[t].status \in Statuses
  BY DEF TableInv, QueueInv, Orderly, TypeInv, TypeOK, PipelineTypeOK, Row
<1>1. /\ \A t \in Tasks : Keeps(t) /\ Stays(t) /\ task'[t].status = task[t].status
      /\ \A j \in Workers : Passes(j)
      /\ pc[k] = "record" /\ UNCHANGED <<role, mailed, request, note, exc, spent>>
  BY RecordEnds
<1>2. CASE UNCHANGED company
  <2>1. Quiet
    BY <1>1, <1>2 DEF Quiet, Steady
  <2>2. QED
    BY <2>1, QuietFlow, QuietDoubt DEF FlowInv, Quiet
<1>3. CASE role[sel[k]] = "draft" /\ SetStage("preparing")
  <2>1. company' = [company EXCEPT !.stage = "preparing"]
    BY <1>3 DEF SetStage
  <2>2. /\ company'.stage = "preparing" /\ company'.drafts = company.drafts
        /\ company'.contact = company.contact /\ company'.outreach = company.outreach
          /\ company'.doubt = company.doubt
    BY <1>0, <2>1 DEF Company
  <2>3. \A j \in Workers : pc'[j] \notin Inside /\ note'[j].what = "none"
    <3>1. pc'[k] = "idle"
      BY <1>0, DoneTyped DEF Record, RecordRun
    <3>2. pc[k] \in Inside /\ "idle" \notin Inside /\ note[k].what = "none"
      BY <1>1 DEF Inside, Working, Holding, FlowInv, NotesTrue, NoteTrue
    <3>3. ASSUME NEW j \in Workers, j # k PROVE pc'[j] = pc[j]
      BY <1>0, <3>3, DoneTyped DEF Record, RecordRun
    <3>4. QED
      BY <1>1, <3>1, <3>2, <3>3, OthersAway
  <2>4. /\ sel[k] \in Tasks /\ role[sel[k]] = "draft" /\ Pending(task'[sel[k]].status)
    BY <1>0, <1>1, <1>3
       DEF FlowInv, RowsInHand, TableInv, QueueInv, Orderly, NotCompleted, Pending, Inside, Working, Holding
  <2>5. RowsInHand'
    BY <1>1, <2>2, <2>3 DEF FlowInv, RowsInHand, Inside, Working, Holding
  <2>6. NotesTrue' /\ HandedOver'
    BY <2>3 DEF NotesTrue, NoteTrue, HandedOver, LeavesOne, Inside, Working, Holding
  <2>7. DraftedOnce'
    <3> SUFFICES ASSUME Drafted'
                 PROVE  /\ company.drafts > 0 /\ company.contact
                        /\ \E u \in Tasks : role[u] = "draft" /\ Pending(task'[u].status)
                        /\ \A j \in Workers : pc'[j] # "record"
      BY <1>1, <2>2 DEF DraftedOnce
    <3>1. Drafted
      BY <1>1 DEF Drafted
    <3>2. company.drafts > 0 /\ company.contact
      BY <1>1, <1>3, <3>1 DEF FlowInv, DraftedOnce
    <3>3. QED
      BY <2>3, <2>4, <3>2 DEF Inside, Working, Holding
  <2>8. PipelineAlive'
    BY <1>0, <2>4 DEF PipelineAlive, Pending, Statuses
  <2>9. InDoubt'
    <3>1. \A u \in Tasks : Loose(u)' = Loose(u)
      BY <1>1, <2>2 DEF Loose, OnRecord
    <3>2. \A j \in Workers : Recording(j)'
      BY <2>3 DEF Recording, Inside
    <3>3. QED
      BY <1>1, <3>1, <3>2 DEF InDoubt
  <2>10. QED
    BY <2>5, <2>6, <2>7, <2>8, <2>9 DEF FlowInv
<1>4. QED
  BY <1>2, <1>3 DEF Record
(* A worker that gets where it completes its row, and leaves rows, roles   *)
(* and company alone.                                                      *)
LEMMA ReadyFlow ==
    ASSUME TableInv, FlowInv, NEW k \in Workers, pc[k] \in Inside \ Reporting,
           Goto(k, "complete"), UNCHANGED <<task, exc, sel, role, company, request, spent>>,
           \A j \in Workers : j # k => note'[j] = note[j],
           NoteTrue(k)', LeavesOne(k)',
           pc[k] \in {"reclaim", "load_reclaimed", "reconcile"} => KindOf[sel[k]] # "send"
    PROVE  FlowInv' /\ \A j \in Workers : j # k => Recording(j)'
<1>0. /\ pc'[k] = "complete" /\ \A j \in Workers : j # k => pc'[j] = pc[j]
      /\ UNCHANGED <<task, exc, sel, role, company, request, spent>>
  BY DEF TableInv, QueueInv, Orderly, TypeInv, TypeOK, Goto
<1>1. \A j \in Workers : j # k => pc'[j] \notin Inside /\ note'[j].what = "none"
  BY <1>0, OthersAway
<1>2. RowsInHand'
  <2>1. \A j \in Workers : pc'[j] \in Inside => task[sel[j]].status # "none"
    BY <1>1 DEF FlowInv, RowsInHand
  <2>2. \A j \in Workers : pc'[j] \notin {"reclaim", "load_reclaimed", "reconcile"}
    BY <1>0, <1>1 DEF Inside, Working, Holding
  <2>3. QED
    BY <1>0, <2>1, <2>2 DEF FlowInv, RowsInHand
<1>3. NotesTrue' /\ HandedOver'
  BY <1>1 DEF NotesTrue, NoteTrue, HandedOver, LeavesOne, Inside, Working, Holding
<1>4. DraftedOnce'
  <2>1. \A j \in Workers : pc'[j] # "record"
    BY <1>0, <1>1 DEF Inside, Working, Holding
  <2>2. QED
    BY <1>0, <2>1 DEF FlowInv, DraftedOnce, Drafted, Going
<1>5. PipelineAlive'
  BY <1>0 DEF FlowInv, PipelineAlive
<1>6. \A j \in Workers : j # k => Recording(j)'
  BY <1>1 DEF Recording, Inside
<1>7. QED
  BY <1>2, <1>3, <1>4, <1>5, <1>6 DEF FlowInv

(* Reading the run keeps the flow: where it is completed, the note tells   *)
(* the truth.                                                              *)
LEMMA InspectFlow ==
    ASSUME TableInv, TableInv', FlowInv, InDoubt, NEW k \in Workers, Inspect(k)
    PROVE  FlowInv' /\ InDoubt'
<1>1. PICK step \in {"renew", "complete", "fail", "block"} :
         /\ Goto(k, step) /\ pc[k] = "reconcile" /\ pc'[k] = step
         /\ Noted(k, IF step = "complete" THEN "due" ELSE "none", 0)
         /\ UNCHANGED <<task, exc, sel, role, company, mailed, request, spent>>
  BY InspectEffect
<1>2. CASE step # "complete"
  BY <1>1, <1>2, InspectQuiet, QuietFlow, QuietDoubt DEF FlowInv, Quiet
<1>3. CASE step = "complete"
  <2>1. note'[k].what = "due" /\ \A j \in Workers : j # k => note'[j] = note[j]
    <3>1. Noted(k, "due", 0)
      BY <1>1, <1>3
    <3>2. note \in [Workers -> Notable] /\ 0 \in 0..MaxDrafts
      BY PipelineAssumption DEF TableInv, PipelineTypeOK, Notable
    <3>3. QED
      BY <3>1, <3>2, NotedTyped
  <2>2. role[sel[k]] = "draft" => company.drafts > 0
    BY <1>1, <1>3 DEF Inspect
  <2>3. KindOf[sel[k]] # "send"
    BY <1>1 DEF FlowInv, RowsInHand
  <2>4. NoteTrue(k)' /\ LeavesOne(k)'
    BY <1>1, <1>3, <2>1, <2>2, <2>3 DEF NoteTrue, LeavesOne
  <2>5. FlowInv' /\ \A j \in Workers : j # k => Recording(j)'
    BY <1>1, <1>3, <2>1, <2>3, <2>4, ReadyFlow DEF Inside, Working, Holding, Reporting
  <2>6. \A t \in Tasks : Loose(t)' = Loose(t)
    BY <1>1 DEF Loose, OnRecord
  <2>7. Recording(k)'
    BY <1>1 DEF InDoubt, Recording, Loose, OnRecord, Working, Holding
  <2>8. QED
    BY <1>1, <2>5, <2>6, <2>7 DEF InDoubt
<1>4. QED
  BY <1>2, <1>3

(* The gated send: a message is in doubt until its worker commits.         *)
LEMMA SendFlow ==
    ASSUME TableInv, TableInv', FlowInv, InDoubt, NEW k \in Workers, Send(k)
    PROVE  FlowInv' /\ InDoubt'
<1> DEFINE t == sel[k]
           m == Message(t, Newest)
<1>0. /\ pc[k] = "launch" /\ KindOf[t] = "send" /\ t \in Tasks
      /\ UNCHANGED <<task, exc, sel, role, company, request, spent>>
      /\ pc \in [Workers -> Steps] /\ company \in Company
      /\ mailed \subseteq Messages /\ note \in [Workers -> Notable]
  BY DEF Send, SendApplication, TableInv, QueueInv, Orderly, TypeInv, TypeOK, PipelineTypeOK,
         Messages, Notable
<1>1. \/ Goto(k, "complete") /\ pc'[k] = "complete"
      \/ Goto(k, "fail") /\ pc'[k] = "fail"
  BY <1>0 DEF Send, SendApplication, Goto
<1>2. /\ task[t].status # "none" /\ role[t] = "send" /\ note[k].what = "none"
      /\ Loose(t) = {}
  BY <1>0 DEF FlowInv, RowsInHand, NotesTrue, NoteTrue, InDoubt, Recording, Inside, Working,
              Holding
<1>a. /\ \A j \in Workers : j # k => pc[j] \notin Inside /\ note[j].what = "none"
      /\ \A j \in Workers : j # k => pc'[j] = pc[j]
  BY <1>0, <1>1, OthersAway DEF Inside, Working, Holding, Goto
<1>3. \/ Newest \in 1..MaxDrafts /\ Newest \in 0..MaxDrafts
      \/ ~Deliverable
  BY <1>0, NewestIntent DEF Deliverable
<1>4. Deliverable => m.draft = Newest /\ m.task = t /\ m.freed = (task[t].status # "running")
  BY <1>0, <1>3, MessageTyped
<1> HIDE DEF m
<1>5. \/ UNCHANGED <<note, mailed>>
      \/ /\ Deliverable /\ mailed' \in {mailed, mailed \cup {m}}
         /\ \/ pc'[k] = "complete" /\ Noted(k, "sent", Newest) /\ m \in mailed'
            \/ pc'[k] = "fail" /\ Noted(k, "doubt", Newest)
  BY DEF Send, m
<1>6. CASE UNCHANGED <<note, mailed>> /\ pc'[k] = "fail"
  <2>1. Goto(k, "fail")
    BY <1>1, <1>6
  <2>2. Quiet
    BY <1>0, <1>6, <2>1, GoesQuiet, SameKept
       DEF Quiet, Steady, Steps, Inside, Working, Holding, Reporting
  <2>3. QED
    BY <2>2, QuietFlow, QuietDoubt DEF FlowInv, Quiet
<1>7. CASE UNCHANGED <<note, mailed>> /\ pc'[k] = "complete"
  <2>0. Goto(k, "complete")
    BY <1>1, <1>7
  <2>1. Drafted
    BY <1>0, <1>2 DEF Drafted
  <2>2. Going => \E w \in Tasks \ {t} : Pending(task[w].status)
    BY <1>2, <2>1 DEF FlowInv, DraftedOnce
  <2>3. NoteTrue(k)' /\ LeavesOne(k)'
    BY <1>0, <1>2, <1>7, <2>2 DEF NoteTrue, LeavesOne, Going
  <2>4. FlowInv' /\ \A j \in Workers : j # k => Recording(j)'
    BY <1>0, <1>7, <2>0, <2>3, ReadyFlow DEF Inside, Working, Holding, Reporting
  <2>5. \A u \in Tasks : Loose(u)' = Loose(u)
    BY <1>0, <1>7 DEF Loose, OnRecord
  <2>6. Recording(k)'
    BY <1>0, <1>2, <1>7 DEF Recording, Loose, OnRecord
  <2>7. QED
    BY <1>0, <1>7, <2>4, <2>5, <2>6 DEF InDoubt
<1>8. ASSUME Deliverable, mailed' \in {mailed, mailed \cup {m}},
             NEW what \in {"sent", "doubt"}, Noted(k, what, Newest),
             pc'[k] = IF what = "sent" THEN "complete" ELSE "fail"
      PROVE  /\ note'[k].what = what /\ note'[k].draft = Newest
             /\ \A j \in Workers : j # k => note'[j] = note[j]
             /\ InDoubt'
  <2>2. /\ note'[k].what = what /\ note'[k].draft = Newest
        /\ \A j \in Workers : j # k => note'[j] = note[j]
    BY <1>0, <1>3, <1>8, NotedTyped
  <2>3. mailed' \subseteq mailed \cup {m} /\ m.draft = Newest /\ m.task = t
        /\ m.freed = (task[t].status # "running")
    BY <1>4, <1>8
  <2>7. \A u \in Tasks : u # t => Loose(u)' \subseteq Loose(u)
    BY <1>0, <2>3 DEF Loose, OnRecord
  <2>8. Loose(t)' \subseteq {m} /\ (Loose(t)' # {} => task'[t].status = "running")
    BY <1>0, <1>2, <2>3 DEF Loose, OnRecord
  <2>9. Recording(k)'
    <3>1. \A e \in Loose(t)' : note'[k].draft = e.draft
      BY <2>2, <2>3, <2>8
    <3>2. \/ pc'[k] = "complete" /\ note'[k].what = "sent"
          \/ pc'[k] = "fail" /\ note'[k].what = "doubt"
      BY <1>8, <2>2
    <3>3. QED
      BY <1>0, <3>1, <3>2 DEF Recording, Loose
  <2>10. \A e \in mailed' : KindOf[e.task] = "send"
    BY <1>0, <2>3 DEF InDoubt
  <2>11. \A j \in Workers : j # k => Recording(j)'
    BY <1>a DEF Recording, Inside
  <2>12. \A u \in Tasks : Loose(u)' # {} => task'[u].status = "running"
    BY <1>0, <2>7, <2>8 DEF InDoubt
  <2>13. QED
    BY <2>2, <2>9, <2>10, <2>11, <2>12 DEF InDoubt
<1>9. CASE /\ Deliverable /\ mailed' \in {mailed, mailed \cup {m}}
           /\ pc'[k] = "fail" /\ Noted(k, "doubt", Newest)
  <2>1. /\ note'[k].what = "doubt" /\ \A j \in Workers : j # k => note'[j] = note[j]
        /\ InDoubt'
    BY <1>8, <1>9
  <2>2. \A j \in Workers : Passes(j)
    <3>1. GoesInside(k)
      BY <1>0, <1>2, <1>9 DEF GoesInside, Inside, Working, Holding, Reporting
    <3>2. QED
      BY <1>0, <1>9, <1>a, <2>1, <3>1 DEF Passes
  <2>3. Steady
    BY <1>0, <1>9, <2>2, SameKept DEF Steady
  <2>4. QED
    BY <2>1, <2>3, QuietFlow
<1>10. CASE /\ Deliverable /\ mailed' \in {mailed, mailed \cup {m}} /\ m \in mailed'
            /\ pc'[k] = "complete" /\ Noted(k, "sent", Newest)
  <2>1. /\ note'[k].what = "sent" /\ note'[k].draft = Newest
        /\ \A j \in Workers : j # k => note'[j] = note[j]
        /\ InDoubt'
    BY <1>8, <1>10
  <2>2. NoteTrue(k)' /\ LeavesOne(k)'
    <3>1. \E e \in mailed' : e.draft = note'[k].draft
      BY <1>4, <1>10, <2>1
    <3>2. QED
      BY <1>0, <1>2, <1>10, <2>1, <3>1 DEF NoteTrue, LeavesOne
  <2>3. Goto(k, "complete")
    BY <1>1, <1>10
  <2>4. FlowInv'
    BY <1>0, <2>1, <2>2, <2>3, ReadyFlow DEF Inside, Working, Holding, Reporting
  <2>5. QED
    BY <2>1, <2>4
<1>11. QED
  BY <1>1, <1>5, <1>6, <1>7, <1>9, <1>10

(* A statement that fails leaves the row as it is; a message that has left *)
(* before holds it.                                                        *)
LEMMA BreakFlow ==
    ASSUME TableInv, TableInv', FlowInv, InDoubt, NEW k \in Workers, Break(k)
    PROVE  FlowInv' /\ InDoubt'
<1> DEFINE t == sel[k]
           m == Message(t, Newest)
<1>0. /\ TypeInv /\ company \in Company /\ t \in Tasks /\ Done(k, "idle")
      /\ Noted(k, "none", 0) /\ Up(k) /\ pc[k] # "idle"
      /\ UNCHANGED <<task, exc, role, company, request, spent>>
      /\ pc \in [Workers -> Steps] /\ sel \in [Workers -> Tasks]
  BY DEF Break, StatementFails, TableInv, QueueInv, Orderly, TypeInv, TypeOK, PipelineTypeOK
<1>1. pc[k] \in Inside
  BY <1>0 DEF Up, Steps, Inside, Working, Holding
<1>2. \A j \in Workers : pc'[j] \notin Inside
  BY <1>0, <1>1, OthersAway, DoneTyped DEF Inside, Working, Holding
<1>3. mailed' = mailed \/ (mailed' = mailed \cup {m} /\ Deliverable /\ role[t] = "send")
  BY DEF Break
<1>4. Steady
  <2>1. \A j \in Workers : Passes(j)
    BY <1>0, EndsQuiet
  <2>2. QED
    BY <1>0, <1>3, <2>1, SameKept DEF Steady
<1>5. Deliverable => m.draft = Newest /\ m.task = t /\ m.freed = (task[t].status # "running")
  <2>1. Deliverable => Newest \in 1..MaxDrafts
    BY <1>0, NewestIntent DEF Deliverable
  <2>2. QED
    BY <1>0, <2>1, MessageTyped
<1> HIDE DEF m
<1>6. InDoubt'
  <2>1. \A e \in mailed' : KindOf[e.task] = "send"
    BY <1>0, <1>3, <1>5 DEF InDoubt, FlowInv, RowsInHand
  <2>2. \A u \in Tasks : Loose(u)' # {} => task'[u].status = "running"
    <3>1. ASSUME NEW u \in Tasks, NEW e \in Loose(u)' PROVE task[u].status = "running"
      <4>1. e \in Loose(u) \/ (e = m /\ Deliverable /\ m.task = u /\ ~m.freed)
        BY <1>0, <1>3, <3>1 DEF Loose, OnRecord
      <4>2. QED
        BY <1>5, <4>1 DEF InDoubt
    <3>2. QED
      BY <1>0, <3>1
  <2>3. \A j \in Workers : Recording(j)'
    BY <1>2 DEF Recording, Inside
  <2>4. QED
    BY <2>1, <2>2, <2>3 DEF InDoubt
<1>7. QED
  BY <1>4, <1>6, QuietFlow

(* A hand-over leaves another row behind: the one it inserts, or one it    *)
(* found.                                                                  *)
LEMMA HandOverFlow ==
    ASSUME TableInv, TableInv', FlowInv, InDoubt, NEW k \in Workers, HandOver(k)
    PROVE  FlowInv' /\ InDoubt'
<1>0. /\ TypeInv /\ role \in [Tasks -> Roles] /\ company \in Company
      /\ note \in [Workers -> Notable] /\ 0 \in 0..MaxDrafts
      /\ \A j \in Workers : sel[j] \in Tasks
      /\ \A t \in Tasks : task[t].status \in Statuses /\ task'[t].status \in Statuses
  <2>1. TypeInv /\ PipelineTypeOK /\ 0 \in 0..MaxDrafts
    BY PipelineAssumption DEF TableInv, QueueInv, Orderly
  <2>2. /\ \A j \in Workers : sel[j] \in Tasks
        /\ \A t \in Tasks : task[t].status \in Statuses /\ task'[t].status \in Statuses
    BY DEF TableInv, QueueInv, Orderly, TypeInv, TypeOK, Row
  <2>3. QED
    BY <2>1, <2>2 DEF PipelineTypeOK, Notable
<1>1. pc[k] = "complete" /\ note[k].what = "due" /\ pc[k] \in Inside
  BY DEF HandOver, Inside, Working, Holding
<1>2. \A j \in Workers : j # k => pc[j] \notin Inside /\ note[j].what = "none"
  BY <1>1, OthersAway
<1>3. /\ KindOf[sel[k]] # "send" /\ role[sel[k]] # "send" /\ task[sel[k]].status # "none"
      /\ role[sel[k]] = "draft" => company.drafts > 0
      /\ company.stage # "none"
  BY <1>0, <1>1 DEF FlowInv, RowsInHand, NotesTrue, NoteTrue
<1>4. Loose(sel[k]) = {}
  BY <1>1 DEF InDoubt, Recording, Working, Holding
<1>5. ASSUME NEW t \in Tasks, HandsOver(k, t) PROVE FlowInv' /\ InDoubt'
  <2>1. /\ task[t].status = "none" /\ (KindOf[t] = "send" <=> NextOf(k) = "send")
        /\ task'[t].status = "queued" /\ role'[t] = NextOf(k)
        /\ \A u \in Tasks : u # t => task'[u] = task[u] /\ role'[u] = role[u]
        /\ UNCHANGED <<exc, pc, sel, mailed, request, spent>>
    BY <1>5 DEF HandsOver, Inserted
  <2>2. /\ company'.stage = StageOf(k) /\ company'.drafts = company.drafts
        /\ company'.contact = company.contact /\ company'.outreach = company.outreach
        /\ company'.doubt = company.doubt
    BY <1>0, <1>5 DEF HandsOver, SetStage, Company
  <2>3. note'[k].what = "none" /\ \A j \in Workers : j # k => note'[j] = note[j]
    BY <1>0, <1>5, NotedTyped DEF HandsOver
  <2>4. sel[k] # t
    BY <1>3, <2>1
  <2>5. \A j \in Workers : j # k => pc'[j] \notin Inside /\ note'[j].what = "none"
    BY <1>2, <2>1, <2>3
  <2>6. StageOf(k) # "none"
    BY <1>3 DEF StageOf
  <2>7. RowsInHand'
    <3>1. \A u \in Tasks : role'[u] = "send" <=> KindOf[u] = "send"
      BY <2>1 DEF FlowInv, RowsInHand
    <3>2. \A j \in Workers : pc'[j] \in Inside => task'[sel'[j]].status # "none"
      BY <1>0, <1>3, <2>1, <2>4, <2>5
    <3>3. \A u \in Tasks : exc'[u] => task'[u].status # "none"
      BY <2>1 DEF FlowInv, RowsInHand
    <3>4. \A j \in Workers : pc'[j] \notin {"reclaim", "load_reclaimed", "reconcile"}
      BY <1>1, <2>1, <2>5 DEF Inside, Working, Holding
    <3>5. QED
      BY <2>2, <2>6, <3>1, <3>2, <3>3, <3>4 DEF RowsInHand
  <2>8. NotesTrue'
    <3>1. role'[sel[k]] = "draft" => company'.drafts > 0
      BY <1>0, <1>3, <2>1, <2>2, <2>4
    <3>2. QED
      BY <2>1, <2>3, <2>5, <3>1 DEF NotesTrue, NoteTrue, Inside, Working, Holding
  <2>9. ASSUME role[sel[k]] = "contact" PROVE DraftedOnce' /\ HandedOver'
    <3>1. NextOf(k) = "draft" /\ StageOf(k) = company.stage
      BY <2>9 DEF NextOf, StageOf
    <3>2. Drafted' => Drafted
      BY <2>1, <3>1 DEF Drafted
    <3>3. Going' <=> Going
      BY <2>1, <2>2, <3>1 DEF Going
    <3>4. \A j \in Workers : pc'[j] # "record"
      BY <1>1, <2>1, <2>5 DEF Inside, Working, Holding
    <3>5. \A u \in Tasks : Pending(task[u].status) =>
              Pending(task'[u].status) /\ role'[u] = role[u]
      BY <2>1 DEF Pending
    <3>6. DraftedOnce'
      <4> SUFFICES ASSUME Drafted'
                   PROVE  /\ company'.drafts > 0
                          /\ Going' => company'.contact
                          /\ Going' => \E u \in Tasks : role'[u] = "draft"
                                                        /\ Pending(task'[u].status)
        BY <3>4 DEF DraftedOnce
      <4>1. QED
        BY <2>2, <3>2, <3>3, <3>5 DEF FlowInv, DraftedOnce
    <3>7. HandedOver'
      <4>1. role'[sel[k]] # "draft"
        BY <1>0, <2>1, <2>4, <2>9
      <4>2. t \in Tasks \ {sel[k]} /\ Pending(task'[t].status)
        BY <2>1, <2>4 DEF Pending
      <4>3. QED
        BY <2>1, <2>5, <4>1, <4>2 DEF HandedOver, LeavesOne, Inside, Working, Holding
    <3>8. QED
      BY <3>6, <3>7
  <2>10. ASSUME role[sel[k]] = "draft" PROVE DraftedOnce' /\ HandedOver'
    <3>1. ~Going'
      BY <2>2, <2>10 DEF Going, StageOf
    <3>2. \A j \in Workers : pc'[j] # "record"
      BY <1>1, <2>1, <2>5 DEF Inside, Working, Holding
    <3>3. DraftedOnce'
      BY <1>3, <2>2, <2>10, <3>1, <3>2 DEF DraftedOnce
    <3>4. HandedOver'
      BY <3>1 DEF HandedOver, LeavesOne
    <3>5. QED
      BY <3>3, <3>4
  <2>11. DraftedOnce' /\ HandedOver'
    <3>1. role[sel[k]] \in Roles
      BY <1>0
    <3>2. QED
      BY <1>3, <2>9, <2>10, <3>1 DEF Roles
  <2>12. PipelineAlive'
    BY <2>1 DEF PipelineAlive
  <2>13. InDoubt'
    <3>1. \A u \in Tasks : Loose(u)' = Loose(u)
      BY <2>1, <2>2 DEF Loose, OnRecord
    <3>2. Recording(k)'
      BY <1>4, <2>1, <2>2 DEF Recording, Loose, OnRecord
    <3>3. \A j \in Workers : j # k => Recording(j)'
      BY <2>5 DEF Recording, Inside
    <3>4. QED
      BY <2>1, <3>1, <3>2, <3>3 DEF InDoubt
  <2>14. QED
    BY <2>7, <2>8, <2>11, <2>12, <2>13 DEF FlowInv
<1>6. CASE /\ NextOf(k) = "none" \/ Existing(NextOf(k)) # {}
           /\ Noted(k, IF StageOf(k) = company.stage THEN "none" ELSE StageOf(k), 0)
           /\ UNCHANGED <<vars, role, company, made, mailed, request, spent>>
  <2>0. UNCHANGED <<task, exc, pc, sel, role, company, mailed, request, spent>>
    BY <1>6 DEF vars
  <2>1. /\ StageOf(k) = company.stage => note'[k].what = "none"
        /\ StageOf(k) # company.stage => note'[k].what = "ready" /\ role[sel[k]] = "draft"
        /\ \A j \in Workers : j # k => note'[j] = note[j]
    <3>1. CASE StageOf(k) = company.stage
      <4>1. Noted(k, "none", 0)
        BY <1>6, <3>1
      <4>2. QED
        BY <1>0, <3>1, <4>1, NotedTyped
    <3>2. CASE StageOf(k) # company.stage
      <4>1. Noted(k, "ready", 0) /\ role[sel[k]] = "draft"
        BY <1>6, <3>2 DEF StageOf
      <4>2. QED
        BY <1>0, <3>2, <4>1, NotedTyped
    <3>3. QED
      BY <3>1, <3>2
  <2>2. NotesTrue'
    <3>1. NoteTrue(k)'
      BY <1>1, <1>3, <2>0, <2>1 DEF NoteTrue
    <3>2. \A j \in Workers : j # k => NoteTrue(j)'
      BY <2>0, <2>1 DEF FlowInv, NotesTrue, NoteTrue
    <3>3. QED
      BY <3>1, <3>2 DEF NotesTrue
  <2>3. HandedOver'
    <3>1. ASSUME note'[k].what = "none", Going
          PROVE  /\ role[sel[k]] # "draft"
                 /\ \E u \in Tasks \ {sel[k]} : Pending(task[u].status)
      <4>1. StageOf(k) = company.stage /\ role[sel[k]] # "draft"
        BY <2>1, <3>1 DEF StageOf, Going
      <4>2. role[sel[k]] = "contact" /\ NextOf(k) = "draft"
        BY <1>0, <1>3, <4>1 DEF Roles, NextOf
      <4>3. PICK u \in Tasks : role[u] = "draft" /\ task[u].status \in Matched
        BY <1>6, <4>2 DEF Existing
      <4>4. CASE task[u].status = "completed"
        <5>1. Drafted
          BY <4>3, <4>4 DEF Drafted
        <5>2. PICK w \in Tasks : role[w] = "draft" /\ Pending(task[w].status)
          BY <3>1, <5>1 DEF FlowInv, DraftedOnce
        <5>3. QED
          BY <4>1, <4>2, <5>2
      <4>5. CASE task[u].status # "completed"
        BY <4>1, <4>2, <4>3, <4>5 DEF Matched, Pending
      <4>6. QED
        BY <4>4, <4>5
    <3>2. \A j \in Workers : j # k => LeavesOne(j)'
      BY <1>2, <2>0 DEF LeavesOne, Inside, Working, Holding
    <3>3. LeavesOne(k)'
      BY <2>0, <3>1 DEF LeavesOne, Going
    <3>4. QED
      BY <3>2, <3>3 DEF HandedOver
  <2>4. RowsInHand' /\ DraftedOnce' /\ PipelineAlive'
    BY <2>0 DEF FlowInv, RowsInHand, DraftedOnce, Drafted, PipelineAlive, Going
  <2>5. InDoubt'
    <3>1. \A u \in Tasks : Loose(u)' = Loose(u)
      BY <2>0 DEF Loose, OnRecord
    <3>2. Recording(k)'
      BY <1>4, <2>0 DEF Recording, Loose, OnRecord
    <3>3. \A j \in Workers : j # k => Recording(j)'
      BY <1>2, <2>0 DEF Recording, Inside
    <3>4. QED
      BY <2>0, <3>1, <3>2, <3>3 DEF InDoubt
  <2>6. QED
    BY <2>2, <2>3, <2>4, <2>5 DEF FlowInv
<1>7. QED
  BY <1>0, <1>5, <1>6, HandOverEffect

(* The commit of a completed row writes the company with it.               *)
LEMMA CompleteFlow ==
    ASSUME TableInv, TableInv', FlowInv, InDoubt, NEW k \in Workers, FinishTask(k),
           Complete(k), note[k].what # "due"
    PROVE  FlowInv' /\ InDoubt'
<1>0. /\ TypeInv /\ role \in [Tasks -> Roles] /\ company \in Company /\ PipelineTypeOK
      /\ note \in [Workers -> Notable] /\ 0 \in 0..MaxDrafts /\ mailed \subseteq Messages
      /\ \A j \in Workers : sel[j] \in Tasks
      /\ \A t \in Tasks : task[t].status \in Statuses /\ task'[t].status \in Statuses
  <2>1. TypeInv /\ PipelineTypeOK /\ 0 \in 0..MaxDrafts
    BY PipelineAssumption DEF TableInv, QueueInv, Orderly
  <2>2. /\ \A j \in Workers : sel[j] \in Tasks
        /\ \A t \in Tasks : task[t].status \in Statuses /\ task'[t].status \in Statuses
    BY DEF TableInv, QueueInv, Orderly, TypeInv, TypeOK, Row
  <2>3. QED
    BY <2>1, <2>2 DEF PipelineTypeOK, Notable, Messages
<1>1. /\ pc[k] = "complete" /\ pc[k] \in Inside /\ note[k].what \in {"none", "ready", "sent"}
      /\ Noted(k, "none", 0) /\ company' = Written(k)
      /\ UNCHANGED <<role, made, mailed, request, spent>>
  <2>1. pc[k] = "complete" /\ pc[k] \in Inside
    BY DEF Complete, Inside, Working, Holding
  <2>2. note[k].what \in {"none", "ready", "sent"}
    BY <1>0, <2>1 DEF Notable, FlowInv, NotesTrue, NoteTrue
  <2>3. QED
    BY <2>1, <2>2 DEF FinishTask
<1>2. Saves(k, "completed")
  BY <1>0, SavesEffect
<1>3. UNCHANGED exc
  BY DEF Complete
<1>4. /\ \A t \in Tasks : t # sel[k] => task'[t] = task[t]
      /\ task'[sel[k]].status \in {task[sel[k]].status, "completed"}
      /\ task[sel[k]].status # "none"
  BY <1>1, <1>2 DEF Saves, FlowInv, RowsInHand
<1>5. \A j \in Workers : pc'[j] \notin Inside /\ note'[j].what = "none"
  <2>1. pc'[k] = "idle" /\ note'[k].what = "none"
    BY <1>0, <1>1, <1>2, DoneTyped, NotedTyped DEF Saves
  <2>2. ASSUME NEW j \in Workers, j # k PROVE pc'[j] = pc[j] /\ note'[j] = note[j]
    BY <1>0, <1>1, <1>2, <2>2, DoneTyped, NotedTyped DEF Saves
  <2>3. QED
    BY <1>1, <2>1, <2>2, OthersAway DEF Inside, Working, Holding
<1>6. /\ company'.stage = IF note[k].what \in {"ready", "sent"} THEN note[k].what
                          ELSE company.stage
      /\ company'.outreach = IF note[k].what = "sent"
                             THEN company.outreach \cup ({note[k].draft} \ {0})
                             ELSE company.outreach
      /\ company'.doubt = company.doubt
      /\ company'.contact = company.contact /\ company'.drafts = company.drafts
  BY <1>0, <1>1, WrittenEffect
<1>7. Going' => Going /\ note[k].what = "none"
  BY <1>1, <1>6 DEF Going
<1>8. Going' => /\ role[sel[k]] # "draft"
                /\ \E t \in Tasks \ {sel[k]} : Pending(task[t].status)
  BY <1>1, <1>7 DEF FlowInv, HandedOver, LeavesOne
<1>9. company.stage # "none"
  BY <1>0, <1>4 DEF FlowInv, RowsInHand
<1>10. RowsInHand'
  <2>1. \A u \in Tasks : role'[u] = "send" <=> KindOf[u] = "send"
    BY <1>1 DEF FlowInv, RowsInHand
  <2>2. \A u \in Tasks : exc'[u] => task'[u].status # "none"
    BY <1>3, <1>4 DEF FlowInv, RowsInHand
  <2>3. company'.stage # "none"
    BY <1>1, <1>6, <1>9
  <2>4. QED
    BY <1>5, <2>1, <2>2, <2>3 DEF RowsInHand, Inside, Working, Holding
<1>11. NotesTrue' /\ HandedOver'
  BY <1>5 DEF NotesTrue, NoteTrue, HandedOver, LeavesOne, Inside, Working, Holding
<1>12. DraftedOnce'
  <2> SUFFICES ASSUME Drafted'
               PROVE  /\ company.drafts > 0
                      /\ Going' => company.contact
                      /\ Going' => \E u \in Tasks : role[u] = "draft"
                                                    /\ Pending(task'[u].status)
    BY <1>1, <1>5, <1>6 DEF DraftedOnce, Inside, Working, Holding
  <2>1. Drafted \/ role[sel[k]] = "draft"
    BY <1>0, <1>1, <1>4 DEF Drafted
  <2>2. CASE Drafted
    <3>1. \A u \in Tasks : role[u] = "draft" /\ Going' => task'[u] = task[u]
      BY <1>4, <1>8
    <3>2. QED
      BY <1>7, <2>2, <3>1 DEF FlowInv, DraftedOnce
  <2>3. CASE role[sel[k]] = "draft"
    BY <1>1, <1>8, <2>3 DEF FlowInv, NotesTrue, NoteTrue
  <2>4. QED
    BY <2>1, <2>2, <2>3
<1>13. PipelineAlive'
  <2> SUFFICES ASSUME Going'
               PROVE  \E t \in Tasks : task'[t].status \in
                            {"queued", "retry", "running", "paused", "blocked"}
    BY DEF PipelineAlive, Going
  <2>1. PICK t \in Tasks : t # sel[k] /\ Pending(task[t].status)
    BY <1>8
  <2>2. QED
    BY <1>0, <1>4, <2>1 DEF Pending, Statuses
<1>14. InDoubt'
  <2>1. \A u \in Tasks : Loose(u)' \subseteq Loose(u)
    BY <1>1, <1>6 DEF Loose, OnRecord
  <2>2. ASSUME NEW u \in Tasks, Loose(u)' # {} PROVE task'[u].status = "running"
    <3>1. u # sel[k]
      <4>1. ASSUME NEW e \in mailed, e.task = sel[k], ~e.freed,
                   e.draft \notin company'.outreach, e.draft \notin company'.doubt
            PROVE  FALSE
        <5>1. e.draft \notin company.outreach /\ e.draft \notin company.doubt
          BY <1>6, <4>1
        <5>2. e \in Loose(sel[k])
          BY <4>1, <5>1 DEF Loose, OnRecord
        <5>3. note[k].what = "sent" /\ note[k].draft = e.draft
          BY <1>1, <5>2 DEF InDoubt, Recording, Working, Holding
        <5>4. e \in Messages
          BY <1>0
        <5>5. e.draft # 0
          BY <5>4 DEF Messages
        <5>6. QED
          BY <1>6, <4>1, <5>3, <5>5
      <4>2. QED
        BY <1>1, <2>2, <4>1 DEF Loose, OnRecord
    <3>2. QED
      BY <1>4, <2>1, <2>2, <3>1 DEF InDoubt
  <2>3. \A j \in Workers : Recording(j)'
    BY <1>5 DEF Recording, Inside
  <2>4. QED
    BY <1>1, <2>2, <2>3 DEF InDoubt
<1>15. QED
  BY <1>10, <1>11, <1>12, <1>13, <1>14 DEF FlowInv

(* A failed row takes the record of what is in doubt with it.              *)
LEMMA FailFlow ==
    ASSUME TableInv, TableInv', FlowInv, InDoubt, NEW k \in Workers, FinishTask(k), Fail(k)
    PROVE  FlowInv' /\ InDoubt'
<1>0. /\ TypeInv /\ PipelineTypeOK /\ sel \in [Workers -> Tasks] /\ pc[k] = "fail"
      /\ Noted(k, "none", 0) /\ company' = Written(k)
      /\ UNCHANGED <<role, made, mailed, request, spent>>
      /\ mailed \subseteq Messages /\ note \in [Workers -> Notable]
  BY DEF FinishTask, Fail, TableInv, QueueInv, Orderly, TypeInv, TypeOK, PipelineTypeOK, Messages,
         Notable
<1>1. pc[k] \in Inside /\ pc[k] \in Working /\ note[k].what \in {"none", "doubt"}
  BY <1>0 DEF Inside, Working, Holding, Notable, FlowInv, NotesTrue, NoteTrue
<1>2. PICK status \in {"blocked", "retry"} : Saves(k, status)
  BY <1>0, SavesEffect
<1>3. task[sel[k]].status # "completed" /\ task[sel[k]].status # "none"
  BY <1>1 DEF TableInv, QueueInv, Orderly, NotCompleted, FlowInv, RowsInHand
<1>4. /\ company'.stage = company.stage /\ company'.outreach = company.outreach
      /\ company'.doubt = IF note[k].what = "doubt"
                          THEN company.doubt \cup ({note[k].draft} \ {0}) ELSE company.doubt
      /\ company'.contact = company.contact /\ company'.drafts = company.drafts
  BY <1>0, <1>1, WrittenEffect
<1>5. Steady
  <2>1. \A t \in Tasks : Keeps(t)
    <3>1. \A t \in Tasks : t # sel[k] => exc'[t] = exc[t]
      BY <1>0 DEF Fail, TableInv, QueueInv, Orderly, TypeInv, TypeOK
    <3>2. QED
      BY <1>2, <1>3, <3>1 DEF Saves, Keeps, Pending
  <2>2. \A j \in Workers : Passes(j)
    BY <1>0, <1>2, EndsQuiet DEF Saves
  <2>3. QED
    BY <1>0, <1>4, <2>1, <2>2 DEF Steady
<1>6. \A u \in Tasks : Loose(u)' \subseteq Loose(u)
  BY <1>0, <1>4 DEF Loose, OnRecord
<1>7. \A u \in Tasks : u = sel[k] => Loose(u)' = {}
  <2> SUFFICES ASSUME NEW e \in mailed, e.task = sel[k], ~e.freed, e.draft \notin OnRecord'
               PROVE  FALSE
    BY <1>0 DEF Loose
  <2>1. e.draft \notin OnRecord
    BY <1>4 DEF OnRecord
  <2>2. e \in Loose(sel[k])
    BY <2>1 DEF Loose
  <2>3. note[k].what = "doubt" /\ note[k].draft = e.draft
    BY <1>0, <1>1, <2>2 DEF InDoubt, Recording
  <2>4. e \in Messages
    BY <1>0
  <2>5. e.draft # 0
    BY <2>4 DEF Messages
  <2>6. QED
    BY <1>4, <2>3, <2>5 DEF OnRecord
<1>8. InDoubt'
  <2>1. ASSUME NEW u \in Tasks, Loose(u)' # {} PROVE task'[u].status = "running"
    <3>1. u # sel[k]
      BY <1>7, <2>1
    <3>2. QED
      BY <1>2, <1>6, <2>1, <3>1 DEF Saves, InDoubt
  <2>2. \A j \in Workers : pc'[j] \notin Inside
    BY <1>0, <1>1, <1>2, DoneTyped, OthersAway DEF Saves, Inside, Working, Holding
  <2>3. \A j \in Workers : Recording(j)'
    BY <2>2 DEF Recording, Inside
  <2>4. QED
    BY <1>0, <2>1, <2>3 DEF InDoubt
<1>9. QED
  BY <1>5, <1>8, QuietFlow

LEMMA FinishTaskFlow ==
    ASSUME TableInv, TableInv', FlowInv, InDoubt, NEW k \in Workers, FinishTask(k)
    PROVE  FlowInv' /\ InDoubt'
BY CompleteFlow, FailFlow DEF FinishTask

(* A request that commits moves no row out of the rows that wait, and      *)
(* frees the messages of a row that runs; a draft that turns to the search *)
(* of a contact was of a company without one, or its retry was late.       *)
LEMMA AnswerFlow ==
    ASSUME TableInv, TableInv', FlowInv, InDoubt, Asking, Answer
    PROVE  FlowInv' /\ InDoubt'
<1>0. /\ \A j \in Workers : sel[j] \in Tasks
      /\ \A u \in Tasks : task[u].status \in Statuses
      /\ mailed \subseteq Messages /\ op.rows \subseteq Tasks
      /\ op.turn \in BOOLEAN /\ company.contact \in BOOLEAN /\ spent.late \in BOOLEAN
  <2>1. company.contact \in BOOLEAN
    BY CompanyColumns DEF TableInv, PipelineTypeOK
  <2>2. QED
    BY <2>1 DEF TableInv, QueueInv, Orderly, TypeInv, TypeOK, PipelineTypeOK, Row, Messages, Request
<1>1. /\ \A t \in Tasks : t \notin op.rows => task'[t] = task[t]
      /\ \A t \in op.rows : /\ task'[t].status = task[t].status \/ task'[t].status \in Waiting
                            /\ ~Overtaken => task[t].status \in Sought
      /\ \A t \in Tasks : role'[t] = role[t] \/ (op.turn /\ t \in op.rows /\ role'[t] = "contact")
      /\ mailed' = {IF Frees(e) THEN Freed(e) ELSE e : e \in mailed}
      /\ spent'.late = (spent.late \/ (op.turn /\ company.contact))
      /\ CommitRequest
      /\ UNCHANGED <<pc, sel, exc, company, note, request>>
  BY AnswerEffect
<1>2. /\ \A t \in op.rows : task[t].status # "none"
      /\ op.turn => \A t \in op.rows : KindOf[t] # "send"
      /\ op.what \in {"pause", "resume", "resolve"}
  BY <1>1 DEF Asking, CommitRequest
<1>3. /\ \A u \in Tasks : role'[u] = "draft" => role[u] = "draft"
      /\ \A u \in Tasks : role'[u] = "send" <=> role[u] = "send"
      /\ \A u \in Tasks : task'[u].status = "none" <=> task[u].status = "none"
      /\ \A u \in Tasks : task'[u].status = "completed" => task[u].status = "completed"
      /\ \A u \in Tasks : Pending(task[u].status) => Pending(task'[u].status)
      /\ Going' => Going /\ ~(op.turn /\ company.contact)
  <2>1. \A u \in Tasks : role'[u] = "send" <=> role[u] = "send"
    BY <1>1, <1>2 DEF FlowInv, RowsInHand
  <2>2. \A u \in Tasks : task'[u].status = task[u].status
                         \/ (task'[u].status \in Waiting /\ task[u].status # "none")
    BY <1>1, <1>2
  <2>3. Going' => Going /\ ~(op.turn /\ company.contact)
    BY <1>0, <1>1 DEF Going
  <2>4. \A u \in Tasks : role'[u] = "draft" => role[u] = "draft"
    BY <1>1
  <2>5. QED
    BY <2>1, <2>2, <2>3, <2>4 DEF Pending, Waiting
<1>4. RowsInHand'
  BY <1>0, <1>1, <1>3 DEF FlowInv, RowsInHand
<1>5. NotesTrue'
  <2> SUFFICES ASSUME NEW k \in Workers PROVE NoteTrue(k)'
    BY DEF NotesTrue
  <2>1. ASSUME note[k].what = "sent" PROVE \E f \in mailed' : f.draft = note[k].draft
    <3>1. PICK e \in mailed : e.draft = note[k].draft
      BY <2>1 DEF FlowInv, NotesTrue, NoteTrue
    <3>2. (IF Frees(e) THEN Freed(e) ELSE e) \in mailed'
      BY <1>1
    <3>3. Freed(e).draft = e.draft
      BY <1>0, FreedTyped
    <3>4. QED
      BY <3>1, <3>2, <3>3
  <2>2. QED
    BY <1>0, <1>1, <1>3, <2>1 DEF FlowInv, NotesTrue, NoteTrue
<1>6. DraftedOnce'
  <2> SUFFICES ASSUME Drafted'
               PROVE  /\ company.drafts > 0
                      /\ Going' => company.contact
                      /\ Going' => \E u \in Tasks : role'[u] = "draft"
                                                    /\ Pending(task'[u].status)
                      /\ \A k \in Workers :
                            pc[k] = "record" /\ role'[sel[k]] = "draft" => company.contact
    BY <1>1 DEF DraftedOnce
  <2>1. Drafted
    BY <1>3 DEF Drafted
  <2>2. /\ company.drafts > 0 /\ (Going => company.contact)
        /\ \A k \in Workers : pc[k] = "record" /\ role[sel[k]] = "draft" => company.contact
    BY <2>1 DEF FlowInv, DraftedOnce
  <2>3. ASSUME Going' PROVE \E u \in Tasks : role'[u] = "draft" /\ Pending(task'[u].status)
    <3>1. Going /\ company.contact /\ ~op.turn
      BY <1>3, <2>2, <2>3
    <3>2. PICK u \in Tasks : role[u] = "draft" /\ Pending(task[u].status)
      BY <2>1, <3>1 DEF FlowInv, DraftedOnce
    <3>3. role'[u] = "draft"
      BY <1>1, <3>1, <3>2
    <3>4. QED
      BY <1>3, <3>2, <3>3
  <2>4. QED
    BY <1>0, <1>3, <2>2, <2>3
<1>7. HandedOver'
  BY <1>0, <1>1, <1>3 DEF FlowInv, HandedOver, LeavesOne
<1>8. PipelineAlive'
  <2>1. ASSUME Going'
        PROVE  \E u \in Tasks : Pending(task'[u].status)
    <3>1. PICK u \in Tasks : Pending(task[u].status)
      BY <1>3, <2>1 DEF FlowInv, PipelineAlive, Going, Pending
    <3>2. QED
      BY <1>3, <3>1
  <2>2. \A u \in Tasks : task'[u].status \in Statuses
    BY DEF TableInv, QueueInv, Orderly, TypeInv, TypeOK, Row
  <2>3. QED
    BY <2>1, <2>2 DEF PipelineAlive, Going, Pending, Statuses
<1>9. InDoubt'
  <2>1. ASSUME NEW f \in mailed'
        PROVE  /\ KindOf[f.task] = "send"
               /\ ~f.freed => f \in mailed /\ ~Frees(f)
    <3>1. PICK e \in mailed : f = IF Frees(e) THEN Freed(e) ELSE e
      BY <1>1
    <3>2. Freed(e).task = e.task /\ Freed(e).freed = TRUE
      BY <1>0, FreedTyped
    <3>3. CASE Frees(e)
      BY <3>1, <3>2, <3>3 DEF InDoubt
    <3>4. CASE ~Frees(e)
      BY <3>1, <3>4 DEF InDoubt
    <3>5. QED
      BY <3>3, <3>4
  <2>2. \A u \in Tasks : \A f \in Loose(u)' : f \in Loose(u) /\ ~Frees(f)
    BY <1>1, <2>1 DEF Loose, OnRecord
  <2>3. ASSUME NEW u \in Tasks, NEW f \in Loose(u)' PROVE task'[u].status = "running"
    <3>1. f \in Loose(u) /\ ~Frees(f) /\ task[u].status = "running" /\ f.task = u
      BY <2>2, <2>3 DEF InDoubt, Loose
    <3>2. u \notin op.rows
      <4> SUFFICES ASSUME u \in op.rows PROVE FALSE
        OBVIOUS
      <4>1. op.what \in {"pause", "resume"} /\ ~Overtaken
        BY <1>2, <3>1 DEF Frees
      <4>2. task[u].status \in {"queued", "retry", "paused"}
        BY <1>1, <4>1 DEF Sought
      <4>3. QED
        BY <3>1, <4>2
    <3>3. QED
      BY <1>1, <3>1, <3>2
  <2>4. ASSUME NEW k \in Workers PROVE Recording(k)'
    <3>0. sel'[k] = sel[k] /\ sel[k] \in Tasks
      BY <1>0, <1>1
    <3>1. \A e \in Loose(sel[k])' : e \in Loose(sel[k])
      BY <2>2, <3>0 DEF Loose
    <3>2. QED
      BY <1>1, <3>1 DEF InDoubt, Recording
  <2>5. QED
    BY <2>1, <2>3, <2>4 DEF InDoubt
<1>10. QED
  BY <1>4, <1>5, <1>6, <1>7, <1>8, <1>9 DEF FlowInv
-----------------------------------------------------------------------------
(* Every step of the pipeline keeps its flow, ...                          *)
LEMMA FlowNext ==
    ASSUME TableInv, TableInv', FlowInv, InDoubt, Asking, [PipelineNext]_pipeVars
    PROVE  FlowInv' /\ InDoubt'
<1>1. ASSUME Quiet PROVE FlowInv' /\ InDoubt'
  BY <1>1, QuietFlow, QuietDoubt DEF FlowInv, Quiet
<1>2. CASE Retain
  BY <1>2, InsertFlow DEF Retain, NextRole
<1>3. CASE InsertPrepared
  <2>1. request \in {"contact", "draft"} /\ company.stage # "none"
    BY <1>3 DEF InsertPrepared, TableInv, PipelineTypeOK, FlowInv, RowsInHand
  <2>2. QED
    BY <1>3, <2>1, InsertFlow DEF InsertPrepared
<1>4. CASE \/ TimePasses \/ Refuse \/ UNCHANGED pipeVars
           \/ \E k \in Workers : \/ Die(k) \/ AskPauseOrResume(k)
                                 \/ \E t \in Tasks : AskRetry(k, t)
  BY <1>1, <1>4, OutsideQuiet
<1>5. ASSUME NEW k \in Workers, QueueStep(k) \/ Launch(k) PROVE FlowInv' /\ InDoubt'
  BY <1>1, <1>5, QueueStepQuiet, LaunchQuiet
<1>6. ASSUME NEW k \in Workers, Record(k) \/ Inspect(k) \/ HandOver(k) \/ FinishTask(k)
                                \/ Send(k) \/ Break(k)
      PROVE  FlowInv' /\ InDoubt'
  BY <1>6, RecordFlow, InspectFlow, HandOverFlow, FinishTaskFlow, SendFlow, BreakFlow
<1>7. CASE \/ DecidePrepare \/ SetMode \/ Skip \/ LoseContact
           \/ \E d \in 1..MaxDrafts : Queue(d)
           \/ \E r \in DOMAIN runs : Finish(r)
  BY <1>7, CompanySteps, CompanyFlow
<1>8. CASE Answer
  BY <1>8, AnswerFlow
<1>9. QED
  BY <1>2, <1>3, <1>4, <1>5, <1>6, <1>7, <1>8 DEF PipelineNext

(* ... and the evidence of the company's stage.                            *)
LEMMA StageNext ==
    ASSUME TableInv, StageBacked, FlowInv, [PipelineNext]_pipeVars
    PROVE  StageBacked'
<1>0. /\ company \in Company /\ mailed \subseteq Messages /\ PipelineTypeOK
      /\ company.drafts \in Int /\ company.outreach \subseteq {e.draft : e \in mailed}
      /\ note \in [Workers -> Notable]
  BY DEF TableInv, PipelineTypeOK, Messages, StageBacked, Company, Notable
<1>1. CASE UNCHANGED <<company, mailed>>
  BY <1>1 DEF StageBacked
<1>2. ASSUME NEW stage, SetStage(stage), UNCHANGED mailed,
             stage = "ready" => company.drafts > 0, stage = "sent" => company.outreach # {}
      PROVE  StageBacked'
  <2>1. /\ company'.stage = stage /\ company'.drafts = company.drafts
        /\ company'.outreach = company.outreach
    BY <1>0, <1>2 DEF SetStage, Company
  <2>2. QED
    BY <1>0, <1>2, <2>1 DEF StageBacked
<1>3. CASE Retain \/ Skip
  BY <1>2, <1>3 DEF Retain, Skip
<1>4. ASSUME NEW k \in Workers, Record(k) PROVE StageBacked'
  BY <1>1, <1>2, <1>4 DEF Record
<1>5. CASE CompanyOnly /\ company'.stage \in {company.stage, "archived"}
  <2>1. /\ UNCHANGED mailed /\ company'.drafts >= company.drafts
        /\ company'.outreach = company.outreach /\ company'.drafts \in Int
    BY <1>5, CompanyTyped DEF CompanyOnly, Company
  <2>2. QED
    BY <1>0, <1>5, <2>1 DEF StageBacked
<1>6. CASE \/ SetMode \/ LoseContact \/ DecidePrepare
           \/ \E d \in 1..MaxDrafts : Queue(d)
           \/ \E r \in DOMAIN runs : Finish(r)
  <2>1. company'.stage = company.stage
    BY <1>0, <1>6 DEF SetMode, LoseContact, DecidePrepare, Queue, Finish, Company
  <2>2. QED
    BY <1>5, <1>6, <2>1, CompanySteps
<1>7. ASSUME NEW k \in Workers, HandOver(k) PROVE StageBacked'
  <2>1. ASSUME NEW t \in Tasks, HandsOver(k, t) PROVE StageBacked'
    <3>1. SetStage(StageOf(k)) /\ UNCHANGED mailed /\ pc[k] = "complete"
      BY <2>1 DEF HandsOver
    <3>2. StageOf(k) = "ready" => company.drafts > 0
      BY <3>1 DEF StageOf, FlowInv, NotesTrue, NoteTrue, StageBacked
    <3>3. StageOf(k) = "sent" => company.outreach # {}
      BY DEF StageOf, StageBacked
    <3>4. QED
      BY <1>2, <3>1, <3>2, <3>3
  <2>2. QED
    BY <1>1, <1>7, <2>1, HandOverEffect DEF TableInv, QueueInv, Orderly, PipelineTypeOK
<1>8. ASSUME NEW k \in Workers, FinishTask(k) PROVE StageBacked'
  <2>1. company' = Written(k) /\ UNCHANGED mailed
    BY <1>8 DEF FinishTask
  <2>2. /\ company'.stage = IF note[k].what \in {"ready", "sent"} THEN note[k].what
                            ELSE company.stage
        /\ company'.outreach = IF note[k].what = "sent"
                               THEN company.outreach \cup ({note[k].draft} \ {0})
                               ELSE company.outreach
        /\ company'.drafts = company.drafts
    BY <1>0, <2>1, WrittenEffect
  <2>3. note[k].what = "ready" => company.drafts > 0
    BY DEF FlowInv, NotesTrue, NoteTrue
  <2>4. ASSUME note[k].what = "sent"
        PROVE  /\ note[k].draft \in {e.draft : e \in mailed} /\ note[k].draft # 0
    <3>1. PICK e \in mailed : e.draft = note[k].draft
      BY <2>4 DEF FlowInv, NotesTrue, NoteTrue
    <3>2. e.draft # 0
      BY <1>0, <3>1 DEF Messages
    <3>3. QED
      BY <3>1, <3>2
  <2>5. QED
    BY <1>0, <2>1, <2>2, <2>3, <2>4 DEF StageBacked
<1>9. ASSUME NEW k \in Workers, Send(k) \/ Break(k) PROVE StageBacked'
  <2>1. UNCHANGED company /\ mailed \subseteq mailed'
    BY <1>9 DEF Send, Break
  <2>2. QED
    BY <2>1 DEF StageBacked
<1>10. ASSUME Answer PROVE StageBacked'
  <2>1. /\ UNCHANGED company
        /\ mailed' = {IF Frees(e) THEN Freed(e) ELSE e : e \in mailed}
    BY <1>10, AnswerEffect
  <2>2. ASSUME NEW e \in mailed PROVE \E f \in mailed' : f.draft = e.draft
    <3>1. (IF Frees(e) THEN Freed(e) ELSE e) \in mailed'
      BY <2>1
    <3>2. Freed(e).draft = e.draft
      BY <1>0, FreedTyped
    <3>3. QED
      BY <3>1, <3>2
  <2>3. QED
    BY <1>0, <2>1, <2>2 DEF StageBacked
<1>11. QED
  BY <1>1, <1>3, <1>4, <1>6, <1>7, <1>8, <1>9, <1>10
     DEF PipelineNext, pipeVars, TimePasses, QueueStep, Launch, Inspect, Die, InsertPrepared,
         AskPauseOrResume, AskRetry, Refuse

(* A row that was inserted is never taken away.                            *)
LEMMA RowsStay ==
    ASSUME QueueInv, [Next]_vars \/ \E k \in Workers, t \in Tasks : HandsOver(k, t)
    PROVE  \A u \in Tasks : task'[u].status = "none" => task[u].status = "none"
<1> DEFINE Stay == \A u \in Tasks : task'[u].status = "none" => task[u].status = "none"
<1>0. TypeInv /\ RequestTrue /\ task \in [Tasks -> Row] /\ sel \in [Workers -> Tasks]
  BY DEF QueueInv, Orderly, TypeInv, TypeOK
<1>1. UNCHANGED task => Stay
  OBVIOUS
<1>2. ASSUME NEW k \in Workers, NEW t \in Tasks, HandsOver(k, t) PROVE Stay
  BY <1>2 DEF HandsOver, Inserted
<1>3. ASSUME NEW k \in Workers, Claim(k) \/ Reclaim(k) \/ Renew(k) \/ RecordRun(k) PROVE Stay
  <2>1. CASE Claim(k) /\ sel[k] \in Launchable
    BY <1>0, <2>1, ClaimEffect
  <2>2. CASE Claim(k) /\ sel[k] \notin Launchable
    BY <2>2 DEF Claim
  <2>3. QED
    BY <1>0, <1>3, <2>1, <2>2, ReclaimEffect, RenewEffect, RecordEffect DEF Same
<1>4. ASSUME NEW k \in Workers, Block(k) \/ Complete(k) \/ Fail(k) PROVE Stay
  <2>1. PICK status \in {"blocked", "completed", "retry"} : Saves(k, status)
    BY <1>0, <1>4, SavesEffect
  <2>2. QED
    BY <2>1 DEF Saves
<1>5. ASSUME NEW t \in Tasks, Enqueue(t) \/ LeaseExpires(t) \/ BackoffElapses(t) PROVE Stay
  <2>1. CASE Enqueue(t)
    BY <1>0, <2>1 DEF Enqueue
  <2>2. QED
    BY <1>0, <1>5, <2>1, TimeEffect DEF Same
<1>6. CASE CommitRequest
  <2>1. \A u \in op.rows : task'[u].status = task[u].status \/ task'[u].status \in Waiting
    BY <1>0, <1>6, CommitEffect
  <2>2. \A u \in Tasks : u \notin op.rows => task'[u] = task[u]
    BY <1>0, <1>6, CommitTyped
  <2>3. QED
    BY <2>1, <2>2 DEF Waiting
<1>7. ASSUME NEW k \in Workers, Start(k) \/ Select(k) \/ Load(k) \/ LaunchAgent(k)
             \/ SendApplication(k) \/ Reconcile(k) \/ ReconcileFails(k) \/ StatementFails(k)
             \/ Crash(k) \/ AskPause(k) \/ AskResume(k)
             \/ \E t \in Tasks : AskRefresh(k, t) \/ AskResolve(k, t)
      PROVE  UNCHANGED task
  BY <1>7 DEF Start, Select, Load, LaunchAgent, SendApplication, Reconcile, ReconcileFails,
              StatementFails, Crash, AskPause, AskResume, AskRefresh, AskResolve, Ask
<1>8. ASSUME NEW r \in DOMAIN runs, AgentOpens(r) \/ AgentEnds(r) PROVE UNCHANGED task
  BY <1>8 DEF AgentOpens, AgentEnds
<1>9. CancelRun \/ DropRequest \/ UNCHANGED vars => UNCHANGED task
  BY DEF CancelRun, DropRequest, vars
<1>10. QED
  BY <1>1, <1>2, <1>3, <1>4, <1>5, <1>6, <1>7, <1>8, <1>9 DEF Next, WorkerStep

(* What is known of a request stays known: it reads rows that exist.       *)
LEMMA AskingNext ==
    ASSUME TableInv, TableInv', FlowInv, Asking, [PipelineNext]_pipeVars
    PROVE  Asking'
<1>0. TypeInv /\ op.rows \subseteq Tasks
  BY DEF TableInv, QueueInv, Orderly, TypeInv, TypeOK, Request
<1>1. \A u \in Tasks : task'[u].status = "none" => task[u].status = "none"
  BY PipelineSteps, RowsStay DEF TableInv, QueueInv, Orderly, PipelineTypeOK
<1>2. op' = op => Asking'
  BY <1>0, <1>1 DEF Asking
<1>3. op' = NoRequest => Asking'
  BY NoRequestTyped DEF Asking, NoRequest
<1>4. ASSUME NEW k \in Workers, AskPause(k) \/ AskResume(k) PROVE Asking'
  <2>1. PICK what \in {"pause", "resume"}, rows \in SUBSET Tasks :
           /\ Ask(k, what, rows, FALSE)
           /\ \A t \in rows : task[t].status \in Waiting
    <3>1. CASE AskPause(k)
      <4> DEFINE rows == {t \in Tasks : task[t].status \in {"queued", "retry"}}
      <4>1. Ask(k, "pause", rows, FALSE) /\ rows \in SUBSET Tasks
            /\ \A t \in rows : task[t].status \in Waiting
        BY <3>1 DEF AskPause, Waiting
      <4> HIDE DEF rows
      <4>2. QED
        BY <4>1
    <3>2. CASE AskResume(k)
      <4> DEFINE rows == {t \in Tasks : task[t].status = "paused"}
      <4>1. Ask(k, "resume", rows, FALSE) /\ rows \in SUBSET Tasks
            /\ \A t \in rows : task[t].status \in Waiting
        BY <3>2 DEF AskResume, Waiting
      <4> HIDE DEF rows
      <4>2. QED
        BY <4>1
    <3>3. QED
      BY <1>4, <3>1, <3>2
  <2>2. op'.what = what /\ op'.rows = rows /\ op'.turn = FALSE /\ UNCHANGED task
    BY <2>1 DEF Ask
  <2>3. QED
    BY <2>1, <2>2 DEF Asking, Waiting
<1>5. ASSUME NEW k \in Workers, NEW t \in Tasks, AskRetry(k, t) PROVE Asking'
  <2>1. exc[t] /\ \E turn \in IF KindOf[t] = "agent" THEN BOOLEAN ELSE {FALSE} :
                      Ask(k, "resolve", {t}, turn)
    BY <1>5 DEF AskRetry, AskResolve
  <2>2. PICK turn \in IF KindOf[t] = "agent" THEN BOOLEAN ELSE {FALSE} :
           Ask(k, "resolve", {t}, turn)
    BY <2>1
  <2>3. op'.what = "resolve" /\ op'.rows = {t} /\ op'.turn = turn /\ UNCHANGED task
    BY <2>2 DEF Ask
  <2>4. turn => KindOf[t] # "send"
    BY <2>2
  <2>5. task[t].status # "none"
    BY <2>1 DEF FlowInv, RowsInHand
  <2>6. QED
    BY <2>3, <2>4, <2>5 DEF Asking
<1>6. ASSUME NEW k \in Workers, QueueStep(k) \/ Launch(k) \/ Record(k) \/ Inspect(k)
             \/ HandOver(k) \/ FinishTask(k) \/ Send(k) \/ Break(k) \/ Die(k)
      PROVE  op' = op \/ op' = NoRequest
  BY <1>6 DEF QueueStep, Launch, Record, Inspect, HandOver, FinishTask, Send, Break, Die,
     Start, Select, Claim, Reclaim, Load, Block, Renew, ReconcileFails, LaunchAgent, RecordRun,
     Reconcile, Complete, Fail, SendApplication, StatementFails, Crash
<1>7. ASSUME NEW r \in DOMAIN runs, Finish(r) PROVE UNCHANGED op
  BY <1>7 DEF Finish, AgentEnds
<1>8. Retain \/ TimePasses \/ DecidePrepare \/ InsertPrepared \/ SetMode \/ Skip \/ LoseContact
      \/ (\E d \in 1..MaxDrafts : Queue(d)) \/ UNCHANGED pipeVars => UNCHANGED op
  BY DEF Retain, TimePasses, BackoffElapses, LeaseExpires, AgentOpens, DecidePrepare,
         InsertPrepared, SetMode, Skip, LoseContact, Queue, pipeVars, vars
<1>9. Answer \/ Refuse => op' = NoRequest
  BY DEF Answer, CommitRequest, Refuse, DropRequest
<1>10. ASSUME NEW k \in Workers, AskPauseOrResume(k) PROVE Asking'
  BY <1>4, <1>10 DEF AskPauseOrResume
<1>11. QED
  BY <1>2, <1>3, <1>5, <1>6, <1>7, <1>8, <1>9, <1>10 DEF PipelineNext

(* Every step keeps the whole invariant.                                   *)
LEMMA PipelineInvNext == PipelineInv /\ [PipelineNext]_pipeVars => PipelineInv'
BY TableNext, FlowNext, StageNext, AskingNext DEF PipelineInv

LEMMA PipelineInvInit == PipelineInit => PipelineInv
<1> SUFFICES ASSUME PipelineInit PROVE PipelineInv
  OBVIOUS
<1>1. TableInv
  BY TableInit
<1>2. /\ \A t \in Tasks : task[t].status = "none" /\ ~exc[t]
      /\ \A k \in Workers : pc[k] = "off" /\ note[k].what = "none"
      /\ mailed = {} /\ request = "none"
      /\ role = [t \in Tasks |-> IF KindOf[t] = "send" THEN "send" ELSE "contact"]
  BY DEF PipelineInit, Init, NewRow, NoNote
<1>3. company.stage = "none" /\ company.outreach = {}
  BY DEF PipelineInit
<1>4. StageBacked
  BY <1>2, <1>3 DEF StageBacked
<1>5. RowsInHand /\ NotesTrue /\ HandedOver
  BY <1>2, <1>3
     DEF RowsInHand, NotesTrue, NoteTrue, HandedOver, LeavesOne, Inside, Working, Holding
<1>6. DraftedOnce /\ PipelineAlive
  BY <1>2, <1>3 DEF DraftedOnce, Drafted, PipelineAlive
<1>7. InDoubt
  BY <1>2 DEF InDoubt, Recording, Loose, Working, Holding
<1>8. Asking
  BY NoRequestTyped DEF PipelineInit, Init, Asking, NoRequest
<1>9. QED
  BY <1>1, <1>4, <1>5, <1>6, <1>7, <1>8 DEF PipelineInv, FlowInv

(* The inductive invariant of the pipeline holds.                          *)
LEMMA PipelineStaysSound == PipelineSpec => []PipelineInv
BY PipelineInvInit, PipelineInvNext, PTL DEF PipelineSpec

(* The composed system stays sound: the rows keep their types, the stage   *)
(* of the company has its evidence, and no hand-over, retry, crash or      *)
(* failing statement gives a task more attempts than it has, but one for   *)
(* each request that a claim has overtaken.                                *)
THEOREM PipelineStaysTrue == PipelineSpec => []PipelineSound
<1>1. PipelineInv => PipelineSound
  BY DEF PipelineInv, TableInv, QueueInv, Orderly, AttemptsCounted, AttemptsBounded, Ceiling,
         PipelineSound
<1>2. QED
  BY <1>1, PipelineStaysSound, PTL

(* A company on its way, of which no retry came late, always has a row     *)
(* that waits, runs, is paused or is blocked in the operator's inbox.      *)
THEOREM CompanyNeverForgotten == PipelineSpec => []PipelineAlive
<1>1. PipelineInv => PipelineAlive
  BY DEF PipelineInv, FlowInv
<1>2. QED
  BY <1>1, PipelineStaysSound, PTL

(* A row whose message left without a record leaves "running" only by the  *)
(* commit of that record, by the operator's retry, or by a request that    *)
(* read the row before it was claimed.                                     *)
THEOREM UncertainSendStaysHeld == PipelineSpec => UncertainSendHeld
<1>1. PipelineInv' => \A t \in Tasks : task'[t].status # "running" => Loose(t)' = {}
  BY DEF PipelineInv, InDoubt
<1>2. PipelineInv' => [\A t \in Tasks :
          task[t].status = "running" /\ task'[t].status # "running" => Loose(t)' = {}]_pipeVars
  BY <1>1
<1>3. QED
  BY <1>2, PipelineStaysSound, PTL DEF UncertainSendHeld
=============================================================================
