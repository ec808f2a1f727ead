# auto_initiativ: models, checks and proofs

auto_initiativ finds companies and vacancies for a job seeker with the help of
language-model agents, prepares applications, and sends e-mail only through a
deterministic gate. The backend (`src/backend/app`, FastAPI and SQLModel, on SQLite
or PostgreSQL) owns all state. This directory holds TLA+ models of the parts of it where
steps of several actors interleave, the TLC runs that check them, and machine-checked
proofs.

1. [The system](#1-the-system)
2. [Modules](#2-modules)
3. [Runs](#3-runs)
4. [Proofs](#4-proofs)
5. [What does not hold](#5-what-does-not-hold)
6. [What is not modelled, and the plan](#6-what-is-not-modelled-and-the-plan)
7. [Running it](#7-running-it)

## 1. The system

| Component | State | Operations | What makes it correct | Module |
|---|---|---|---|---|
| Controlled delivery (`email_delivery/batch_send.py`, `gates/reserve_for_send.py`) | `send_reservations`, `outreach_records`, `sent_messages`, `send_approval_snapshots`, `send_intents.status` | `approve_and_send`, `reserve` | nobody is contacted twice; active reservations are exclusive; what was sent is on record; an uncertain outcome is not repeated | `SendDelivery` |
| Send gate (`gates/evaluate_only.py`) | one `imported_gate_results` row per intent | `evaluate` | dedupe window and send limits are respected | `SendDelivery` |
| Queue, resolution (`send_intents/queue.py`, `email_delivery/resolution.py`) | `send_intents`, `outreach_records` | `queue_draft`, `resolve` | re-pinning a policy never makes a reservation forget its rules | `SendDelivery` |
| Task queue (`workflow/engine.py`) | `agent_tasks`, `review_exceptions` | `run_once`, `process`, `reconcile`, `enqueue`, `_complete`, `_fail` | one agent per task; bounded attempts and fan-out; every task settles; recovery never launches twice | `WorkflowTasks` |
| Application pipeline (`workflow/engine.py`, `product/routes.py`) | the company's link to its campaign, its contacts, drafts, intents, outreach | contact research, draft, gated send, prepare, skip | a company is never forgotten; its stage has evidence | `CampaignPipeline` |
| Agent runs (`agents/*_runtime.py`) | `runs`, state files, threads and child processes | `launch`, `status`, `cancel`, `_run_agent`, `_watch_research_artifacts` | a live run is never taken for dead; an imported run stays imported; every run settles | `ResearchRun` |
| Pi client (`agents/pi_rpc.py`) | child processes, event queues, transcripts | start, message, finish, close, reset | a reply answers its own prompt; no process is lost | `PiSession` |
| Operator routes (`product/routes.py`) | campaigns, tasks, exceptions | pause, resume, refresh, resolve exception, confirm plan | no request undoes or duplicates what the worker does | `WorkflowTasks`, `CampaignPipeline`, `BalancedResearch` |
| Balanced research (`research/planning.py`, half of `workflow/engine.py`) | `research_plans`, `research_targets` | compile, confirm, launch, reconcile, shared leases, finalize | every target settles before the merge; budgets are not exceeded | `BalancedResearch` |
| Workflow graph (`workflow/graph.py`) | immutable definitions | validation, checkpoint assertions | no path to the send facade avoids a checkpoint; no unbounded cycle | `WorkflowGraphs`, `GraphValidation`, `ResearchTopology` |
| Shadow graph (`workflow/research_graph.py`, `shadow_readiness.py`) | correlation columns, audit rows | observe, report | the shadow says what the engine did | `ShadowGraph` |
| Run import (`imports/*`) | imported rows of one run, companies, contacts, postings | `import_run` | an import replaces the rows of the run or leaves them; nothing is lost or doubled | `RunImport` |
| Onboarding promotion (`onboarding/promotion.py`) | snapshots of profile, policy and claim ledger | import, review, promote, supersede | one approved bundle, of one run | `ProfileSnapshots` |
| Master CV (`master_cv/*`) | sessions, candidates, versions, proposals | message, edit, approve, restore, reset | approved versions say what the user approved, and never change | `MasterCv` |
| Accounts (`auth/*`, `db/session.py`) | users, sessions, OAuth states, workspaces | log in, scope queries | no query leaves its workspace | - |
| Interfaces (`api/routes.py`, `frontend`, `static`, `pi_extensions`) | none of their own | requests | the transaction boundaries of the services above | - |

How they interact. HTTP handlers run on a thread pool, each with a database session
of its own. One more thread per process, the workflow worker, polls `agent_tasks`; it
starts agents, each a daemon thread with a child process, and learns of their end by
polling their state files and run rows. A drafted application in a campaign with
automatic sending becomes a `gated_send` task, which calls the same
`approve_and_send` as `POST /send-batches`. The components share nothing but the
database and the run directories, so everything that can go wrong between them is a
matter of what a transaction reads, when it commits, and what a crash leaves behind.

Hard behaviours: a provider call inside an open transaction; several transactions
that check and then act; leases that expire while their holder works; agents that outlive
the attempt that started them; operator requests between any two steps; files read while
they are written; restarts. `PROJECT.json` lists each hazard at its line, with the
property that watches it.

## 2. Modules

    SendDelivery <- SendDeliveryProofs
    WorkflowTasks <- CampaignPipeline <- CampaignPipelineProofs
    BalancedResearch, WorkflowGraphs <- ShadowGraph <- BalancedResearchProofs
    WorkflowGraphs <- GraphValidation <- GraphValidationProofs
    ResearchRun <- ResearchRunProofs
    RunImport <- RunImportProofs
    ProfileSnapshots <- MasterCv <- MasterCvProofs
    PiSession <- PiSessionProofs
    ResearchTopology  (INSTANCE in BalancedResearch: the refinement)

`A <- B`: B EXTENDS A. Each module has an `MC` module with small values for its constants
(`PiSession` needs none). No module is recursive, so each can be proved about.

### SendDelivery

One element of `Batches` is one call of `approve_and_send` in a transaction of its
own. `pc` follows `_process_item`:

| Action | Code |
|---|---|
| `Start` | `send_batch`, `outbox_send_all` and `_send_application` call `approve_and_send` |
| `LoadItem`, `RefuseItem` | the intent is loaded and its approval snapshot written; sending disabled, or an attachment changed |
| `Evaluate`, `WriteGateResult` | `EvaluateOnlyGateService.evaluate`: the reads, then the upsert of the gate-result row |
| `Reserve`, `InsertReservation` | `ReserveForSendGateService.reserve`: reuse, conflict, insert in a savepoint |
| `FlushAttempt` | `attempting_provider_send`, flushed |
| `CallProvider` | the adapter call and the three ways to record its outcome |
| `RecordStatus` | `_set_intent_status`; the next item |
| `Commit`, `Crash`, `ReuseViolation`, `DeadlockVictim`, `BusyTimeout` | the ends a transaction can come to |
| `Resolve`, `QueueDraft`, `PromotePolicy`, `Tick` | the operator, the queue, promotion, the clock |

A batch reads its own writes `w[b]` laid over the committed tables. `Serialised`
chooses the database. On SQLite the first write takes the one write lock, so a batch that
finds it taken waits, or times out and rolls back. On PostgreSQL (READ COMMITTED)
writing a row waits for the open transaction that has written it, and entering a
unique index waits for the open transaction that has entered a colliding key;
`WaitsFor` is that relation, and a cycle in it ends one of its members. `calls` is
the history of what the provider was asked to do. A call stays made when its transaction
is rolled back; `lost` remembers the intents to which that happened and `cleared`
those an operator declared not contacted.

Left out: the checks of the gate that read only data fixed before the batch (their verdict
is free), the wording and audit rows, the creation of a new intent from a draft (intents exist
and have a gate-result row, as `queue_draft` leaves them), lists that name an intent
twice (the second occurrence behaves as a second batch that sees the first). The status
`reservation_failed` is not in the model because the code cannot produce it: a missing
reservation always leaves the gate result `blocked`.

### WorkflowTasks

One element of `Workers` is one start of the API process: a worker id, its thread and
the agents it started. `pc[k]` is where its pass is, `sel[k]` the task, `seen[k]`
the row as its session loaded it; `Flush` writes the changed columns, as the ORM does.

| Action | Code |
|---|---|
| `Select`, `Claim`, `Reclaim`, `Load` | `run_once`: choose, conditional `UPDATE`, commit, load in a second session |
| `Block` | `block_uncertain_external_launch` |
| `LaunchAgent`, `RecordRun` | `process` and the `_launch_*` methods: prepare the run, start the agent, commit its run id |
| `SendApplication` | `_send_application` (the delivery itself is `SendDelivery`) |
| `Reconcile`, `ReconcileFails`, `Renew` | `reconcile`, the runtimes' `status`, the renewal of the lease |
| `Complete`, `Fail` | `_complete` (and the end of `_reconcile_target_research`), `_fail` |
| `StatementFails` | a statement or commit of a launch, of a send or of an end of a task raises, and so does `_fail` on the broken session: the pass is over and the row stays as it is |
| `AgentOpens`, `AgentEnds` | `_run_agent` |
| `Start`, `Crash`, `LeaseExpires`, `BackoffElapses` | process lifetime and time |
| `Enqueue` | `enqueue` |
| `AskRefresh`, `CancelRun`, `AskResolve`, `AskPause`, `AskResume` | the product routes read the rows they will write, and a refresh cancels the run |
| `CommitRequest`, `DropRequest` | they commit what they made of these rows, by id and without a further check, or fail |

A request of the operator is two steps or three, so that the worker can claim, report on or
complete a row in between. `used.stale` counts the commits that did overtake a row
(`Overtaken`), and `MaxStale` bounds them; every property that such a commit can break says so
in its own text. One request is under way at a time.

A task is a `target` (a search for one target), a `send` (`gated_send`) or an `agent`
(every other type, which the engine treats alike). Left out: the payloads and progress
texts; `ORDER BY` (any candidate may be first); the tasks and rows a completed task creates,
which are `CampaignPipeline`'s and `BalancedResearch`'s. The reads of
`run_once` are one step, because the conditional update that follows checks again
what it depends on. A run of this process is known to be alive; one of another
process is judged by its age, which with one process at a time (`Concurrent = FALSE`)
it has always outlived.

### CampaignPipeline

One retained company on top of the queue: its stage, sending mode, contacts, drafts,
intents and outreach (`company`), what each agent row is for (`role`), and what the
reconcile of a row still has to do (`note`). An action of the queue keeps its
definition and gains what it does to the company: `Launch` (`_launch_contact_research`,
`_launch_application`), `HandOver` (the `enqueue` of the next row, committed before the row that
hands over), `FinishTask`, `Send` (`_send_application`: stopped at drafts, refused by the gate,
accepted, or an uncertain outcome, which blocks the row and puts the draft in `doubt`, an
outreach record that says so), `Break` (a failing statement, with the message delivered before it
or not), `Die` (a crash). `DecidePrepare` and `InsertPrepared` are the two statements of a
request to prepare documents, `Queue` is `queue_draft`, `Skip`, `SetMode`, `LoseContact` are
other requests and imports that touch the same rows. `AskRetry` and `AskPauseOrResume` are the
reads of a request to the queue, `Answer` and `Refuse` its commit and its failure.

Leases expire only when their owner is gone, since the queue's own run shows that an
expired lease of a living worker changes nothing. Not modelled: the index of documents, the
launch of job application drafts, and the legacy task type `company_research`, which
nothing creates any more.

### BalancedResearch, ResearchTopology, ShadowGraph

`BalancedResearch` has the versions of a campaign's plan, the rows of their targets, and a pass
for each guaranteed or leased search. `ReadForReplace`, `Replace`, `ReadForConfirm`, `Confirm` are
requests that read, then write. `Launch`, `LaunchFails`, `ReconcileFails` reduce the queue to what
it does to a pass. A reconcile is `Settle` (the outcome of the pass, flushed) and `Decide` (the
rest of the campaign is read; shared leases, or the ranking and the end of the plan; commit), with
`RollBack` in between. Time is counted in units of 60 seconds, the smallest lease. `Decide` has
three branches: another pass is still under way (`DecideWaits`), time is left that targets can
share (`DecideLeases`), or nothing is (`DecideCompletes`).

`ResearchTopology` is the abstract specification: the topology that `graph.py` registers as
`coordinated_research_v1`, as a game of one token per target. `FollowsTopology ==
Topology!Spec` under a refinement mapping (plan status to phase, target status to
the place of its token, leases to traversals) says that no interleaving of requests,
launches, failures and reconciles leaves the registered graph.

`ShadowGraph` composes the engine with the observations `research_graph.py` writes to the
audit log in the same transactions, over the graph as `WorkflowGraphs` defines it, and evaluates
the readiness report of `shadow_readiness.py` over that log.

### ResearchRun

The agent's thread, the import watcher, the readers of the status, the operator's
import and cancel, and Pi itself around one state file and one row. `agent.at` follows `_run_agent`
of the four runtimes, which differ in a few steps (`kind`). An import takes the lock of the
run's row (`Lock`), and marks it imported or gives it its former status back (`Commit`),
as `import_run` does for a partial and a final import. Ages of the state file are `fresh`,
`before` (written by an earlier process) and `old`.

`Races` adds what the code does not exclude but a healthy deployment avoids; see section 5.
Bounds that are assumptions too: a watcher of an earlier launch is gone before the next launch.

### RunImport

Each import is one transaction of an element of `Importers`: `Clear`, then `Read` file by file,
then the normalization of all valid files of the run (`queue`, the set of rows still to do, worked
off by `NextRow`: companies, contacts, postings, each in the order of the rows), and `Finish` (the
commit) or `Fail` (the rollback). Agents write files in one piece or torn (`LongFiles`) meanwhile.
A transaction sees what is committed and what it wrote; on PostgreSQL two imports of different
runs wait for each other's rows, collide on unique keys, deadlock, or meet a foreign key
(`ClearFails`, `WriteFails`; the victim of a deadlock ends with `Fail` too). A contact stands for
a fit evaluation too.

### ProfileSnapshots, MasterCv

`ProfileSnapshots`: import, review and promotion of profile, policy and claim ledger of
onboarding runs, with the approval of single claims. `MasterCv` EXTENDS it with builder
sessions. None of these requests holds a lock between its reads and its commit. Each may commit
before any other does, or read early and commit late: a promotion and the approval of a claim or
of a proposal keep what they read in `late` (`ReadEarly`), the start of a session and a
restoration in `opening` (`OpeningReads`, `OpeningInserts`), an edit in `edit` (`EditReads`,
`EditCommits`), a message to the agent in `msg` for as long as the agent takes (`BeginMessage`,
`EndMessage`). `stale` is the history of which kinds of request have committed over something
that had changed since they read it. A document is a block per name with claim, wording, review
mark, and whether `_enforce_support` exempts it from needing a claim (`exempt`: headings and
contact data, hidden and empty blocks, profile fields).

### PiSession

Requests that prompt (`Receive` to `Reply` or `Fail`), the buttons that close or reset
(`Press`, `Release`), the registry of clients and the processes with their queues of events.
A prompt polls the process (`Send`) and then writes to it (`Write`); one that exits in between
breaks the pipe, which no handler catches, and the request ends where it is (`Lost`). The same
becomes of a spawn that the operating system refuses and of a request in a `Restart` of the API.
A turn is a number; of what Pi says only the turn is kept. One request prompts at a time (bound).

### WorkflowGraphs, GraphValidation

`WorkflowGraphs` has the three registered definitions as records of nodes and edges.
`GraphValidation` runs the searches of `validate_workflow_definition`,
`assert_mandatory_checkpoints_before` and `assert_ordered_checkpoints_before` step by step,
then walks the graphs they accept. A graph may be malformed: an unknown start and an edge that
leads out of the nodes are reported, and the searches leave such edges out as the code does. The
reference definitions in `ChecksExact` are closed sets, without any search.

## 3. Runs

| Run | Setting | Checks |
|---|---|---|
| `DeliveryLive` | PostgreSQL; two batches of up to two items, two drafts that collide in both unique indexes | `TypeOK`, `ReservationsExclusive`, `AcceptedIsTerminal`, `BatchEnds` |
| `DeliverySqlite` | SQLite; two single-item batches, three drafts, a relaxed policy promoted in between, two ticks, a crash | `LedgerAgrees`, `ContactOnce`, `LimitsRespected`, `UncertainNotRetried` |
| `WorkflowRecovery` | two targets and an agent task, two attempts, a restart | `QueueSound`, `FanOutBounded` |
| `WorkflowLive` | an agent task and a send; a restart, any one of a refresh, a pause, a retry and a failing statement, and one overtaken request | `TaskSettles`, `CompletedIsFinal` |
| `CampaignPipeline` | one company, two agent rows and a send row, a restart, two acts of the operator, of an import or of a failing statement, an overtaken request among them | `PipelineAlive`, `PipelineSound`, `UncertainSendHeld` |
| `ResearchPlan` | one plan, two targets, two candidates, leases, faults | `TimeAccounted`, `ShadowAgrees`, `FollowsTopology`, `TraceConnected` |
| `ResearchLive` | two versions of a plan, a pause, a retry | `ResearchEnds` |
| `ResearchRun` | each of the four runtimes, a relaunch, one incident | `WorkingIsReported`, `ImportComplete`, `ImportStands`, `RunSettles` |
| `RunImport` | a company run and a job run with a company in common, PostgreSQL, three imports | `RowsTrue`, `LinksResolve`, `PriorRowsKept`, `LinkedWhenKnown` |
| `MasterCv` | two onboarding runs, three documents, three sessions, two blocks, one request that reads early | `ApprovalsSound`, `WordingApproved`, `LedgerImmutable`, `ApprovedImmutable`, `ApprovedLastIsLatest` |
| `PiSession` | both chats, two processes, three turns, a button or a restart | `ProcessesOwned`, `OwnReply`, `ImportAfterTurn`, `WaitingEnds` |
| `GraphValidation` | every graph of four nodes in a family, malformed graphs, and the three registered ones | `ChecksExact`, `OrderProved`, `WalkEnds` |

Some invariants are conjunctions of named parts, so that one run of TLC and one name in
a counterexample stand for what belongs together:

| Invariant | Parts |
|---|---|
| `QueueSound` | `TypeOK`, `OneAgentPerTask`, `AttemptsBounded` |
| `PipelineSound` | `PipelineTypeOK`, `StageBacked`, `AttemptsBounded` |
| `TimeAccounted` | `TypeOK`, `BudgetRespected`, `ReservedHasOwner`, `OnePassPerTarget` |
| `RowsTrue` | `TypeOK`, `UnchangedOnce`, `NothingLost` |
| `ApprovalsSound` | `TypeOK`, `BundleOfOneRun`, `LedgerReviewed`, `OneActiveSession` |
| `ProcessesOwned` | `TypeOK`, `NoOrphan` |
| `ChecksExact` | `TypeOK`, `VerdictsExact`, `WitnessIsReal` |
| `ImportComplete` | `TypeOK`, `NothingMissed` |

### Bounds

- Delivery. Two batches are the smallest number that can race, and the properties relate
  pairs of calls. Two items in each of two batches give every cycle of waits
  (`DeliveryLive`). In `MCSendDelivery` `i1` and `i2` share a company, `i2` and `i3` a
  recipient. In `DeliverySqlite` the promoted policy allows a company again but
  never a recipient, so `i1` and `i2` can both be sent and only a limit stops them, while
  only the dedupe check stops `i2` and `i3`. Both limits are 1. After one tick the
  daily window is over and the weekly one still counts; after two only the dedupe window
  does. Batches of one item suffice there: on SQLite the writes of one batch exclude
  those of the other, so a batch of two is two batches without a commit in between.
- Queue. Two workers, one at a time, are one restart; two attempts are one retry. The
  last worker does not crash: a system nobody starts again has nothing to recover. In
  `WorkflowLive` `MaxActs` bounds the requests and failing statements together, and `MaxStale`
  the requests that commit over a row the worker has changed; its one agent
  task is of the kind that a refresh can stop.
- Pipeline. Two agent rows are a contact research and a draft, or a draft repeated; the send
  row is what they lead to. `MaxActs` is a budget shared by every act of the operator
  and of an import, on top of the bound of each: any two of them are combined, at any time.
- Research. Two targets are the least that can compete for shared time. `TotalTime` 5
  and leases of 4 leave a remainder, so that the last lease is cut; `Overrun` 1 lets a pass
  cost more than it reserved. `ResearchLive` gives up candidates and leases for a
  second plan.
- Agent runs. `Target` 2 and one artifact per turn make the agent continue once; two
  launches are one relaunch; an incident is a crash, a cancellation, an import by hand or a
  failing import.
- Import. Three imports are the least in which a full import of one run meets a link that
  another run's import has made to its company. Each file is written once, and the first one in
  two pieces.
- CV. Three documents and sessions allow an approval, a restoration of it and a further
  approval; a message to the agent is open while everything else goes on. With `MaxSpans` 1 one
  other request of a behaviour reads early, while those that overtake it are quick; the theorems
  are about any number of early ones, one of each kind at a time. Two blocks, of which one is
  exempt or not, are the least that can be right and wrong at once.
- Pi. Two processes, one after the other, are a start and a new start after a death, a reset
  or a restart of the API; one request prompts at a time (two
  that do are described in section 5), and one that closes or resets runs beside it.
- Graphs. A skipped branch, a wrong order, a bounded and an unbounded cycle all fit into four
  nodes: every set of edges between them is tried with and without a bounded node and edge. A
  smaller family has starts and edges outside the nodes. The registered graphs are validated and
  walked as they are.

All bounds guard actions of the environment, except the lengths of requests
(`MaxItems`) and the numbers of rows (`MaxLedgers`, `MaxDocuments`, `MaxDrafts`), which
end a behaviour early. Symmetry is used in runs without a temporal formula that names
the permuted elements: batches, workers and importers appear in no other constant.

Deadlock checking is off in every run: a batch is used once, a queue whose rows are all
completed waits for the next request, and a finished run, import or chat waits for
the next button.

### Fairness

- `BatchEnds`: a batch that can take a step takes one; its thread is scheduled, and the
  database ends lock waits and deadlocks.
- `TaskSettles`: a started process is scheduled, a dead one is started again, an agent ends
  at its time budget (`_run_agent` passes what is left of it to every prompt), and time passes.
  No request of the operator is assumed, and nothing is assumed of crashes or of statements
  that fail.
- `ResearchEnds`: the worker's loop launches what is queued and reconciles what runs.
  Nothing is assumed of requests, of retries or of failures; a pass that waits for the
  operator and a plan that a newer one supersedes are excepted by the property.
- `RunSettles`: the threads of a live process are scheduled, prompts have deadlines, the
  interface goes on polling the status, a lock is released in the end, time passes.
- `WaitingEnds`: a request that prompts runs to its end, and a living Pi answers and ends
  its turns. A Pi that dies ends the wait by closing its output, one that hangs by the
  deadline. The property excepts a request that ended where nobody catches its end (`talk.lost`):
  section 5 lists these.
- `WalkEnds`: the walk takes an edge as long as there is one. It is about the graphs
  that pass the cycle check, whose bounded edges are taken a bounded number of times.

### Notes on properties

`FanOutBounded` counts the searches marked running, not the agents at work, because the
ceiling of `run_once` is defined on that status; `OneAgentPerTask` ties the two together.
`AcceptedIsTerminal` excepts intents whose acceptance was rolled back, and
`ContactOnce`, `LimitsRespected` and `UncertainNotRetried` those an operator cleared too:
the first is described in section 5, the second is what clearing is for.
`LedgerAgrees` excepts calls of a batch that ended without its commit, or that an operator
cleared: what such a batch sent has no record.
`UncertainSendHeld` is about a message that left without a record. It excepts a row that the
operator has retried, which is how an operator says that an uncertain delivery may be repeated,
and one that a request took from the worker by committing what it had read before the row was
claimed. `CompletedIsFinal` lets only a request of the operator reopen a task: a retry, or one
that read the task before it was completed. `AttemptsBounded` adds one attempt for each request
that overtook a row, since it writes back the number it read. `TaskSettles` excepts a send that
a crash or a failing statement left running, which no recovery names, and shows that it holds
nobody else back. `PipelineAlive` excepts one late retry (`spent.late`, section 5).
`ApprovalsSound` and `ApprovedLastIsLatest` hold until a request of the kind that could break
them has committed over what overtook it (`stale`); `LedgerReviewed`, `WordingApproved` and
`ApprovedImmutable` need no such exception, and neither does the text half of `LedgerImmutable`.

Refinement: `FollowsTopology` shows `BalancedResearch` to implement `ResearchTopology`.
The abstract steps are the edges of the registered graph, so the property
fails as soon as a target is leased more often than the loop's bound, a target is reopened
after the fan-in, or the plan completes before each of its tokens has settled. Composition:
`CampaignPipeline` over `WorkflowTasks`, `ShadowGraph` over `BalancedResearch` and
`WorkflowGraphs`, `MasterCv` over `ProfileSnapshots`; each keeps the actions of the
module it extends and conjoins what they do to its own variables.

Each property is paired in `PROJECT.json` with a mutant: an operator of the module,
marked as such, that changes one definition as a plausible bug would. TLC finds the
property violated with it.

## 4. Proofs

Theorems hold for every value of the constants that satisfies the assumptions of the module
(`DeliveryAssumption`, `WorkflowAssumption`, ...: sets of names, natural bounds, nothing else
that the code does not give), so for any number of mails, batches, tasks, workers, targets,
plans, sessions and documents. A further hypothesis is written into the theorem as `ASSUME`, and
named here with its reason.

| Theorem | States | Further hypothesis |
|---|---|---|
| `TypeCorrect`, `ReservationsStayExclusive` | `TypeOK`, `ReservationsExclusive` | |
| `LedgerAlwaysAgrees`, `AcceptedStaysTerminal` | `LedgerAgrees`, `AcceptedIsTerminal` | |
| `ContactedOnce`, `LimitsStayRespected` | `ContactOnce`, `LimitsRespected` | `Serialised` |
| `UncertainIsNotRetried` | `UncertainNotRetried` | `Serialised`; no policy allows both repetitions |
| `QueueTypeCorrect` | the queue's `TypeOK` | |
| `PipelineStaysTrue`, `CompanyNeverForgotten`, `UncertainSendStaysHeld` | `PipelineSound`, `PipelineAlive`, `UncertainSendHeld` | (`PipelineAssumption` has `~Concurrent`) |
| `FanOutStaysBounded`, `CompletedStaysFinal` | `FanOutBounded`, `CompletedIsFinal` | `~Concurrent` |
| `QueueSoundUndisturbed` | `TypeOK`, `AttemptsBounded`, `Undisturbed => QueueSound` | `~Concurrent` |
| `ResearchTypeCorrect` | the research's `TypeOK` | |
| `ResearchTimeAccounted`, `ResearchFollowsTopology` | `TimeAccounted`, `FollowsTopology` | one request at a time, `MaxReopens = 0` |
| `ShadowStaysTrue` | `ShadowAgrees` | as above, and `MaxLeases <= MAX_SHARED_LEASE_GENERATION` |
| `TraceStaysConnected` | `TraceConnected` | one request at a time, `MaxReopens = 0` |
| `RunTypeCorrect` | the run's `TypeOK` | |
| `WorkingStaysReported`, `NothingIsMissed`, `ImportsStand` | `WorkingIsReported`, `ImportComplete`, `ImportStands` | `Races \subseteq {"torn_state"}` |
| `FailureKeepsRows`, `ContentsImportedOnce` | `PriorRowsKept`, the import's `TypeOK /\ UnchangedOnce` | |
| `RowsStayTrue` | `RowsTrue` | `~Rewrites` |
| `LinksLead` | `LinksResolve` | `Postgres` |
| `ContactsLinked` | `LinkedWhenKnown` | files that define one contact name one company |
| `ChecksStayExact`, `OrderStaysProved` | `ChecksExact`, `OrderProved` | |
| `ProcessesStayOwned` | `ProcessesOwned` | |
| `RepliesAreOwn`, `ImportsFollowTheTurn` | `OwnReply`, `ImportAfterTurn` | `Races = {}` |
| `LedgerStaysImmutable` | `LedgerImmutable` | |
| `ApprovalsStaySound`, `WordingStaysApproved`, `ApprovedStaysImmutable`, `ApprovedLastStaysLatest` | `ApprovalsSound`, `WordingApproved`, `ApprovedImmutable`, `ApprovedLastIsLatest` | `~Torn` |

The hypotheses are the settings of the runs, not weaker readings of the properties. For each one
section 5 names the behaviour of the code that breaks the property without it: overlapping
batches on PostgreSQL, two API processes, two
confirmations of one plan, a pass that is reopened, a slow reader or import of a run, a file
rewritten while it is read, the links SQLite leaves behind, a deadline that cuts off a turn, and
an edit whose check is stale. Two are of another kind. `engine.py:48` grants a target at most
three shared leases and `shadow_readiness.py:34` reports a fourth, so the shadow agrees for as
many as the engine grants. And the two files of a contact that name different companies make
`LinkedWhenKnown` ask for two things at once: the contact is linked as the first of them says,
the other is a duplicate to review. Where a theorem has no hypothesis, the property survives all
of these. What one can only say of undisturbed behaviours is said in the statement: `Undisturbed`
is that no statement has failed, no search was refreshed, no request has overtaken a row, and one
retry was asked for at most; the conditions on `stale`, `spent.late` and `talk.lost` are the
properties' own.

Each proof has one lemma per action and group of conjuncts, a frame lemma for the steps that
leave a group alone, and temporal steps only at the end. The inductive invariants of
delivery, the queue and its pipeline, the research, the Pi client and the CV are invariants of the
instances of their runs too, as TLC finds over the same states. No theorem about a
search, a sum or a queue is by induction over data; where one would expect it, the invariant
carries what the induction would have shown, or a smallest counterexample is taken (`WFMin`).

### Delivery (`SendDeliveryProofs`)

- `TypeOK` is not inductive: a step that uses `Head(todo[b])` or promotes a verdict to an intent
  status needs to know what a batch holds at that point of `_process_item`. `TypeInv` adds it: a
  batch inside an item has an item, its verdict is an intent status at `record`, and the
  reservation it is about to use exists at `flush` and is its own at `provider`.
- `ReservationsExclusive` is about committed rows, and `Commit` copies a write set it says
  nothing about. `LockInv` says what the locks buy. `GatesHeld`: no two open transactions hold
  the gate row of one intent, and whoever has written an intent's reservation, or is past `gate`
  with it, holds that row; so no two work on one intent. `AttemptsHeld`: the reservation used by
  an attempt was made under the policy the batch loaded, and is active or retryable.
  `ApartAcross`, `ApartFromCommitted` and `ApartWithin`: a reservation written by an open
  transaction does not collide with one written by another, with an active committed one, or
  with an active one of its own. Entering the unique index preserves these, because it waits for
  colliding writers and then looks at the committed rows; reuse of an active reservation does,
  since that row has been in the index all along; a settled reservation only leaves the index.
- `LedgerInv`: not only the committed rows of an intent agree, but also what each open
  transaction has written of them, except inside the attempt it is making. The evidence half of
  `LedgerAgrees` is carried by `RecordsMatch` (an intent has an outreach record, in the tables or
  in what a transaction has written, exactly when one of its messages was not refused) and
  `OverIsWritten` (once the batch of a call is over, the call is told by a committed record, or
  its transaction was lost, or an operator cleared it). `TerminalInv`: an
  accepted mail's reservation is released, in the table or in the transaction that made the
  call, and a released reservation is neither reused nor written over.
- `OneWriterInv`: with one writer (SQLite's lock) the transactions that have written are one, so
  what the gate read is still what the tables say at the call (`StillClear`), and every call
  that may have reached somebody has its outreach record in the tables or in that one
  transaction (`ContactsRecorded`). The limits follow by counting: the records counted in a
  window are at least as many as the calls in it. A policy that allowed a recipient and a
  company again would let an uncertain mail pass the dedupe check; the model's instance has
  none, and the hypothesis says so.

### Task queue and pipeline (`CampaignPipelineProofs`)

`QueueInv` relates the copy a worker loaded to the row it will write over: attempts in the row
never exceed those in the copy (`AttemptsCounted`), a worker that has chosen a task has seen room
for it and nobody took the room since (`RoomLeft`), and no worker works on a completed task
(`NotCompleted`). `RequestTrue` says the same of the copy a request read: what it will write was
true when it was read, and is true now unless a row was overtaken; this is where the ceiling of
attempts rises with `used.stale` (`Ceiling`). All of them need `Alone`, that one process runs at a
time. `AgentInv` is what makes one agent per task inductive: an agent at work belongs to the
process that is up and to a running task which names it or is about to (`AgentsKnown`), and where
a worker is about to start an agent or to end the attempt, none is at work (`NoneAtWork`). It
holds (`AgentInv`) while the queue is `Undisturbed`; restarts, expired leases, pauses in time and
one retry do not disturb it.

Every step of the pipeline is a step of the queue or leaves the queue's variables alone, so
`QueueInv` is an invariant of the pipeline too. `PipelineInv` adds what a company depends on.

- `NotesTrue`: what a worker's session has flushed and not committed is true of the tables and of
  what was sent, so that a stage it writes has its evidence; a doubt is written only by a worker
  that blocks its row.
- `Asking`: a request that waits to commit is about rows that exist, and turns no send into a search.
- `HandedOver`: a worker that will complete its row with nothing left to hand over leaves a
  pending row of the company behind. This is what makes `PipelineAlive` inductive:
  the row that hands over is completed in a later transaction than the one that inserts the next.
- `DraftedOnce`: once a draft's row is completed, a draft exists, and the company is back under
  way only together with a pending draft row. Without it a retried contact research could
  complete without handing over to anything; a retry that turned a draft into such a search after
  its contact had been found is the one case where it does (`Going` leaves it out).
- `InDoubt`: a message that left without a record is of a row that runs, and the only worker that
  goes on with the row is the one about to commit that record: a sent one by completing the row, an
  uncertain one by blocking it.

### Balanced research (`BalancedResearchProofs`)

`ResearchInv` is `TypeInv`, `BudgetRespected` and `PlanInv`, which says that a request has read
what still holds, that the rows of a plan wait exactly until it is confirmed, that of a target's
passes those before its last lease are completed, the one at it is completed exactly if the row
is terminal and else owns what the row reserves, and those after it do not exist, and that an
open transaction is the only one of its pass. Time is a sum over targets, and the proofs need
that a sum changes by what one summand changes, is monotonic, and is divided among the targets
by the shared leases. The lemmas at the start of the module prove these by taking a smallest
counterexample over the cardinality, because the induction theorems of the library cannot be
instantiated.

The refinement maps the states as `FollowsTopology` does. `Replace` maps to `Compile`, `Confirm`
to `Confirm`, `DecideWaits` to `Reconcile`, `DecideLeases` to `Lease`, `DecideCompletes` to
`Complete`; every other step stutters. `PlanInv` is what makes these steps possible in the
topology: the target of a reconciled pass still has its token in the search, and every other one
has given its own up when time is shared or the plan completes. Both hypotheses are needed: two
confirmations at once, or a pass reopened after its target has been counted, really give a
target two passes.

`ShadowInv` stands on `ResearchInv`. Whatever of a plan or a pass the engine has committed, the
trace has the events of (`PlansTraced`, `PassesTraced`), and it has an end only of a plan that is
completed (`EndsTrue`). The audit log only grows and a confirmed, started or completed row does
not go back, so each action owes just the events it writes in the same transaction. The readiness
report then finds in the trace what the tables say, and an edge is recorded only when its source
has been reached: by the same target or in the run of the plan, and for the fan-in by every
target's decision, which is where `PlanInv` is needed.

### Agent runs (`ResearchRunProofs`)

`RunInv` places everybody who touches the run: an import belongs to the step of the thread that
asked for it and holds the row's lock while it is busy (`ImportsPlaced`), the watcher lives inside
the prompts (`WatcherInside`), a reader that has judged a run stale acts while no thread works
(`OthersInTime`). From this follow `FileStands` and `RowStands`: without a cancellation no failure
stands in the file or the row of a working agent, nor is one remembered by an import that will
give the row back its former status, and that an import is final is said only by the last one.
`ImportComplete` needs that Pi is silent before the last import reads (`PiQuiet`), that this
import reads all there is (`LastReads`), and that no import that has read less is still busy when
it has ended (`Covered`). A slow import and a slow reader break these places; a torn state file
does not, since its text is one nobody reports as failed or imported.

### Run import (`RunImportProofs`)

`ImportInv` (`Phased`) says what an import holds in each of its phases, and `Alone` that imports of
one run exclude each other, on SQLite all imports do. `FailureKeepsRows` follows at once.

- `TableInv`: rows and identifiers are in one-to-one correspondence, in the tables and in what an
  import has written (`Unique`); what it has written lies over a row of the same key (`Over`); and
  two imports write different entities, none that the other deletes (`Apart`, `Spared`), since one
  waits for the other. A new key is none that any row, open write or link has (`FreshKey`).
- `LinkInv`: a link an import writes leads to a company it sees (`Resolves`), and a full import
  deletes no company that is linked to from outside of what it deletes (`Cleared`): that is the
  foreign key, and why the theorem is about PostgreSQL.
- `OnceInv` and `KeptInv`: no two rows of a run have one file and content, counting what an import
  has read, because contents only advance (`Past`); and an import that nobody wrote beside has every
  file but those it still has to read (`Covers`). `Rewrites` breaks that what was hashed is what was
  parsed (`Hashed`).
- `Linked`: when the turn of the first contact comes, every company of the run is among those it
  can be linked to, because the queue puts companies first.

### Workflow graphs (`GraphValidationProofs`)

`CheckInv` holds for any finite graph, with bounded cycles, unreachable parts and edges to nowhere,
and any list of checkpoints. `ChecksExact` compares searches with closed sets of nodes, and one
would expect a path and an induction along it. Instead each search keeps two facts: what it has
visited is inside every closed set that contains where it began, and what it has visited is closed
but for the nodes that still wait in its list. When the list is empty the two meet, and the
visited set is the least closed set of the reference definition. The reference for a cycle is a
set of unbounded nodes in which each has a successor; the nodes the search has finished are in no
such set, and a node met again on the stack makes one of the stack from there on. For the ordered
assertion the states are pairs of a node and the number of checkpoints crossed, and what was
visited is a set that no walk leaves (`Guarded`): `OrderProved` then follows one walk
through it (`Straight`). That a reported path is real (`Shown`) is carried by the paths in the list.

### Pi client (`PiSessionProofs`)

`NoOrphan` needs only that a request in its loop has a process (`Engaged`). Replies need to know
what a process owes: `Settled` says that a live process nobody waits for has nothing in its
queue, no prompt to answer and no turn under way, and `Owes` that the queue of the one waited
for is an acknowledgement, texts and at most one end, in this order and of this prompt's turn.
`Races` would let a turn outlive the prompt that asked for it, which is the negation of
`Settled`.

### Profiles and Master CV (`MasterCvProofs`)

`ProfileInv` holds however requests overtake each other: a run has one live row in the ledger
(`RowPerRun`), under its own profile id (`OwnIds`); what is approved is reviewed (`AllReviewed`)
and on record (`OnRecord`); and the rows a request has read early are those of the ledger but for
status and approvals since (`Behind`), because no request changes a row's words. `Bundled`, one
approved row of each kind, of one run, is claimed as long as no promotion and no replacement of
the ledger was overtaken (`InTime`). `LedgerImmutable` follows from `LedgerKept`, since no step of
the builder touches a ledger except by replacing it.

`CvInv` adds that every block without a review mark has words on record unless it is exempt, in
documents and in the candidates of sessions, open or not (`Worded`); that an active session is the
only one, over a candidate that is newer than every approved version, until a session is inserted
beside an active one (`OneOpen`); and that a message, an edit or an opening under way has read a
document which its session still has, if that session is active (`Holds`, `Ready`). This is
why a late answer cannot reach an approved document: the session it belongs to is then over, and
the content goes to a new document. `Torn` is excluded because it makes the edit's commit skip
just that check.

### What stays with TLC

- Liveness (`BatchEnds`, `TaskSettles`, `ResearchEnds`, `RunSettles`, `WaitingEnds`, `WalkEnds`)
  and whatever needs ENABLED: out of the prover's reach.
- `OneAgentPerTask` beside failing statements, refreshes, overtaken requests and repeated retries
  is false (section 5), so there is nothing to prove beyond `QueueSoundUndisturbed`.
- Everything else the runs check has a theorem. A run remains of use beside it: it shows that the
  hypotheses can be met, that each action can be taken, and that each property can be broken.

## 5. What does not hold

The properties hold in the settings of section 3. The code gives less than one might expect in
the following cases. Where a constant is named, changing it in the run's `.cfg` makes TLC
print the counterexample.

Delivery:

- `Serialised = FALSE` breaks `ContactOnce` (and `LimitsRespected`) in `DeliverySqlite`: on
  PostgreSQL two batches contact one company, or take the last free place of a limit. The second
  evaluates the gate before the first commits and reserves after it, when the reservation
  that stood for the outreach record it did not see is released.
- `Serialised = FALSE` breaks `UncertainNotRetried` too: in the same window the second
  batch for one intent reuses the `outcome_uncertain` reservation and sends again.
- A crash after the provider's call leaves a message without any record: nothing is committed
  before the call. So does, on PostgreSQL, a batch of two items that is the victim of a deadlock, or
  is ended by a unique violation, after its first message. `LedgerAgrees` excepts the calls of
  batches that ended without their commit, for this reason.

Queue:

- `OneAgentPerTask` fails in `WorkflowRecovery` when `MaxActs` is 1 and so is `MaxRefreshes` (a
  refresh re-queues a task whose agent it could not stop) or `MaxFaults` (a database error in
  `reconcile` sends the task to `retry` while its agent works, and one in the commit after a second
  launch leaves the run id of the first, which recovery finds failed).
- It fails with `MaxPauses` and `MaxStale` as well: `product/routes.py:445-456` reads the tasks that
  wait and commits them paused by id. A task claimed in between is paused while its agent works, and
  resuming the campaign launches it again. A send is repeated in the same way.
- `product/routes.py:1238-1266` reads a running task, cancels its run and commits `retry` without
  looking again, so a task completed in between is reopened: the exception in `CompletedIsFinal`.
- `TaskSettles` has to except a send that stays running: `gated_send` is missing from the lists by
  which `run_once` recovers running tasks. A crash leaves one, and so does an error inside
  `approve_and_send` or its commit: `_fail` then works on the broken session and raises in its turn
  (`engine.py:137-138`, `1375-1406`), and the row stays running under a worker that is alive.
- `FanOutBounded` and `AttemptsBounded` fail with `Concurrent = TRUE`: two API processes read
  the running searches before either claims, and `_fail` does not ask whether the lease is
  still held. The deployment the repository describes is a single process.

Pipeline (allowed by the model; the properties are worded so that they hold):

- A task that runs when the campaign is paused enqueues tasks that run, and send, while it is
  paused; preparing documents in a paused campaign runs too.
- Skipping one blocked task of a company does not stop its others, so an archived company can
  become ready and be sent. Retrying an old blocked draft after sending puts its stage back.
- `enqueue` checks and inserts in two statements: two requests give twin tasks. It counts a
  completed `gated_send`, also one that stopped at drafts, as a reason not to enqueue another.
- Nothing but a request creates a send intent, so in automatic mode a send task blocks ("No
  validated send intent is available yet") unless somebody queues the draft, and the latest intent
  may be of an older draft. `_reconcile_draft` takes the company's latest draft, whichever run
  wrote it.
- `resolve_exception` accepts an exception that is resolved already. A second POST re-queues
  a send row that is running, which can repeat a message that is not recorded yet.
- After a crash, or a failing statement, between delivery and commit the send row stays running,
  and the stage is not `sent`.
- A retry of a draft that lacked a contact turns it into contact research. When the contact is found
  before the request commits, the search may complete without anything to hand over to, and the
  company stays `qualified` or `preparing` with no row that would move it (`spent.late`).

Balanced research:

- `README.md:31` of the repository promises "stable execution keys"; two confirmations of one plan at
  once enqueue each pass twice (`Requests = {r1, r2}` breaks `TimeAccounted` and `FollowsTopology` in
  `ResearchPlan`). A stale recompilation can overwrite
  `confirmed` with `superseded`, after which the shadow stays `not_ready` for ever.
- `Decide` reads and commits in one step, which is right for the one worker of a process. With two
  API processes on PostgreSQL the last two passes, reconciled at once, would each see the
  other active before either commits, and nobody would decide; this is outside the model.
- Reopening a completed pass counts its time twice. A confirmed plan stays confirmed
  when a newer one completes, and a newer one waits while a retried pass of the older one is
  blocked. Skipping does nothing for a blocked pass.

Agent runs (`Races` of `ResearchRun`):

- `"slow_reader"` breaks `WorkingIsReported`: a status reader that judged a run stale before it
  was relaunched writes its verdict afterwards. `"torn_state"` breaks `RunSettles`: a crash in the
  middle of writing the state file leaves one that cannot be read, and nobody settles the run.
  `"slow_import"` breaks `ImportStands`: a watcher still importing five seconds after the end
  marks the run as running again.
- Without any of these: the exception of a partial import marks a live run `import_failed`; a
  cancellation that comes before the client is registered does not stop the thread.

Import:

- `Rewrites = TRUE` breaks `NothingLost`: a file is parsed and hashed in two reads
  (`import_service.py:474`), and one rewritten in between is taken for known ever after.
- On PostgreSQL, two runs that import one new company collide on its unique key, two that write
  two companies in opposite order deadlock, and a full re-import of a run whose companies others
  point to, or that has job postings, fails on a foreign key; each ends as `import_failed`. On
  SQLite the last of these leaves links to rows that are gone (`LinksResolve` with `Postgres =
  FALSE`).
- A torn file keeps its run `imported_with_errors` after the whole file is imported; an
  incremental import of an empty directory leaves a "missing" row; a contact imported before
  its company stays unlinked; two enrichments of one company at once lose one of them.

Profile and CV:

- `Torn = TRUE` breaks `ApprovedImmutable`: an edit that has checked the candidate commits after
  its approval. `docs/MASTER_CV_BUILDER.md:143` has approved versions immutable.
- A full re-import of a promoted run deletes the approved profile, policy and ledger, although
  `docs/DATA_MODEL.md:9` says "Snapshots are immutable".
- Two promotions at once leave two approved bundles: each reads the approved rows
  (`promotion.py:79-110`) and supersedes those it read (`promotion.py:327`), and no constraint
  allows one only. A confirmation of a claim beside a promotion can do the same
  (`BundleOfOneRun` without its condition on `stale`, with `MaxSpans = 1`).
- Two starts at once leave two active sessions (`service.py:68-122`: the check, then the insert).
  The builder then edits and approves either, so the version approved last need not be the latest.
- The approval of a candidate's claim reads the status and commits the JSON it read
  (`api/routes.py:2312-2372`). A promotion in between makes it a change in place of an approved
  ledger, and of two such approvals at once one is lost. Its words are those the ledger had, which
  is what `LedgerImmutable` says in any case.
- `service.py:618-631` asks no claim of headings and contact data, hidden and empty blocks and
  profile fields, and `approve_candidate` (`service.py:249-255`) only asks whether the paths of
  profile fields exist. Text in such a block reaches an approved version without being compared with
  anything the user confirmed; `WordingApproved` is about the other blocks.
- The reply to a message overwrites direct edits made meanwhile, two edits that expect the same
  revision both pass, and changing the portrait does not count as a revision. A session
  started from an approved document keeps its old profile when the ledger is replaced.
  Restore and reset commit the closing of the active session before they validate.

Pi:

- `Races = {"cut_off"}` breaks `OwnReply`: the deadline is only looked at between events, so a
  prompt that exceeds it while events keep coming returns a partial text as a success and leaves
  the rest to answer the next prompt. `{"slow_kept"}` does as well: a failed start or builder
  prompt keeps its client (`docs/ONBOARDING_SPEC.md:54`: "append clean assistant replies").
- The chat shows "waiting" until the next request when a Pi exits between the poll and the write of a
  prompt (`pi_rpc.py:187-194`: a broken pipe is an `OSError`, the handlers catch `PiRpcError`), when
  the operating system refuses to start Pi, when the API restarts during a prompt, and after every
  failed prompt of the builder (`master_cv_builder_runtime.py:68-72` catches nothing):
  `WaitingEnds` without its exception.
- A timed-out request may close the client of a later one; two starts at once make two processes;
  a reply after a reset is appended to the cleared transcript.

Graphs: a bounded cycle from which no terminal node can be reached passes validation. The
message of the ordered check (`graph.py:348`) speaks of paths from the start to the target, while
its search also reports a checkpoint met too early on a path that never reaches the target; the
check refuses more than it says. `ChecksExact` compares the order check in one direction only: what
it accepts is in order (`OrderProved`).

## 6. What is not modelled, and the plan

Not modelled, or only in part:

- Accounts and workspaces: every model is inside one workspace, and `db/session.py` adds the
  scope to each query; logging in is sequential and per user.
- The scheduler of application draft batches (`api/routes.py:1626-1780`): its bound is per
  batch, its batches live in memory and are lost on restart, and its list of final statuses lacks
  `unknown`. Its launches are those of `ResearchRun`.
- Job application packages, the document index, fit evaluation of jobs, the normalization of
  application drafts and of legacy e-mail runs: straight-line writes of one run's own rows.
- The terminal sessions of the Codex adapter, the legacy delivery handoff: unused by the
  present routes.
- `POST import-artifacts` (`api/routes.py:2259-2270`) is an import in `MasterCv`, but not in
  `PiSession`: `ImportAfterTurn` is about the imports of finish, and one by hand may read what the
  agent is still writing.
- Prompts, rendering, schemas, settings, user interfaces, migrations, fixtures: no shared
  state, or input and output around another program.

Simplified, where a reader of the code would look for more:

- Delivery. `DedupeTicks` is one window for recipients and companies, where a policy has one for
  each (`evaluate_only.py:341`, `360`), and the two limits are constants, where a policy has its own
  (`433-435`): the policies of a run differ in what they let be repeated. `LoadItem` takes the lock
  with the read (`batch_send.py:141`, `380`). An intent keeps its recipient, which `queue.py:208-211`
  could change with the policy. `DeliveryLive` has one policy, so re-pinning is exercised in
  `DeliverySqlite` only.
- Queue and research. Two requests of operators are not under way at once in `WorkflowTasks`.
  `BalancedResearch.Pause` reads and commits in one step, where `routes.py:445-456` does not (the
  queue's model shows what that costs). `Reconcile` leaves out an exception that is not of the
  database after the outcome was written (`engine.py:704-730`). The runs of the research have
  neither two requests at once nor a pass that is reopened, and the pipeline's has one preparation.
- Import. `Begin` lists the directory with the lock, where an incremental import lists it first
  (`import_service.py:166`, `186`), and `Company` links a contact to the companies its import has
  normalized, where the contacts of application drafts look up any (`domain_normalizer.py:549`).
- CV. `Approve` is one step: the two requests that can overtake it are an edit, which `Torn` is
  about, and another approval, which is not explored. `OpeningReads` and `ReadEarly` are one
  request each at a time. With several active sessions, any of them is edited and approved.
- Pi. Prompting requests come one at a time. A process whose standard input is closed is taken to
  exit, which is what becomes of those of a killed API.

Built: delivery; queue, pipeline, research with its topology and shadow; agent runs, imports,
profiles and CV, Pi client, graph validation. Every safety invariant and every action property of
the runs is proved for all values of the constants, under the hypotheses of section 4, and so is
the refinement.

What would come next:

1. The scheduler of application draft batches over `ResearchRun`, once its batches are stored.
2. `BalancedResearch` with a `Decide` that reads and commits in two steps, should a deployment run
   two API processes.
3. Theorems for the settings that section 5 shows to break a property, with the weaker statement that
   survives there, as `QueueSoundUndisturbed` is for the queue.

## 7. Running it

    tlc -config DeliveryLive.cfg MCSendDelivery      # any run: its cfg and its module in PROJECT.json
    tlapm SendDeliveryProofs.tla                     # and each other *Proofs module

The longest runs take between two and four minutes with two workers.
