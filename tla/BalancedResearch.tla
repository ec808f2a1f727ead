-------------------------- MODULE BalancedResearch --------------------------
(***************************************************************************)
(* Balanced research of one campaign: a compiled plan splits the time and  *)
(* the candidate goal over the campaign's targets, is confirmed by the     *)
(* operator, and fans out into one guaranteed pass per target; whichever   *)
(* pass ends last leases what is left of the time to some targets, or      *)
(* ranks the candidates and completes the plan.                            *)
(*                                                                         *)
(* The task queue is reduced to what it does to a pass (WorkflowTasks has  *)
(* its claims and leases): it launches a queued pass, puts it back, or     *)
(* blocks it.  The reconcile of an ended pass is a database transaction:   *)
(* Settle writes the outcome, Decide reads the rest of the campaign and    *)
(* commits.  On SQLite its first write excludes every other writer         *)
(* (Exclusive); on PostgreSQL another worker's may be open beside it.      *)
(*                                                                         *)
(* One unit of time is the smallest lease, 60 seconds.                     *)
(***************************************************************************)
EXTENDS Integers, Sequences, FiniteSets, FiniteSetsExt, Functions

CONSTANTS
    Targets,         \* ids of the targets of a plan, 1..n
    Candidates,      \* jobs or companies the agents can find
    Scope,           \* [Targets -> [Candidates -> match, needs_review, conflict]]
    Initiative,      \* the campaign prepares outreach, not a list of vacancies
    TotalTime, CandidateGoal,   \* the plan's effort
    Retain,          \* how many candidates the campaign keeps
    LeaseTime,       \* SHARED_RESEARCH_LEASE_SECONDS
    MaxLeases,       \* MAX_SHARED_LEASES_PER_TARGET
    MaxParallel,     \* MAX_PARALLEL_TARGETS
    Required,        \* DEFAULT_REQUIRED_ATTEMPTS
    MaxAttempts,     \* AgentTask.max_attempts
    Overrun,         \* how far a pass can outrun its budget
    Workers, Exclusive,         \* reconciling workers; SQLite's write lock
    Requests,        \* requests of the operator open at a time
    MaxPlans, MaxPauses, MaxResolves, MaxReopens, MaxFaults   \* bounds

ASSUME ResearchAssumption ==
    /\ IsFiniteSet(Targets) /\ Targets = 1..Cardinality(Targets) /\ Targets # {}
    /\ IsFiniteSet(Candidates)
    /\ Scope \in [Targets -> [Candidates -> {"match", "needs_review", "conflict"}]]
    /\ Initiative \in BOOLEAN /\ Exclusive \in BOOLEAN
    /\ {TotalTime, CandidateGoal, Retain, MaxLeases, Required, Overrun, MaxPlans,
        MaxPauses, MaxResolves, MaxReopens, MaxFaults} \subseteq Nat
    /\ {LeaseTime, MaxParallel, MaxAttempts} \subseteq Nat \ {0}

VARIABLES
    campaign,  \* Campaign.status
    plan,      \* statuses of the plan's versions, oldest first
    target,    \* for each version, the rows of its targets
    pass,      \* the target tasks
    kept,      \* the campaign's links to candidates
    prep,      \* the preparation tasks of kept companies
    req,       \* what each request of the operator has read
    txn,       \* what each worker's open reconcile has written
    used       \* how much of each bound is used

vars == <<campaign, plan, target, pass, kept, prep, req, txn, used>>
-----------------------------------------------------------------------------
(* compile_research_plan: one target gets everything; of several each gets *)
(* an equal floor of four fifths, the rest is a shared pool.               *)
GuaranteedTotal(total) == IF Cardinality(Targets) = 1 THEN total ELSE (4 * total) \div 5

SplitInteger(total, x) ==
    total \div Cardinality(Targets)
        + (IF x <= total % Cardinality(Targets) THEN 1 ELSE 0)

GuaranteedTime(x) == SplitInteger(GuaranteedTotal(TotalTime), x)
GuaranteedGoal(x) == SplitInteger(GuaranteedTotal(CandidateGoal), x)

Parallel == Min({MaxParallel, Cardinality(Targets)})

Versions == 1..MaxPlans
Copies   == 1..Cardinality(Requests)   \* how often one plan can be confirmed

(* A pass is identified by its plan, target and logical generation: 0 is   *)
(* the guaranteed one, n the n-th shared lease.  The execution key is      *)
(* derived from these; a copy beyond the first collides with it and is     *)
(* stored without a key.                                                   *)
Passes == Versions \X Targets \X (0..MaxLeases) \X Copies
PlanOf(p)   == p[1]
TargetOf(p) == p[2]
Shared(p)   == p[3] > 0

PassStatuses == {"none", "queued", "retry", "running", "paused", "blocked", "completed"}
ActiveStatuses == {"queued", "retry", "running"}
PassRow == [status : PassStatuses, attempts : Nat, budget : Nat, exc : BOOLEAN]
NoPass == [status |-> "none", attempts |-> 0, budget |-> 0, exc |-> FALSE]
QueuedPass(budget) == [NoPass EXCEPT !.status = "queued", !.budget = budget]

TerminalTarget == {"covered", "exhausted", "failed"}
TargetRow == [status   : TerminalTarget \cup {"awaiting_confirmation", "queued", "searching"},
              attempts : 0..Required,
              found    : SUBSET Candidates,    \* its discoveries
              consumed : Nat, reserved : Nat, leases : 0..MaxLeases]
NewTarget == [status |-> "awaiting_confirmation", attempts |-> 0, found |-> {},
              consumed |-> 0, reserved |-> 0, leases |-> 0]

NoRequest == [op |-> "none", plan |-> 0, pending |-> FALSE]
NoTxn     == [open |-> FALSE]

Matches(row, x) == {c \in row.found : Scope[x][c] = "match"}

(* _target_coverage_complete                                               *)
Covered(row, x) ==
    /\ row.attempts >= Required
    /\ Cardinality(Matches(row, x)) >= GuaranteedGoal(x)

(* What the plan's targets have spent or hold reserved.                    *)
Held(rows) == [x \in Targets |-> rows[x].consumed + rows[x].reserved]
Committed(rows) == SumFunctionOnSet(Held(rows), Targets)

Latest(status) == {v \in DOMAIN plan : plan[v] = status}
Active == {p \in Passes : pass[p].status \in ActiveStatuses}

(* A writer other than an open reconcile may write.                        *)
Free == Exclusive => \A w \in Workers : ~txn[w].open
-----------------------------------------------------------------------------
(* create_campaign has committed the campaign and is about to add a plan.  *)
Init ==
    /\ campaign = "planning"
    /\ plan = <<>>
    /\ target = <<>>
    /\ pass = [p \in Passes |-> NoPass]
    /\ kept = [c \in Candidates |-> "no"]
    /\ prep = [c \in Candidates |-> "none"]
    /\ req = [r \in Requests |-> NoRequest]
    /\ txn = [w \in Workers |-> NoTxn]
    /\ used = [pause |-> 0, resolve |-> 0, reopen |-> 0, fault |-> 0]

Spend(request, bound) ==
    /\ used[request] < bound
    /\ used' = [used EXCEPT ![request] = @ + 1]

(* create_campaign, recompile: no task of the campaign is active, and the  *)
(* refresh of a vacancy campaign: no pass is.  Reads the latest version.   *)
ReadForReplace(r) ==
    /\ req[r] = NoRequest
    /\ Len(plan) < MaxPlans
    /\ Active = {}
    /\ Initiative => \A c \in Candidates : prep[c] # "live"
    /\ req' = [req EXCEPT ![r] =
                 [op |-> "replace", plan |-> Len(plan),
                  pending |-> plan # <<>> /\ plan[Len(plan)] = "pending_confirmation"]]
    /\ UNCHANGED <<campaign, plan, target, pass, kept, prep, txn, used>>

(* replace_pending_plan writes the next version, or collides with one that *)
(* another request has written.                                            *)
Replace(r) ==
    LET latest == req[r].plan
    IN  /\ req[r].op = "replace"
        /\ Free
        /\ IF Len(plan) = latest
           THEN /\ plan' = Append([v \in DOMAIN plan |->
                                     IF v = latest /\ req[r].pending
                                     THEN "superseded" ELSE plan[v]],
                                  "pending_confirmation")
                /\ target' = Append(target, [x \in Targets |-> NewTarget])
                /\ campaign' = "planning"
           ELSE UNCHANGED <<plan, target, campaign>>
        /\ req' = [req EXCEPT ![r] = NoRequest]
        /\ UNCHANGED <<pass, kept, prep, txn, used>>

(* confirm_campaign_research_plan: the latest plan awaiting confirmation.  *)
ReadForConfirm(r) ==
    /\ req[r] = NoRequest
    /\ Latest("pending_confirmation") # {}
    /\ req' = [req EXCEPT ![r] = [op |-> "confirm", pending |-> TRUE,
                                  plan |-> Max(Latest("pending_confirmation"))]]
    /\ UNCHANGED <<campaign, plan, target, pass, kept, prep, txn, used>>

(* ... its targets are queued, with a guaranteed pass each.                *)
NextCopy(v, x) == {n \in Copies : \A m \in Copies :
                      pass[<<v, x, 0, m>>].status = "none" <=> m >= n}

GuaranteedPasses(v) == {<<v, x, 0, n>> : x \in Targets, n \in NextCopy(v, 1)}

Confirm(r) ==
    LET v == req[r].plan
    IN  /\ req[r].op = "confirm"
        /\ Free
        /\ plan' = [plan EXCEPT ![v] = "confirmed"]
        /\ target' = [target EXCEPT ![v] =
                        [x \in Targets |-> [@[x] EXCEPT !.status = "queued",
                                                        !.reserved = GuaranteedTime(x)]]]
        /\ pass' = [p \in Passes |->
                      IF p \in GuaranteedPasses(v)
                      THEN QueuedPass(GuaranteedTime(TargetOf(p))) ELSE pass[p]]
        /\ campaign' = "researching"
        /\ req' = [req EXCEPT ![r] = NoRequest]
        /\ UNCHANGED <<kept, prep, txn, used>>

(* pause_campaign, resume_campaign                                         *)
Pause ==
    /\ Free
    /\ Spend("pause", MaxPauses)
    /\ campaign' = "paused"
    /\ pass' = [p \in Passes |-> IF pass[p].status \in {"queued", "retry"}
                                 THEN [pass[p] EXCEPT !.status = "paused"] ELSE pass[p]]
    /\ UNCHANGED <<plan, target, kept, prep, req, txn>>

Resume ==
    /\ Free
    /\ campaign = "paused"
    /\ campaign' = "active"
    /\ pass' = [p \in Passes |-> IF pass[p].status = "paused"
                                 THEN [pass[p] EXCEPT !.status = "queued"] ELSE pass[p]]
    /\ UNCHANGED <<plan, target, kept, prep, req, txn, used>>

(* resolve_exception with "retry", whatever the pass has become since.     *)
Resolve(p) ==
    /\ Free /\ \A w \in Workers : txn[w].open => txn[w].pass # p
    /\ pass[p].exc
    /\ IF pass[p].status = "blocked" THEN Spend("resolve", MaxResolves)
                                     ELSE Spend("reopen", MaxReopens)
    /\ pass' = [pass EXCEPT ![p].status = "queued", ![p].attempts = 0]
    /\ UNCHANGED <<campaign, plan, target, kept, prep, req, txn>>

(* The preparation task of a kept company ends up blocked or paused, or    *)
(* goes on.                                                                *)
PrepChanges(c) ==
    /\ prep[c] # "none"
    /\ prep' = [prep EXCEPT ![c] = IF @ = "live" THEN "resting" ELSE "live"]
    /\ UNCHANGED <<campaign, plan, target, pass, kept, req, txn, used>>
-----------------------------------------------------------------------------
Put(p, row) == pass' = [pass EXCEPT ![p] = row]

(* A pass that is put back or, after its last attempt, blocked.            *)
Failed(row) ==
    IF row.attempts < MaxAttempts THEN [row EXCEPT !.status = "retry"]
    ELSE [row EXCEPT !.status = "blocked", !.exc = TRUE]

Attempted(p) == [pass[p] EXCEPT !.status = "running", !.attempts = @ + 1]

(* A worker claims a pass and starts its agent: _launch_target_research.   *)
Launch(p) ==
    /\ Free
    /\ pass[p].status \in {"queued", "retry"}
    /\ Put(p, Attempted(p))
    /\ target' = [target EXCEPT ![PlanOf(p)][TargetOf(p)].status = "searching"]
    /\ UNCHANGED <<campaign, plan, kept, prep, req, txn, used>>

(* ... or fails to, or dies before it has recorded the launch.             *)
LaunchFails(p) ==
    /\ Free
    /\ pass[p].status \in {"queued", "retry"}
    /\ \E row \in {Failed(Attempted(p)),
                   [Attempted(p) EXCEPT !.status = "blocked", !.exc = TRUE]} : Put(p, row)
    /\ UNCHANGED <<campaign, plan, target, kept, prep, req, txn, used>>

(* What a pass can have added to its target's row by now: search attempts  *)
(* (_sync_target_attempts) and discoveries (_record_target_discoveries).   *)
(* Reconciling a pass that goes on commits these too; no step reads them   *)
(* before the pass ends, so they are added there.                          *)
Grow(row, n, F) == [row EXCEPT !.attempts = n, !.found = @ \cup F]
Grown(row) == {Grow(row, n, F) : n \in row.attempts..Required, F \in SUBSET Candidates}

(* A reconcile of a running pass raises, now or after some that did not.   *)
ReconcileFails(p) ==
    /\ Free /\ \A w \in Workers : txn[w].open => txn[w].pass # p
    /\ pass[p].status = "running"
    /\ Put(p, Failed(pass[p]))
    /\ \E row \in Grown(target[PlanOf(p)][TargetOf(p)]) :
          target' = [target EXCEPT ![PlanOf(p)][TargetOf(p)] = row]
    /\ UNCHANGED <<campaign, plan, kept, prep, req, txn, used>>

(* _reconcile_target_research, of a pass that has ended: a shared follow-  *)
(* up that failed leaves its target's coverage, a guaranteed one fails it. *)
Outcome(p, failed, row) ==
    IF failed /\ ~Shared(p) THEN "failed"
    ELSE IF Covered(row, TargetOf(p)) THEN "covered" ELSE "exhausted"

Settled(p, failed, elapsed, row) ==
    [row EXCEPT !.status = Outcome(p, failed, row), !.consumed = @ + elapsed,
                !.reserved = 0]

(* The worker's transaction: its first write, and what it will commit.     *)
Settle(w, p) ==
    /\ Free /\ ~txn[w].open /\ \A u \in Workers : txn[u].open => txn[u].pass # p
    /\ pass[p].status = "running"
    /\ \E grown \in Grown(target[PlanOf(p)][TargetOf(p)]), failed \in BOOLEAN,
          elapsed \in {0, pass[p].budget, pass[p].budget + Overrun} :
          txn' = [txn EXCEPT ![w] = [open |-> TRUE, pass |-> p,
                                     row |-> Settled(p, failed, elapsed, grown)]]
    /\ UNCHANGED <<campaign, plan, target, pass, kept, prep, req, used>>
-----------------------------------------------------------------------------
(* _maybe_schedule_shared_research over the rows of the latest confirmed   *)
(* plan: who gets a share of the time that is left.                        *)
Found(rows) == UNION {Matches(rows[x], x) : x \in Targets}

NeedsCoverage(rows) ==
    {x \in Targets : rows[x].status # "failed" /\ ~Covered(rows[x], x)}

Available(rows) == TotalTime - Committed(rows)

Eligible(rows) ==
    {x \in Targets : /\ rows[x].status # "failed"
                     /\ rows[x].leases < MaxLeases
                     /\ \/ x \in NeedsCoverage(rows)
                        \/ Cardinality(Found(rows)) < CandidateGoal}

(* The order in which they are served.                                     *)
Before(rows, x, y) ==
    LET needy(z) == IF z \in NeedsCoverage(rows) THEN 0 ELSE 1
        count(z) == Cardinality(Matches(rows[z], z))
    IN  \/ needy(x) < needy(y)
        \/ /\ needy(x) = needy(y)
           /\ \/ rows[x].leases < rows[y].leases
              \/ /\ rows[x].leases = rows[y].leases
                 /\ \/ count(x) > count(y)
                    \/ count(x) = count(y) /\ x < y

Place(rows, x) == Cardinality({y \in Eligible(rows) : Before(rows, y, x)})

(* Mutant: the last lease is not cut to what is left.                      *)
FullLease(rows, x) == LeaseTime

LeaseFor(rows, x) == Min({LeaseTime, Available(rows) - Place(rows, x) * LeaseTime})

Leased(rows) ==
    IF Cardinality(Found(rows)) >= CandidateGoal /\ NeedsCoverage(rows) = {} THEN {}
    ELSE {x \in Eligible(rows) : /\ Place(rows, x) < Parallel
                                 /\ Available(rows) - Place(rows, x) * LeaseTime >= 1}

(* Mutant: the lease is not counted.                                       *)
LeaseUncounted(rows, x) ==
    [rows[x] EXCEPT !.status = "queued", !.reserved = LeaseFor(rows, x)]

WithLease(rows, x) ==
    [rows[x] EXCEPT !.status = "queued", !.reserved = LeaseFor(rows, x),
                    !.leases = @ + 1]

(* The leased targets are queued again, each with a shared pass.           *)
SharedRows(rows, L) ==
    [x \in Targets |-> IF x \in L THEN WithLease(rows, x) ELSE rows[x]]
SharedPasses(v, rows, L) == {<<v, x, rows[x].leases + 1, 1>> : x \in L}

(* _maybe_finalize_balanced_campaign: a candidate counts as what it is for *)
(* the target that suits it best, and conflicts are left out.              *)
ScopesOf(rows, c) == {Scope[x][c] : x \in {y \in Targets : c \in rows[y].found}}

BestScope(rows, c) ==
    IF "match" \in ScopesOf(rows, c) THEN "match"
    ELSE IF "needs_review" \in ScopesOf(rows, c) THEN "needs_review" ELSE "conflict"

Ranked(rows) == {c \in Candidates : /\ \E x \in Targets : c \in rows[x].found
                                    /\ BestScope(rows, c) # "conflict"}

(* The first of the ranking, whose order within a scope is free here.      *)
Retentions(rows) ==
    {R \in SUBSET Ranked(rows) :
        /\ Cardinality(R) = Min({Retain, Cardinality(Ranked(rows))})
        /\ \A c \in R, d \in Ranked(rows) \ R :
              BestScope(rows, d) = "match" => BestScope(rows, c) = "match"}

Finalize(v, rows) ==
    \E R \in Retentions(rows) :
        /\ plan' = [plan EXCEPT ![v] = "completed"]
        /\ kept' = [c \in Candidates |-> IF c \in R /\ kept[c] = "no"
                                         THEN BestScope(rows, c) ELSE kept[c]]
        /\ prep' = [c \in Candidates |-> IF c \in R /\ Initiative THEN "live" ELSE prep[c]]
        /\ campaign' = IF Initiative /\ R # {} THEN "preparing" ELSE "active"

(* Mutant: a failed target is never done.                                  *)
NoneFailed(rows) == \A x \in Targets : rows[x].status \in {"covered", "exhausted"}

FannedIn(rows) == \A x \in Targets : rows[x].status \in TerminalTarget

(* What the worker's transaction sees, the committed rows and its own: the *)
(* latest confirmed plan, and whether nothing else of the campaign goes on.*)
Own(w)  == [target EXCEPT ![PlanOf(txn[w].pass)][TargetOf(txn[w].pass)] = txn[w].row]
Done(w) == [pass EXCEPT ![txn[w].pass].status = "completed"]
Decided == Max(Latest("confirmed"))

Last(w) ==
    /\ Latest("confirmed") # {}
    /\ FannedIn(Own(w)[Decided])
    /\ Active \ {txn[w].pass} = {}

(* It commits its own outcome; the last one leases what is left, or        *)
(* completes the plan.                                                     *)
DecideWaits(w) ==
    /\ ~Last(w)
    /\ target' = Own(w) /\ pass' = Done(w)
    /\ UNCHANGED <<campaign, plan, kept, prep>>

DecideLeases(w) ==
    LET rows == Own(w)[Decided]
        L    == Leased(rows)
        new  == SharedPasses(Decided, rows, L)
    IN  /\ Last(w) /\ L # {}
        /\ target' = [Own(w) EXCEPT ![Decided] = SharedRows(rows, L)]
        /\ pass' = [q \in Passes |-> IF q \in new
                                     THEN QueuedPass(LeaseFor(rows, TargetOf(q)))
                                     ELSE Done(w)[q]]
        /\ UNCHANGED <<campaign, plan, kept, prep>>

DecideCompletes(w) ==
    /\ Last(w) /\ Leased(Own(w)[Decided]) = {}
    /\ target' = Own(w) /\ pass' = Done(w)
    /\ Finalize(Decided, Own(w)[Decided])

Decide(w) ==
    /\ txn[w].open
    /\ DecideWaits(w) \/ DecideLeases(w) \/ DecideCompletes(w)
    /\ txn' = [txn EXCEPT ![w] = NoTxn]
    /\ UNCHANGED <<req, used>>

(* The process or its connection dies with the transaction open.           *)
RollBack(w) ==
    /\ txn[w].open
    /\ Spend("fault", MaxFaults)
    /\ txn' = [txn EXCEPT ![w] = NoTxn]
    /\ UNCHANGED <<campaign, plan, target, pass, kept, prep, req>>

Next ==
    \/ \E r \in Requests : \/ ReadForReplace(r) \/ Replace(r)
                           \/ ReadForConfirm(r) \/ Confirm(r)
    \/ \E p \in Passes : \/ Launch(p) \/ LaunchFails(p) \/ ReconcileFails(p)
                         \/ Resolve(p)
    \/ \E w \in Workers : \/ \E p \in Passes : Settle(w, p)
                          \/ Decide(w) \/ RollBack(w)
    \/ \E c \in Candidates : PrepChanges(c)
    \/ Pause \/ Resume

Spec == Init /\ [][Next]_vars

(* The worker's loop launches what is queued and reconciles what runs, and *)
(* an agent ends at its deadline; failures and operators are not fair.     *)
Fairness ==
    /\ \A p \in Passes : WF_vars(Launch(p))
                      /\ WF_vars(\E w \in Workers : Settle(w, p))
    /\ \A w \in Workers : WF_vars(Decide(w))

LiveSpec == Spec /\ Fairness
-----------------------------------------------------------------------------
(* Every row, request and transaction holds values of its kind.            *)
TypeOK ==
    /\ campaign \in {"planning", "researching", "paused", "active", "preparing"}
    /\ plan \in Seq({"pending_confirmation", "superseded", "confirmed", "completed"})
    /\ target \in Seq([Targets -> TargetRow]) /\ Len(target) = Len(plan)
    /\ pass \in [Passes -> PassRow]
    /\ kept \in [Candidates -> {"no", "match", "needs_review"}]
    /\ prep \in [Candidates -> {"none", "live", "resting"}]
    /\ \A r \in Requests : req[r].op \in {"none", "replace", "confirm"}
    /\ \A w \in Workers : txn[w].open => txn[w].row \in TargetRow

Unfinished(p) == pass[p].status \in ActiveStatuses \cup {"paused", "blocked"}
Ended(v) == {p \in Passes : PlanOf(p) = v /\ pass[p].status = "completed"}

(* The targets of a plan never spend and reserve more than its time, but   *)
(* for what each ended pass overran: shared leases are cut from what the   *)
(* others have left, whoever ends last.                                    *)
BudgetRespected ==
    \A v \in DOMAIN plan :
        Committed(target[v]) <= TotalTime + Overrun * Cardinality(Ended(v))

(* Reserved time belongs to an unfinished pass: none is lost to a failure, *)
(* a pause or a rolled-back reconcile, and a completed plan holds none.    *)
ReservedHasOwner ==
    \A v \in DOMAIN plan, x \in Targets :
        target[v][x].reserved > 0 =>
            /\ plan[v] # "completed"
            /\ \E p \in Passes : PlanOf(p) = v /\ TargetOf(p) = x /\ Unfinished(p)

(* A target has at most one pass under way.                                *)
OnePassPerTarget ==
    \A v \in DOMAIN plan, x \in Targets :
        Cardinality({p \in Passes : PlanOf(p) = v /\ TargetOf(p) = x /\ Unfinished(p)}) <= 1

(* Where a plan stands in the workflow graph, where the token of each of   *)
(* its targets is, and how often that took the shared budget lease.        *)
PhaseOf(v) ==
    IF v \notin DOMAIN plan THEN "compile_plan"
    ELSE CASE plan[v] = "pending_confirmation" -> "await_plan_confirmation"
           [] plan[v] = "confirmed" -> "research"
           [] plan[v] = "completed" -> "research_complete"
           [] plan[v] = "superseded" -> "superseded"

TokenOf(v, x) ==
    IF v \notin DOMAIN plan \/ target[v][x].status = "awaiting_confirmation"
    THEN "await_plan_confirmation"
    ELSE IF target[v][x].status \in TerminalTarget
    THEN "shared_budget_decision" ELSE "research_target"

TraversalsOf(v, x) == IF v \in DOMAIN plan THEN target[v][x].leases ELSE 0

Topology == INSTANCE ResearchTopology WITH
    Plans <- Versions,
    MaxTraversals <- MaxLeases,
    phase <- [v \in Versions |-> PhaseOf(v)],
    token <- [v \in Versions |-> [x \in Targets |-> TokenOf(v, x)]],
    traversals <- [v \in Versions |-> [x \in Targets |-> TraversalsOf(v, x)]]

(* The engine's research follows the registered topology: it fans out only *)
(* after the confirmation, sends a target back at most MaxLeases times and *)
(* only when every target is terminal, and completes with the last one.    *)
FollowsTopology == Topology!Spec

(* A confirmed plan is completed in the end, unless a pass of the campaign *)
(* waits for the operator or a newer plan has taken over: a failure, a     *)
(* pause or the last pass of another plan never swallows the decision.     *)
ResearchEnds ==
    \A v \in Versions :
        (v \in DOMAIN plan /\ plan[v] = "confirmed") ~>
            \/ v \in DOMAIN plan /\ plan[v] = "completed"
            \/ \E p \in Passes : pass[p].status \in {"blocked", "paused"}
            \/ \E u \in DOMAIN plan : u > v /\ plan[u] \in {"confirmed", "completed"}

(* Every minute of a plan is with one pass: nothing is spent or reserved   *)
(* twice, lost by a failure, or leased to a target that already searches.  *)
TimeAccounted == TypeOK /\ BudgetRespected /\ ReservedHasOwner /\ OnePassPerTarget
=============================================================================
