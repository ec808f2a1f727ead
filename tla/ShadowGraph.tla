----------------------------- MODULE ShadowGraph -----------------------------
(***************************************************************************)
(* The shadow of balanced research in the registered workflow graph: with  *)
(* every step of the engine (BalancedResearch), what research_graph writes *)
(* to the audit log about it in the same transaction, and the readiness    *)
(* report that is evaluated over the log.                                  *)
(*                                                                         *)
(* An event is a node reached or an edge traversed, of one execution (a    *)
(* pass) or of the run of a plan; recording one again changes nothing, as  *)
(* the writer looks for it first.                                          *)
(***************************************************************************)
EXTENDS BalancedResearch, WorkflowGraphs

VARIABLES
    keyed,  \* passes correlated with the graph: tasks with an execution key
    trace   \* events recorded

shadowVars == <<keyed, trace>>

Graph == CoordinatedResearch
Edge == [id \in {EdgeId(e) : e \in Graph.edges} |->
           CHOOSE e \in Graph.edges : EdgeId(e) = id]

(* The events of a list of edges: each traversed, then its node reached.   *)
Reached(of, n) == [of |-> of, node |-> n, edge |-> "none"]
Traversed(of, id) == [of |-> of, node |-> Destination(Edge[id]), edge |-> id]
Along(of, ids) == UNION {{Traversed(of, id), Reached(of, Destination(Edge[id]))} : id \in ids}

Run(v) == <<"run", v>>
Execution(p) == <<"execution", PlanOf(p), p>>
-----------------------------------------------------------------------------
(* correlate_target_task: while the plan is confirmed, a pass gets the key *)
(* of its plan, target and generation unless another pass has it.          *)
SameKey(p, q) == <<p[1], p[2], p[3]>> = <<q[1], q[2], q[3]>>
Correlates(p, status) ==
    /\ status[PlanOf(p)] = "confirmed"
    /\ \A q \in keyed : SameKey(p, q) => q = p

Correlated(P, status) == keyed \cup {p \in P : Correlates(p, status)}

(* observe_plan_confirmed, observe_target_launch, observe_target_          *)
(* reconciled, observe_campaign_finalized                                  *)
ConfirmEvents(v) ==
    {Reached(Run(v), "compile_plan")} \cup Along(Run(v), {"plan_compiled", "plan_confirmed"})

\* mutant: every launch is taken for a lease
AsLease(p) == Along(Execution(p), {"shared_budget_lease"})
LaunchEvents(p) ==
    Along(Execution(p), {IF Shared(p) THEN "shared_budget_lease" ELSE "targets_materialized"})

TargetEdges == {"target_reconciled", "attempts_recorded", "target_classified"}
ReconcileEvents(p) == Along(Execution(p), TargetEdges)

FinalEdges == {"research_fan_in", "all_targets_terminal", "scope_assessed", "candidates_ranked"}
FinalEvents(v) == Along(Run(v), FinalEdges)
-----------------------------------------------------------------------------
ShadowInit == Init /\ keyed = {} /\ trace = {}

(* The passes that the confirmation queues are correlated one by one.      *)
ObservedConfirm(r) ==
    LET v   == req[r].plan
        new == {p \in Passes : pass[p].status = "none" /\ pass'[p].status = "queued"}
    IN  /\ Confirm(r)
        /\ keyed' = Correlated(new, plan')
        /\ trace' = trace \cup ConfirmEvents(v)

Observe(p, events) ==
    IF Correlates(p, plan)
    THEN keyed' = keyed \cup {p} /\ trace' = trace \cup events
    ELSE UNCHANGED shadowVars

ObservedLaunch(p) == Launch(p) /\ Observe(p, LaunchEvents(p))

(* _fail commits what the launch had added to the session before it raised.*)
ObservedFailure(p) ==
    /\ LaunchFails(p)
    /\ Observe(p, LaunchEvents(p)) \/ UNCHANGED shadowVars

\* mutant: the events of the pass are recorded after the decision
Late(p) == IF Correlates(p, plan') THEN ReconcileEvents(p) ELSE {}
Timely(p) == IF Correlates(p, plan) THEN ReconcileEvents(p) ELSE {}

(* The pass is observed while its plan is confirmed still, then the leases *)
(* or the end.                                                             *)
ObservedDecide(w) ==
    LET p   == txn[w].pass
        new == {q \in Passes : pass[q].status = "none" /\ pass'[q].status = "queued"}
        completed == {v \in DOMAIN plan : plan[v] # "completed" /\ plan'[v] = "completed"}
    IN  /\ Decide(w)
        /\ keyed' = Correlated(new \cup {p}, plan)
        /\ trace' = trace \cup Timely(p) \cup UNION {FinalEvents(v) : v \in completed}

Unobserved ==
    /\ \/ \E r \in Requests : \/ ReadForReplace(r) \/ Replace(r) \/ ReadForConfirm(r)
       \/ \E p \in Passes : \/ ReconcileFails(p) \/ Resolve(p)
                            \/ \E w \in Workers : Settle(w, p)
       \/ \E w \in Workers : RollBack(w)
       \/ \E c \in Candidates : PrepChanges(c)
       \/ Pause \/ Resume
    /\ UNCHANGED shadowVars

ShadowNext ==
    \/ \E r \in Requests : ObservedConfirm(r)
    \/ \E p \in Passes : ObservedLaunch(p) \/ ObservedFailure(p)
    \/ \E w \in Workers : ObservedDecide(w)
    \/ Unobserved

ShadowSpec == ShadowInit /\ [][ShadowNext]_<<vars, keyed, trace>>

ShadowLiveSpec == ShadowSpec /\ Fairness
-----------------------------------------------------------------------------
(* collect_shadow_evidence, evaluate_shadow_readiness.  The kinds of       *)
(* campaign and the manual verifications it asks for are taken as given.   *)
MAX_SHARED_LEASE_GENERATION == 3

Seen(v, x) == {e \in trace : /\ e.of[1] = "execution" /\ e.of[2] = v
                             /\ TargetOf(e.of[3]) = x}

TargetTrace(p) == ReconcileEvents(p) \cup {Reached(Execution(p), "research_target")}

Mismatched ==
    \/ \E p \in keyed : pass[p].status = "completed" /\ ~(TargetTrace(p) \subseteq trace)
    \/ \E e \in trace : \/ e.node \notin Graph.nodes
                        \/ e.of[1] = "execution" /\ e.of[3][3] > MAX_SHARED_LEASE_GENERATION

EndTraced(v) == Reached(Run(v), "research_complete") \in trace

Gap ==
    \/ Graph.nodes # {e.node : e \in trace}
    \/ ~({EdgeId(e) : e \in Graph.edges} \subseteq {e.edge : e \in trace})
    \/ ~(TerminalTarget \subseteq {target[v][x].status : v \in DOMAIN plan, x \in Targets})
    \/ \A v \in DOMAIN plan : Cardinality({x \in Targets : Seen(v, x) # {}}) < 2
    \/ \E v \in DOMAIN plan : plan[v] = "completed" /\ ~EndTraced(v)

Verdict == IF Mismatched THEN "not_ready"
           ELSE IF Gap THEN "insufficient_evidence" ELSE "ready"

(* The shadow never contradicts the engine, whatever failed, was put back, *)
(* paused or rolled back: a completed execution has its whole trace, and a *)
(* completed plan its end.                                                 *)
ShadowAgrees ==
    /\ Verdict # "not_ready"
    /\ \A v \in DOMAIN plan : plan[v] = "completed" <=> EndTraced(v)

(* The trace is a walk of the graph: an edge is recorded when its source   *)
(* has been reached, by the same target or in the run of the plan, and the *)
(* fan-in when the decision has been reached by every target.              *)
DecisionSeen(v, x) == \E d \in Seen(v, x) : d.node = "shared_budget_decision"

Connected(e) ==
    LET s == Source(Edge[e.edge])
        v == e.of[2]
        inRun == Reached(Run(v), s) \in trace
    IN  IF e.edge = "research_fan_in" THEN \A x \in Targets : DecisionSeen(v, x)
        ELSE \/ inRun
             \/ /\ e.of[1] = "execution"
                /\ \E d \in Seen(v, TargetOf(e.of[3])) : d.node = s

TraceConnected ==
    [][\A e \in trace' \ trace : e.edge # "none" => Connected(e)']_shadowVars
=============================================================================
