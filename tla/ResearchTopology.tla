-------------------------- MODULE ResearchTopology --------------------------
(***************************************************************************)
(* The topology the repository registers for balanced research, as a game  *)
(* of tokens: coordinated_research_v1 of the workflow graph.  A plan waits *)
(* for its confirmation, fans out into one token per target, and every     *)
(* token goes round research_target, import_and_record_attempts,           *)
(* classify_target_terminal and shared_budget_decision.  The decision      *)
(* closes when every target is terminal: either some targets traverse      *)
(* shared_budget_lease again, which is bounded, or all of them pass        *)
(* all_targets_barrier and the candidates are ranked.                      *)
(*                                                                         *)
(* The nodes between two writes of the engine are one step here; that      *)
(* BalancedResearch implements this game says that no interleaving of      *)
(* requests, launches, failures and reconciles leaves the graph.           *)
(***************************************************************************)
EXTENDS Integers

CONSTANTS Targets, Plans, MaxTraversals

VARIABLES
    phase,      \* where each plan stands
    token,      \* where the token of each target of it is
    traversals  \* how often it has traversed shared_budget_lease

vars == <<phase, token, traversals>>

Init ==
    /\ phase = [v \in Plans |-> "compile_plan"]
    /\ token = [v \in Plans |-> [x \in Targets |-> "await_plan_confirmation"]]
    /\ traversals = [v \in Plans |-> [x \in Targets |-> 0]]

(* plan_compiled, for a new plan; it may supersede one that still waits.   *)
Compile(v) ==
    /\ phase[v] = "compile_plan"
    /\ \E Old \in SUBSET {u \in Plans : phase[u] = "await_plan_confirmation"} :
          phase' = [u \in Plans |-> IF u = v THEN "await_plan_confirmation"
                                    ELSE IF u \in Old THEN "superseded" ELSE phase[u]]
    /\ UNCHANGED <<token, traversals>>

(* plan_confirmed, which requires the review, and targets_materialized,    *)
(* which fans out.                                                         *)
Confirm(v) ==
    /\ phase[v] = "await_plan_confirmation"
    /\ phase' = [phase EXCEPT ![v] = "research"]
    /\ token' = [token EXCEPT ![v] = [x \in Targets |-> "research_target"]]
    /\ UNCHANGED traversals

(* target_reconciled, attempts_recorded, target_classified.                *)
Classified(v, x) == [token EXCEPT ![v][x] = "shared_budget_decision"]

AllDecided(v, at) == \A x \in Targets : at[v][x] = "shared_budget_decision"

Reconcile(v, x) ==
    /\ phase[v] \in {"research", "research_complete"}
    /\ token[v][x] = "research_target"
    /\ token' = Classified(v, x)
    /\ UNCHANGED <<phase, traversals>>

(* shared_budget_lease: the last target to be classified sends some back.  *)
Lease(v, x) ==
    /\ token[v][x] = "research_target"
    /\ \E u \in Plans, X \in (SUBSET Targets) \ {{}} :
          /\ phase[u] = "research"
          /\ AllDecided(u, Classified(v, x))
          /\ \A y \in X : traversals[u][y] < MaxTraversals
          /\ token' = [Classified(v, x) EXCEPT
                         ![u] = [y \in Targets |-> IF y \in X THEN "research_target" ELSE @[y]]]
          /\ traversals' = [traversals EXCEPT
                         ![u] = [y \in Targets |-> IF y \in X THEN @[y] + 1 ELSE @[y]]]
    /\ UNCHANGED phase

(* research_fan_in, all_targets_terminal, scope_assessed and               *)
(* candidates_ranked: the last one closes the plan.                        *)
Complete(v, x) ==
    /\ token[v][x] = "research_target"
    /\ token' = Classified(v, x)
    /\ \E u \in Plans :
          /\ phase[u] = "research"
          /\ AllDecided(u, token')
          /\ phase' = [phase EXCEPT ![u] = "research_complete"]
    /\ UNCHANGED traversals

Next ==
    \E v \in Plans :
        \/ Compile(v) \/ Confirm(v)
        \/ \E x \in Targets : Reconcile(v, x) \/ Lease(v, x) \/ Complete(v, x)

Spec == Init /\ [][Next]_vars
=============================================================================
