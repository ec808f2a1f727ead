-------------------------- MODULE MCWorkflowTasks ---------------------------
(* Small instances of WorkflowTasks for TLC.                               *)
EXTENDS WorkflowTasks, TLC

CONSTANTS t1, t2, t3, w1, w2

(* Two searches for different targets, and one task of another kind.       *)
TwoTargets == [t \in Tasks |-> IF t \in {t1, t2} THEN "target" ELSE "agent"]
OneOfEach  == [t \in Tasks |-> IF t = t1 THEN "target"
                               ELSE IF t = t2 THEN "agent" ELSE "send"]

WorkerSymmetry == Permutations(Workers)

=============================================================================
