------------------------- MODULE MCBalancedResearch -------------------------
(* Small instances of BalancedResearch and its shadow.                     *)
EXTENDS ShadowGraph

CONSTANTS c1, c2, c3

(* c1 conflicts with the first target and matches the second, c2 needs     *)
(* review for both.                                                        *)
Scopes == [x \in Targets |->
             [c \in Candidates |->
                IF c = c1 THEN IF x = 1 THEN "conflict" ELSE "match"
                ELSE "needs_review"]]
=============================================================================
