-------------------------- MODULE MCGraphValidation --------------------------
(* Instances of GraphValidation for TLC.                                   *)
EXTENDS GraphValidation

(* Every graph over four nodes with one edge into its start and none out of    *)
(* its terminal, the privileged node, and with a bounded node or edge.     *)
Arcs == {<<s, s \o d, d>> : s \in {"a", "b", "c"}, d \in {"b", "c", "d"}}
        \cup {<<"c", "ca", "a">>}
Bounded == <<"b", "bc", "c">>

Small(E, N, B) ==
    [start |-> "a", terminal |-> {"d"}, nodes |-> {"a", "b", "c", "d"},
     agents |-> {}, privileged |-> {"d"}, edges |-> E, nodeBound |-> N, edgeBound |-> B]

SmallInputs ==
    {[graph |-> Small(E, N, B), target |-> "d", checkpoints |-> <<"b", "c">>] :
        E \in SUBSET Arcs, N \in {<<>>, "c" :> 1}, B \in {<<>>, Bounded :> 2}}

(* ... graphs whose start or whose edges lead out of them ...              *)
Malformed ==
    {[graph |-> [Small(E, <<>>, <<>>) EXCEPT !.start = s], target |-> "d", checkpoints |-> <<"b">>] :
        E \in SUBSET {<<"a", "ab", "b">>, <<"b", "bd", "d">>, <<"a", "ax", "x">>, <<"x", "xd", "d">>},
        s \in {"a", "x"}}

(* ... and the registered graphs.                                          *)
Unasserted(graph) == [graph |-> graph, target |-> "none", checkpoints |-> <<>>]
MCInputs ==
    SmallInputs \cup Malformed \cup {Unasserted(CoordinatedResearch), Unasserted(ApplicationPreparation),
                      [graph |-> PrivilegedSending, target |-> "provider_attempt",
                       checkpoints |-> PrivilegedSendingCheckpoints]}
=============================================================================
