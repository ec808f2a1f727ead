--------------------------- MODULE GraphValidation ---------------------------
(***************************************************************************)
(* The checks of a workflow graph: validate_workflow_definition with its   *)
(* two searches, assert_mandatory_checkpoints_before and assert_ordered_   *)
(* checkpoints_before, each search step by step; and, over a graph that    *)
(* passed them all, a walk that takes its edges within their bounds, which *)
(* is what the checks are meant to make safe.                              *)
(*                                                                         *)
(* The searches visit nodes in a sorted order; here the order is any fixed *)
(* one, which only decides which witness is reported.                      *)
(***************************************************************************)
EXTENDS WorkflowGraphs, Sequences, FiniteSets, SequencesExt

CONSTANT Inputs  \* [graph, target, checkpoints]: graphs, and what is asserted of them

ASSUME InputsAssumption ==
    \A i \in Inputs : /\ IsFiniteSet(i.graph.nodes)
                      /\ i.target \in i.graph.privileged \cup {"none"}
                      /\ i.checkpoints \in Seq(i.graph.nodes \ {i.target})
                      /\ IsInjective(i.checkpoints)

VARIABLES
    input,    \* the graph under check, its privileged target and checkpoints
    phase,    \* the search under way
    search,   \* its work list
    errors,   \* what was found wrong
    witness,  \* the path that shows the last error
    walk      \* a walk of an accepted graph

vars == <<input, phase, search, errors, witness, walk>>

g == input.graph
Checkpoints == ToSet(input.checkpoints)
Outgoing(n) == {e \in g.edges : Source(e) = n /\ {n, Destination(e)} \subseteq g.nodes}
Ends(n) == {Destination(e) : e \in Outgoing(n)}
AnyOf(S) == CHOOSE x \in S : TRUE
-----------------------------------------------------------------------------
(* What validate_workflow_definition finds wrong without a search.         *)
Structural ==
    {what \in {"start", "edges", "terminals", "no_way_out", "terminal_goes_on", "agent_sends"} :
        \/ what = "edges" /\ \E e \in g.edges : ~({Source(e), Destination(e)} \subseteq g.nodes)
        \/ what = "start" /\ g.start \notin g.nodes
        \/ what = "terminals" /\ (g.terminal = {} \/ ~(g.terminal \subseteq g.nodes))
        \/ what = "no_way_out" /\ \E n \in g.nodes \ g.terminal : Outgoing(n) = {}
        \/ what = "terminal_goes_on" /\ \E n \in g.terminal : Outgoing(n) # {}
        \/ what = "agent_sends" /\ \E e \in g.edges :
              Source(e) \in g.agents /\ Destination(e) \in g.privileged}

NoSearch == [todo |-> {}, seen |-> {}, stack |-> <<>>, queue |-> <<>>, forbidden |-> "none"]
NoWalk == [at |-> "none", crossed |-> {}, astray |-> FALSE, taken |-> <<>>]

Init ==
    /\ input \in Inputs
    /\ phase = "reach"
    /\ search = [NoSearch EXCEPT !.todo = {g.start} \cap g.nodes]
    /\ errors = Structural /\ witness = <<>> /\ walk = NoWalk

Searching(name) == phase = name /\ UNCHANGED <<input, walk>>
GoOn == UNCHANGED <<phase, errors, witness>>
Report(found, path) ==
    /\ errors' = errors \cup found
    /\ witness' = path
-----------------------------------------------------------------------------
(* _reachable_from                                                         *)
Reach ==
    /\ Searching("reach") /\ search.todo # {}
    /\ LET n == AnyOf(search.todo)
       IN search' = [search EXCEPT
             !.todo = (@ \ {n}) \cup IF n \in search.seen THEN {} ELSE Ends(n),
             !.seen = @ \cup {n}]
    /\ GoOn

(* _find_unbounded_cycle: a depth-first search, the calls of visit as an   *)
(* explicit stack, over the nodes and edges that have no bound.            *)
\* mutant: a bound on one edge counts for all edges of its source
NoBoundedEdge == g.nodes \ (DOMAIN g.nodeBound \cup {Source(e) : e \in DOMAIN g.edgeBound})
Unbounded == g.nodes \ DOMAIN g.nodeBound
Successors(n) ==
    {Destination(e) : e \in Outgoing(n) \ DOMAIN g.edgeBound} \cap Unbounded

Reached ==
    /\ Searching("reach") /\ search.todo = {}
    /\ Report(IF g.start \in g.nodes => g.nodes \subseteq search.seen THEN {} ELSE {"unreachable"}, <<>>)
    /\ phase' = "cycle"
    /\ search' = [NoSearch EXCEPT !.todo = Unbounded]

Frame(n) == [node |-> n, todo |-> Successors(n)]
Top == Last(search.stack)
Visiting == {search.stack[i].node : i \in DOMAIN search.stack}

\* mutant: a node that is seen a second time closes a cycle
SeenAgain(n) == n \in Visiting \cup search.seen
ClosesCycle(n) == n \in Visiting

VisitRoot ==
    /\ Searching("cycle") /\ search.stack = <<>> /\ search.todo # {}
    /\ LET n == AnyOf(search.todo)
       IN search' = [search EXCEPT !.todo = @ \ {n},
                                   !.stack = IF n \in search.seen THEN <<>> ELSE <<Frame(n)>>]
    /\ GoOn

VisitNext ==
    /\ Searching("cycle") /\ search.stack # <<>> /\ Top.todo # {}
    /\ LET n    == AnyOf(Top.todo)
           rest == [search.stack EXCEPT ![Len(search.stack)].todo = @ \ {n}]
       IN  /\ ~ClosesCycle(n)
           /\ search' = [search EXCEPT
                 !.stack = IF n \in search.seen THEN rest ELSE Append(rest, Frame(n))]
    /\ GoOn

Leave ==
    /\ Searching("cycle") /\ search.stack # <<>> /\ Top.todo = {}
    /\ search' = [search EXCEPT !.stack = Front(@), !.seen = @ \cup {Top.node}]
    /\ GoOn

CycleDecided ==
    /\ Searching("cycle")
    /\ \/ search.stack = <<>> /\ search.todo = {} /\ Report({}, <<>>)
       \/ /\ search.stack # <<>> /\ Top.todo # {}
          /\ ClosesCycle(AnyOf(Top.todo))
          /\ Report({"cycle"}, <<>>)
    /\ phase' = "bypass"
    /\ search' = [NoSearch EXCEPT !.todo = Checkpoints]
-----------------------------------------------------------------------------
(* assert_mandatory_checkpoints_before: for each checkpoint a breadth-     *)
(* first search of a path that avoids it (_path_avoiding).                 *)
\* mutant: a path forgets where it came from
Steps(path, ends) == [i \in DOMAIN ends |-> <<g.start, ends[i]>>]
Paths(path, ends) == [i \in DOMAIN ends |-> Append(path, ends[i])]

Avoid ==
    /\ Searching("bypass") /\ search.queue = <<>> /\ search.todo # {}
    /\ LET c == AnyOf(search.todo)
       IN search' = [search EXCEPT !.todo = @ \ {c}, !.forbidden = c, !.seen = {g.start},
                                   !.queue = IF c = g.start THEN <<>> ELSE <<<<g.start>>>>]
    /\ GoOn

Extend ==
    /\ Searching("bypass") /\ search.queue # <<>>
    /\ LET path == Head(search.queue)
           ends == SetToSeq(Ends(Last(path)) \ (search.seen \cup {search.forbidden}))
       IN \/ /\ Last(path) = input.target
             /\ Report({"bypass"}, path)
             /\ search' = [search EXCEPT !.queue = <<>>]
             /\ UNCHANGED phase
          \/ /\ Last(path) # input.target
             /\ search' = [search EXCEPT !.queue = Tail(@) \o Paths(path, ends),
                                         !.seen = @ \cup ToSet(ends)]
             /\ GoOn

(* advance: the checkpoints crossed after a node, and whether it is one    *)
(* that comes too early.                                                   *)
\* mutant: the order is taken from the wrong end
FromEnd(n) == IF n \in Checkpoints
              THEN CHOOSE i \in DOMAIN input.checkpoints : Reverse(input.checkpoints)[i] = n
              ELSE 0
Position(n) == IF n \in Checkpoints THEN CHOOSE i \in DOMAIN input.checkpoints :
                                           input.checkpoints[i] = n
               ELSE 0
TooEarly(n, crossed) == Position(n) > crossed + 1
Advance(n, crossed) == IF Position(n) = crossed + 1 THEN crossed + 1 ELSE crossed

(* assert_ordered_checkpoints_before: a breadth-first search over nodes    *)
(* and how many checkpoints a path to them has crossed.                    *)
BypassDecided ==
    /\ Searching("bypass") /\ search.queue = <<>> /\ search.todo = {}
    /\ phase' = "order"
    /\ LET crossed == Advance(g.start, 0)
       IN  /\ Report(IF TooEarly(g.start, 0) THEN {"order"} ELSE {},
                     IF TooEarly(g.start, 0) THEN <<g.start>> ELSE witness)
           /\ search' = [NoSearch EXCEPT
                 !.queue = IF TooEarly(g.start, 0) THEN <<>>
                           ELSE <<[path |-> <<g.start>>, crossed |-> crossed]>>,
                 !.seen = {<<g.start, crossed>>}]

SeenState(n, crossed) == <<n, crossed>> \in search.seen

Entry == Head(search.queue)
Early == {n \in Ends(Last(Entry.path)) : TooEarly(n, Entry.crossed)}

Advanced ==
    /\ Searching("order") /\ search.queue # <<>>
    /\ Last(Entry.path) = input.target => Entry.crossed = Len(input.checkpoints)
    /\ LET at   == Last(Entry.path)
           new  == IF at = input.target THEN <<>>
                   ELSE SetToSeq({n \in Ends(at) : ~SeenState(n, Advance(n, Entry.crossed))})
       IN  /\ at = input.target \/ Early = {}
           /\ search' = [search EXCEPT
                 !.queue = Tail(@) \o [i \in DOMAIN new |->
                              [path |-> Append(Entry.path, new[i]),
                               crossed |-> Advance(new[i], Entry.crossed)]],
                 !.seen = @ \cup {<<n, Advance(n, Entry.crossed)>> : n \in ToSet(new)}]
    /\ GoOn

OutOfOrder ==
    /\ Searching("order") /\ search.queue # <<>>
    /\ \/ /\ Last(Entry.path) = input.target /\ Entry.crossed # Len(input.checkpoints)
          /\ Report({"order"}, Entry.path)
       \/ /\ Last(Entry.path) # input.target /\ Early # {}
          /\ Report({"order"}, Append(Entry.path, AnyOf(Early)))
    /\ search' = NoSearch
    /\ UNCHANGED phase
-----------------------------------------------------------------------------
(* External: a run of an accepted graph, which traverses a bounded node or *)
(* edge no more often than its bound.                                      *)
BoundedNodes == {<<n>> : n \in DOMAIN g.nodeBound}

Start ==
    /\ phase = "order" /\ search.queue = <<>>
    /\ phase' = IF errors = {} THEN "walk" ELSE "rejected"
    /\ search' = NoSearch
    /\ walk' = IF errors # {} THEN NoWalk
               ELSE [at |-> g.start, crossed |-> {g.start} \cap Checkpoints, astray |-> FALSE,
                     taken |-> [b \in BoundedNodes \cup DOMAIN g.edgeBound |-> 0]]
    /\ UNCHANGED <<input, errors, witness>>

Open(e) ==
    /\ e \in DOMAIN g.edgeBound => walk.taken[e] < g.edgeBound[e]
    /\ Destination(e) \in DOMAIN g.nodeBound =>
          walk.taken[<<Destination(e)>>] < g.nodeBound[Destination(e)]

Skips(n) == \E i \in DOMAIN input.checkpoints :
               /\ input.checkpoints[i] = n
               /\ \E j \in 1..(i - 1) : input.checkpoints[j] \notin walk.crossed

Take(e) ==
    /\ phase = "walk" /\ Source(e) = walk.at /\ Open(e)
    /\ LET n == Destination(e)
       IN walk' = [at |-> n, crossed |-> walk.crossed \cup ({n} \cap Checkpoints),
                   astray |-> walk.astray \/ Skips(n),
                   taken |-> [b \in DOMAIN walk.taken |->
                                IF b \in {e, <<n>>} THEN walk.taken[b] + 1 ELSE walk.taken[b]]]
    /\ UNCHANGED <<input, phase, search, errors, witness>>

Check == \/ Reach \/ Reached \/ VisitRoot \/ VisitNext \/ Leave \/ CycleDecided
         \/ Avoid \/ Extend \/ BypassDecided \/ Advanced \/ OutOfOrder \/ Start
Walk == \E e \in g.edges : Take(e)
Next == Check \/ Walk

(* The searches run to their end and a walk takes its edges.               *)
Spec == Init /\ [][Next]_vars /\ WF_vars(Next)
-----------------------------------------------------------------------------
Known == g.nodes \cup {g.start}

(* The values of every variable are of their kind.                         *)
TypeOK ==
    /\ input \in Inputs
    /\ phase \in {"reach", "cycle", "bypass", "order", "walk", "rejected"}
    /\ errors \subseteq {"start", "edges", "terminals", "no_way_out", "terminal_goes_on", "agent_sends",
                         "unreachable", "cycle", "bypass", "order"}
    /\ search.todo \cup ToSet(witness) \subseteq Known
    /\ Visiting \subseteq g.nodes
    /\ walk.at \in g.nodes \cup {"none"} /\ walk.crossed \subseteq Checkpoints

(* The searches find what is there and nothing else: a closed set that     *)
(* leaves a node out, a set of unbounded nodes without a way out of it, a  *)
(* closed set that avoids a checkpoint and holds the target.               *)
Closed(X, banned) == g.start \in X /\ \A n \in X : Ends(n) \ banned \subseteq X
HasUnreachable ==
    g.start \in g.nodes /\ \E X \in (SUBSET g.nodes) \ {g.nodes} : Closed(X, {})
HasCycle == \E X \in (SUBSET Unbounded) \ {{}} : \A n \in X : Successors(n) \cap X # {}
HasBypass ==
    \E c \in Checkpoints \ {g.start} :
        \A X \in SUBSET (Known \ {c}) : Closed(X, {c}) => input.target \in X

VerdictsExact ==
    phase \in {"walk", "rejected"} =>
        /\ "unreachable" \in errors <=> HasUnreachable
        /\ "cycle" \in errors <=> HasCycle
        /\ "bypass" \in errors <=> HasBypass

(* The path that is reported exists, and breaks what it is reported for.   *)
WitnessIsReal ==
    witness # <<>> =>
        /\ witness[1] = g.start
        /\ \A i \in 1..(Len(witness) - 1) : witness[i + 1] \in Ends(witness[i])
        /\ LET passed(i) == {n \in Checkpoints : \E j \in 1..i : witness[j] = n}
               at == Len(witness)
           IN \/ Last(witness) = input.target /\ passed(at) # Checkpoints
              \/ \E i \in DOMAIN input.checkpoints :
                    /\ Last(witness) = input.checkpoints[i]
                    /\ \E j \in 1..(i - 1) : input.checkpoints[j] \notin passed(at)

(* No walk of an accepted graph is at the privileged target before it has  *)
(* crossed every checkpoint, each in its turn.                             *)
OrderProved ==
    phase = "walk" /\ walk.at = input.target => ~walk.astray /\ walk.crossed = Checkpoints

(* A walk of an accepted graph comes to an end: at a terminal node, or at  *)
(* one all of whose edges have been traversed as often as they may.        *)
AtEnd == \/ walk.at \in g.terminal
         \/ Outgoing(walk.at) # {} /\ \A e \in Outgoing(walk.at) : ~Open(e)
WalkEnds == phase = "walk" ~> AtEnd

(* The checks are sound and complete, and what they report is real.        *)
ChecksExact == TypeOK /\ VerdictsExact /\ WitnessIsReal
=============================================================================
