----------------------- MODULE GraphValidationProofs -----------------------
(***************************************************************************)
(* Proofs about GraphValidation: that the searches of the graph checks are *)
(* exact for every graph, and that a walk of a graph that passed them is   *)
(* never at its privileged target before it has crossed every checkpoint,  *)
(* each in its turn.                                                       *)
(***************************************************************************)
EXTENDS GraphValidation, FiniteSetTheorems, SequenceTheorems, TLAPS

(* What the checks read of an input i, as operators of the input alone: it *)
(* never changes, so that what is said of it holds in every state.         *)
Nodes(i) == i.graph.nodes
Origin(i) == i.graph.start
Around(i) == Nodes(i) \cup {Origin(i)}
To(i, n) ==
    {Destination(e) : e \in {e \in i.graph.edges : /\ Source(e) = n
                                                   /\ {n, Destination(e)} \subseteq Nodes(i)}}
Free(i) == Nodes(i) \ DOMAIN i.graph.nodeBound
FreeTo(i, n) ==
    {Destination(e) : e \in {e \in i.graph.edges : /\ Source(e) = n
                                                   /\ {n, Destination(e)} \subseteq Nodes(i)}
                            \ DOMAIN i.graph.edgeBound} \cap Free(i)
Marks(i) == ToSet(i.checkpoints)
Place(i, n) == IF n \in Marks(i) THEN CHOOSE k \in DOMAIN i.checkpoints : i.checkpoints[k] = n
               ELSE 0
Ahead(i, n, k) == Place(i, n) > k + 1
Onward(i, n, k) == IF Place(i, n) = k + 1 THEN k + 1 ELSE k
Crossed(i, k) == {i.checkpoints[j] : j \in 1..k}

(* What the model reads of its input, by the name used here.               *)
LEMMA InputIs ==
    /\ g.nodes = Nodes(input) /\ g.start = Origin(input) /\ Known = Around(input)
    /\ Checkpoints = Marks(input) /\ Unbounded = Free(input)
    /\ \A n : Ends(n) = To(input, n)
    /\ \A n : Successors(n) = FreeTo(input, n)
    /\ \A n : Position(n) = Place(input, n)
    /\ \A n, k : TooEarly(n, k) <=> Ahead(input, n, k)
    /\ \A n, k : Advance(n, k) = Onward(input, n, k)
<1>1. /\ g.nodes = Nodes(input) /\ g.start = Origin(input) /\ Known = Around(input)
      /\ Checkpoints = Marks(input) /\ Unbounded = Free(input)
  BY DEF g, Nodes, Origin, Known, Around, Checkpoints, Marks, Unbounded, Free
<1>2. \A n : Ends(n) = To(input, n)
  BY DEF Ends, To, Outgoing, g, Nodes
<1>3. \A n : Successors(n) = FreeTo(input, n)
  BY <1>1 DEF Successors, FreeTo, Outgoing, g, Nodes
<1>4. \A n : Position(n) = Place(input, n)
  BY <1>1 DEF Position, Place
<1>5. QED
  BY <1>1, <1>2, <1>3, <1>4 DEF TooEarly, Ahead, Advance, Onward

(* What InputsAssumption says of an input.                                 *)
LEMMA InputParts ==
    ASSUME NEW i \in Inputs
    PROVE  /\ IsFiniteSet(Nodes(i))
           /\ i.checkpoints \in Seq(Nodes(i))
           /\ i.target \notin Marks(i) /\ Marks(i) \subseteq Nodes(i)
           /\ \A a, b \in 1..Len(i.checkpoints) : i.checkpoints[a] = i.checkpoints[b] => a = b
<1>1. /\ IsFiniteSet(Nodes(i)) /\ i.checkpoints \in Seq(Nodes(i) \ {i.target})
      /\ IsInjective(i.checkpoints)
  BY InputsAssumption DEF Nodes
<1>2. DOMAIN i.checkpoints = 1..Len(i.checkpoints)
      /\ \A k \in 1..Len(i.checkpoints) : i.checkpoints[k] \in Nodes(i) \ {i.target}
  BY <1>1
<1>3. \A a, b \in 1..Len(i.checkpoints) : i.checkpoints[a] = i.checkpoints[b] => a = b
  BY <1>1, <1>2 DEF IsInjective
<1>4. i.checkpoints \in Seq(Nodes(i))
  BY <1>1
<1>5. QED
  BY <1>1, <1>2, <1>3, <1>4 DEF Marks, ToSet

(* The place of a node is where it stands among the checkpoints, or zero.  *)
LEMMA PlaceIs ==
    ASSUME NEW i \in Inputs, NEW n
    PROVE  /\ n \notin Marks(i) => Place(i, n) = 0
           /\ n \in Marks(i) => /\ Place(i, n) \in 1..Len(i.checkpoints)
                                /\ i.checkpoints[Place(i, n)] = n
           /\ Place(i, n) \in 0..Len(i.checkpoints)
           /\ \A j \in 1..Len(i.checkpoints) :
                 i.checkpoints[j] = n => n \in Marks(i) /\ Place(i, n) = j
<1>1. DOMAIN i.checkpoints = 1..Len(i.checkpoints) /\ Len(i.checkpoints) \in Nat
  BY InputParts
<1>2. n \in Marks(i) => /\ Place(i, n) \in 1..Len(i.checkpoints)
                        /\ i.checkpoints[Place(i, n)] = n
  <2>1. SUFFICES ASSUME n \in Marks(i)
                 PROVE  Place(i, n) \in 1..Len(i.checkpoints) /\ i.checkpoints[Place(i, n)] = n
    OBVIOUS
  <2>2. \E k \in DOMAIN i.checkpoints : i.checkpoints[k] = n
    BY <2>1 DEF Marks, ToSet
  <2>3. QED
    BY <1>1, <2>1, <2>2 DEF Place
<1>3. \A j \in 1..Len(i.checkpoints) : i.checkpoints[j] = n => n \in Marks(i)
  BY <1>1 DEF Marks, ToSet
<1>4. n \notin Marks(i) => Place(i, n) = 0
  BY DEF Place
<1>5. \A j \in 1..Len(i.checkpoints) : i.checkpoints[j] = n => n \in Marks(i) /\ Place(i, n) = j
  BY <1>2, <1>3, InputParts
<1>6. QED
  BY <1>1, <1>2, <1>4, <1>5

(* A node that does not come too early is the next checkpoint, or adds     *)
(* none to those crossed.                                                  *)
LEMMA OnwardIs ==
    ASSUME NEW i \in Inputs, NEW n, NEW k \in 0..Len(i.checkpoints), ~Ahead(i, n, k)
    PROVE  /\ Onward(i, n, k) \in 0..Len(i.checkpoints)
           /\ Crossed(i, Onward(i, n, k)) = Crossed(i, k) \cup ({n} \cap Marks(i))
<1> DEFINE c == i.checkpoints
<1>1. Len(c) \in Nat
  BY InputParts
<1>2. CASE Place(i, n) = k + 1
  <2>1. n \in Marks(i) /\ k + 1 \in 1..Len(c) /\ c[k + 1] = n
    BY <1>2, PlaceIs, <1>1
  <2>2. 1..(k + 1) = (1..k) \cup {k + 1}
    BY <1>1
  <2>3. Crossed(i, k + 1) = Crossed(i, k) \cup {c[k + 1]}
    BY <2>2 DEF Crossed
  <2>4. QED
    BY <1>2, <2>1, <2>3 DEF Onward
<1>3. CASE Place(i, n) # k + 1
  <2>1. Place(i, n) \in 0..k
    BY <1>3, <1>1, PlaceIs DEF Ahead
  <2>2. n \in Marks(i) => n \in Crossed(i, k)
    <3>1. SUFFICES ASSUME n \in Marks(i) PROVE n \in Crossed(i, k)
      OBVIOUS
    <3>2. Place(i, n) \in 1..k /\ c[Place(i, n)] = n
      BY <2>1, <3>1, PlaceIs, <1>1
    <3>3. QED
      BY <3>2 DEF Crossed
  <2>3. QED
    BY <1>3, <2>2 DEF Onward
<1>4. QED
  BY <1>2, <1>3

(* The checkpoints crossed grow one by one, up to all of them.             *)
LEMMA CrossedAll ==
    ASSUME NEW i \in Inputs
    PROVE  /\ Crossed(i, Len(i.checkpoints)) = Marks(i)
           /\ Crossed(i, 0) = {}
           /\ \A k \in 0..Len(i.checkpoints) : Crossed(i, k) \subseteq Marks(i)
           /\ \A k \in 0..Len(i.checkpoints), j \in 1..Len(i.checkpoints) :
                 j > k => i.checkpoints[j] \notin Crossed(i, k)
<1>1. DOMAIN i.checkpoints = 1..Len(i.checkpoints) /\ Len(i.checkpoints) \in Nat
  BY InputParts
<1>2. Crossed(i, Len(i.checkpoints)) = Marks(i) /\ Crossed(i, 0) = {}
  BY <1>1 DEF Crossed, Marks, ToSet
<1>3. \A k \in 0..Len(i.checkpoints) : Crossed(i, k) \subseteq Marks(i)
  BY <1>1 DEF Crossed, Marks, ToSet
<1>4. ASSUME NEW k \in 0..Len(i.checkpoints), NEW j \in 1..Len(i.checkpoints), j > k,
             i.checkpoints[j] \in Crossed(i, k)
      PROVE  FALSE
  <2>1. PICK a \in 1..k : i.checkpoints[j] = i.checkpoints[a]
    BY <1>4 DEF Crossed
  <2>2. QED
    BY <1>1, <1>4, <2>1, InputParts
<1>5. QED
  BY <1>2, <1>3, <1>4

(* SetToSeq lists the members of a finite set.                             *)
LEMMA ListOf ==
    ASSUME NEW S, IsFiniteSet(S)
    PROVE  SetToSeq(S) \in Seq(S) /\ ToSet(SetToSeq(S)) = S
<1> DEFINE n == Cardinality(S)
<1>1. n \in Nat /\ ExistsBijection(1..n, S)
  BY FS_CardinalityType
<1>2. \E f \in [1..n -> S] : IsInjective(f)
  BY <1>1 DEF ExistsBijection, Bijection, Injection, IsInjective
<1>3. SetToSeq(S) \in [1..n -> S] /\ IsInjective(SetToSeq(S))
  BY <1>2 DEF SetToSeq
<1> DEFINE f == SetToSeq(S)
<1>4. f \in Injection(1..n, S)
  BY <1>3 DEF Injection, IsInjective
<1>5. IsFiniteSet(1..n) /\ Cardinality(1..n) = n
  BY <1>1, FS_Interval
<1> HIDE DEF f
<1>6. f \in Surjection(1..n, S)
  BY <1>4, <1>5, FS_Injection
<1>7. \A x \in S : \E k \in 1..n : f[k] = x
  BY <1>6 DEF Surjection
<1>8. f \in [1..n -> S]
  BY <1>3 DEF f
<1>9. f \in Seq(S) /\ DOMAIN f = 1..n
  BY <1>1, <1>8
<1>10. ToSet(f) = S
  BY <1>7, <1>8, <1>9 DEF ToSet
<1>11. QED
  BY <1>9, <1>10 DEF f

(* Edges lead from nodes to nodes.                                         *)
LEMMA ToIs ==
    ASSUME NEW i \in Inputs, NEW n
    PROVE  /\ To(i, n) \subseteq Nodes(i)
           /\ To(i, n) # {} => n \in Nodes(i)
           /\ FreeTo(i, n) \subseteq Free(i)
           /\ \A S \in SUBSET To(i, n) : IsFiniteSet(S)
<1>1. To(i, n) \subseteq Nodes(i) /\ (To(i, n) # {} => n \in Nodes(i))
  BY DEF To
<1>2. \A S \in SUBSET To(i, n) : IsFiniteSet(S)
  BY <1>1, InputParts, FS_Subset
<1>3. QED
  BY <1>1, <1>2 DEF FreeTo

(* What the checks look for (Closed, HasUnreachable, HasCycle, HasBypass). *)
Shut(i, X, banned) == Origin(i) \in X /\ \A n \in X : To(i, n) \ banned \subseteq X
Unreached(i) ==
    Origin(i) \in Nodes(i) /\ \E X \in (SUBSET Nodes(i)) \ {Nodes(i)} : Shut(i, X, {})
Turns(i, X) == \A n \in X : FreeTo(i, n) \cap X # {}
Turned(i) == \E X \in (SUBSET Free(i)) \ {{}} : Turns(i, X)
Avoidable(i, c) == \E X \in SUBSET (Around(i) \ {c}) : Shut(i, X, {c}) /\ i.target \notin X
Bypassed(i) == \E c \in Marks(i) \ {Origin(i)} : ~Avoidable(i, c)

(* What the checks look for, over the input alone.                         *)
LEMMA ConditionsAre ==
    /\ HasUnreachable <=> Unreached(input)
    /\ HasCycle <=> Turned(input)
    /\ HasBypass <=> Bypassed(input)
<1>1. \A X, B : Closed(X, B) <=> Shut(input, X, B)
  BY InputIs DEF Closed, Shut
<1>2. HasUnreachable <=> Unreached(input)
  BY <1>1, InputIs DEF HasUnreachable, Unreached
<1>3. HasCycle <=> Turned(input)
  BY InputIs DEF HasCycle, Turned, Turns
<1>4. HasBypass <=> Bypassed(input)
  BY <1>1, InputIs DEF HasBypass, Bypassed, Avoidable
<1>5. QED
  BY <1>2, <1>3, <1>4

(* The search of what is reachable.                                        *)
Reaching(i, todo, seen) ==
    /\ todo \subseteq Nodes(i) /\ seen \subseteq Nodes(i)
    /\ Origin(i) \in Nodes(i) => Origin(i) \in todo \cup seen
    /\ \A n \in seen : To(i, n) \subseteq todo \cup seen
    /\ \A X : Shut(i, X, {}) => todo \cup seen \subseteq X

(* The search of what is reachable keeps its invariant when it takes a     *)
(* node.                                                                   *)
LEMMA ReachStep ==
    ASSUME NEW i \in Inputs, NEW todo, NEW seen, NEW n \in todo, Reaching(i, todo, seen)
    PROVE  Reaching(i, (todo \ {n}) \cup IF n \in seen THEN {} ELSE To(i, n), seen \cup {n})
<1> DEFINE t == (todo \ {n}) \cup IF n \in seen THEN {} ELSE To(i, n)
<1> DEFINE s == seen \cup {n}
<1>1. t \subseteq Nodes(i) /\ s \subseteq Nodes(i)
  BY ToIs DEF Reaching
<1>2. todo \cup seen \subseteq t \cup s
  OBVIOUS
<1>3. \A m \in s : To(i, m) \subseteq t \cup s
  <2>1. SUFFICES ASSUME NEW m \in s PROVE To(i, m) \subseteq t \cup s
    OBVIOUS
  <2>2. CASE m \in seen
    BY <1>2, <2>2 DEF Reaching
  <2>3. CASE m \notin seen
    BY <2>3
  <2>4. QED
    BY <2>2, <2>3
<1>4. \A X : Shut(i, X, {}) => t \cup s \subseteq X
  <2>1. SUFFICES ASSUME NEW X, Shut(i, X, {}) PROVE t \cup s \subseteq X
    OBVIOUS
  <2>2. todo \cup seen \subseteq X
    BY <2>1 DEF Reaching
  <2>3. To(i, n) \subseteq X
    BY <2>1, <2>2 DEF Shut
  <2>4. QED
    BY <2>2, <2>3
<1>5. QED
  BY <1>1, <1>2, <1>3, <1>4 DEF Reaching

(* With nothing left to take it has seen every node exactly when none is   *)
(* unreachable.                                                            *)
LEMMA ReachEnd ==
    ASSUME NEW i \in Inputs, NEW seen, Reaching(i, {}, seen)
    PROVE  (Origin(i) \in Nodes(i) => Nodes(i) \subseteq seen) <=> ~Unreached(i)
<1>1. ASSUME Origin(i) \in Nodes(i), Nodes(i) \subseteq seen, Unreached(i) PROVE FALSE
  BY <1>1 DEF Reaching, Unreached
<1>2. ASSUME Origin(i) \in Nodes(i), ~(Nodes(i) \subseteq seen) PROVE Unreached(i)
  <2>1. Shut(i, seen, {})
    BY <1>2 DEF Reaching, Shut
  <2>2. seen \in (SUBSET Nodes(i)) \ {Nodes(i)}
    BY <1>2 DEF Reaching
  <2>3. QED
    BY <1>2, <2>1, <2>2 DEF Unreached
<1>3. QED
  BY <1>1, <1>2 DEF Unreached

(* The search of a cycle without a bound, over the calls under way.        *)
Frames(i) == [node : Free(i), todo : SUBSET Free(i)]
Called(stack) == {stack[j].node : j \in DOMAIN stack}

Visits(i, todo, seen, stack) ==
    /\ todo \subseteq Free(i) /\ seen \subseteq Free(i) /\ stack \in Seq(Frames(i))
    /\ Free(i) \subseteq todo \cup seen \cup Called(stack)
    /\ \A j \in 1..Len(stack) : \A n \in FreeTo(i, stack[j].node) :
          \/ n \in stack[j].todo \cup seen
          \/ j < Len(stack) /\ n = stack[j + 1].node
    /\ \A j \in 1..Len(stack) : stack[j].todo \subseteq FreeTo(i, stack[j].node)
    /\ \A j \in 1..Len(stack) :
          j < Len(stack) => stack[j + 1].node \in FreeTo(i, stack[j].node)
    /\ \A X \in SUBSET Free(i) : Turns(i, X) => X \cap seen = {}

(* The search of a cycle begins with every unbounded node to visit.        *)
LEMMA VisitsBegin ==
    ASSUME NEW i \in Inputs
    PROVE  Visits(i, Free(i), {}, <<>>)
BY DEF Visits, Called

(* It keeps its invariant when it visits a node from outside,              *)
LEMMA VisitsRoot ==
    ASSUME NEW i \in Inputs, NEW todo, NEW seen, NEW n \in todo, Visits(i, todo, seen, <<>>)
    PROVE  /\ n \in seen => Visits(i, todo \ {n}, seen, <<>>)
           /\ Visits(i, todo \ {n}, seen, <<[node |-> n, todo |-> FreeTo(i, n)]>>)
<1>1. Called(<<>>) = {}
  BY DEF Called
<1>2. n \in seen => Visits(i, todo \ {n}, seen, <<>>)
  BY <1>1 DEF Visits
<1> DEFINE f == [node |-> n, todo |-> FreeTo(i, n)]
<1>3. f \in Frames(i) /\ f.node = n /\ f.todo = FreeTo(i, n)
  BY ToIs DEF Visits, Frames
<1> HIDE DEF f
<1>4. /\ <<f>> \in Seq(Frames(i)) /\ Len(<<f>>) = 1 /\ DOMAIN <<f>> = 1..1 /\ <<f>>[1] = f
  BY <1>3
<1>5. Called(<<f>>) = {n}
  BY <1>3, <1>4 DEF Called
<1>6. Visits(i, todo \ {n}, seen, <<f>>)
  BY <1>1, <1>3, <1>4, <1>5 DEF Visits
<1>7. QED
  BY <1>2, <1>6 DEF f

(* when a call goes on to the next successor of its node,                  *)
LEMMA VisitsNext ==
    ASSUME NEW i \in Inputs, NEW todo, NEW seen, NEW stack, Visits(i, todo, seen, stack),
           stack # <<>>, NEW n \in stack[Len(stack)].todo
    PROVE  LET rest == [stack EXCEPT ![Len(stack)].todo = @ \ {n}]
           IN  /\ n \in seen => Visits(i, todo, seen, rest)
               /\ Visits(i, todo, seen, Append(rest, [node |-> n, todo |-> FreeTo(i, n)]))
<1> DEFINE l == Len(stack)
<1> DEFINE rest == [stack EXCEPT ![l].todo = @ \ {n}]
<1> DEFINE f == [node |-> n, todo |-> FreeTo(i, n)]
<1>1. /\ stack \in Seq(Frames(i)) /\ l \in Nat /\ l >= 1 /\ DOMAIN stack = 1..l
      /\ \A j \in 1..l : stack[j] \in Frames(i) /\ stack[j].node \in Free(i)
                                                /\ stack[j].todo \subseteq Free(i)
  <2>1. stack \in Seq(Frames(i))
    BY DEF Visits
  <2>2. l \in Nat /\ l >= 1 /\ DOMAIN stack = 1..l /\ \A j \in 1..l : stack[j] \in Frames(i)
    BY <2>1
  <2>3. QED
    BY <2>1, <2>2 DEF Frames
<1>0. stack[l].todo = stack[Len(stack)].todo /\ l = Len(stack)
  OBVIOUS
<1> HIDE DEF l
<1>2. /\ rest \in Seq(Frames(i)) /\ Len(rest) = l /\ DOMAIN rest = 1..l
      /\ \A j \in 1..l : rest[j].node = stack[j].node
      /\ \A j \in 1..l : j # l => rest[j].todo = stack[j].todo
      /\ rest[l].todo = stack[l].todo \ {n}
  <2>1. PICK top : top = [stack[l] EXCEPT !.todo = @ \ {n}]
    OBVIOUS
  <2>2. top \in Frames(i) /\ top.node = stack[l].node /\ top.todo = stack[l].todo \ {n}
    BY <1>1, <2>1 DEF Frames
  <2>3. rest = [stack EXCEPT ![l] = top]
    BY <2>1
  <2>0. stack \in [1..l -> Frames(i)] /\ l \in 1..l
    BY <1>1
  <2> HIDE DEF rest
  <2>4. /\ rest \in [1..l -> Frames(i)] /\ rest[l] = top
        /\ \A j \in 1..l : j # l => rest[j] = stack[j]
    BY <2>0, <2>2, <2>3
  <2>5. rest \in Seq(Frames(i)) /\ Len(rest) = l /\ DOMAIN rest = 1..l
    BY <1>1, <2>4
  <2>6. QED
    BY <2>2, <2>4, <2>5
<1> HIDE DEF rest
<1>3. Called(rest) = Called(stack)
  BY <1>1, <1>2 DEF Called
<1>4. n \in FreeTo(i, stack[l].node) /\ n \in Free(i)
  <2>1. l \in 1..Len(stack) /\ n \in stack[l].todo
    BY <1>0, <1>1
  <2>2. n \in FreeTo(i, stack[l].node)
    BY <2>1 DEF Visits
  <2>3. QED
    BY <2>2, ToIs
<1>5. \A j \in 1..l : \A m \in FreeTo(i, rest[j].node) :
          \/ m \in rest[j].todo \cup seen \cup {n}
          \/ j < l /\ m = rest[j + 1].node
  <2>1. SUFFICES ASSUME NEW j \in 1..l, NEW m \in FreeTo(i, rest[j].node)
                 PROVE  \/ m \in rest[j].todo \cup seen \cup {n}
                        \/ j < l /\ m = rest[j + 1].node
    OBVIOUS
  <2>2. m \in FreeTo(i, stack[j].node)
    BY <1>2, <2>1
  <2>3. \/ m \in stack[j].todo \cup seen
        \/ j < l /\ m = stack[j + 1].node
    BY <1>0, <2>1, <2>2 DEF Visits
  <2>4. stack[j].todo \subseteq rest[j].todo \cup {n}
    BY <1>2, <2>1
  <2>5. ASSUME j < l PROVE rest[j + 1].node = stack[j + 1].node
    <3>1. j + 1 \in 1..l
      BY <1>1, <2>1, <2>5
    <3>2. QED
      BY <1>2, <3>1
  <2>6. QED
    BY <2>3, <2>4, <2>5
<1>6. \A j \in 1..l : j < l => \A m \in FreeTo(i, rest[j].node) :
          \/ m \in rest[j].todo \cup seen
          \/ j < l /\ m = rest[j + 1].node
  <2>1. SUFFICES ASSUME NEW j \in 1..l, j < l, NEW m \in FreeTo(i, rest[j].node)
                 PROVE  \/ m \in rest[j].todo \cup seen
                        \/ m = rest[j + 1].node
    OBVIOUS
  <2>2. j + 1 \in 1..l /\ j # l
    BY <1>1, <2>1
  <2>3. rest[j].node = stack[j].node /\ rest[j].todo = stack[j].todo
        /\ rest[j + 1].node = stack[j + 1].node
    BY <1>2, <2>1, <2>2
  <2>4. QED
    BY <1>0, <2>1, <2>3 DEF Visits
<1>7. \A j \in 1..l : rest[j].todo \subseteq FreeTo(i, rest[j].node)
  BY <1>0, <1>1, <1>2 DEF Visits
<1>8. \A j \in 1..l : j < l => rest[j + 1].node \in FreeTo(i, rest[j].node)
  <2>1. SUFFICES ASSUME NEW j \in 1..l, j < l PROVE rest[j + 1].node \in FreeTo(i, rest[j].node)
    OBVIOUS
  <2>2. j + 1 \in 1..l
    BY <1>1, <2>1
  <2>3. QED
    BY <1>0, <1>2, <2>1, <2>2 DEF Visits
<1>9. ASSUME n \in seen PROVE Visits(i, todo, seen, rest)
  <2>1. \A j \in 1..Len(rest) : \A m \in FreeTo(i, rest[j].node) :
           \/ m \in rest[j].todo \cup seen
           \/ j < Len(rest) /\ m = rest[j + 1].node
    BY <1>2, <1>5, <1>9
  <2>2. QED
    BY <1>2, <1>3, <1>7, <1>8, <2>1 DEF Visits
<1>10. f \in Frames(i) /\ f.node = n /\ f.todo = FreeTo(i, n)
  BY <1>4, ToIs DEF Frames
<1> HIDE DEF f
<1> DEFINE more == Append(rest, f)
<1>11. /\ more \in Seq(Frames(i)) /\ Len(more) = l + 1 /\ DOMAIN more = 1..(l + 1)
       /\ \A j \in 1..l : more[j] = rest[j]
       /\ more[l + 1] = f
  <2>1. rest \in Seq(Frames(i)) /\ Len(rest) = l /\ f \in Frames(i) /\ l \in Nat
    BY <1>1, <1>2, <1>10
  <2>2. more \in Seq(Frames(i)) /\ Len(more) = l + 1
    BY <2>1
  <2>3. \A j \in 1..l : more[j] = rest[j]
    BY <2>1
  <2>4. more[l + 1] = f
    BY <2>1
  <2> HIDE DEF more
  <2>5. DOMAIN more = 1..(l + 1)
    BY <2>2
  <2>6. QED
    BY <2>2, <2>3, <2>4, <2>5
<1> HIDE DEF more
<1>12. Called(rest) \subseteq Called(more)
  <2>1. \A j \in 1..l : j \in 1..(l + 1)
    BY <1>1
  <2>2. QED
    BY <1>2, <1>11, <2>1 DEF Called
<1>13. \A j \in 1..Len(more) : \A m \in FreeTo(i, more[j].node) :
           \/ m \in more[j].todo \cup seen
           \/ j < Len(more) /\ m = more[j + 1].node
  <2>1. SUFFICES ASSUME NEW j \in 1..(l + 1), NEW m \in FreeTo(i, more[j].node)
                 PROVE  \/ m \in more[j].todo \cup seen
                        \/ j < l + 1 /\ m = more[j + 1].node
    BY <1>11
  <2>2. CASE j = l + 1
    BY <1>10, <1>11, <2>1, <2>2
  <2>3. CASE j = l
    BY <1>1, <1>5, <1>10, <1>11, <2>1, <2>3
  <2>4. CASE j < l
    <3>1. j \in 1..l /\ j + 1 \in 1..l /\ more[j] = rest[j] /\ more[j + 1] = rest[j + 1]
      BY <1>1, <1>11, <2>1, <2>4
    <3>2. QED
      BY <1>1, <1>6, <2>1, <2>4, <3>1
  <2>5. j = l + 1 \/ j = l \/ j < l
    BY <1>1, <2>1
  <2>6. QED
    BY <2>2, <2>3, <2>4, <2>5
<1>14. \A j \in 1..Len(more) : more[j].todo \subseteq FreeTo(i, more[j].node)
  <2>1. \A j \in 1..(l + 1) : j \in 1..l \/ j = l + 1
    BY <1>1
  <2>2. QED
    BY <1>7, <1>10, <1>11, <2>1
<1>15. \A j \in 1..Len(more) : j < Len(more) => more[j + 1].node \in FreeTo(i, more[j].node)
  <2>1. SUFFICES ASSUME NEW j \in 1..l PROVE more[j + 1].node \in FreeTo(i, more[j].node)
    BY <1>1, <1>11
  <2>2. CASE j = l
    BY <1>2, <1>4, <1>10, <1>11, <2>1, <2>2
  <2>3. CASE j < l
    <3>1. j + 1 \in 1..l
      BY <1>1, <2>1, <2>3
    <3>2. QED
      BY <1>8, <1>11, <2>1, <2>3, <3>1
  <2>4. j = l \/ j < l
    BY <1>1, <2>1
  <2>5. QED
    BY <2>2, <2>3, <2>4
<1>16. Visits(i, todo, seen, more)
  BY <1>3, <1>11, <1>12, <1>13, <1>14, <1>15 DEF Visits
<1>17. QED
  BY <1>0, <1>9, <1>16 DEF rest, more, f

(* and when a call returns: its node leads only to nodes that were left    *)
(* before.                                                                 *)
LEMMA VisitsLeave ==
    ASSUME NEW i \in Inputs, NEW todo, NEW seen, NEW stack, Visits(i, todo, seen, stack),
           stack # <<>>, stack[Len(stack)].todo = {}
    PROVE  Visits(i, todo, seen \cup {stack[Len(stack)].node}, Front(stack))
<1> DEFINE l == Len(stack)
<1> DEFINE n == stack[l].node
<1> DEFINE s == seen \cup {n}
<1> DEFINE rest == Front(stack)
<1>1. /\ stack \in Seq(Frames(i)) /\ l \in Nat /\ l >= 1 /\ DOMAIN stack = 1..l
      /\ \A j \in 1..l : stack[j] \in Frames(i) /\ stack[j].node \in Free(i)
                                                /\ stack[j].todo \subseteq Free(i)
  <2>1. stack \in Seq(Frames(i))
    BY DEF Visits
  <2>2. l \in Nat /\ l >= 1 /\ DOMAIN stack = 1..l /\ \A j \in 1..l : stack[j] \in Frames(i)
    BY <2>1
  <2>3. QED
    BY <2>1, <2>2 DEF Frames
<1>0. l = Len(stack) /\ stack[l].todo = {} /\ n = stack[l].node /\ s = seen \cup {n}
  OBVIOUS
<1>2. /\ rest \in Seq(Frames(i)) /\ Len(rest) = l - 1 /\ DOMAIN rest = 1..(l - 1)
      /\ \A j \in 1..(l - 1) : rest[j] = stack[j]
  <2>1. rest = [j \in 1..(l - 1) |-> stack[j]]
    BY <1>1 DEF Front
  <2>2. \A j \in 1..(l - 1) : j \in 1..l
    BY <1>1
  <2>3. rest \in [1..(l - 1) -> Frames(i)] /\ l - 1 \in Nat
    BY <1>1, <2>1, <2>2
  <2> HIDE DEF rest
  <2>4. rest \in Seq(Frames(i)) /\ Len(rest) = l - 1 /\ DOMAIN rest = 1..(l - 1)
    BY <2>3
  <2>5. QED
    BY <2>1, <2>4
<1> HIDE DEF l, n, s, rest
<1>3. n \in Free(i)
  BY <1>0, <1>1
<1>4. Called(stack) = Called(rest) \cup {n}
  <2>1. \A j \in 1..l : j \in 1..(l - 1) \/ j = l
    BY <1>1
  <2>2. \A j \in 1..(l - 1) : j \in 1..l
    BY <1>1
  <2>3. l \in 1..l
    BY <1>1
  <2>4. QED
    BY <1>0, <1>1, <1>2, <2>1, <2>2, <2>3 DEF Called
<1>5. \A j \in 1..(l - 1) : j \in 1..Len(stack) /\ j < Len(stack)
  BY <1>0, <1>1
<1>6. \A j \in 1..Len(rest) : \A m \in FreeTo(i, rest[j].node) :
          \/ m \in rest[j].todo \cup s
          \/ j < Len(rest) /\ m = rest[j + 1].node
  <2>1. SUFFICES ASSUME NEW j \in 1..(l - 1), NEW m \in FreeTo(i, stack[j].node)
                 PROVE  \/ m \in stack[j].todo \cup s
                        \/ j < l - 1 /\ m = rest[j + 1].node
    BY <1>2
  <2>2. m \in stack[j].todo \cup seen \/ m = stack[j + 1].node
    BY <1>5, <2>1 DEF Visits
  <2>3. CASE m \in stack[j].todo \cup seen
    BY <1>0, <2>3
  <2>4. CASE m = stack[j + 1].node
    <3>1. CASE j = l - 1
      <4>1. j + 1 = l
        BY <1>1, <3>1
      <4>2. QED
        BY <1>0, <2>4, <4>1
    <3>2. CASE j # l - 1
      <4>1. j + 1 \in 1..(l - 1) /\ j < l - 1
        BY <1>1, <2>1, <3>2
      <4>2. QED
        BY <1>2, <2>4, <4>1
    <3>3. QED
      BY <3>1, <3>2
  <2>5. QED
    BY <2>2, <2>3, <2>4
<1>7. \A j \in 1..Len(rest) : rest[j].todo \subseteq FreeTo(i, rest[j].node)
  BY <1>2, <1>5 DEF Visits
<1>8. \A j \in 1..Len(rest) : j < Len(rest) => rest[j + 1].node \in FreeTo(i, rest[j].node)
  <2>1. SUFFICES ASSUME NEW j \in 1..(l - 1), j < l - 1
                 PROVE  rest[j + 1].node \in FreeTo(i, rest[j].node)
    BY <1>2
  <2>2. j + 1 \in 1..(l - 1)
    BY <1>1, <2>1
  <2>3. rest[j] = stack[j] /\ rest[j + 1] = stack[j + 1]
    BY <1>2, <2>1, <2>2
  <2>4. QED
    BY <1>5, <2>1, <2>3 DEF Visits
<1>9. FreeTo(i, n) \subseteq seen
  <2>1. l \in 1..Len(stack) /\ ~(l < Len(stack))
    BY <1>0, <1>1
  <2>2. QED
    BY <1>0, <2>1 DEF Visits
<1>10. \A X \in SUBSET Free(i) : Turns(i, X) => X \cap s = {}
  BY <1>0, <1>9 DEF Visits, Turns
<1>11. Visits(i, todo, s, rest)
  <2>1. todo \subseteq Free(i) /\ s \subseteq Free(i) /\ Free(i) \subseteq todo \cup s \cup Called(rest)
    BY <1>0, <1>3, <1>4 DEF Visits
  <2>2. QED
    BY <1>2, <1>6, <1>7, <1>8, <1>10, <2>1 DEF Visits
<1>12. QED
  BY <1>11 DEF l, n, s, rest

(* At its end there is no cycle; a successor that is being visited closes  *)
(* one.                                                                    *)
LEMMA VisitsEnd ==
    ASSUME NEW i \in Inputs, NEW todo, NEW seen, NEW stack, Visits(i, todo, seen, stack)
    PROVE  /\ stack = <<>> /\ todo = {} => ~Turned(i)
           /\ \A n \in Called(stack) :
                 stack # <<>> /\ n \in stack[Len(stack)].todo => Turned(i)
<1>1. ASSUME stack = <<>>, todo = {} PROVE ~Turned(i)
  <2>1. Called(stack) = {}
    BY <1>1 DEF Called
  <2>2. Free(i) \subseteq seen
    BY <1>1, <2>1 DEF Visits
  <2>3. QED
    BY <2>2 DEF Visits, Turned
<1>2. ASSUME NEW n \in Called(stack), stack # <<>>, n \in stack[Len(stack)].todo
      PROVE  Turned(i)
  <2> DEFINE l == Len(stack)
  <2>1. stack \in Seq(Frames(i))
    BY DEF Visits
  <2>2. l \in Nat /\ l >= 1 /\ DOMAIN stack = 1..l /\ \A j \in 1..l : stack[j] \in Frames(i)
    BY <1>2, <2>1
  <2>3. \A j \in 1..l : stack[j].node \in Free(i)
    BY <2>2 DEF Frames
  <2>4. PICK b \in 1..l : n = stack[b].node
    BY <2>2 DEF Called
  <2>5. n \in FreeTo(i, stack[l].node)
    <3>1. l \in 1..Len(stack)
      BY <2>2
    <3>2. QED
      BY <1>2, <3>1 DEF Visits
  <2>0. l = Len(stack)
    OBVIOUS
  <2> HIDE DEF l
  <2>6. PICK X : X = {stack[j].node : j \in b..l}
    OBVIOUS
  <2>7. \A j \in b..l : j \in 1..l
    BY <2>2, <2>4
  <2>8. X \in SUBSET Free(i) /\ X # {}
    <3>1. b \in b..l
      BY <2>2, <2>4
    <3>2. QED
      BY <2>3, <2>6, <2>7, <3>1
  <2>9. Turns(i, X)
    <3>1. SUFFICES ASSUME NEW j \in b..l PROVE FreeTo(i, stack[j].node) \cap X # {}
      BY <2>6 DEF Turns
    <3>2. CASE j = l
      <4>1. b \in b..l
        BY <2>2, <2>4
      <4>2. QED
        BY <2>4, <2>5, <2>6, <3>2, <4>1
    <3>3. CASE j # l
      <4>1. j \in 1..Len(stack) /\ j < Len(stack) /\ j + 1 \in b..l
        BY <2>0, <2>2, <2>4, <3>1, <3>3
      <4>2. stack[j + 1].node \in FreeTo(i, stack[j].node)
        BY <4>1 DEF Visits
      <4>3. QED
        BY <2>6, <4>1, <4>2
    <3>4. QED
      BY <3>2, <3>3
  <2>10. QED
    BY <2>8, <2>9 DEF Turned
<1>3. QED
  BY <1>1, <1>2

(* The path of a search, and what it shows when it is reported.            *)
Walked(i, p) ==
    /\ p \in Seq(Around(i)) /\ p # <<>> /\ p[1] = Origin(i)
    /\ \A k \in 1..(Len(p) - 1) : p[k + 1] \in To(i, p[k])
Shown(i, p) ==
    p # <<>> =>
        /\ Walked(i, p)
        /\ \/ Last(p) = i.target /\ ~(Marks(i) \subseteq ToSet(p))
           \/ \E a \in 1..Len(i.checkpoints) :
                 /\ Last(p) = i.checkpoints[a]
                 /\ \E b \in 1..(a - 1) : i.checkpoints[b] \notin ToSet(p)

(* The path of the start alone.                                            *)
LEMMA WalkedStart ==
    ASSUME NEW i \in Inputs
    PROVE  /\ Walked(i, <<Origin(i)>>) /\ Last(<<Origin(i)>>) = Origin(i)
           /\ ToSet(<<Origin(i)>>) = {Origin(i)}
<1>1. Origin(i) \in Around(i)
  BY DEF Around
<1> HIDE DEF Origin, Around
<1>2. Walked(i, <<Origin(i)>>)
  BY <1>1 DEF Walked
<1>3. Last(<<Origin(i)>>) = Origin(i)
  BY DEF Last
<1>4. ToSet(<<Origin(i)>>) = {Origin(i)}
  BY DEF ToSet
<1>5. QED
  BY <1>2, <1>3, <1>4

(* A path has a last node.                                                 *)
LEMMA WalkedParts ==
    ASSUME NEW i \in Inputs, NEW p, Walked(i, p)
    PROVE  /\ Len(p) \in Nat /\ Len(p) >= 1 /\ DOMAIN p = 1..Len(p)
           /\ Last(p) = p[Len(p)] /\ Last(p) \in Around(i) /\ Last(p) \in ToSet(p)
<1>1. p \in Seq(Around(i)) /\ p # <<>>
  BY DEF Walked
<1>2. Len(p) \in Nat /\ Len(p) >= 1 /\ DOMAIN p = 1..Len(p)
  BY <1>1
<1>3. Last(p) = p[Len(p)]
  BY DEF Last
<1>4. Len(p) \in 1..Len(p)
  BY <1>2
<1>5. p[Len(p)] \in Around(i)
  BY <1>1, <1>4
<1>6. QED
  BY <1>2, <1>3, <1>4, <1>5 DEF ToSet

(* A path goes on along an edge of its last node.                          *)
LEMMA WalkedOn ==
    ASSUME NEW i \in Inputs, NEW p, Walked(i, p), NEW n \in To(i, Last(p))
    PROVE  /\ Walked(i, Append(p, n)) /\ Last(Append(p, n)) = n
           /\ ToSet(Append(p, n)) = ToSet(p) \cup {n}
<1> DEFINE l == Len(p)
<1> DEFINE q == Append(p, n)
<1>1. p \in Seq(Around(i)) /\ l \in Nat /\ l >= 1 /\ DOMAIN p = 1..l /\ Last(p) = p[l]
  BY WalkedParts DEF Walked
<1>2. n \in Around(i)
  BY ToIs DEF Around
<1>3. q \in Seq(Around(i)) /\ Len(q) = l + 1
  BY <1>1, <1>2
<1>4. q[l + 1] = n
  BY <1>1, <1>2
<1>5. \A k \in 1..l : q[k] = p[k]
  BY <1>1, <1>2
<1> HIDE DEF q
<1>6. DOMAIN q = 1..(l + 1)
  BY <1>3
<1>0. l = Len(p)
  OBVIOUS
<1> HIDE DEF l
<1>7. \A k \in 1..(l + 1) : k \in 1..l \/ k = l + 1
  BY <1>1
<1>8. l + 1 \in 1..(l + 1) /\ \A k \in 1..l : k \in 1..(l + 1)
  BY <1>1
<1>9. ToSet(q) = ToSet(p) \cup {n}
  BY <1>1, <1>4, <1>5, <1>6, <1>7, <1>8 DEF ToSet
<1>10. Last(q) = n
  BY <1>3, <1>4 DEF Last
<1>11. q # <<>> /\ q[1] = Origin(i)
  <2>1. 1 \in 1..l
    BY <1>1
  <2>2. p[1] = Origin(i)
    BY DEF Walked
  <2>3. QED
    BY <1>1, <1>3, <1>5, <2>1, <2>2
<1>12. ASSUME NEW k \in 1..(Len(q) - 1) PROVE q[k + 1] \in To(i, q[k])
  <2>1. k \in 1..l
    BY <1>1, <1>3, <1>12
  <2>2. CASE k = l
    BY <1>1, <1>4, <1>5, <2>1, <2>2
  <2>3. CASE k # l
    <3>1. k + 1 \in 1..l /\ k \in 1..(Len(p) - 1)
      BY <1>0, <1>1, <2>1, <2>3
    <3>2. p[k + 1] \in To(i, p[k])
      BY <3>1 DEF Walked
    <3>3. QED
      BY <1>5, <2>1, <3>1, <3>2
  <2>4. QED
    BY <2>2, <2>3
<1>13. Walked(i, q)
  BY <1>3, <1>11, <1>12 DEF Walked
<1>14. QED
  BY <1>9, <1>10, <1>13 DEF q

(* The search of a path that avoids a checkpoint, over the paths P in its  *)
(* queue.                                                                  *)
Detours(i, f) == {p \in Seq(Around(i)) : Walked(i, p) /\ f \notin ToSet(p)}
Frontier(i, seen, P, f) ==
    /\ Origin(i) \in seen /\ seen \subseteq Around(i) \ {f}
    /\ \A p \in P : Last(p) \in seen
    /\ \A n \in seen : \/ \E p \in P : Last(p) = n
                       \/ n # i.target /\ To(i, n) \ {f} \subseteq seen
    /\ \A X : Shut(i, X, {f}) => seen \subseteq X
Avoiding(i, todo, seen, P, f, e) ==
    /\ todo \subseteq Marks(i) /\ P \subseteq Detours(i, f)
    /\ P # {} => f \in Marks(i) \ {Origin(i)} /\ Frontier(i, seen, P, f)
    /\ \A c \in Marks(i) \ todo :
          "bypass" \in e \/ c = Origin(i) \/ Avoidable(i, c) \/ (P # {} /\ c = f)
    /\ "bypass" \in e => Bypassed(i)

(* The search of paths around the checkpoints begins with all of them.     *)
LEMMA AvoidBegin ==
    ASSUME NEW i \in Inputs, NEW seen, NEW f, NEW e, "bypass" \notin e
    PROVE  Avoiding(i, Marks(i), seen, {}, f, e)
BY DEF Avoiding

(* It keeps its invariant when it turns to the next checkpoint,            *)
LEMMA AvoidNext ==
    ASSUME NEW i \in Inputs, NEW todo, NEW seen, NEW f, NEW e,
           Avoiding(i, todo, seen, {}, f, e), NEW c \in todo
    PROVE  Avoiding(i, todo \ {c}, {Origin(i)},
                    IF c = Origin(i) THEN {} ELSE {<<Origin(i)>>}, c, e)
<1>1. CASE c = Origin(i)
  BY <1>1 DEF Avoiding
<1>2. CASE c # Origin(i)
  <2> DEFINE o == <<Origin(i)>>
  <2>1. Walked(i, o) /\ Last(o) = Origin(i) /\ ToSet(o) = {Origin(i)}
    BY WalkedStart
  <2> HIDE DEF o
  <2>2. o \in Detours(i, c)
    BY <1>2, <2>1 DEF Detours, Walked
  <2>3. Frontier(i, {Origin(i)}, {o}, c)
    BY <1>2, <2>1 DEF Frontier, Shut, Around
  <2>4. Avoiding(i, todo \ {c}, {Origin(i)}, {o}, c, e)
    BY <1>2, <2>2, <2>3 DEF Avoiding
  <2>5. QED
    BY <1>2, <2>4 DEF o
<1>3. QED
  BY <1>1, <1>2

(* when it extends a path: once the queue is empty, what it has seen is    *)
(* closed and shows that the checkpoint cannot be avoided,                 *)
LEMMA AvoidExtend ==
    ASSUME NEW i \in Inputs, NEW todo, NEW seen, NEW f, NEW e, NEW R, NEW p,
           Avoiding(i, todo, seen, {p} \cup R, f, e), Last(p) # i.target,
           NEW new, new = To(i, Last(p)) \ (seen \cup {f}),
           NEW more, \A q : q \in more <=> \E n \in new : q = Append(p, n)
    PROVE  Avoiding(i, todo, seen \cup new, R \cup more, f, e)
<1> DEFINE at == Last(p)
<1> DEFINE s == seen \cup new
<1> DEFINE Q == R \cup more
<1>1. /\ p \in Detours(i, f) /\ f \in Marks(i) \ {Origin(i)}
      /\ Frontier(i, seen, {p} \cup R, f)
  BY DEF Avoiding
<1>2. Walked(i, p) /\ f \notin ToSet(p) /\ at \in seen
  BY <1>1 DEF Detours, Frontier
<1>3. ASSUME NEW n \in new
      PROVE  Append(p, n) \in Detours(i, f) /\ Last(Append(p, n)) = n
  <2>1. Walked(i, Append(p, n)) /\ Last(Append(p, n)) = n
        /\ ToSet(Append(p, n)) = ToSet(p) \cup {n}
    BY <1>2, WalkedOn
  <2>2. QED
    BY <1>2, <2>1 DEF Detours, Walked
<1>4. Q \subseteq Detours(i, f)
  <2>1. R \subseteq Detours(i, f)
    BY DEF Avoiding
  <2>2. ASSUME NEW q \in more PROVE q \in Detours(i, f)
    <3>1. PICK n \in new : q = Append(p, n)
      BY <2>2
    <3>2. QED
      BY <1>3, <3>1
  <2>3. QED
    BY <2>1, <2>2
<1>5. s \subseteq Around(i) \ {f} /\ Origin(i) \in s
  BY <1>1, ToIs DEF Frontier, Around
<1>6. \A q \in Q : Last(q) \in s
  <2>1. \A q \in R : Last(q) \in seen
    BY <1>1 DEF Frontier
  <2>2. \A q \in more : Last(q) \in new
    <3>1. SUFFICES ASSUME NEW n \in new PROVE Last(Append(p, n)) \in new
      OBVIOUS
    <3>2. QED
      BY <1>3, <3>1
  <2>3. QED
    BY <2>1, <2>2
<1>7. ASSUME NEW n \in s
      PROVE  \/ \E q \in Q : Last(q) = n
             \/ n # i.target /\ To(i, n) \ {f} \subseteq s
  <2>1. CASE n \in new
    BY <1>3, <2>1
  <2>2. CASE n = at
    BY <2>2
  <2>3. CASE n \in seen /\ n # at
    BY <1>1, <2>3 DEF Frontier
  <2>4. QED
    BY <2>1, <2>2, <2>3
<1>8. ASSUME NEW X, Shut(i, X, {f}) PROVE s \subseteq X
  <2>1. seen \subseteq X
    BY <1>1, <1>8 DEF Frontier
  <2>2. To(i, at) \ {f} \subseteq X
    BY <1>2, <1>8, <2>1 DEF Shut
  <2>3. QED
    BY <2>1, <2>2
<1>9. Frontier(i, s, Q, f)
  BY <1>5, <1>6, <1>7, <1>8 DEF Frontier
<1>10. Q = {} => Avoidable(i, f)
  <2>1. ASSUME Q = {} PROVE Shut(i, s, {f}) /\ i.target \notin s
    BY <1>5, <1>7, <2>1 DEF Shut
  <2>2. QED
    BY <1>5, <2>1 DEF Avoidable
<1> HIDE DEF Q, s
<1>11. Avoiding(i, todo, s, Q, f, e)
  BY <1>1, <1>4, <1>9, <1>10 DEF Avoiding
<1>12. QED
  BY <1>11 DEF Q, s

(* and when it reports a path to the target.                               *)
LEMMA AvoidFound ==
    ASSUME NEW i \in Inputs, NEW todo, NEW seen, NEW f, NEW e, NEW P, NEW p \in P,
           Avoiding(i, todo, seen, P, f, e), Last(p) = i.target
    PROVE  Avoiding(i, todo, seen, {}, f, e \cup {"bypass"}) /\ Shown(i, p)
<1>1. p \in Detours(i, f) /\ f \in Marks(i) \ {Origin(i)} /\ Frontier(i, seen, P, f)
  BY DEF Avoiding
<1>2. i.target \in seen
  BY <1>1 DEF Frontier
<1>3. ~Avoidable(i, f)
  BY <1>1, <1>2 DEF Avoidable, Frontier
<1>4. Bypassed(i)
  BY <1>1, <1>3 DEF Bypassed
<1>5. Shown(i, p)
  BY <1>1 DEF Detours, Shown
<1>6. QED
  BY <1>4, <1>5 DEF Avoiding

(* With no checkpoint left it has reported a path exactly when there is    *)
(* one.                                                                    *)
LEMMA AvoidEnd ==
    ASSUME NEW i \in Inputs, NEW seen, NEW f, NEW e, Avoiding(i, {}, seen, {}, f, e)
    PROVE  "bypass" \in e <=> Bypassed(i)
BY DEF Avoiding, Bypassed

(* The search of a path out of order, over the entries P in its queue.     *)
Entries(i) ==
    {x \in [path : Seq(Around(i)), crossed : 0..Len(i.checkpoints)] :
        Walked(i, x.path) /\ Marks(i) \cap ToSet(x.path) = Crossed(i, x.crossed)}
Settled(i, S, n, k) ==
    \/ n = i.target /\ k = Len(i.checkpoints)
    \/ /\ n # i.target
       /\ \A m \in To(i, n) : ~Ahead(i, m, k) /\ <<m, Onward(i, m, k)>> \in S
Entered(i, S) == ~Ahead(i, Origin(i), 0) /\ <<Origin(i), Onward(i, Origin(i), 0)>> \in S
Ordering(i, seen, P, e) ==
    /\ P \subseteq Entries(i)
    /\ "order" \notin e =>
         /\ Entered(i, seen)
         /\ \A n, k : <<n, k>> \in seen =>
               \/ \E x \in P : Last(x.path) = n /\ x.crossed = k
               \/ Settled(i, seen, n, k)
Guarded(i, S) == Entered(i, S) /\ \A n, k : <<n, k>> \in S => Settled(i, S, n, k)

(* The search of paths out of order begins with the start,                 *)
LEMMA OrderBegin ==
    ASSUME NEW i \in Inputs, NEW e, ~Ahead(i, Origin(i), 0)
    PROVE  LET k == Onward(i, Origin(i), 0)
           IN  Ordering(i, {<<Origin(i), k>>}, {[path |-> <<Origin(i)>>, crossed |-> k]}, e)
<1> DEFINE k == Onward(i, Origin(i), 0)
<1> DEFINE o == <<Origin(i)>>
<1> DEFINE x == [path |-> o, crossed |-> k]
<1>1. Walked(i, o) /\ Last(o) = Origin(i) /\ ToSet(o) = {Origin(i)}
  BY WalkedStart
<1>2. 0 \in 0..Len(i.checkpoints)
  BY InputParts
<1>3. k \in 0..Len(i.checkpoints)
      /\ Crossed(i, k) = Crossed(i, 0) \cup ({Origin(i)} \cap Marks(i))
  BY <1>2, OnwardIs
<1>4. Crossed(i, k) = Marks(i) \cap {Origin(i)}
  BY <1>3, CrossedAll
<1> HIDE DEF o
<1>5. x.path = o /\ x.crossed = k /\ x \in [path : Seq(Around(i)), crossed : 0..Len(i.checkpoints)]
  BY <1>1, <1>3 DEF Walked
<1> HIDE DEF x
<1>6. x \in Entries(i)
  BY <1>1, <1>4, <1>5 DEF Entries
<1>7. Entered(i, {<<Origin(i), k>>})
  BY DEF Entered
<1>8. Ordering(i, {<<Origin(i), k>>}, {x}, e)
  BY <1>1, <1>5, <1>6, <1>7 DEF Ordering
<1>9. QED
  BY <1>8 DEF x, o

(* keeps its invariant when a path ends at the target with every           *)
(* checkpoint crossed,                                                     *)
LEMMA OrderPass ==
    ASSUME NEW i \in Inputs, NEW seen, NEW e, NEW R, NEW x,
           Ordering(i, seen, {x} \cup R, e),
           Last(x.path) = i.target, x.crossed = Len(i.checkpoints)
    PROVE  Ordering(i, seen, R, e)
BY DEF Ordering, Settled

(* and when it extends a path along edges to nodes that do not come too    *)
(* early.                                                                  *)
LEMMA OrderExtend ==
    ASSUME NEW i \in Inputs, NEW seen, NEW e, NEW R, NEW x,
           Ordering(i, seen, {x} \cup R, e), Last(x.path) # i.target,
           \A n \in To(i, Last(x.path)) : ~Ahead(i, n, x.crossed),
           NEW new, new = {n \in To(i, Last(x.path)) : <<n, Onward(i, n, x.crossed)>> \notin seen},
           NEW met, \A z : z \in met <=> \E n \in new : z = <<n, Onward(i, n, x.crossed)>>,
           NEW more, \A z : z \in more <=>
                          \E n \in new : z = [path |-> Append(x.path, n),
                                              crossed |-> Onward(i, n, x.crossed)]
    PROVE  Ordering(i, seen \cup met, R \cup more, e)
<1> DEFINE at == Last(x.path)
<1> DEFINE c == x.crossed
<1> DEFINE y(n) == [path |-> Append(x.path, n), crossed |-> Onward(i, n, c)]
<1> DEFINE s == seen \cup met
<1> DEFINE Q == R \cup more
<1>1. /\ x \in Entries(i) /\ R \subseteq Entries(i) /\ Walked(i, x.path)
      /\ c \in 0..Len(i.checkpoints) /\ Marks(i) \cap ToSet(x.path) = Crossed(i, c)
  BY DEF Ordering, Entries
<1>2. ASSUME NEW n \in new
      PROVE  /\ y(n) \in Entries(i) /\ Last(y(n).path) = n /\ y(n).crossed = Onward(i, n, c)
  <2> DEFINE q == Append(x.path, n)
  <2> DEFINE k == Onward(i, n, c)
  <2>1. Walked(i, q) /\ Last(q) = n /\ ToSet(q) = ToSet(x.path) \cup {n}
    BY <1>1, WalkedOn
  <2>2. k \in 0..Len(i.checkpoints) /\ Crossed(i, k) = Crossed(i, c) \cup ({n} \cap Marks(i))
    BY <1>1, OnwardIs
  <2>3. q \in Seq(Around(i))
    BY <2>1 DEF Walked
  <2> HIDE DEF q, k
  <2>4. PICK z : z = [path |-> q, crossed |-> k]
    OBVIOUS
  <2>5. z.path = q /\ z.crossed = k
        /\ z \in [path : Seq(Around(i)), crossed : 0..Len(i.checkpoints)]
    BY <2>2, <2>3, <2>4
  <2>6. z \in Entries(i)
    BY <1>1, <2>1, <2>2, <2>5 DEF Entries
  <2>7. QED
    BY <2>1, <2>4, <2>5, <2>6 DEF q, k
<1>0. \A z : z \in more <=> \E n \in new : z = y(n)
  OBVIOUS
<1> HIDE DEF y
<1>3. Q \subseteq Entries(i)
  <2>1. ASSUME NEW z \in more PROVE z \in Entries(i)
    <3>1. PICK n \in new : z = y(n)
      BY <1>0, <2>1
    <3>2. QED
      BY <1>2, <3>1
  <2>2. QED
    BY <1>1, <2>1
<1>4. ASSUME "order" \notin e PROVE Entered(i, s)
  BY <1>4 DEF Ordering, Entered
<1>5. ASSUME "order" \notin e, NEW n, NEW k, <<n, k>> \in s
      PROVE  \/ \E z \in Q : Last(z.path) = n /\ z.crossed = k
             \/ Settled(i, s, n, k)
  <2>1. CASE <<n, k>> \in seen
    <3>1. \/ Last(x.path) = n /\ x.crossed = k
          \/ \E z \in R : Last(z.path) = n /\ z.crossed = k
          \/ Settled(i, seen, n, k)
      BY <1>5, <2>1 DEF Ordering
    <3>2. CASE Last(x.path) = n /\ x.crossed = k
      BY <3>2 DEF Settled
    <3>3. CASE Settled(i, seen, n, k)
      BY <3>3 DEF Settled
    <3>4. QED
      BY <3>1, <3>2, <3>3
  <2>2. CASE <<n, k>> \notin seen
    <3>1. PICK m \in new : <<n, k>> = <<m, Onward(i, m, c)>>
      BY <1>5, <2>2
    <3>2. n \in new /\ k = Onward(i, n, c)
      BY <3>1
    <3>3. QED
      BY <1>0, <1>2, <3>2
  <2>3. QED
    BY <2>1, <2>2
<1> HIDE DEF Q, s
<1>6. Ordering(i, s, Q, e)
  BY <1>3, <1>4, <1>5 DEF Ordering
<1>7. QED
  BY <1>6 DEF Q, s

(* A path to the target that has not crossed every checkpoint shows what   *)
(* it is reported for,                                                     *)
LEMMA ShownShort ==
    ASSUME NEW i \in Inputs, NEW x \in Entries(i),
           Last(x.path) = i.target, x.crossed # Len(i.checkpoints)
    PROVE  Shown(i, x.path)
<1> DEFINE l == Len(i.checkpoints)
<1>1. x.crossed \in 0..l /\ l \in Nat
  BY InputParts DEF Entries
<1>2. l \in 1..l /\ l > x.crossed
  BY <1>1
<1>3. i.checkpoints[l] \notin Crossed(i, x.crossed)
  BY <1>1, <1>2, CrossedAll
<1>4. i.checkpoints[l] \in Marks(i)
  BY <1>2, PlaceIs
<1>5. ~(Marks(i) \subseteq ToSet(x.path))
  BY <1>3, <1>4 DEF Entries
<1>6. QED
  BY <1>5 DEF Shown, Entries

(* as does one that goes on to a checkpoint too early,                     *)
LEMMA ShownAhead ==
    ASSUME NEW i \in Inputs, NEW x \in Entries(i), NEW n \in To(i, Last(x.path)),
           Ahead(i, n, x.crossed)
    PROVE  Shown(i, Append(x.path, n))
<1> DEFINE c == x.crossed
<1> DEFINE a == Place(i, n)
<1>1. /\ c \in 0..Len(i.checkpoints) /\ Len(i.checkpoints) \in Nat /\ Walked(i, x.path)
      /\ Marks(i) \cap ToSet(x.path) = Crossed(i, c)
  BY InputParts DEF Entries
<1>2. a \in 1..Len(i.checkpoints) /\ a > c + 1 /\ i.checkpoints[a] = n
  BY <1>1, PlaceIs DEF Ahead
<1>3. c + 1 \in 1..(a - 1) /\ c + 1 \in 1..Len(i.checkpoints) /\ c + 1 # a /\ c + 1 > c
  BY <1>1, <1>2
<1>4. i.checkpoints[c + 1] # n
  BY <1>2, <1>3, PlaceIs
<1>5. i.checkpoints[c + 1] \notin Crossed(i, c) /\ i.checkpoints[c + 1] \in Marks(i)
  BY <1>1, <1>3, CrossedAll, PlaceIs
<1>6. /\ Walked(i, Append(x.path, n)) /\ Last(Append(x.path, n)) = n
      /\ ToSet(Append(x.path, n)) = ToSet(x.path) \cup {n}
  BY <1>1, WalkedOn
<1>7. i.checkpoints[c + 1] \notin ToSet(Append(x.path, n))
  BY <1>1, <1>4, <1>5, <1>6
<1>8. QED
  BY <1>2, <1>3, <1>6, <1>7 DEF Shown

(* and a start that is a later checkpoint.                                 *)
LEMMA ShownStart ==
    ASSUME NEW i \in Inputs, Ahead(i, Origin(i), 0)
    PROVE  Shown(i, <<Origin(i)>>)
<1> DEFINE a == Place(i, Origin(i))
<1>1. Len(i.checkpoints) \in Nat
  BY InputParts
<1>2. a \in 1..Len(i.checkpoints) /\ a > 1 /\ i.checkpoints[a] = Origin(i)
  BY <1>1, PlaceIs DEF Ahead
<1>3. 1 \in 1..(a - 1) /\ 1 \in 1..Len(i.checkpoints) /\ 1 # a
  BY <1>1, <1>2
<1>4. i.checkpoints[1] # Origin(i)
  BY <1>2, <1>3, PlaceIs
<1>5. QED
  BY <1>2, <1>3, <1>4, WalkedStart DEF Shown

(* The invariant: the verdicts so far are exact, the last path reported is *)
(* real, the search under way keeps its own invariant, and the walk of an  *)
(* accepted graph stays straight.                                          *)
Fields(s) == DOMAIN s = {"todo", "seen", "stack", "queue", "forbidden"}
Phases == {"reach", "cycle", "bypass", "order", "walk", "rejected"}
ErrorNames == {"start", "edges", "terminals", "no_way_out", "terminal_goes_on", "agent_sends",
               "unreachable", "cycle", "bypass", "order"}

Verdicts(i, p, e) ==
    /\ e \subseteq ErrorNames
    /\ Origin(i) \notin Nodes(i) => "start" \in e
    /\ (\E a \in i.graph.edges : ~({Source(a), Destination(a)} \subseteq Nodes(i))) => "edges" \in e
    /\ p = "reach" => e \cap {"unreachable", "cycle", "bypass"} = {}
    /\ p = "cycle" => e \cap {"cycle", "bypass"} = {}
    /\ p # "reach" => ("unreachable" \in e <=> Unreached(i))
    /\ p \notin {"reach", "cycle"} => ("cycle" \in e <=> Turned(i))
    /\ p \notin {"reach", "cycle", "bypass"} => ("bypass" \in e <=> Bypassed(i))

Searches(i, p, s, e) ==
    /\ p = "reach" => Reaching(i, s.todo, s.seen)
    /\ p = "cycle" => Visits(i, s.todo, s.seen, s.stack)
    /\ p = "bypass" => /\ s.queue \in Seq(Detours(i, s.forbidden))
                       /\ Avoiding(i, s.todo, s.seen, ToSet(s.queue), s.forbidden, e)
    /\ p = "order" => /\ s.queue \in Seq(Entries(i))
                      /\ Ordering(i, s.seen, ToSet(s.queue), e)
    /\ p # "cycle" => s.stack = <<>>
    /\ p \notin {"reach", "cycle", "bypass"} => s.todo = {}

Straight(i, w) ==
    /\ w.at \in Nodes(i) /\ w.crossed \subseteq Marks(i) /\ ~w.astray
    /\ \/ w.crossed = Marks(i)
       \/ \E S : /\ Guarded(i, S)
                 /\ \E k \in 0..Len(i.checkpoints) :
                       <<w.at, k>> \in S /\ w.crossed = Crossed(i, k)

Walks(i, p, e, w) ==
    /\ p = "walk" => e = {} /\ Straight(i, w)
    /\ p # "walk" => w = NoWalk

Steady(i, p, s, e, path, w) ==
    /\ i \in Inputs /\ p \in Phases /\ Fields(s)
    /\ Verdicts(i, p, e) /\ Shown(i, path)
    /\ Searches(i, p, s, e) /\ Walks(i, p, e, w)

CheckInv == Steady(input, phase, search, errors, witness, walk)

(* The fields of a search that has not begun.                              *)
LEMMA NoSearchFields ==
    /\ Fields(NoSearch) /\ NoSearch.todo = {} /\ NoSearch.seen = {}
    /\ NoSearch.stack = <<>> /\ NoSearch.queue = <<>>
BY DEF NoSearch, Fields

(* What a queue holds is its head and the rest of it.                      *)
LEMMA QueueParts ==
    ASSUME NEW S, NEW q \in Seq(S)
    PROVE  /\ q = <<>> <=> ToSet(q) = {}
           /\ q # <<>> => /\ Head(q) \in S /\ Tail(q) \in Seq(S)
                          /\ ToSet(q) = {Head(q)} \cup ToSet(Tail(q))
<1>1. DOMAIN q = 1..Len(q) /\ Len(q) \in Nat
  OBVIOUS
<1>2. q = <<>> <=> ToSet(q) = {}
  <2>1. CASE q = <<>>
    BY <2>1 DEF ToSet
  <2>2. CASE q # <<>>
    <3>1. 1 \in 1..Len(q)
      BY <2>2
    <3>2. QED
      BY <1>1, <2>2, <3>1 DEF ToSet
  <2>3. QED
    BY <2>1, <2>2
<1>3. ASSUME q # <<>>
      PROVE  /\ Head(q) \in S /\ Tail(q) \in Seq(S)
             /\ ToSet(q) = {Head(q)} \cup ToSet(Tail(q))
  <2> DEFINE t == Tail(q)
  <2>1. /\ Head(q) \in S /\ Head(q) = q[1] /\ 1 \in 1..Len(q)
        /\ t \in Seq(S) /\ Len(t) = Len(q) - 1
        /\ \A k \in 1..(Len(q) - 1) : t[k] = q[k + 1]
    BY <1>3, HeadTailProperties
  <2> HIDE DEF t
  <2>2. DOMAIN t = 1..(Len(q) - 1)
    BY <2>1
  <2>3. \A k \in 1..(Len(q) - 1) : k + 1 \in 1..Len(q)
    BY <1>1
  <2>4. ToSet(t) \subseteq ToSet(q) /\ q[1] \in ToSet(q)
    BY <1>1, <2>1, <2>2, <2>3 DEF ToSet
  <2>5. \A k \in 1..Len(q) : q[k] \in {q[1]} \cup ToSet(t)
    <3>1. SUFFICES ASSUME NEW k \in 1..Len(q), k # 1 PROVE q[k] \in ToSet(t)
      OBVIOUS
    <3>2. k - 1 \in 1..(Len(q) - 1) /\ (k - 1) + 1 = k
      BY <1>1, <3>1
    <3>3. t[k - 1] = q[k]
      BY <2>1, <3>2
    <3>4. QED
      BY <2>2, <3>2, <3>3 DEF ToSet
  <2>6. ToSet(q) \subseteq {q[1]} \cup ToSet(t)
    BY <1>1, <2>5 DEF ToSet
  <2>7. ToSet(q) = {q[1]} \cup ToSet(t)
    BY <2>4, <2>6
  <2>8. QED
    BY <2>1, <2>7 DEF t
<1>4. QED
  BY <1>2, <1>3

(* What two queues one after the other hold.                               *)
LEMMA QueueJoined ==
    ASSUME NEW S, NEW q \in Seq(S), NEW m \in Seq(S)
    PROVE  q \o m \in Seq(S) /\ ToSet(q \o m) = ToSet(q) \cup ToSet(m)
<1> DEFINE a == Len(q)
<1> DEFINE b == Len(m)
<1> DEFINE r == q \o m
<1>1. /\ a \in Nat /\ b \in Nat /\ DOMAIN q = 1..a /\ DOMAIN m = 1..b
      /\ r \in Seq(S) /\ Len(r) = a + b
      /\ \A k \in 1..(a + b) : r[k] = IF k <= a THEN q[k] ELSE m[k - a]
  BY ConcatProperties
<1> HIDE DEF r, a, b
<1>2. DOMAIN r = 1..(a + b)
  BY <1>1
<1>3. \A k \in 1..a : k \in 1..(a + b) /\ k <= a
  BY <1>1
<1>4. ToSet(q) \subseteq ToSet(r)
  BY <1>1, <1>2, <1>3 DEF ToSet
<1>5. ASSUME NEW k \in 1..b PROVE m[k] \in ToSet(r)
  <2>1. k + a \in 1..(a + b) /\ ~(k + a <= a) /\ (k + a) - a = k
    BY <1>1, <1>5
  <2>2. r[k + a] = m[k]
    BY <1>1, <2>1
  <2>3. QED
    BY <1>2, <2>1, <2>2 DEF ToSet
<1>6. ASSUME NEW k \in 1..(a + b) PROVE r[k] \in ToSet(q) \cup ToSet(m)
  <2>1. CASE k <= a
    <3>1. k \in 1..a
      BY <1>1, <1>6, <2>1
    <3>2. QED
      BY <1>1, <1>6, <2>1, <3>1 DEF ToSet
  <2>2. CASE ~(k <= a)
    <3>1. k - a \in 1..b
      BY <1>1, <1>6, <2>2
    <3>2. QED
      BY <1>1, <1>6, <2>2, <3>1 DEF ToSet
  <2>3. QED
    BY <2>1, <2>2
<1>7. ToSet(r) \subseteq ToSet(q) \cup ToSet(m)
  BY <1>2, <1>6 DEF ToSet
<1>8. ToSet(m) \subseteq ToSet(r)
  BY <1>1, <1>5 DEF ToSet
<1>9. QED
  BY <1>1, <1>4, <1>7, <1>8 DEF r

(* The invariant holds at the start.                                       *)
LEMMA CheckStarts == Init => CheckInv
<1> SUFFICES ASSUME Init PROVE CheckInv
  OBVIOUS
<1>1. /\ input \in Inputs /\ phase = "reach" /\ witness = <<>> /\ walk = NoWalk
      /\ errors = Structural
  BY DEF Init
<1>2. /\ Fields(search) /\ search.todo = {Origin(input)} \cap Nodes(input) /\ search.seen = {}
      /\ search.stack = <<>>
  <2> DEFINE t == {g.start} \cap g.nodes
  <2>1. search = [NoSearch EXCEPT !.todo = t]
    BY DEF Init
  <2>2. t = {Origin(input)} \cap Nodes(input)
    BY InputIs
  <2> HIDE DEF t
  <2>3. QED
    BY <2>1, <2>2 DEF NoSearch, Fields
<1>3. Reaching(input, search.todo, search.seen)
  BY <1>2 DEF Reaching, Shut
<1>4. Verdicts(input, "reach", errors)
  <2>1. errors \subseteq {"start", "edges", "terminals", "no_way_out", "terminal_goes_on", "agent_sends"}
    BY <1>1 DEF Structural
  <2>2. Origin(input) \notin Nodes(input) => "start" \in errors
    BY <1>1, InputIs DEF Structural
  <2>3. (\E a \in input.graph.edges : ~({Source(a), Destination(a)} \subseteq Nodes(input)))
           => "edges" \in errors
    BY <1>1, InputIs DEF Structural, g
  <2>4. QED
    BY <2>1, <2>2, <2>3 DEF Verdicts, ErrorNames
<1>5. QED
  BY <1>1, <1>2, <1>3, <1>4 DEF CheckInv, Steady, Phases, Shown, Searches, Walks

(* Every step of the checks keeps the invariant: the search of what is     *)
(* reachable,                                                              *)
LEMMA ReachKeeps == CheckInv /\ Reach => CheckInv'
<1> SUFFICES ASSUME CheckInv, Reach PROVE CheckInv'
  OBVIOUS
<1> DEFINE n == AnyOf(search.todo)
<1> DEFINE t == (search.todo \ {n}) \cup IF n \in search.seen THEN {} ELSE Ends(n)
<1> DEFINE v == search.seen \cup {n}
<1>1. /\ phase = "reach" /\ UNCHANGED <<input, phase, errors, witness, walk>>
      /\ search.todo # {} /\ search' = [search EXCEPT !.todo = t, !.seen = v]
  BY DEF Reach, Searching, GoOn
<1>2. n \in search.todo
  BY <1>1 DEF AnyOf
<1>3. input \in Inputs /\ Fields(search) /\ search.stack = <<>>
      /\ Reaching(input, search.todo, search.seen)
  BY <1>1 DEF CheckInv, Steady, Searches
<1>4. Reaching(input, t, v)
  <2>1. t = (search.todo \ {n}) \cup IF n \in search.seen THEN {} ELSE To(input, n)
    BY InputIs
  <2> HIDE DEF t
  <2>2. QED
    BY <1>2, <1>3, <2>1, ReachStep
<1> HIDE DEF t, v
<1>5. Fields(search') /\ search'.todo = t /\ search'.seen = v /\ search'.stack = <<>>
  BY <1>1, <1>3 DEF Fields
<1>6. QED
  BY <1>1, <1>3, <1>4, <1>5 DEF CheckInv, Steady, Searches

(* its verdict,                                                            *)
LEMMA ReachedKeeps == CheckInv /\ Reached => CheckInv'
<1> SUFFICES ASSUME CheckInv, Reached PROVE CheckInv'
  OBVIOUS
<1> DEFINE found == IF g.start \in g.nodes => g.nodes \subseteq search.seen THEN {}
                    ELSE {"unreachable"}
<1>1. /\ phase = "reach" /\ UNCHANGED <<input, walk>> /\ phase' = "cycle"
      /\ search.todo = {} /\ search' = [NoSearch EXCEPT !.todo = Unbounded]
      /\ errors' = errors \cup found /\ witness' = <<>>
  BY DEF Reached, Searching, Report
<1>2. input \in Inputs /\ Reaching(input, {}, search.seen) /\ Verdicts(input, "reach", errors)
      /\ walk = NoWalk
  BY <1>1 DEF CheckInv, Steady, Searches, Walks
<1>3. found \subseteq {"unreachable"} /\ ("unreachable" \in found <=> Unreached(input))
  BY <1>2, InputIs, ReachEnd
<1> HIDE DEF found
<1>4. Verdicts(input, "cycle", errors')
  BY <1>1, <1>2, <1>3 DEF Verdicts, ErrorNames
<1>5. /\ Fields(search') /\ search'.todo = Free(input) /\ search'.seen = {}
      /\ search'.stack = <<>>
  <2>1. PICK t : t = Unbounded
    OBVIOUS
  <2>2. search' = [NoSearch EXCEPT !.todo = t] /\ t = Free(input)
    BY <1>1, <2>1, InputIs
  <2>3. QED
    BY <2>2 DEF NoSearch, Fields
<1>6. Visits(input, Free(input), {}, <<>>)
  BY <1>2, VisitsBegin
<1>7. QED
  BY <1>1, <1>2, <1>4, <1>5, <1>6 DEF CheckInv, Steady, Searches, Walks, Phases, Shown

(* the search of a cycle from outside,                                     *)
LEMMA VisitRootKeeps == CheckInv /\ VisitRoot => CheckInv'
<1> SUFFICES ASSUME CheckInv, VisitRoot PROVE CheckInv'
  OBVIOUS
<1> DEFINE n == AnyOf(search.todo)
<1> DEFINE t == search.todo \ {n}
<1> DEFINE k == IF n \in search.seen THEN <<>> ELSE <<Frame(n)>>
<1>1. /\ phase = "cycle" /\ UNCHANGED <<input, phase, errors, witness, walk>>
      /\ search.todo # {} /\ search.stack = <<>>
      /\ search' = [search EXCEPT !.todo = t, !.stack = k]
  BY DEF VisitRoot, Searching, GoOn
<1>2. n \in search.todo
  BY <1>1 DEF AnyOf
<1>3. input \in Inputs /\ Fields(search) /\ Visits(input, search.todo, search.seen, <<>>)
  BY <1>1 DEF CheckInv, Steady, Searches
<1>4. Visits(input, t, search.seen, k)
  <2>1. Frame(n) = [node |-> n, todo |-> FreeTo(input, n)]
    BY InputIs DEF Frame
  <2>2. QED
    BY <1>2, <1>3, <2>1, VisitsRoot
<1> HIDE DEF t, k
<1>5. /\ Fields(search') /\ search'.todo = t /\ search'.seen = search.seen
      /\ search'.stack = k
  BY <1>1, <1>3 DEF Fields
<1>6. QED
  BY <1>1, <1>3, <1>4, <1>5 DEF CheckInv, Steady, Searches

(* a call for the next successor,                                          *)
LEMMA VisitNextKeeps == CheckInv /\ VisitNext => CheckInv'
<1> SUFFICES ASSUME CheckInv, VisitNext PROVE CheckInv'
  OBVIOUS
<1> DEFINE n == AnyOf(Top.todo)
<1> DEFINE rest == [search.stack EXCEPT ![Len(search.stack)].todo = @ \ {n}]
<1> DEFINE k == IF n \in search.seen THEN rest ELSE Append(rest, Frame(n))
<1>1. /\ phase = "cycle" /\ UNCHANGED <<input, phase, errors, witness, walk>>
      /\ search.stack # <<>> /\ Top.todo # {}
      /\ search' = [search EXCEPT !.stack = k]
  BY DEF VisitNext, Searching, GoOn
<1>2. n \in search.stack[Len(search.stack)].todo
  BY <1>1 DEF AnyOf, Top, Last
<1>3. input \in Inputs /\ Fields(search)
      /\ Visits(input, search.todo, search.seen, search.stack)
  BY <1>1 DEF CheckInv, Steady, Searches
<1>4. Visits(input, search.todo, search.seen, k)
  <2>1. Frame(n) = [node |-> n, todo |-> FreeTo(input, n)]
    BY InputIs DEF Frame
  <2> HIDE DEF n
  <2>2. /\ n \in search.seen => Visits(input, search.todo, search.seen, rest)
        /\ Visits(input, search.todo, search.seen,
                  Append(rest, [node |-> n, todo |-> FreeTo(input, n)]))
    BY <1>1, <1>2, <1>3, VisitsNext
  <2>3. QED
    BY <2>1, <2>2
<1> HIDE DEF k
<1>5. /\ Fields(search') /\ search'.todo = search.todo /\ search'.seen = search.seen
      /\ search'.stack = k
  BY <1>1, <1>3 DEF Fields
<1>6. QED
  BY <1>1, <1>3, <1>4, <1>5 DEF CheckInv, Steady, Searches

(* the return of a call,                                                   *)
LEMMA LeaveKeeps == CheckInv /\ Leave => CheckInv'
<1> SUFFICES ASSUME CheckInv, Leave PROVE CheckInv'
  OBVIOUS
<1> DEFINE k == Front(search.stack)
<1> DEFINE v == search.seen \cup {Top.node}
<1>1. /\ phase = "cycle" /\ UNCHANGED <<input, phase, errors, witness, walk>>
      /\ search.stack # <<>> /\ Top.todo = {}
      /\ search' = [search EXCEPT !.stack = k, !.seen = v]
  BY DEF Leave, Searching, GoOn
<1>3. input \in Inputs /\ Fields(search)
      /\ Visits(input, search.todo, search.seen, search.stack)
  BY <1>1 DEF CheckInv, Steady, Searches
<1>4. Visits(input, search.todo, v, k)
  <2>1. Top = search.stack[Len(search.stack)]
    BY DEF Top, Last
  <2>2. QED
    BY <1>1, <1>3, <2>1, VisitsLeave
<1> HIDE DEF k, v
<1>5. /\ Fields(search') /\ search'.todo = search.todo /\ search'.seen = v
      /\ search'.stack = k
  BY <1>1, <1>3 DEF Fields
<1>6. QED
  BY <1>1, <1>3, <1>4, <1>5 DEF CheckInv, Steady, Searches

(* the verdict on cycles,                                                  *)
LEMMA CycleDecidedKeeps == CheckInv /\ CycleDecided => CheckInv'
<1> SUFFICES ASSUME CheckInv, CycleDecided PROVE CheckInv'
  OBVIOUS
<1>1. /\ phase = "cycle" /\ UNCHANGED <<input, walk>> /\ phase' = "bypass"
      /\ search' = [NoSearch EXCEPT !.todo = Checkpoints] /\ witness' = <<>>
  BY DEF CycleDecided, Searching, Report
<1>2. \/ search.stack = <<>> /\ search.todo = {} /\ errors' = errors
      \/ /\ search.stack # <<>> /\ Top.todo # {} /\ ClosesCycle(AnyOf(Top.todo))
         /\ errors' = errors \cup {"cycle"}
  BY DEF CycleDecided, Report
<1>3. /\ input \in Inputs /\ Visits(input, search.todo, search.seen, search.stack)
      /\ Verdicts(input, "cycle", errors) /\ walk = NoWalk
  BY <1>1 DEF CheckInv, Steady, Searches, Walks
<1>4. \/ errors' = errors /\ ~Turned(input)
      \/ errors' = errors \cup {"cycle"} /\ Turned(input)
  <2>1. CASE search.stack = <<>> /\ search.todo = {} /\ errors' = errors
    BY <1>3, <2>1, VisitsEnd
  <2>2. CASE /\ search.stack # <<>> /\ Top.todo # {} /\ ClosesCycle(AnyOf(Top.todo))
             /\ errors' = errors \cup {"cycle"}
    <3>1. AnyOf(Top.todo) \in Top.todo
      BY <2>2 DEF AnyOf
    <3>2. Top = search.stack[Len(search.stack)]
      BY DEF Top, Last
    <3>3. AnyOf(Top.todo) \in Called(search.stack)
      BY <2>2 DEF ClosesCycle, Visiting, Called
    <3>4. Turned(input)
      BY <1>3, <2>2, <3>1, <3>2, <3>3, VisitsEnd
    <3>5. QED
      BY <2>2, <3>4
  <2>3. QED
    BY <1>2, <2>1, <2>2
<1>5. Verdicts(input, "bypass", errors') /\ "bypass" \notin errors'
  BY <1>3, <1>4 DEF Verdicts, ErrorNames
<1>6. /\ Fields(search') /\ search'.todo = Marks(input) /\ search'.queue = <<>>
      /\ search'.stack = <<>>
  <2>1. PICK t : t = Checkpoints
    OBVIOUS
  <2>2. search' = [NoSearch EXCEPT !.todo = t] /\ t = Marks(input)
    BY <1>1, <2>1, InputIs
  <2>3. QED
    BY <2>2 DEF NoSearch, Fields
<1>7. ToSet(search'.queue) = {} /\ search'.queue \in Seq(Detours(input, search'.forbidden))
  BY <1>6 DEF ToSet
<1>8. Avoiding(input, Marks(input), search'.seen, {}, search'.forbidden, errors')
  BY <1>3, <1>5, AvoidBegin
<1>9. QED
  BY <1>1, <1>3, <1>5, <1>6, <1>7, <1>8 DEF CheckInv, Steady, Searches, Walks, Phases, Shown

(* the search of a path around the next checkpoint,                        *)
LEMMA AvoidKeeps == CheckInv /\ Avoid => CheckInv'
<1> SUFFICES ASSUME CheckInv, Avoid PROVE CheckInv'
  OBVIOUS
<1> DEFINE c == AnyOf(search.todo)
<1> DEFINE t == search.todo \ {c}
<1> DEFINE q == IF c = g.start THEN <<>> ELSE <<<<g.start>>>>
<1> DEFINE v == {g.start}
<1>1. /\ phase = "bypass" /\ UNCHANGED <<input, phase, errors, witness, walk>>
      /\ search.todo # {} /\ search.queue = <<>>
      /\ search' = [search EXCEPT !.todo = t, !.forbidden = c, !.seen = v, !.queue = q]
  BY DEF Avoid, Searching, GoOn
<1>2. c \in search.todo
  BY <1>1 DEF AnyOf
<1>3. /\ input \in Inputs /\ Fields(search) /\ search.stack = <<>>
      /\ Avoiding(input, search.todo, search.seen, {}, search.forbidden, errors)
  <2>1. ToSet(search.queue) = {}
    BY <1>1 DEF ToSet
  <2>2. QED
    BY <1>1, <2>1 DEF CheckInv, Steady, Searches
<1>4. g.start = Origin(input)
  BY InputIs
<1>5. ToSet(q) = IF c = Origin(input) THEN {} ELSE {<<Origin(input)>>}
  BY <1>4 DEF ToSet
<1>0. t = search.todo \ {c} /\ v = {Origin(input)}
  BY <1>4
<1> HIDE DEF c
<1>6. Avoiding(input, t, v, ToSet(q), c, errors)
  <2>1. Avoiding(input, search.todo \ {c}, {Origin(input)},
                 IF c = Origin(input) THEN {} ELSE {<<Origin(input)>>}, c, errors)
    BY <1>2, <1>3, AvoidNext
  <2> HIDE DEF t, q, v
  <2>2. QED
    BY <1>0, <1>5, <2>1
<1>7. q \in Seq(Detours(input, c))
  <2>1. ToSet(q) \subseteq Detours(input, c)
    BY <1>6 DEF Avoiding
  <2>2. QED
    BY <1>4, <1>5, <2>1
<1> HIDE DEF t, q, v
<1>8. /\ Fields(search') /\ search'.todo = t /\ search'.seen = v /\ search'.queue = q
      /\ search'.forbidden = c /\ search'.stack = <<>>
  BY <1>1, <1>3 DEF Fields
<1>9. QED
  BY <1>1, <1>3, <1>6, <1>7, <1>8 DEF CheckInv, Steady, Searches

(* the extension of a path in its queue,                                   *)
LEMMA ExtendKeeps == CheckInv /\ Extend => CheckInv'
<1> SUFFICES ASSUME CheckInv, Extend PROVE CheckInv'
  OBVIOUS
<1> DEFINE p == Head(search.queue)
<1> DEFINE f == search.forbidden
<1> DEFINE new == Ends(Last(p)) \ (search.seen \cup {f})
<1> DEFINE ends == SetToSeq(new)
<1> DEFINE more == Paths(p, ends)
<1> DEFINE R == ToSet(Tail(search.queue))
<1>1. /\ phase = "bypass" /\ UNCHANGED <<input, phase, walk>> /\ search.queue # <<>>
  BY DEF Extend, Searching, GoOn
<1>2. \/ /\ Last(p) = input.target /\ errors' = errors \cup {"bypass"} /\ witness' = p
         /\ search' = [search EXCEPT !.queue = <<>>]
      \/ /\ Last(p) # input.target /\ UNCHANGED <<errors, witness>>
         /\ search' = [search EXCEPT !.queue = Tail(@) \o more, !.seen = @ \cup ToSet(ends)]
  BY DEF Extend, Report, GoOn
<1>3. /\ input \in Inputs /\ Fields(search) /\ search.stack = <<>>
      /\ search.queue \in Seq(Detours(input, f)) /\ Verdicts(input, "bypass", errors)
      /\ Avoiding(input, search.todo, search.seen, ToSet(search.queue), f, errors)
  BY <1>1 DEF CheckInv, Steady, Searches
<1>4. /\ p \in Detours(input, f) /\ Tail(search.queue) \in Seq(Detours(input, f))
      /\ ToSet(search.queue) = {p} \cup R
  BY <1>1, <1>3, QueueParts
<1>5. CASE /\ Last(p) = input.target /\ errors' = errors \cup {"bypass"} /\ witness' = p
           /\ search' = [search EXCEPT !.queue = <<>>]
  <2>1. /\ Avoiding(input, search.todo, search.seen, {}, f, errors') /\ Shown(input, p)
    BY <1>3, <1>4, <1>5, AvoidFound
  <2>2. Verdicts(input, "bypass", errors')
    BY <1>3, <1>5 DEF Verdicts, ErrorNames
  <2>3. /\ Fields(search') /\ search'.todo = search.todo /\ search'.seen = search.seen
        /\ search'.queue = <<>> /\ search'.forbidden = f /\ search'.stack = <<>>
    BY <1>3, <1>5 DEF Fields
  <2>4. ToSet(search'.queue) = {} /\ search'.queue \in Seq(Detours(input, search'.forbidden))
    BY <2>3 DEF ToSet
  <2>5. QED
    BY <1>1, <1>3, <1>5, <2>1, <2>2, <2>3, <2>4 DEF CheckInv, Steady, Searches, Walks
<1>6. CASE /\ Last(p) # input.target /\ UNCHANGED <<errors, witness>>
           /\ search' = [search EXCEPT !.queue = Tail(@) \o more, !.seen = @ \cup ToSet(ends)]
  <2>1. new = To(input, Last(p)) \ (search.seen \cup {f})
    BY InputIs
  <2>2. ends \in Seq(new) /\ ToSet(ends) = new
    BY <1>3, <2>1, ToIs, ListOf
  <2> HIDE DEF p, R, new, ends
  <2>3. DOMAIN ends = 1..Len(ends) /\ Len(ends) \in Nat
    BY <2>2
  <2>4. more = [k \in 1..Len(ends) |-> Append(p, ends[k])]
    BY <2>3 DEF Paths
  <2>5. \A q : q \in ToSet(more) <=> \E n \in new : q = Append(p, n)
    <3>1. ToSet(more) = {Append(p, ends[k]) : k \in 1..Len(ends)}
      BY <2>4 DEF ToSet
    <3>2. new = {ends[k] : k \in 1..Len(ends)}
      BY <2>2, <2>3 DEF ToSet
    <3>3. QED
      BY <3>1, <3>2
  <2>6. Avoiding(input, search.todo, search.seen \cup new, R \cup ToSet(more), f, errors)
    <3>1. Avoiding(input, search.todo, search.seen, {p} \cup R, f, errors)
      BY <1>3, <1>4
    <3> HIDE DEF more
    <3>2. QED
      BY <1>3, <1>6, <2>1, <2>5, <3>1, AvoidExtend
  <2>7. \A k \in 1..Len(ends) : Append(p, ends[k]) \in Detours(input, f)
    <3>1. ToSet(more) \subseteq Detours(input, f)
      BY <2>6 DEF Avoiding
    <3>2. \A k \in 1..Len(ends) : ends[k] \in new
      BY <2>2
    <3>3. QED
      BY <2>5, <3>1, <3>2
  <2>8. more \in Seq(Detours(input, f))
    <3>1. more \in [1..Len(ends) -> Detours(input, f)]
      BY <2>4, <2>7
    <3> HIDE DEF more
    <3>2. QED
      BY <2>3, <3>1
  <2> DEFINE q == Tail(search.queue) \o more
  <2> DEFINE v == search.seen \cup ToSet(ends)
  <2> HIDE DEF more
  <2>10. q \in Seq(Detours(input, f)) /\ ToSet(q) = R \cup ToSet(more)
    BY <1>4, <2>8, QueueJoined DEF R
  <2>11. v = search.seen \cup new
    BY <2>2
  <2>12. search' = [search EXCEPT !.queue = q, !.seen = v]
    BY <1>6
  <2> HIDE DEF q, v
  <2>13. /\ Fields(search') /\ search'.todo = search.todo /\ search'.seen = v
         /\ search'.queue = q /\ search'.forbidden = f /\ search'.stack = <<>>
    BY <1>3, <2>12 DEF Fields
  <2>14. Avoiding(input, search.todo, v, ToSet(q), f, errors)
    BY <2>6, <2>10, <2>11
  <2>15. QED
    BY <1>1, <1>3, <1>6, <2>10, <2>13, <2>14 DEF CheckInv, Steady, Searches, Walks
<1>7. QED
  BY <1>2, <1>5, <1>6

(* the verdict on bypasses, where the search of paths out of order begins, *)
LEMMA BypassDecidedKeeps == CheckInv /\ BypassDecided => CheckInv'
<1> SUFFICES ASSUME CheckInv, BypassDecided PROVE CheckInv'
  OBVIOUS
<1> DEFINE o == Origin(input)
<1> DEFINE k == Onward(input, o, 0)
<1> DEFINE entry == [path |-> <<o>>, crossed |-> k]
<1> DEFINE q == IF Ahead(input, o, 0) THEN <<>> ELSE <<entry>>
<1> DEFINE v == {<<o, k>>}
<1>1. /\ phase = "bypass" /\ UNCHANGED <<input, walk>> /\ phase' = "order"
      /\ search.queue = <<>> /\ search.todo = {}
  BY DEF BypassDecided, Searching
<1>2. /\ errors' = errors \cup IF Ahead(input, o, 0) THEN {"order"} ELSE {}
      /\ witness' = IF Ahead(input, o, 0) THEN <<o>> ELSE witness
      /\ search' = [NoSearch EXCEPT !.queue = q, !.seen = v]
  BY InputIs DEF BypassDecided, Report
<1>3. /\ input \in Inputs /\ Verdicts(input, "bypass", errors) /\ Shown(input, witness)
      /\ Avoiding(input, {}, search.seen, {}, search.forbidden, errors) /\ walk = NoWalk
  <2>1. ToSet(search.queue) = {}
    BY <1>1 DEF ToSet
  <2>2. QED
    BY <1>1, <2>1 DEF CheckInv, Steady, Searches, Walks
<1>4. Verdicts(input, "order", errors')
  <2>1. "bypass" \in errors <=> Bypassed(input)
    BY <1>3, AvoidEnd
  <2>2. QED
    BY <1>2, <1>3, <2>1 DEF Verdicts, ErrorNames
<1>5. Shown(input, witness')
  BY <1>2, <1>3, ShownStart
<1>6. ToSet(q) = IF Ahead(input, o, 0) THEN {} ELSE {entry}
  BY DEF ToSet
<1>7. Ordering(input, v, ToSet(q), errors')
  <2>1. CASE Ahead(input, o, 0)
    BY <1>2, <1>6, <2>1 DEF Ordering
  <2>2. CASE ~Ahead(input, o, 0)
    <3>1. Ordering(input, v, {entry}, errors')
      BY <1>3, <2>2, OrderBegin
    <3>2. QED
      BY <1>6, <2>2, <3>1
  <2>3. QED
    BY <2>1, <2>2
<1>8. q \in Seq(Entries(input))
  <2>1. ToSet(q) \subseteq Entries(input)
    BY <1>7 DEF Ordering
  <2> HIDE DEF entry
  <2>2. QED
    BY <1>6, <2>1
<1> HIDE DEF q, v
<1>9. /\ Fields(search') /\ search'.todo = {} /\ search'.seen = v /\ search'.queue = q
      /\ search'.stack = <<>>
  BY <1>2 DEF NoSearch, Fields
<1>10. QED
  BY <1>1, <1>3, <1>4, <1>5, <1>7, <1>8, <1>9 DEF CheckInv, Steady, Searches, Walks, Phases

(* the extension of an entry in its queue,                                 *)
LEMMA AdvancedKeeps == CheckInv /\ Advanced => CheckInv'
<1> SUFFICES ASSUME CheckInv, Advanced PROVE CheckInv'
  OBVIOUS
<1> DEFINE x == Entry
<1> DEFINE at == Last(x.path)
<1> DEFINE c == x.crossed
<1> DEFINE new == IF at = input.target THEN {}
                  ELSE {n \in Ends(at) : ~SeenState(n, Advance(n, c))}
<1> DEFINE ends == IF at = input.target THEN <<>>
                   ELSE SetToSeq({n \in Ends(at) : ~SeenState(n, Advance(n, c))})
<1> DEFINE more == [k \in DOMAIN ends |-> [path |-> Append(x.path, ends[k]),
                                           crossed |-> Advance(ends[k], c)]]
<1> DEFINE met == {<<n, Advance(n, c)>> : n \in ToSet(ends)}
<1> DEFINE q == Tail(search.queue) \o more
<1> DEFINE v == search.seen \cup met
<1> DEFINE R == ToSet(Tail(search.queue))
<1>1. /\ phase = "order" /\ UNCHANGED <<input, phase, errors, witness, walk>>
      /\ search.queue # <<>>
      /\ at = input.target => c = Len(input.checkpoints)
      /\ at = input.target \/ Early = {}
      /\ search' = [search EXCEPT !.queue = q, !.seen = v]
  BY DEF Advanced, Searching, GoOn
<1>2. /\ input \in Inputs /\ Fields(search) /\ search.stack = <<>>
      /\ search.queue \in Seq(Entries(input))
      /\ Ordering(input, search.seen, ToSet(search.queue), errors)
  BY <1>1 DEF CheckInv, Steady, Searches
<1>3. /\ x \in Entries(input) /\ Tail(search.queue) \in Seq(Entries(input))
      /\ ToSet(search.queue) = {x} \cup R
  BY <1>1, <1>2, QueueParts DEF Entry
<1>4. ends \in Seq(new) /\ ToSet(ends) = new
  <2>1. CASE at = input.target
    BY <2>1 DEF ToSet
  <2>2. CASE at # input.target
    <3>1. new \in SUBSET To(input, at)
      BY <2>2, InputIs
    <3>2. IsFiniteSet(new)
      BY <1>2, <3>1, ToIs
    <3>3. ends = SetToSeq(new)
      BY <2>2
    <3> HIDE DEF ends, new
    <3>4. QED
      BY <3>2, <3>3, ListOf
  <2>3. QED
    BY <2>1, <2>2
<1>5. at # input.target =>
         /\ new = {n \in To(input, at) : <<n, Onward(input, n, c)>> \notin search.seen}
         /\ \A n \in To(input, at) : ~Ahead(input, n, c)
  <2>1. SUFFICES ASSUME at # input.target
                 PROVE  /\ new = {n \in To(input, at) : <<n, Onward(input, n, c)>> \notin search.seen}
                        /\ \A n \in To(input, at) : ~Ahead(input, n, c)
    OBVIOUS
  <2>2. Early = {}
    BY <1>1, <2>1
  <2>3. \A n \in To(input, at) : ~Ahead(input, n, c)
    BY <2>2, InputIs DEF Early
  <2>4. new = {n \in To(input, at) : <<n, Onward(input, n, c)>> \notin search.seen}
    BY <2>1, InputIs DEF SeenState
  <2>5. QED
    BY <2>3, <2>4
<1> HIDE DEF ends, new
<1>6. DOMAIN ends = 1..Len(ends) /\ Len(ends) \in Nat
  BY <1>4
<1>7. \A z : z \in met <=> \E n \in new : z = <<n, Onward(input, n, c)>>
  BY <1>4, InputIs
<1>8. \A z : z \in ToSet(more) <=> \E n \in new : z = [path |-> Append(x.path, n),
                                                     crossed |-> Onward(input, n, c)]
  <2>1. more = [k \in 1..Len(ends) |-> [path |-> Append(x.path, ends[k]),
                                        crossed |-> Onward(input, ends[k], c)]]
    BY <1>6, InputIs
  <2>2. ToSet(more) = {[path |-> Append(x.path, ends[k]),
                        crossed |-> Onward(input, ends[k], c)] : k \in 1..Len(ends)}
    BY <2>1 DEF ToSet
  <2>3. new = {ends[k] : k \in 1..Len(ends)}
    BY <1>4, <1>6 DEF ToSet
  <2>4. QED
    BY <2>2, <2>3
<1>9. DOMAIN more = 1..Len(ends) /\ \A k \in 1..Len(ends) : more[k] \in ToSet(more)
  BY <1>6 DEF ToSet
<1>10. more = [k \in 1..Len(ends) |-> more[k]]
  BY <1>9
<1>0. at = Last(x.path) /\ c = x.crossed
  OBVIOUS
<1> HIDE DEF more, met, R, x
<1>11. Ordering(input, v, R \cup ToSet(more), errors)
  <2>1. Ordering(input, search.seen, {x} \cup R, errors)
    BY <1>2, <1>3
  <2>2. CASE at = input.target
    <3>1. Ordering(input, search.seen, R, errors)
      BY <1>1, <1>2, <2>1, <2>2, OrderPass
    <3>2. new = {}
      BY <2>2 DEF new
    <3>3. ToSet(more) = {} /\ met = {}
      BY <1>7, <1>8, <3>2
    <3>4. R \cup ToSet(more) = R /\ v = search.seen
      BY <3>3
    <3>5. QED
      BY <3>1, <3>4
  <2>3. CASE at # input.target
    BY <1>2, <1>5, <1>7, <1>8, <2>1, <2>3, OrderExtend
  <2>4. QED
    BY <2>2, <2>3
<1>12. more \in Seq(Entries(input))
  <2>1. ToSet(more) \subseteq Entries(input)
    BY <1>11 DEF Ordering
  <2>2. more \in [1..Len(ends) -> Entries(input)]
    BY <1>9, <1>10, <2>1
  <2>3. QED
    BY <1>6, <2>2
<1>13. q \in Seq(Entries(input)) /\ ToSet(q) = R \cup ToSet(more)
  <2>1. Tail(search.queue) \in Seq(Entries(input))
    BY <1>3
  <2> HIDE DEF q
  <2>2. PICK t : t = Tail(search.queue)
    OBVIOUS
  <2>3. t \o more \in Seq(Entries(input)) /\ ToSet(t \o more) = ToSet(t) \cup ToSet(more)
    BY <1>12, <2>1, <2>2, QueueJoined
  <2>4. QED
    BY <2>2, <2>3 DEF R, q
<1> HIDE DEF q, v
<1>14. /\ Fields(search') /\ search'.todo = search.todo /\ search'.seen = v
       /\ search'.queue = q /\ search'.stack = <<>>
  BY <1>1, <1>2 DEF Fields
<1>15. QED
  BY <1>1, <1>2, <1>11, <1>13, <1>14 DEF CheckInv, Steady, Searches

(* the report of a path out of order,                                      *)
LEMMA OutOfOrderKeeps == CheckInv /\ OutOfOrder => CheckInv'
<1> SUFFICES ASSUME CheckInv, OutOfOrder PROVE CheckInv'
  OBVIOUS
<1> DEFINE x == Entry
<1>1. /\ phase = "order" /\ UNCHANGED <<input, phase, walk>> /\ search.queue # <<>>
      /\ search' = NoSearch /\ errors' = errors \cup {"order"}
      /\ \/ /\ Last(x.path) = input.target /\ x.crossed # Len(input.checkpoints)
            /\ witness' = x.path
         \/ /\ Early # {} /\ witness' = Append(x.path, AnyOf(Early))
  BY DEF OutOfOrder, Searching, Report
<1>2. /\ input \in Inputs /\ search.queue \in Seq(Entries(input))
      /\ Verdicts(input, "order", errors) /\ walk = NoWalk
  BY <1>1 DEF CheckInv, Steady, Searches, Walks
<1>3. x \in Entries(input)
  BY <1>1, <1>2, QueueParts DEF Entry
<1>4. Shown(input, witness')
  <2>1. CASE /\ Last(x.path) = input.target /\ x.crossed # Len(input.checkpoints)
             /\ witness' = x.path
    BY <1>2, <1>3, <2>1, ShownShort
  <2>2. CASE Early # {} /\ witness' = Append(x.path, AnyOf(Early))
    <3>1. AnyOf(Early) \in Early
      BY <2>2 DEF AnyOf
    <3>2. AnyOf(Early) \in To(input, Last(x.path)) /\ Ahead(input, AnyOf(Early), x.crossed)
      BY <3>1, InputIs DEF Early
    <3> HIDE DEF x
    <3>3. QED
      BY <1>2, <1>3, <2>2, <3>2, ShownAhead
  <2>3. QED
    BY <1>1, <2>1, <2>2
<1>5. Verdicts(input, "order", errors')
  BY <1>1, <1>2 DEF Verdicts, ErrorNames
<1>6. /\ search'.queue \in Seq(Entries(input))
      /\ Ordering(input, search'.seen, ToSet(search'.queue), errors')
  BY <1>1, NoSearchFields DEF Ordering, ToSet
<1>7. Fields(search') /\ search'.todo = {} /\ search'.stack = <<>>
  BY <1>1, NoSearchFields
<1>8. QED
  BY <1>1, <1>2, <1>4, <1>5, <1>6, <1>7 DEF CheckInv, Steady, Searches, Walks, Phases

(* and the start of a walk, over the set the last search has left.         *)
LEMMA StartKeeps == CheckInv /\ Start => CheckInv'
<1> SUFFICES ASSUME CheckInv, Start PROVE CheckInv'
  OBVIOUS
<1>1. /\ phase = "order" /\ UNCHANGED <<input, errors, witness>> /\ search.queue = <<>>
      /\ phase' = IF errors = {} THEN "walk" ELSE "rejected"
      /\ search' = NoSearch
      /\ errors # {} => walk' = NoWalk
  BY DEF Start
<1>2. /\ input \in Inputs /\ Verdicts(input, "order", errors)
      /\ Ordering(input, search.seen, {}, errors)
  <2>1. ToSet(search.queue) = {}
    BY <1>1 DEF ToSet
  <2>2. QED
    BY <1>1, <2>1 DEF CheckInv, Steady, Searches
<1>3. Verdicts(input, phase', errors')
  BY <1>1, <1>2 DEF Verdicts
<1>4. ASSUME errors = {} PROVE Straight(input, walk')
  <2> DEFINE o == Origin(input)
  <2> DEFINE k == Onward(input, o, 0)
  <2>1. walk'.at = o /\ walk'.crossed = {o} \cap Marks(input) /\ walk'.astray = FALSE
    BY <1>4, InputIs DEF Start
  <2>2. o \in Nodes(input)
    BY <1>2, <1>4 DEF Verdicts
  <2>3. Guarded(input, search.seen)
    BY <1>2, <1>4 DEF Ordering, Guarded
  <2>4. ~Ahead(input, o, 0) /\ <<o, k>> \in search.seen
    BY <2>3 DEF Guarded, Entered
  <2>5. 0 \in 0..Len(input.checkpoints)
    BY <1>2, InputParts
  <2>6. k \in 0..Len(input.checkpoints)
        /\ Crossed(input, k) = Crossed(input, 0) \cup ({o} \cap Marks(input))
    BY <1>2, <2>4, <2>5, OnwardIs
  <2>7. walk'.crossed = Crossed(input, k)
    BY <1>2, <2>1, <2>6, CrossedAll
  <2> HIDE DEF k, o
  <2>8. QED
    BY <2>1, <2>2, <2>3, <2>4, <2>6, <2>7 DEF Straight
<1>5. QED
  BY <1>1, <1>3, <1>4, NoSearchFields
     DEF CheckInv, Steady, Searches, Walks, Phases

(* A walk stays within what the last search has seen, or has crossed every *)
(* checkpoint.                                                             *)
LEMMA WalkOn ==
    ASSUME NEW i \in Inputs, NEW w, Straight(i, w), NEW n \in To(i, w.at)
    PROVE  /\ \A a \in 1..Len(i.checkpoints), b \in 1..Len(i.checkpoints) :
                 i.checkpoints[a] = n /\ b < a => i.checkpoints[b] \in w.crossed
           /\ \A x : x.at = n /\ x.crossed = w.crossed \cup ({n} \cap Marks(i)) /\ ~x.astray
                        => Straight(i, x)
<1>1. n \in Nodes(i) /\ w.crossed \subseteq Marks(i)
  BY ToIs DEF Straight
<1>2. CASE w.crossed = Marks(i)
  <2>1. \A b \in 1..Len(i.checkpoints) : i.checkpoints[b] \in w.crossed
    BY <1>2, PlaceIs
  <2>2. ASSUME NEW x, x.at = n, x.crossed = w.crossed \cup ({n} \cap Marks(i)), ~x.astray
        PROVE  Straight(i, x)
    <3>1. x.crossed = Marks(i)
      BY <1>2, <2>2
    <3>2. QED
      BY <1>1, <2>2, <3>1 DEF Straight
  <2>3. QED
    BY <2>1, <2>2
<1>3. CASE w.crossed # Marks(i)
  <2>0. PICK S : /\ Guarded(i, S)
                 /\ \E k \in 0..Len(i.checkpoints) :
                       <<w.at, k>> \in S /\ w.crossed = Crossed(i, k)
    BY <1>3 DEF Straight
  <2>1. PICK k \in 0..Len(i.checkpoints) :
           Guarded(i, S) /\ <<w.at, k>> \in S /\ w.crossed = Crossed(i, k)
    BY <2>0
  <2>2. Settled(i, S, w.at, k)
    BY <2>1 DEF Guarded
  <2>3. k # Len(i.checkpoints)
    BY <1>3, <2>1, CrossedAll
  <2>4. ~Ahead(i, n, k) /\ <<n, Onward(i, n, k)>> \in S
    BY <2>2, <2>3 DEF Settled
  <2>5. /\ Onward(i, n, k) \in 0..Len(i.checkpoints)
        /\ Crossed(i, Onward(i, n, k)) = w.crossed \cup ({n} \cap Marks(i))
    BY <2>1, <2>4, OnwardIs
  <2>6. ASSUME NEW x, x.at = n, x.crossed = w.crossed \cup ({n} \cap Marks(i)), ~x.astray
        PROVE  Straight(i, x)
    BY <1>1, <2>1, <2>4, <2>5, <2>6 DEF Straight
  <2>7. ASSUME NEW a \in 1..Len(i.checkpoints), NEW b \in 1..Len(i.checkpoints),
               i.checkpoints[a] = n, b < a
        PROVE  i.checkpoints[b] \in w.crossed
    <3>1. Place(i, n) = a
      BY <2>7, PlaceIs
    <3>2. a <= k + 1 /\ Len(i.checkpoints) \in Nat
      BY <2>1, <2>4, <2>7, <3>1, InputParts DEF Ahead
    <3>3. b \in 1..k
      BY <2>1, <2>7, <3>2
    <3>4. QED
      BY <2>1, <3>3 DEF Crossed
  <2>8. QED
    BY <2>6, <2>7
<1>4. QED
  BY <1>2, <1>3

(* A step of a walk keeps the invariant.                                   *)
LEMMA TakeKeeps ==
    ASSUME CheckInv, NEW e \in g.edges, Take(e)
    PROVE  CheckInv'
<1> DEFINE n == Destination(e)
<1>1. /\ phase = "walk" /\ Source(e) = walk.at
      /\ UNCHANGED <<input, phase, search, errors, witness>>
      /\ walk'.at = n /\ walk'.crossed = walk.crossed \cup ({n} \cap Checkpoints)
      /\ walk'.astray = (walk.astray \/ Skips(n))
  BY DEF Take
<1>2. /\ input \in Inputs /\ errors = {} /\ Straight(input, walk)
      /\ Verdicts(input, "walk", errors)
  BY <1>1 DEF CheckInv, Steady, Walks
<1>3. n \in To(input, walk.at)
  <2>1. e \in input.graph.edges
    BY DEF g
  <2>2. {Source(e), n} \subseteq Nodes(input)
    BY <1>2, <2>1 DEF Verdicts
  <2>3. QED
    BY <1>1, <2>1, <2>2 DEF To
<1> HIDE DEF n
<1>4. ~Skips(n)
  <2>1. SUFFICES ASSUME NEW a \in DOMAIN input.checkpoints, input.checkpoints[a] = n,
                        NEW b \in 1..(a - 1)
                 PROVE  input.checkpoints[b] \in walk.crossed
    BY DEF Skips
  <2>2. DOMAIN input.checkpoints = 1..Len(input.checkpoints) /\ Len(input.checkpoints) \in Nat
    BY <1>2, InputParts
  <2>3. a \in 1..Len(input.checkpoints) /\ b \in 1..Len(input.checkpoints) /\ b < a
    BY <2>1, <2>2
  <2>4. QED
    BY <1>2, <1>3, <2>1, <2>3, WalkOn
<1>5. Straight(input, walk')
  <2>1. ~walk.astray /\ Checkpoints = Marks(input)
    BY <1>2, InputIs DEF Straight
  <2>2. walk'.at = n /\ walk'.crossed = walk.crossed \cup ({n} \cap Marks(input)) /\ ~walk'.astray
    BY <1>1, <1>4, <2>1
  <2>3. QED
    BY <1>2, <1>3, <2>2, WalkOn
<1>6. QED
  BY <1>1, <1>2, <1>5 DEF CheckInv, Steady, Searches, Walks

(* Every step keeps the invariant.                                         *)
LEMMA CheckKeeps == CheckInv /\ [Next]_vars => CheckInv'
<1> SUFFICES ASSUME CheckInv, [Next]_vars PROVE CheckInv'
  OBVIOUS
<1>1. CASE UNCHANGED vars
  BY <1>1 DEF vars, CheckInv
<1>2. CASE Check
  BY <1>2, ReachKeeps, ReachedKeeps, VisitRootKeeps, VisitNextKeeps, LeaveKeeps,
     CycleDecidedKeeps, AvoidKeeps, ExtendKeeps, BypassDecidedKeeps, AdvancedKeeps,
     OutOfOrderKeeps, StartKeeps DEF Check
<1>3. CASE Walk
  BY <1>3, TakeKeeps DEF Walk
<1>4. QED
  BY <1>1, <1>2, <1>3 DEF Next

(* The invariant holds in every state.                                     *)
LEMMA CheckInvariant == Spec => []CheckInv
<1>1. CheckInv /\ [Next]_vars => CheckInv'
  BY CheckKeeps
<1>2. QED
  BY <1>1, CheckStarts, PTL DEF Spec

(* The invariant implies that every variable is of its kind.               *)
LEMMA TypeFromInv == CheckInv => TypeOK
<1> SUFFICES ASSUME CheckInv PROVE TypeOK
  OBVIOUS
<1>1. /\ input \in Inputs /\ phase \in Phases /\ errors \subseteq ErrorNames
      /\ Shown(input, witness) /\ Searches(input, phase, search, errors)
      /\ Walks(input, phase, errors, walk)
  BY DEF CheckInv, Steady, Verdicts
<1>2. search.todo \subseteq Known
  <2>1. Marks(input) \subseteq Nodes(input) /\ Free(input) \subseteq Nodes(input)
        /\ Nodes(input) \subseteq Known
    BY <1>1, InputParts, InputIs DEF Free, Around
  <2>2. QED
    BY <1>1, <2>1 DEF Searches, Phases, Reaching, Visits, Avoiding
<1>3. ToSet(witness) \subseteq Known
  <2>1. CASE witness = <<>>
    BY <2>1 DEF ToSet
  <2>2. CASE witness # <<>>
    <3>1. witness \in Seq(Around(input))
      BY <1>1, <2>2 DEF Shown, Walked
    <3>2. QED
      BY <3>1, InputIs DEF ToSet
  <2>3. QED
    BY <2>1, <2>2
<1>4. Visiting \subseteq g.nodes
  <2>1. CASE phase = "cycle"
    <3>1. search.stack \in Seq(Frames(input))
      BY <1>1, <2>1 DEF Searches, Visits
    <3>2. \A j \in DOMAIN search.stack : search.stack[j] \in Frames(input)
      BY <3>1
    <3>3. \A j \in DOMAIN search.stack : search.stack[j].node \in g.nodes
      BY <3>2, InputIs DEF Frames, Free
    <3>4. QED
      BY <3>3 DEF Visiting
  <2>2. CASE phase # "cycle"
    BY <1>1, <2>2 DEF Searches, Visiting
  <2>3. QED
    BY <2>1, <2>2
<1>5. walk.at \in g.nodes \cup {"none"} /\ walk.crossed \subseteq Checkpoints
  BY <1>1, InputIs DEF Walks, Straight, NoWalk
<1>6. QED
  BY <1>1, <1>2, <1>3, <1>4, <1>5 DEF TypeOK, Phases, ErrorNames

(* The searches of the graph checks are exact, for every graph: they find  *)
(* what is there and nothing else, and the path they report exists.        *)
THEOREM ChecksStayExact == Spec => []ChecksExact
<1>1. ASSUME CheckInv PROVE VerdictsExact
  BY <1>1, ConditionsAre DEF CheckInv, Steady, Verdicts, VerdictsExact
<1>2. ASSUME CheckInv PROVE WitnessIsReal
  <2>1. SUFFICES ASSUME witness # <<>>
                 PROVE  /\ witness[1] = g.start
                        /\ \A k \in 1..(Len(witness) - 1) : witness[k + 1] \in Ends(witness[k])
                        /\ LET passed(k) == {n \in Checkpoints : \E j \in 1..k : witness[j] = n}
                               at == Len(witness)
                           IN \/ Last(witness) = input.target /\ passed(at) # Checkpoints
                              \/ \E k \in DOMAIN input.checkpoints :
                                    /\ Last(witness) = input.checkpoints[k]
                                    /\ \E j \in 1..(k - 1) : input.checkpoints[j] \notin passed(at)
    BY DEF WitnessIsReal
  <2>2. input \in Inputs /\ Shown(input, witness) /\ Walked(input, witness)
    BY <1>2, <2>1 DEF CheckInv, Steady, Shown
  <2>3. witness[1] = g.start
        /\ \A k \in 1..(Len(witness) - 1) : witness[k + 1] \in Ends(witness[k])
    BY <2>2, InputIs DEF Walked
  <2> DEFINE passed == {n \in Checkpoints : \E j \in 1..Len(witness) : witness[j] = n}
  <2>4. passed = Marks(input) \cap ToSet(witness)
    <3>1. DOMAIN witness = 1..Len(witness)
      BY <2>2, WalkedParts
    <3>2. QED
      BY <3>1, InputIs DEF ToSet
  <2>5. DOMAIN input.checkpoints = 1..Len(input.checkpoints)
    BY <2>2, InputParts
  <2> HIDE DEF passed
  <2>6. \/ Last(witness) = input.target /\ passed # Checkpoints
        \/ \E k \in DOMAIN input.checkpoints :
              /\ Last(witness) = input.checkpoints[k]
              /\ \E j \in 1..(k - 1) : input.checkpoints[j] \notin passed
    <3>1. CASE Last(witness) = input.target /\ ~(Marks(input) \subseteq ToSet(witness))
      BY <2>4, <3>1, InputIs
    <3>2. CASE \E a \in 1..Len(input.checkpoints) :
                  /\ Last(witness) = input.checkpoints[a]
                  /\ \E b \in 1..(a - 1) : input.checkpoints[b] \notin ToSet(witness)
      BY <2>4, <2>5, <3>2
    <3>3. QED
      BY <2>1, <2>2, <3>1, <3>2 DEF Shown
  <2>7. QED
    BY <2>3, <2>6 DEF passed
<1>3. CheckInv => ChecksExact
  BY <1>1, <1>2, TypeFromInv DEF ChecksExact
<1>4. QED
  BY <1>3, CheckInvariant, PTL

(* A walk of a graph that passed the checks is never at the privileged     *)
(* target before it has crossed every checkpoint, each in its turn.        *)
THEOREM OrderStaysProved == Spec => []OrderProved
<1>1. ASSUME CheckInv, phase = "walk", walk.at = input.target
      PROVE  ~walk.astray /\ walk.crossed = Checkpoints
  <2>1. input \in Inputs /\ Straight(input, walk)
    BY <1>1 DEF CheckInv, Steady, Walks
  <2>2. walk.crossed = Marks(input)
    BY <1>1, <2>1, CrossedAll DEF Straight, Guarded, Settled
  <2>3. QED
    BY <2>1, <2>2, InputIs DEF Straight
<1>2. CheckInv => OrderProved
  BY <1>1 DEF OrderProved
<1>3. QED
  BY <1>2, CheckInvariant, PTL
=============================================================================
