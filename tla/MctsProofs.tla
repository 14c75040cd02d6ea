------------------------------ MODULE MctsProofs ------------------------------
(***************************************************************************)
(* Theorems about Mcts, for every proof system, every set of goals and     *)
(* tactics and every budget.                                               *)
(*                                                                         *)
(* The nodes are a tree that grows at its leaves, and flags are only ever  *)
(* set.  A flag is backed by the flags below it at any time; what may lag  *)
(* behind are the flags of the nodes on the path, because only they have   *)
(* descendants that are worked on.                                         *)
(***************************************************************************)
EXTENDS Mcts, WellFoundedInduction, TLAPS

Edges == [by : Tactics \cup {"focus"}, child : Nat]
NodeStates == [state : Seq(Goals), kind : {"or", "and"}, solved : BOOLEAN, children : Seq(Edges)]

TypeOK ==
    /\ rules \in Systems /\ open \in SUBSET OpenGoals
    /\ nodes \in Seq(NodeStates) /\ path \in Seq(Nat)
    /\ phase \in {"select", "expand", "back", "ended"}
    /\ offered \in Seq(Tactics) /\ step \in Nat
    /\ verdict \in {"none", "solved", "exhausted"}

\* The child that edge k of node i leads to.
Child(ns, i, k) == ns[i].children[k].child

\* A child comes after its parent, and has no other.
Tree(ns) ==
    /\ \A i \in DOMAIN ns : \A k \in DOMAIN ns[i].children : Child(ns, i, k) \in (i + 1)..Len(ns)
    /\ \A i, j \in DOMAIN ns : \A k \in DOMAIN ns[i].children, l \in DOMAIN ns[j].children :
            Child(ns, i, k) = Child(ns, j, l) => i = j

\* An edge of an OR node is what its tactic made of the state; an AND node has
\* one child for each of its goals.
Shape(ns) ==
    \A i \in DOMAIN ns :
        /\ ns[i].kind = "or" => \A k \in DOMAIN ns[i].children :
                ns[Child(ns, i, k)].state = Apply(ns[i].state, ns[i].children[k].by)
        /\ ns[i].kind = "and" =>
                /\ Len(ns[i].state) > 1 /\ Len(ns[i].children) = Len(ns[i].state)
                /\ \A k \in DOMAIN ns[i].children : ns[Child(ns, i, k)].state = <<ns[i].state[k]>>

\* A flag is set on a state without goals, and otherwise only when the flags of
\* the children say so.
Backed(ns) ==
    \A i \in DOMAIN ns :
        /\ ns[i].state = << >> => ns[i].solved
        /\ ns[i].solved /\ ns[i].kind = "or" =>
                \/ ns[i].state = << >>
                \/ \E k \in DOMAIN ns[i].children : ns[Child(ns, i, k)].solved
        /\ ns[i].solved /\ ns[i].kind = "and" =>
                \A k \in DOMAIN ns[i].children : ns[Child(ns, i, k)].solved

\* p goes down from the root of ns, one edge at a time.
Downward(p, ns) ==
    /\ p # << >> /\ p[1] = 1
    /\ \A k \in DOMAIN p : p[k] \in DOMAIN ns
    /\ \A k \in DOMAIN p : k > 1 => p[k] \in Children(ns, p[k - 1])

PathInv == Downward(path, nodes)

PhaseInv ==
    /\ phase = "expand" => /\ nodes[Here].kind = "or"
                           /\ offered # << >> => nodes[Here].state # << >>
    /\ phase = "ended" => Len(path) = 1

\* The nodes whose flag may lag behind their children's: the whole path while its
\* end is expanded, all but its end on the way back.
MayLag ==
    IF phase = "expand" THEN {path[k] : k \in DOMAIN path}
    ELSE IF phase = "back" THEN {path[k] : k \in 1..(Len(path) - 1)}
    ELSE {}

AgreeInv == \A i \in DOMAIN nodes \ MayLag : nodes[i].solved = NodeSolved(nodes, i)

IInv == TypeOK /\ Tree(nodes) /\ Shape(nodes) /\ Backed(nodes) /\ PathInv /\ PhaseInv /\ AgreeInv

-----------------------------------------------------------------------------
(* Least and greatest elements.                                            *)

LEMMA LeastNat ==
  ASSUME NEW S \in SUBSET Nat, S # {}
  PROVE  \E k \in S : \A j \in S : k <= j
<1>1. PICK k \in S : \A j \in S : ~(<<j, k>> \in OpToRel(<, Nat))
  BY NatLessThanWellFounded, WFMin, Zenon
<1>2. \A j \in S : ~(j < k)
  BY <1>1 DEF OpToRel
<1>3. QED
  BY <1>2

LEMMA GreatestNat ==
  ASSUME NEW n \in Nat, NEW S \in SUBSET (0..n), S # {}
  PROVE  \E k \in S : \A j \in S : j <= k
<1> DEFINE T == {m \in Nat : n - m \in S}
<1>1. T # {}
  <2>1. PICK k \in S : TRUE
    OBVIOUS
  <2>2. n - k \in Nat /\ n - (n - k) = k
    OBVIOUS
  <2>3. QED
    BY <2>1, <2>2
<1>2. PICK m \in T : \A l \in T : m <= l
  BY <1>1, LeastNat
<1>3. n - m \in S
  OBVIOUS
<1>4. ASSUME NEW j \in S PROVE j <= n - m
  <2>1. j \in 0..n /\ n - j \in Nat /\ n - (n - j) = j
    OBVIOUS
  <2>2. n - j \in T
    BY <2>1
  <2>3. QED
    BY <1>2, <2>1, <2>2
<1>5. QED
  BY <1>3, <1>4

-----------------------------------------------------------------------------
(* The values of nodes.                                                    *)

\* An element of a sequence has the type of its elements.
LEMMA ElementType == \A S : \A s \in Seq(S) : \A i \in DOMAIN s : s[i] \in S
OBVIOUS

LEMMA NodeType ==
  ASSUME NEW ns \in Seq(NodeStates), NEW i \in DOMAIN ns
  PROVE  /\ DOMAIN ns = 1..Len(ns) /\ Len(ns) \in Nat /\ ns[i] \in NodeStates
         /\ ns[i].state \in Seq(Goals) /\ ns[i].kind \in {"or", "and"}
         /\ ns[i].solved \in BOOLEAN /\ ns[i].children \in Seq(Edges)
<1>1. ns[i] \in NodeStates /\ DOMAIN ns = 1..Len(ns) /\ Len(ns) \in Nat
  BY ElementType
<1>2. QED
  BY <1>1 DEF NodeStates

LEMMA EdgeType ==
  ASSUME NEW ns \in Seq(NodeStates), Tree(ns), NEW i \in DOMAIN ns, NEW k \in DOMAIN ns[i].children
  PROVE  /\ ns[i].children[k] \in Edges /\ k \in Nat
         /\ Child(ns, i, k) \in DOMAIN ns /\ i < Child(ns, i, k)
<1>1. ns[i].children \in Seq(Edges) /\ DOMAIN ns = 1..Len(ns) /\ Len(ns) \in Nat
  BY NodeType
<1>2. ns[i].children[k] \in Edges /\ k \in Nat
  BY <1>1, ElementType
<1>3. Child(ns, i, k) \in (i + 1)..Len(ns) /\ i \in Nat
  BY <1>1 DEF Tree
<1>4. QED
  BY <1>1, <1>2, <1>3

-----------------------------------------------------------------------------
(* What the replay finds.                                                  *)

\* One step of the replay at node i, if R are the nodes it succeeds on.
ReplayStep(R, i) ==
    IF nodes[i].kind = "or"
    THEN \/ nodes[i].state = << >>
         \/ /\ SolvedChildren(i) # {}
            /\ LET edge == nodes[i].children[FirstSolved(i)] IN
               /\ Apply(nodes[i].state, edge.by) = nodes[edge.child].state
               /\ edge.child \in R
    ELSE \A k \in DOMAIN nodes[i].children :
            LET c == nodes[i].children[k].child IN
            /\ nodes[c].solved
            /\ nodes[c].state = <<nodes[i].state[k]>>
            /\ c \in R

LEMMA FirstIsSolved ==
  ASSUME NEW i, nodes[i].children \in Seq(Edges), SolvedChildren(i) # {}
  PROVE  FirstSolved(i) \in SolvedChildren(i)
<1>1. SolvedChildren(i) \in SUBSET Nat
  BY DEF SolvedChildren
<1>2. \E k \in SolvedChildren(i) : \A j \in SolvedChildren(i) : k <= j
  BY <1>1, LeastNat
<1>3. QED
  BY <1>2 DEF FirstSolved

\* The replay succeeds on more nodes when it succeeds on more children.
LEMMA ReplayMonotone ==
  ASSUME NEW R, NEW S, R \subseteq S, NEW i, ReplayStep(R, i)
  PROVE  ReplayStep(S, i)
BY DEF ReplayStep

\* There is a set of nodes that one step of the replay maps to itself: the union of
\* all those it maps to more.
LEMMA ReplaySet ==
  \E R \in SUBSET (1..Len(nodes)) : \A i \in 1..Len(nodes) : i \in R <=> ReplayStep(R, i)
<1> DEFINE N == 1..Len(nodes)
           R == UNION {S \in SUBSET N : \A i \in S : ReplayStep(S, i)}
<1>1. R \in SUBSET N
  OBVIOUS
<1>2. ASSUME NEW i \in R PROVE ReplayStep(R, i)
  <2>1. PICK S \in SUBSET N : i \in S /\ \A j \in S : ReplayStep(S, j)
    OBVIOUS
  <2>2. S \subseteq R
    BY <2>1
  <2>3. QED
    BY <2>1, <2>2, ReplayMonotone
<1>3. ASSUME NEW i \in N, ReplayStep(R, i) PROVE i \in R
  <2> DEFINE S == R \cup {i}
  <2>1. R \subseteq S /\ S \in SUBSET N
    OBVIOUS
  <2>2. ASSUME NEW j \in S PROVE ReplayStep(S, j)
    <3>1. ReplayStep(R, j)
      BY <1>2, <1>3
    <3>2. QED
      BY <2>1, <3>1, ReplayMonotone
  <2>3. S \in {Z \in SUBSET N : \A j \in Z : ReplayStep(Z, j)}
    BY <2>1, <2>2
  <2>4. QED
    BY <2>3
<1> HIDE DEF R
<1>4. QED
  BY <1>1, <1>2, <1>3

\* The body of Replays, for the function f.
ReplayBody(f, i) ==
    IF nodes[i].kind = "or"
    THEN \/ nodes[i].state = << >>
         \/ /\ SolvedChildren(i) # {}
            /\ LET edge == nodes[i].children[FirstSolved(i)] IN
               /\ Apply(nodes[i].state, edge.by) = nodes[edge.child].state
               /\ f[edge.child]
    ELSE \A k \in DOMAIN nodes[i].children :
            LET c == nodes[i].children[k].child IN
            /\ nodes[c].solved
            /\ nodes[c].state = <<nodes[i].state[k]>>
            /\ f[c]

\* Replays satisfies its own equation: some function does.
LEMMA ReplaysUnfold ==
  ASSUME nodes \in Seq(NodeStates), Tree(nodes)
  PROVE  \A i \in 1..Len(nodes) : Replays[i] <=> ReplayBody(Replays, i)
<1> DEFINE N == 1..Len(nodes)
<1>1. PICK R \in SUBSET N : \A i \in N : i \in R <=> ReplayStep(R, i)
  BY ReplaySet
<1> DEFINE g == [i \in N |-> i \in R]
<1>2. ASSUME NEW i \in N PROVE ReplayBody(g, i) = (i \in R)
  <2>1. \A k \in DOMAIN nodes[i].children : g[nodes[i].children[k].child] <=> nodes[i].children[k].child \in R
    <3>1. \A k \in DOMAIN nodes[i].children : nodes[i].children[k].child \in N
      BY EdgeType DEF Child
    <3>2. QED
      BY <3>1
  <2>2. nodes[i].children \in Seq(Edges)
    BY NodeType
  <2>3. SolvedChildren(i) # {} => FirstSolved(i) \in DOMAIN nodes[i].children
    BY <2>2, FirstIsSolved DEF SolvedChildren
  <2> HIDE DEF g
  <2>4. ReplayBody(g, i) <=> ReplayStep(R, i)
    BY <2>1, <2>3 DEF ReplayBody, ReplayStep
  <2>5. ReplayBody(g, i) \in BOOLEAN
    BY DEF ReplayBody
  <2>6. ReplayBody(g, i) <=> i \in R
    BY <1>1, <2>4
  <2>7. QED
    BY <2>5, <2>6
<1>3. g = [i \in N |-> ReplayBody(g, i)]
  <2>1. \A i \in N : g[i] = (i \in R)
    OBVIOUS
  <2>2. g = [i \in N |-> g[i]]
    OBVIOUS
  <2> HIDE DEF g
  <2>3. \A i \in N : g[i] = ReplayBody(g, i)
    BY <1>2, <2>1
  <2>4. QED
    BY <2>2, <2>3, Zenon
<1>4. Replays = CHOOSE f : f = [i \in N |-> ReplayBody(f, i)]
  BY DEF Replays, ReplayBody
<1> HIDE DEF g
<1>5. Replays = [i \in N |-> ReplayBody(Replays, i)]
  BY <1>3, <1>4, Zenon
<1>6. QED
  BY <1>5

\* In a tree whose flags are backed the replay succeeds on every solved node: the
\* last one on which it did not would have a later one among its children.
LEMMA BackedReplays ==
  ASSUME nodes \in Seq(NodeStates), Tree(nodes), Shape(nodes), Backed(nodes)
  PROVE  SolvedReplays
<1> DEFINE T == {i \in DOMAIN nodes : nodes[i].solved /\ ~Replays[i]}
<1>1. DOMAIN nodes = 1..Len(nodes) /\ Len(nodes) \in Nat
  OBVIOUS
<1>2. SUFFICES ASSUME T # {} PROVE FALSE
  BY DEF SolvedReplays
<1>3. PICK m \in T : \A j \in T : j <= m
  <2>1. T \in SUBSET (0..Len(nodes))
    BY <1>1
  <2> HIDE DEF T
  <2>2. QED
    BY <1>1, <1>2, <2>1, GreatestNat
<1>4. ASSUME NEW k \in DOMAIN nodes[m].children, nodes[Child(nodes, m, k)].solved
      PROVE  Replays[Child(nodes, m, k)]
  <2>1. Child(nodes, m, k) \in DOMAIN nodes /\ m < Child(nodes, m, k)
    BY EdgeType
  <2>2. Child(nodes, m, k) \notin T
    BY <1>1, <1>3, <2>1
  <2>3. QED
    BY <1>4, <2>1, <2>2
<1>5. nodes[m].children \in Seq(Edges)
  BY NodeType
<1>6. CASE nodes[m].kind = "or"
  <2>1. CASE nodes[m].state = << >>
    BY <1>1, <1>6, <2>1, ReplaysUnfold DEF ReplayBody
  <2>2. CASE nodes[m].state # << >>
    <3>1. SolvedChildren(m) # {}
      BY <1>6, <2>2 DEF Backed, SolvedChildren, Child
    <3>2. PICK k \in DOMAIN nodes[m].children :
            k = FirstSolved(m) /\ nodes[Child(nodes, m, k)].solved
      BY <1>5, <3>1, FirstIsSolved DEF SolvedChildren, Child
    <3>3. Apply(nodes[m].state, nodes[m].children[k].by) = nodes[Child(nodes, m, k)].state
      BY <1>6 DEF Shape
    <3>4. ReplayBody(Replays, m)
      BY <1>4, <1>6, <3>1, <3>2, <3>3 DEF ReplayBody, Child
    <3>5. QED
      BY <1>1, <3>4, ReplaysUnfold
  <2>3. QED
    BY <2>1, <2>2
<1>7. CASE nodes[m].kind = "and"
  <2>1. \A k \in DOMAIN nodes[m].children :
          /\ nodes[Child(nodes, m, k)].solved
          /\ nodes[Child(nodes, m, k)].state = <<nodes[m].state[k]>>
    BY <1>7 DEF Backed, Shape
  <2>2. ReplayBody(Replays, m)
    BY <1>4, <1>7, <2>1 DEF ReplayBody, Child
  <2>3. QED
    BY <1>1, <2>2, ReplaysUnfold
<1>8. QED
  BY <1>6, <1>7, NodeType

-----------------------------------------------------------------------------
(* Steps that set a flag.                                                  *)

\* ms is the tree ns after the flag of node i, and of no other, may have been set,
\* which the flags below it allow.
FlagStep(ms, ns, i) ==
    /\ ms \in Seq(NodeStates) /\ DOMAIN ms = DOMAIN ns /\ Len(ms) = Len(ns)
    /\ \A j \in DOMAIN ns : /\ ms[j].state = ns[j].state /\ ms[j].kind = ns[j].kind
                            /\ ms[j].children = ns[j].children
    /\ \A j \in DOMAIN ns \ {i} : ms[j].solved = ns[j].solved
    /\ ns[i].solved => ms[i].solved
    /\ ms[i].solved => NodeSolved(ns, i)

LEMMA NodeSolvedBy ==
  ASSUME NEW ns, NEW i
  PROVE  NodeSolved(ns, i) <=>
           \/ ns[i].solved
           \/ ns[i].kind = "or" /\ \E k \in DOMAIN ns[i].children : ns[Child(ns, i, k)].solved
           \/ /\ ns[i].kind = "and" /\ ns[i].children # << >>
              /\ \A k \in DOMAIN ns[i].children : ns[Child(ns, i, k)].solved
BY DEF NodeSolved, Children, Child

LEMMA RefreshedStep ==
  ASSUME NEW ns \in Seq(NodeStates), NEW i \in DOMAIN ns
  PROVE  /\ FlagStep(Refreshed(ns, i), ns, i)
         /\ Refreshed(ns, i)[i].solved = NodeSolved(ns, i)
<1>1. PICK b \in BOOLEAN : b = NodeSolved(ns, i)
  BY DEF NodeSolved
<1>2. ns[i] \in NodeStates /\ DOMAIN ns = 1..Len(ns)
  BY NodeType
<1>3. PICK n \in NodeStates : /\ n = [ns[i] EXCEPT !.solved = b]
                              /\ n.state = ns[i].state /\ n.kind = ns[i].kind
                              /\ n.children = ns[i].children /\ n.solved = b
  <2>1. PICK z \in NodeStates : z = ns[i]
    BY <1>2
  <2>2. PICK n \in NodeStates : n = [z EXCEPT !.solved = b]
    BY DEF NodeStates
  <2>3. n.state = z.state /\ n.kind = z.kind /\ n.children = z.children /\ n.solved = b
    BY <2>2 DEF NodeStates
  <2>4. QED
    BY <2>1, <2>2, <2>3
<1>4. Refreshed(ns, i) = [ns EXCEPT ![i] = n]
  BY <1>1, <1>3 DEF Refreshed
<1>5. /\ [ns EXCEPT ![i] = n] \in Seq(NodeStates) /\ Len([ns EXCEPT ![i] = n]) = Len(ns)
      /\ DOMAIN [ns EXCEPT ![i] = n] = DOMAIN ns
      /\ [ns EXCEPT ![i] = n][i] = n
      /\ \A j \in DOMAIN ns \ {i} : [ns EXCEPT ![i] = n][j] = ns[j]
  OBVIOUS
<1>6. ns[i].solved => b
  BY <1>1 DEF NodeSolved
<1>7. QED
  BY <1>1, <1>3, <1>4, <1>5, <1>6 DEF FlagStep

LEMMA FlagStepKeeps ==
  ASSUME NEW ns \in Seq(NodeStates), NEW i \in DOMAIN ns, NEW ms, FlagStep(ms, ns, i),
         Tree(ns), Shape(ns), Backed(ns)
  PROVE  Tree(ms) /\ Shape(ms) /\ Backed(ms)
<1>1. \A j \in DOMAIN ns : \A k \in DOMAIN ns[j].children :
        Child(ns, j, k) \in DOMAIN ns /\ Child(ms, j, k) = Child(ns, j, k)
  BY EdgeType DEF FlagStep, Child
<1>2. Tree(ms)
  BY <1>1 DEF FlagStep, Tree
<1>3. Shape(ms)
  <2>1. SUFFICES ASSUME NEW j \in DOMAIN ns
                 PROVE  /\ ms[j].kind = "or" => \A k \in DOMAIN ms[j].children :
                              ms[Child(ms, j, k)].state = Apply(ms[j].state, ms[j].children[k].by)
                        /\ ms[j].kind = "and" =>
                              /\ Len(ms[j].state) > 1 /\ Len(ms[j].children) = Len(ms[j].state)
                              /\ \A k \in DOMAIN ms[j].children :
                                    ms[Child(ms, j, k)].state = <<ms[j].state[k]>>
    BY DEF FlagStep, Shape
  <2>2. /\ ms[j].state = ns[j].state /\ ms[j].kind = ns[j].kind /\ ms[j].children = ns[j].children
        /\ \A k \in DOMAIN ns[j].children : ms[Child(ms, j, k)].state = ns[Child(ns, j, k)].state
    BY <1>1 DEF FlagStep
  <2>3. CASE ns[j].kind = "or"
    BY <2>2, <2>3 DEF Shape
  <2>4. CASE ns[j].kind = "and"
    BY <2>2, <2>4 DEF Shape
  <2>5. QED
    BY <2>2, <2>3, <2>4
<1>4. \A j \in DOMAIN ns : ns[j].solved => ms[j].solved
  BY DEF FlagStep
<1>5. ASSUME NEW j \in DOMAIN ns, ms[j].solved
      PROVE  /\ ns[j].kind = "or" => \/ ns[j].state = << >>
                                    \/ \E k \in DOMAIN ns[j].children : ns[Child(ns, j, k)].solved
             /\ ns[j].kind = "and" => \A k \in DOMAIN ns[j].children : ns[Child(ns, j, k)].solved
  <2>1. NodeSolved(ns, j)
    <3>1. CASE j = i
      BY <1>5, <3>1 DEF FlagStep
    <3>2. CASE j # i
      BY <1>5, <3>2, NodeSolvedBy DEF FlagStep
    <3>3. QED
      BY <3>1, <3>2
  <2>2. QED
    BY <2>1, NodeSolvedBy DEF Backed
<1>6. ASSUME NEW j \in DOMAIN ns
      PROVE  /\ ms[j].state = << >> => ms[j].solved
             /\ ms[j].solved /\ ms[j].kind = "or" =>
                  \/ ms[j].state = << >>
                  \/ \E k \in DOMAIN ms[j].children : ms[Child(ms, j, k)].solved
             /\ ms[j].solved /\ ms[j].kind = "and" =>
                  \A k \in DOMAIN ms[j].children : ms[Child(ms, j, k)].solved
  <2>1. /\ ms[j].state = ns[j].state /\ ms[j].kind = ns[j].kind
        /\ ms[j].children = ns[j].children
    BY DEF FlagStep
  <2>2. \A k \in DOMAIN ns[j].children :
          /\ Child(ms, j, k) = Child(ns, j, k)
          /\ ns[Child(ns, j, k)].solved => ms[Child(ns, j, k)].solved
    BY <1>1, <1>4
  <2>3. ns[j].state = << >> => ms[j].solved
    BY <1>4 DEF Backed
  <2>4. QED
    BY <1>5, <2>1, <2>2, <2>3
<1>7. DOMAIN ms = DOMAIN ns
  BY DEF FlagStep
<1>8. Backed(ms)
  BY <1>6, <1>7 DEF Backed
<1>9. QED
  BY <1>2, <1>3, <1>8

\* A node that is not a parent of i, nor i itself, agrees as before.
LEMMA FlagStepAgrees ==
  ASSUME NEW ns \in Seq(NodeStates), NEW i \in DOMAIN ns, NEW ms, FlagStep(ms, ns, i),
         Tree(ns), NEW j \in DOMAIN ns \ {i}, i \notin Children(ns, j),
         ns[j].solved = NodeSolved(ns, j)
  PROVE  ms[j].solved = NodeSolved(ms, j)
<1>1. \A k \in DOMAIN ns[j].children :
        /\ Child(ns, j, k) \in DOMAIN ns \ {i} /\ Child(ms, j, k) = Child(ns, j, k)
  BY EdgeType DEF FlagStep, Child, Children
<1>2. \A k \in DOMAIN ns[j].children : ms[Child(ms, j, k)].solved = ns[Child(ns, j, k)].solved
  BY <1>1 DEF FlagStep
<1>3. /\ ms[j].solved = ns[j].solved /\ ms[j].kind = ns[j].kind
      /\ ms[j].children = ns[j].children
  BY DEF FlagStep
<1>4. NodeSolved(ms, j) <=> NodeSolved(ns, j)
  BY <1>2, <1>3, NodeSolvedBy
<1>5. QED
  BY <1>3, <1>4 DEF NodeSolved

\* The node that was refreshed agrees.
LEMMA RefreshedAgrees ==
  ASSUME NEW ns \in Seq(NodeStates), NEW i \in DOMAIN ns, Tree(ns)
  PROVE  Refreshed(ns, i)[i].solved = NodeSolved(Refreshed(ns, i), i)
<1> DEFINE ms == Refreshed(ns, i)
<1>1. FlagStep(ms, ns, i) /\ ms[i].solved = NodeSolved(ns, i)
  BY RefreshedStep
<1> HIDE DEF ms
<1>2. \A k \in DOMAIN ns[i].children :
        Child(ms, i, k) = Child(ns, i, k) /\ ms[Child(ms, i, k)].solved = ns[Child(ns, i, k)].solved
  <2>1. \A k \in DOMAIN ns[i].children : Child(ns, i, k) \in DOMAIN ns \ {i}
    BY EdgeType, NodeType
  <2>2. QED
    BY <1>1, <2>1 DEF FlagStep, Child
<1>3. ms[i].kind = ns[i].kind /\ ms[i].children = ns[i].children /\ ms[i].solved \in BOOLEAN
  BY <1>1 DEF FlagStep, NodeSolved
<1>4. NodeSolved(ms, i) <=> ms[i].solved
  BY <1>1, <1>2, <1>3, NodeSolvedBy
<1>5. QED
  BY <1>3, <1>4 DEF NodeSolved, ms

-----------------------------------------------------------------------------
(* Steps that push a child.                                                *)

LEMMA ApplyType ==
  ASSUME TypeOK, NEW state \in Seq(Goals), state # << >>, NEW t \in Tactics,
         Apply(state, t) # Fails
  PROVE  Apply(state, t) \in Seq(Goals)
<1>1. state[1] \in Goals /\ Tail(state) \in Seq(Goals)
  OBVIOUS
<1>2. rules[<<state[1], t>>] \in {Fails} \cup Seq(Goals)
  BY <1>1, MctsAssumption DEF TypeOK
<1>3. rules[<<state[1], t>>] # Fails
  BY DEF Apply
<1>4. QED
  BY <1>1, <1>2, <1>3 DEF Apply

\* The goals an AND child is split into.
Focus(state) == IF ChildKind(state) = "and" THEN state ELSE << >>

\* ms is ns with a child of i for the state a tactic t left, and with the children
\* of that child if it is an AND node.
Grown(ms, ns, i, t, state) ==
    LET c == Len(ns) + 1
        m == Len(Focus(state))
    IN  /\ ms \in Seq(NodeStates) /\ Len(ms) = c + m
        /\ \A j \in DOMAIN ns : /\ ms[j].state = ns[j].state /\ ms[j].kind = ns[j].kind
                                /\ ms[j].solved = ns[j].solved
        /\ \A j \in DOMAIN ns \ {i} : ms[j].children = ns[j].children
        /\ ms[i].children = Append(ns[i].children, [by |-> t, child |-> c])
        /\ ms[c].state = state /\ ms[c].kind = ChildKind(state)
        /\ ms[c].solved = (state = << >>)
        /\ DOMAIN ms[c].children = 1..m /\ \A k \in 1..m : ms[c].children[k].child = c + k
        /\ \A k \in 1..m : /\ ms[c + k].state = <<state[k]>> /\ ms[c + k].kind = "or"
                           /\ ms[c + k].solved = FALSE /\ ms[c + k].children = << >>

LEMMA FocusType ==
  ASSUME NEW state \in Seq(Goals)
  PROVE  /\ Focus(state) \in Seq(Goals) /\ Len(Focus(state)) \in Nat
         /\ DOMAIN Focus(state) = 1..Len(Focus(state))
         /\ ChildKind(state) \in {"or", "and"}
         /\ ChildKind(state) = "and" => Focus(state) = state /\ Len(state) > 1
         /\ ChildKind(state) = "or" => Len(Focus(state)) = 0
<1>1. ChildKind(state) \in {"or", "and"} /\ (ChildKind(state) = "and" => Len(state) > 1)
  BY DEF ChildKind
<1>2. ChildKind(state) = "and" => Focus(state) = state
  BY DEF Focus
<1>3. ChildKind(state) = "or" => Focus(state) = << >>
  BY DEF Focus
<1>4. << >> \in Seq(Goals) /\ Len(<< >>) = 0
  OBVIOUS
<1>5. Focus(state) \in Seq(Goals)
  BY <1>1, <1>2, <1>3, <1>4
<1>6. Len(Focus(state)) \in Nat /\ DOMAIN Focus(state) = 1..Len(Focus(state))
  BY <1>5
<1>7. QED
  BY <1>1, <1>2, <1>3, <1>4, <1>5, <1>6

LEMMA LeafType ==
  ASSUME NEW state \in Seq(Goals), NEW kind \in {"or", "and"}
  PROVE  /\ Leaf(state, kind) \in NodeStates /\ Leaf(state, kind).state = state
         /\ Leaf(state, kind).kind = kind /\ Leaf(state, kind).solved = (state = << >>)
         /\ Leaf(state, kind).children = << >>
BY DEF Leaf, NodeStates

LEMMA PushedGrows ==
  ASSUME nodes \in Seq(NodeStates), NEW i \in DOMAIN nodes, NEW t \in Tactics,
         NEW state \in Seq(Goals)
  PROVE  Grown(Pushed(i, t, state), nodes, i, t, state)
<1> DEFINE goals == Focus(state)
           m == Len(Focus(state))
           c == Len(nodes) + 1
           edge == [by |-> t, child |-> c]
           more == [k \in DOMAIN goals |-> [by |-> "focus", child |-> c + k]]
           child == [Leaf(state, ChildKind(state)) EXCEPT !.children = more]
           parent == [nodes EXCEPT ![i].children = Append(@, edge)]
           leaves == [k \in DOMAIN goals |-> Leaf(<<goals[k]>>, "or")]
<1>1. Pushed(i, t, state) = Append(parent, child) \o leaves
  BY DEF Pushed, Focus
<1>2. /\ goals \in Seq(Goals) /\ m \in Nat /\ DOMAIN goals = 1..m /\ ChildKind(state) \in {"or", "and"}
      /\ \A k \in 1..m : goals[k] = state[k] /\ goals[k] \in Goals
  <2>1. goals \in Seq(Goals) /\ m \in Nat /\ DOMAIN goals = 1..m /\ ChildKind(state) \in {"or", "and"}
    BY FocusType
  <2>2. \A k \in 1..m : goals[k] = state[k]
    BY <2>1, FocusType DEF Focus
  <2>3. \A k \in 1..m : goals[k] \in Goals
    BY <2>1, ElementType
  <2>4. QED
    BY <2>1, <2>2, <2>3
<1>3. c \in Nat /\ c = Len(nodes) + 1 /\ DOMAIN nodes = 1..Len(nodes) /\ Len(nodes) \in Nat
  OBVIOUS
<1>4. PICK e \in Edges : e = edge
  BY <1>3 DEF Edges
<1> HIDE DEF c
<1>5. PICK p \in NodeStates : /\ p = [nodes[i] EXCEPT !.children = Append(nodes[i].children, e)]
                              /\ p.state = nodes[i].state /\ p.kind = nodes[i].kind
                              /\ p.solved = nodes[i].solved
                              /\ p.children = Append(nodes[i].children, e)
  <2>1. PICK z \in NodeStates : z = nodes[i]
    BY NodeType
  <2>2. PICK es \in Seq(Edges) : es = Append(nodes[i].children, e)
    <3>1. PICK ec \in Seq(Edges) : ec = nodes[i].children
      BY NodeType
    <3>2. Append(ec, e) \in Seq(Edges)
      OBVIOUS
    <3>3. QED
      BY <3>1, <3>2
  <2>3. PICK n \in NodeStates : n = [z EXCEPT !.children = es]
    BY DEF NodeStates
  <2>4. n.state = z.state /\ n.kind = z.kind /\ n.solved = z.solved /\ n.children = es
    BY <2>3 DEF NodeStates
  <2>5. QED
    BY <2>1, <2>2, <2>3, <2>4
<1>6. /\ parent = [nodes EXCEPT ![i] = p] /\ parent \in Seq(NodeStates) /\ Len(parent) = Len(nodes)
      /\ parent[i] = p /\ \A j \in DOMAIN nodes \ {i} : parent[j] = nodes[j]
  <2>1. parent = [nodes EXCEPT ![i] = p]
    BY <1>4, <1>5
  <2> HIDE DEF parent
  <2>2. QED
    BY <2>1
<1>7. PICK ms \in Seq(Edges) : /\ ms = more /\ DOMAIN ms = 1..m
                               /\ \A k \in 1..m : ms[k].child = c + k
  <2>1. \A k \in 1..m : [by |-> "focus", child |-> c + k] \in Edges
    BY <1>2, <1>3 DEF Edges
  <2>2. more = [k \in 1..m |-> [by |-> "focus", child |-> c + k]]
    BY <1>2
  <2>3. [k \in 1..m |-> [by |-> "focus", child |-> c + k]] \in Seq(Edges)
    BY <1>2, <2>1
  <2>4. QED
    BY <2>2, <2>3
<1>8. PICK d \in NodeStates : /\ d = child /\ d.state = state /\ d.kind = ChildKind(state)
                              /\ d.solved = (state = << >>) /\ d.children = ms
  <2>1. PICK z \in NodeStates : z = Leaf(state, ChildKind(state))
    BY <1>2, LeafType
  <2>2. PICK n \in NodeStates : n = [z EXCEPT !.children = ms]
    BY DEF NodeStates
  <2>3. n.state = z.state /\ n.kind = z.kind /\ n.solved = z.solved /\ n.children = ms
    BY <2>2 DEF NodeStates
  <2>4. n = child
    BY <1>7, <2>1, <2>2
  <2> HIDE DEF child, more, m
  <2>5. z.state = state /\ z.kind = ChildKind(state) /\ z.solved = (state = << >>)
    BY <1>2, <2>1, LeafType
  <2>6. QED
    BY <2>3, <2>4, <2>5
<1>9. PICK ls \in Seq(NodeStates) : /\ ls = leaves /\ Len(ls) = m
                                    /\ \A k \in 1..m : ls[k] = Leaf(<<goals[k]>>, "or")
  <2>1. \A g \in Goals : <<g>> \in Seq(Goals)
    OBVIOUS
  <2>2. \A k \in 1..m : Leaf(<<goals[k]>>, "or") \in NodeStates
    BY <1>2, <2>1, LeafType
  <2>3. leaves = [k \in 1..m |-> Leaf(<<goals[k]>>, "or")]
    BY <1>2
  <2>4. leaves = [k \in 1..m |-> leaves[k]] /\ \A k \in 1..m : leaves[k] = Leaf(<<goals[k]>>, "or")
    BY <1>2
  <2> HIDE DEF leaves, goals, m
  <2>5. \A k \in 1..m : leaves[k] \in NodeStates
    BY <2>2, <2>4
  <2>6. leaves \in [1..m -> NodeStates]
    BY <2>4, <2>5
  <2>7. leaves \in Seq(NodeStates) /\ Len(leaves) = m
    BY <1>2, <2>6
  <2>8. QED
    BY <2>4, <2>7
<1>10. \A k \in 1..m : /\ ls[k].state = <<state[k]>> /\ ls[k].kind = "or"
                       /\ ls[k].solved = FALSE /\ ls[k].children = << >>
  <2>1. \A g \in Goals : <<g>> \in Seq(Goals) /\ <<g>> # << >>
    OBVIOUS
  <2>2. \A g \in Goals : /\ Leaf(<<g>>, "or").state = <<g>> /\ Leaf(<<g>>, "or").kind = "or"
                         /\ Leaf(<<g>>, "or").solved = FALSE /\ Leaf(<<g>>, "or").children = << >>
    BY <2>1, LeafType
  <2> HIDE DEF goals, m
  <2>3. QED
    BY <1>2, <1>9, <2>2
<1>11. PICK ns \in Seq(NodeStates) : /\ ns = Pushed(i, t, state) /\ Len(ns) = c + m
                                     /\ \A j \in 1..Len(nodes) : ns[j] = parent[j]
                                     /\ ns[c] = d
                                     /\ \A k \in 1..m : ns[c + k] = ls[k]
  <2> HIDE DEF parent, child, leaves, m
  <2>1. /\ Append(parent, d) \in Seq(NodeStates) /\ Len(Append(parent, d)) = c
        /\ Append(parent, d)[c] = d /\ \A j \in 1..Len(nodes) : Append(parent, d)[j] = parent[j]
    BY <1>3, <1>6
  <2>2. PICK q \in Seq(NodeStates) : q = Append(parent, d)
    BY <2>1
  <2>3. /\ q \o ls \in Seq(NodeStates) /\ Len(q \o ls) = Len(q) + Len(ls)
        /\ \A j \in 1..Len(q) : (q \o ls)[j] = q[j]
        /\ \A k \in 1..Len(ls) : (q \o ls)[Len(q) + k] = ls[k]
    OBVIOUS
  <2>4. Pushed(i, t, state) = q \o ls
    BY <1>1, <1>8, <1>9, <2>2
  <2>5. Len(q) = c /\ Len(ls) = m /\ c = Len(nodes) + 1
    BY <1>3, <1>9, <2>1, <2>2
  <2>6. q[c] = d /\ \A j \in 1..Len(nodes) : q[j] = parent[j]
    BY <2>1, <2>2
  <2>7. /\ (q \o ls)[c] = d /\ \A j \in 1..Len(nodes) : (q \o ls)[j] = parent[j]
        /\ \A k \in 1..m : (q \o ls)[c + k] = ls[k]
    BY <1>3, <2>3, <2>5, <2>6
  <2>8. QED
    BY <2>3, <2>4, <2>5, <2>7
<1> HIDE DEF parent, child, leaves, more, goals
<1>12. \A j \in DOMAIN nodes : /\ ns[j].state = nodes[j].state /\ ns[j].kind = nodes[j].kind
                               /\ ns[j].solved = nodes[j].solved
  BY <1>3, <1>5, <1>6, <1>11
<1>13. /\ \A j \in DOMAIN nodes \ {i} : ns[j].children = nodes[j].children
       /\ ns[i].children = Append(nodes[i].children, [by |-> t, child |-> Len(nodes) + 1])
  BY <1>3, <1>4, <1>5, <1>6, <1>11 DEF c
<1>14. /\ ns[c].state = state /\ ns[c].kind = ChildKind(state) /\ ns[c].solved = (state = << >>)
       /\ DOMAIN ns[c].children = 1..m /\ \A k \in 1..m : ns[c].children[k].child = c + k
  BY <1>7, <1>8, <1>11
<1>15. \A k \in 1..m : /\ ns[c + k].state = <<state[k]>> /\ ns[c + k].kind = "or"
                       /\ ns[c + k].solved = FALSE /\ ns[c + k].children = << >>
  BY <1>10, <1>11
<1>16. Grown(ns, nodes, i, t, state)
  BY <1>11, <1>12, <1>13, <1>14, <1>15 DEF Grown, c
<1>17. QED
  BY <1>11, <1>16

\* The values of a grown tree.
LEMMA GrownType ==
  ASSUME NEW ns \in Seq(NodeStates), NEW i \in DOMAIN ns, NEW ms, NEW t,
         NEW state \in Seq(Goals), Grown(ms, ns, i, t, state)
  PROVE  LET c == Len(ns) + 1
             m == Len(Focus(state))
         IN  /\ c \in Nat /\ m \in Nat /\ DOMAIN ns = 1..(c - 1) /\ DOMAIN ms = 1..(c + m)
             /\ \A j \in DOMAIN ns : ns[j].children \in Seq(Edges)
             /\ \A j \in DOMAIN ms : ms[j].children \in Seq(Edges)
             /\ \A j \in DOMAIN ms : j \in DOMAIN ns \/ j = c \/ \E k \in 1..m : j = c + k
<1> DEFINE c == Len(ns) + 1
           m == Len(Focus(state))
<1>1. c \in Nat /\ m \in Nat /\ DOMAIN ns = 1..Len(ns) /\ Len(ns) \in Nat
  BY FocusType
<1>2. ms \in Seq(NodeStates) /\ Len(ms) = c + m
  BY DEF Grown
<1>. HIDE DEF m
<1>3. \A j \in DOMAIN ms : j \in DOMAIN ns \/ j = c \/ \E k \in 1..m : j = c + k
  <2>1. DOMAIN ms = 1..(c + m)
    BY <1>2
  <2>2. ASSUME NEW j \in 1..(c + m), j \notin 1..(c - 1), j # c
        PROVE  \E k \in 1..m : j = c + k
    <3>1. j - c \in 1..m /\ j = c + (j - c)
      BY <1>1, <2>2
    <3>2. QED
      BY <3>1
  <2>3. DOMAIN ns = 1..(c - 1)
    BY <1>1
  <2> HIDE DEF c
  <2>4. QED
    BY <2>1, <2>2, <2>3
<1>4. /\ \A j \in DOMAIN ns : ns[j].children \in Seq(Edges)
      /\ \A j \in DOMAIN ms : ms[j].children \in Seq(Edges)
  BY <1>2, NodeType
<1>5. QED
  BY <1>1, <1>2, <1>3, <1>4 DEF m

\* Every edge of a grown tree is an old one, or leads to the new child or on from it.
LEMMA GrownEdges ==
  ASSUME NEW ns \in Seq(NodeStates), Tree(ns), NEW i \in DOMAIN ns, NEW ms, NEW t,
         NEW state \in Seq(Goals), Grown(ms, ns, i, t, state),
         NEW c, c = Len(ns) + 1, NEW m, m = Len(Focus(state)),
         NEW j \in DOMAIN ms, NEW k \in DOMAIN ms[j].children
  PROVE  \/ /\ j \in DOMAIN ns /\ k \in DOMAIN ns[j].children
            /\ ms[j].children[k] = ns[j].children[k] /\ Child(ms, j, k) = Child(ns, j, k)
            /\ Child(ns, j, k) \in DOMAIN ns /\ j < Child(ns, j, k)
         \/ /\ j = i /\ Child(ms, j, k) = c /\ ms[j].children[k].by = t
         \/ /\ j = c /\ k \in 1..m /\ Child(ms, j, k) = c + k
<1>1. /\ c \in Nat /\ m \in Nat /\ DOMAIN ns = 1..Len(ns)
      /\ \A l \in DOMAIN ns : ns[l].children \in Seq(Edges)
      /\ j \in DOMAIN ns \/ j = c \/ \E l \in 1..m : j = c + l
  BY GrownType
<1>2. CASE j \in DOMAIN ns \ {i}
  <2>1. ms[j].children = ns[j].children
    BY <1>2 DEF Grown
  <2>2. Child(ns, j, k) \in DOMAIN ns /\ j < Child(ns, j, k)
    BY <1>2, <2>1, EdgeType
  <2>3. QED
    BY <1>2, <2>1, <2>2 DEF Child
<1>3. CASE j = i
  <2>1. PICK es \in Seq(Edges) : es = ns[i].children
    BY <1>1
  <2>2. PICK e : e = [by |-> t, child |-> c]
    OBVIOUS
  <2>3. ms[i].children = Append(es, e) /\ e.by = t /\ e.child = c
    BY <2>1, <2>2 DEF Grown
  <2>4. CASE k \in DOMAIN es
    <3>1. ms[i].children[k] = ns[i].children[k]
      BY <2>1, <2>3, <2>4
    <3>2. Child(ns, i, k) \in DOMAIN ns /\ i < Child(ns, i, k)
      BY <2>1, <2>4, EdgeType
    <3>3. QED
      BY <1>3, <2>1, <2>4, <3>1, <3>2 DEF Child
  <2>5. CASE k \notin DOMAIN es
    <3>1. ms[i].children[k] = e
      BY <1>3, <2>3, <2>5
    <3>2. QED
      BY <1>3, <2>3, <3>1 DEF Child
  <2>6. QED
    BY <2>4, <2>5
<1>4. CASE j = c
  BY <1>4 DEF Grown, Child
<1>5. ASSUME NEW l \in 1..m, j = c + l PROVE FALSE
  <2>1. ms[j].children = << >>
    BY <1>5 DEF Grown
  <2>2. QED
    BY <2>1
<1>6. QED
  BY <1>1, <1>2, <1>3, <1>4, <1>5

\* The old edges are all still there.
LEMMA GrownKeepsEdges ==
  ASSUME NEW ns \in Seq(NodeStates), Tree(ns), NEW i \in DOMAIN ns, NEW ms, NEW t,
         NEW state \in Seq(Goals), Grown(ms, ns, i, t, state),
         NEW j \in DOMAIN ns, NEW k \in DOMAIN ns[j].children
  PROVE  /\ k \in DOMAIN ms[j].children /\ Child(ms, j, k) = Child(ns, j, k)
         /\ ms[Child(ns, j, k)].solved = ns[Child(ns, j, k)].solved
         /\ ms[Child(ns, j, k)].state = ns[Child(ns, j, k)].state
<1>1. Child(ns, j, k) \in DOMAIN ns
  BY EdgeType
<1>2. k \in DOMAIN ms[j].children /\ ms[j].children[k] = ns[j].children[k]
  <2>1. CASE j # i
    BY <2>1 DEF Grown
  <2>2. CASE j = i
    <3>1. PICK es \in Seq(Edges) : es = ns[i].children
      BY NodeType
    <3>2. PICK e : ms[i].children = Append(es, e)
      BY <3>1 DEF Grown
    <3>3. QED
      BY <2>2, <3>1, <3>2
  <2>3. QED
    BY <2>1, <2>2
<1>3. QED
  BY <1>1, <1>2 DEF Child, Grown

LEMMA GrownTree ==
  ASSUME NEW ns \in Seq(NodeStates), Tree(ns), NEW i \in DOMAIN ns, NEW ms, NEW t,
         NEW state \in Seq(Goals), Grown(ms, ns, i, t, state)
  PROVE  Tree(ms)
<1>1. PICK c : c = Len(ns) + 1
  OBVIOUS
<1>2. PICK m : m = Len(Focus(state))
  OBVIOUS
<1>3. /\ c \in Nat /\ m \in Nat /\ DOMAIN ns = 1..(c - 1) /\ DOMAIN ms = 1..(c + m)
      /\ Len(ms) = c + m
  BY <1>1, <1>2, GrownType DEF Grown
<1>4. ASSUME NEW j \in DOMAIN ms, NEW k \in DOMAIN ms[j].children
      PROVE  Child(ms, j, k) \in (j + 1)..Len(ms)
  <2>1. \/ Child(ms, j, k) \in DOMAIN ns /\ j < Child(ms, j, k)
        \/ j = i /\ Child(ms, j, k) = c
        \/ j = c /\ k \in 1..m /\ Child(ms, j, k) = c + k
    BY <1>1, <1>2, <1>4, GrownEdges
  <2>2. QED
    BY <1>3, <2>1
<1>5. ASSUME NEW j \in DOMAIN ms, NEW l \in DOMAIN ms,
             NEW k \in DOMAIN ms[j].children, NEW n \in DOMAIN ms[l].children,
             Child(ms, j, k) = Child(ms, l, n)
      PROVE  j = l
  <2>1. \/ /\ j \in DOMAIN ns /\ k \in DOMAIN ns[j].children
           /\ Child(ms, j, k) = Child(ns, j, k) /\ Child(ns, j, k) \in DOMAIN ns
        \/ j = i /\ Child(ms, j, k) = c
        \/ j = c /\ k \in 1..m /\ Child(ms, j, k) = c + k
    BY <1>1, <1>2, <1>5, GrownEdges
  <2>2. \/ /\ l \in DOMAIN ns /\ n \in DOMAIN ns[l].children
           /\ Child(ms, l, n) = Child(ns, l, n) /\ Child(ns, l, n) \in DOMAIN ns
        \/ l = i /\ Child(ms, l, n) = c
        \/ l = c /\ n \in 1..m /\ Child(ms, l, n) = c + n
    BY <1>1, <1>2, <1>5, GrownEdges
  <2>3. CASE Child(ms, j, k) \in DOMAIN ns
    <3>1. /\ j \in DOMAIN ns /\ k \in DOMAIN ns[j].children /\ Child(ms, j, k) = Child(ns, j, k)
          /\ l \in DOMAIN ns /\ n \in DOMAIN ns[l].children /\ Child(ms, l, n) = Child(ns, l, n)
      BY <1>3, <1>5, <2>1, <2>2, <2>3
    <3>2. Child(ns, j, k) = Child(ns, l, n)
      BY <1>5, <3>1
    <3>3. QED
      BY <3>1, <3>2 DEF Tree
  <2>4. CASE Child(ms, j, k) \notin DOMAIN ns
    BY <1>3, <1>5, <2>1, <2>2, <2>4
  <2>5. QED
    BY <2>3, <2>4
<1>6. QED
  BY <1>4, <1>5 DEF Tree

LEMMA GrownShape ==
  ASSUME NEW ns \in Seq(NodeStates), Tree(ns), Shape(ns), NEW i \in DOMAIN ns, NEW ms, NEW t,
         NEW state \in Seq(Goals), Grown(ms, ns, i, t, state),
         ns[i].kind = "or", state = Apply(ns[i].state, t)
  PROVE  Shape(ms)
<1>1. PICK c : c = Len(ns) + 1
  OBVIOUS
<1>2. PICK m : m = Len(Focus(state))
  OBVIOUS
<1>3. /\ c \in Nat /\ m \in Nat /\ DOMAIN ns = 1..(c - 1)
      /\ \A j \in DOMAIN ms : j \in DOMAIN ns \/ j = c \/ \E k \in 1..m : j = c + k
  BY <1>1, <1>2, GrownType
<1>4. /\ ms[c].state = state /\ ms[c].kind = ChildKind(state) /\ DOMAIN ms[c].children = 1..m
      /\ \A k \in 1..m : ms[c + k].state = <<state[k]>> /\ ms[c + k].kind = "or"
  BY <1>1, <1>2 DEF Grown
<1>5. ASSUME NEW j \in DOMAIN ms, ms[j].kind = "or", NEW k \in DOMAIN ms[j].children
      PROVE  ms[Child(ms, j, k)].state = Apply(ms[j].state, ms[j].children[k].by)
  <2>1. \/ /\ j \in DOMAIN ns /\ k \in DOMAIN ns[j].children
           /\ ms[j].children[k] = ns[j].children[k] /\ Child(ms, j, k) = Child(ns, j, k)
           /\ Child(ns, j, k) \in DOMAIN ns
        \/ j = i /\ Child(ms, j, k) = c /\ ms[j].children[k].by = t
        \/ j = c /\ k \in 1..m
    BY <1>1, <1>2, <1>5, GrownEdges
  <2>2. CASE j = c /\ k \in 1..m
    <3>1. m = 0
      BY <1>2, <1>4, <1>5, <2>2, FocusType
    <3>2. QED
      BY <2>2, <3>1
  <2>3. CASE j = i /\ Child(ms, j, k) = c /\ ms[j].children[k].by = t
    <3>1. ms[i].state = ns[i].state
      BY DEF Grown
    <3>2. QED
      BY <1>4, <2>3, <3>1
  <2>4. CASE /\ j \in DOMAIN ns /\ k \in DOMAIN ns[j].children
             /\ ms[j].children[k] = ns[j].children[k] /\ Child(ms, j, k) = Child(ns, j, k)
             /\ Child(ns, j, k) \in DOMAIN ns
    <3>1. /\ ms[j].state = ns[j].state /\ ns[j].kind = "or"
          /\ ms[Child(ns, j, k)].state = ns[Child(ns, j, k)].state
      BY <1>5, <2>4 DEF Grown
    <3>2. ns[Child(ns, j, k)].state = Apply(ns[j].state, ns[j].children[k].by)
      BY <2>4, <3>1 DEF Shape
    <3>3. QED
      BY <2>4, <3>1, <3>2
  <2>5. QED
    BY <2>1, <2>2, <2>3, <2>4
<1>6. ASSUME NEW j \in DOMAIN ms, ms[j].kind = "and"
      PROVE  /\ Len(ms[j].state) > 1 /\ Len(ms[j].children) = Len(ms[j].state)
             /\ \A k \in DOMAIN ms[j].children : ms[Child(ms, j, k)].state = <<ms[j].state[k]>>
  <2>1. CASE j \in DOMAIN ns
    <3>1. j # i /\ ns[j].kind = "and" /\ ms[j].state = ns[j].state /\ ms[j].children = ns[j].children
      BY <1>6, <2>1 DEF Grown
    <3>2. /\ Len(ns[j].state) > 1 /\ Len(ns[j].children) = Len(ns[j].state)
          /\ \A k \in DOMAIN ns[j].children : ns[Child(ns, j, k)].state = <<ns[j].state[k]>>
      BY <2>1, <3>1 DEF Shape
    <3>3. \A k \in DOMAIN ns[j].children :
            Child(ms, j, k) = Child(ns, j, k) /\ ms[Child(ns, j, k)].state = ns[Child(ns, j, k)].state
      BY <2>1, GrownKeepsEdges
    <3>4. QED
      BY <3>1, <3>2, <3>3
  <2>2. CASE j = c
    <3>1. ChildKind(state) = "and"
      BY <1>4, <1>6, <2>2
    <3>2. Focus(state) = state /\ Len(state) > 1
      BY <3>1, FocusType
    <3>3. m = Len(state)
      BY <1>2, <3>2
    <3>4. Len(ms[c].children) = m
      <4>1. ms[j].children \in Seq(Edges)
        BY <1>1, <1>2, GrownType
      <4>2. PICK es \in Seq(Edges) : es = ms[c].children
        BY <2>2, <4>1
      <4>3. DOMAIN es = 1..m
        BY <1>4, <4>2
      <4>4. Len(es) = m
        BY <1>3, <4>3
      <4>5. QED
        BY <4>2, <4>4
    <3>5. \A k \in 1..m : Child(ms, c, k) = c + k
      BY <1>1, <1>2 DEF Grown, Child
    <3>6. QED
      BY <1>4, <2>2, <3>4, <3>5, <3>2, <3>3
  <2>3. ASSUME NEW k \in 1..m, j = c + k PROVE FALSE
    BY <1>4, <1>6, <2>3
  <2>4. QED
    BY <1>3, <2>1, <2>2, <2>3
<1>7. QED
  BY <1>5, <1>6 DEF Shape

LEMMA GrownBacked ==
  ASSUME NEW ns \in Seq(NodeStates), Tree(ns), Backed(ns), NEW i \in DOMAIN ns, NEW ms, NEW t,
         NEW state \in Seq(Goals), Grown(ms, ns, i, t, state), ns[i].kind = "or"
  PROVE  Backed(ms)
<1>1. PICK c : c = Len(ns) + 1
  OBVIOUS
<1>2. PICK m : m = Len(Focus(state))
  OBVIOUS
<1>3. /\ c \in Nat /\ m \in Nat
      /\ \A j \in DOMAIN ms : j \in DOMAIN ns \/ j = c \/ \E k \in 1..m : j = c + k
  BY <1>1, <1>2, GrownType
<1>4. ASSUME NEW j \in DOMAIN ms
      PROVE  /\ ms[j].state = << >> => ms[j].solved
             /\ ms[j].solved /\ ms[j].kind = "or" =>
                  \/ ms[j].state = << >>
                  \/ \E k \in DOMAIN ms[j].children : ms[Child(ms, j, k)].solved
             /\ ms[j].solved /\ ms[j].kind = "and" =>
                  \A k \in DOMAIN ms[j].children : ms[Child(ms, j, k)].solved
  <2>1. CASE j \in DOMAIN ns
    <3>1. ms[j].state = ns[j].state /\ ms[j].kind = ns[j].kind /\ ms[j].solved = ns[j].solved
      BY <2>1 DEF Grown
    <3>2. \A k \in DOMAIN ns[j].children :
            /\ k \in DOMAIN ms[j].children /\ Child(ms, j, k) = Child(ns, j, k)
            /\ ms[Child(ns, j, k)].solved = ns[Child(ns, j, k)].solved
      BY <2>1, GrownKeepsEdges
    <3>3. ns[j].kind = "and" => ms[j].children = ns[j].children
      BY <2>1 DEF Grown
    <3>4. /\ ns[j].state = << >> => ns[j].solved
          /\ ns[j].solved /\ ns[j].kind = "or" =>
               \/ ns[j].state = << >>
               \/ \E k \in DOMAIN ns[j].children : ns[Child(ns, j, k)].solved
          /\ ns[j].solved /\ ns[j].kind = "and" =>
               \A k \in DOMAIN ns[j].children : ns[Child(ns, j, k)].solved
      BY <2>1 DEF Backed
    <3>5. QED
      BY <3>1, <3>2, <3>3, <3>4
  <2>2. CASE j = c
    <3>1. ms[c].state = state /\ ms[c].kind = ChildKind(state) /\ ms[c].solved = (state = << >>)
      BY <1>1 DEF Grown
    <3>2. ChildKind(state) = "and" => state # << >>
      BY FocusType
    <3>3. QED
      BY <2>2, <3>1, <3>2
  <2>3. ASSUME NEW k \in 1..m, j = c + k
        PROVE  ms[j].solved = FALSE /\ ms[j].state # << >>
    <3>1. ms[c + k].solved = FALSE /\ ms[c + k].state = <<state[k]>>
      BY <1>1, <1>2 DEF Grown
    <3>2. QED
      BY <2>3, <3>1
  <2>4. QED
    BY <1>3, <2>1, <2>2, <2>3
<1>5. QED
  BY <1>4 DEF Backed

\* The new nodes agree, and the old ones that did but i still do.
LEMMA GrownAgrees ==
  ASSUME NEW ns \in Seq(NodeStates), Tree(ns), NEW i \in DOMAIN ns, NEW ms, NEW t,
         NEW state \in Seq(Goals), Grown(ms, ns, i, t, state),
         NEW j \in DOMAIN ms \ {i}, j \in DOMAIN ns => ns[j].solved = NodeSolved(ns, j)
  PROVE  ms[j].solved = NodeSolved(ms, j)
<1>1. PICK c : c = Len(ns) + 1
  OBVIOUS
<1>2. PICK m : m = Len(Focus(state))
  OBVIOUS
<1>3. /\ c \in Nat /\ m \in Nat
      /\ j \in DOMAIN ns \/ j = c \/ \E k \in 1..m : j = c + k
  BY <1>1, <1>2, GrownType
<1>4. CASE j \in DOMAIN ns
  <2>1. /\ ms[j].solved = ns[j].solved /\ ms[j].kind = ns[j].kind
        /\ ms[j].children = ns[j].children
    BY <1>4 DEF Grown
  <2>2. \A k \in DOMAIN ns[j].children :
          ms[Child(ms, j, k)].solved = ns[Child(ns, j, k)].solved
    BY <1>4, GrownKeepsEdges
  <2>3. NodeSolved(ms, j) <=> NodeSolved(ns, j)
    BY <2>1, <2>2, NodeSolvedBy
  <2>4. QED
    BY <1>4, <2>1, <2>3 DEF NodeSolved
<1>5. CASE j = c
  <2>1. /\ ms[c].kind = ChildKind(state) /\ ms[c].solved = (state = << >>)
        /\ DOMAIN ms[c].children = 1..m /\ \A k \in 1..m : Child(ms, c, k) = c + k
        /\ \A k \in 1..m : ms[c + k].solved = FALSE
    BY <1>1, <1>2 DEF Grown, Child
  <2>2. ChildKind(state) = "or" => m = 0
    BY <1>2, FocusType
  <2>3. ChildKind(state) = "and" => m > 1
    BY <1>2, FocusType
  <2>4. NodeSolved(ms, c) <=> ms[c].solved
    <3>1. ~ (ms[c].kind = "or" /\ \E k \in DOMAIN ms[c].children : ms[Child(ms, c, k)].solved)
      BY <2>1, <2>2
    <3>2. ~ (ms[c].kind = "and" /\ \A k \in DOMAIN ms[c].children : ms[Child(ms, c, k)].solved)
      <4>1. SUFFICES ASSUME ms[c].kind = "and" PROVE 1 \in 1..m /\ ~ ms[Child(ms, c, 1)].solved
        BY <2>1
      <4>2. 1 \in 1..m
        BY <1>3, <2>1, <2>3, <4>1
      <4>3. Child(ms, c, 1) = c + 1 /\ ms[c + 1].solved = FALSE
        BY <2>1, <4>2
      <4>4. QED
        BY <4>2, <4>3
    <3>3. QED
      BY <3>1, <3>2, NodeSolvedBy
  <2>5. QED
    BY <1>5, <2>1, <2>4 DEF NodeSolved
<1>6. ASSUME NEW k \in 1..m, j = c + k PROVE ms[j].solved = NodeSolved(ms, j)
  <2>1. ms[j].solved = FALSE /\ ms[j].children = << >>
    BY <1>1, <1>2, <1>6 DEF Grown
  <2>2. ~ NodeSolved(ms, j)
    BY <2>1, NodeSolvedBy
  <2>3. QED
    BY <2>1, <2>2 DEF NodeSolved
<1>7. QED
  BY <1>3, <1>4, <1>5, <1>6

-----------------------------------------------------------------------------
(* The path.                                                               *)

\* What the values on a path are.
LEMMA PathType ==
  ASSUME TypeOK, PathInv
  PROVE  /\ Len(path) \in Nat /\ Len(path) >= 1 /\ DOMAIN path = 1..Len(path)
         /\ Here \in DOMAIN nodes /\ \A k \in 1..Len(path) : path[k] \in DOMAIN nodes
<1>1. path \in Seq(Nat) /\ path # << >>
  BY DEF TypeOK, PathInv, Downward
<1>2. Len(path) \in Nat /\ Len(path) >= 1 /\ DOMAIN path = 1..Len(path)
  BY <1>1
<1>3. QED
  BY <1>2 DEF PathInv, Downward, Here

\* The only parent of a node on the path is the one before it.
LEMMA ParentOnPath ==
  ASSUME TypeOK, Tree(nodes), PathInv, NEW j \in DOMAIN nodes, NEW k \in 1..Len(path),
         path[k] \in Children(nodes, j)
  PROVE  k > 1 /\ j = path[k - 1]
<1>1. /\ Len(path) \in Nat /\ DOMAIN path = 1..Len(path) /\ nodes \in Seq(NodeStates)
      /\ \A n \in 1..Len(path) : path[n] \in DOMAIN nodes
  BY PathType DEF TypeOK
<1>2. PICK l \in DOMAIN nodes[j].children : Child(nodes, j, l) = path[k]
  BY DEF Children, Child
<1>3. j < path[k] /\ DOMAIN nodes = 1..Len(nodes) /\ Len(nodes) \in Nat
  BY <1>1, <1>2, EdgeType
<1>4. k # 1
  BY <1>1, <1>3 DEF PathInv, Downward
<1>5. k > 1 /\ k - 1 \in 1..Len(path)
  BY <1>1, <1>4
<1>6. path[k] \in Children(nodes, path[k - 1])
  BY <1>1, <1>5 DEF PathInv, Downward
<1>7. PICK n \in DOMAIN nodes[path[k - 1]].children : Child(nodes, path[k - 1], n) = path[k]
  BY <1>6 DEF Children, Child
<1>8. Child(nodes, j, l) = Child(nodes, path[k - 1], n) /\ path[k - 1] \in DOMAIN nodes
  BY <1>1, <1>2, <1>5, <1>7
<1>9. QED
  BY <1>2, <1>5, <1>7, <1>8 DEF Tree

\* A path stays one while no node loses a child.
LEMMA PathKept ==
  ASSUME NEW p, NEW ns, NEW ms, Downward(p, ns), p \in Seq(Nat), DOMAIN ns \subseteq DOMAIN ms,
         \A j \in DOMAIN ns : Children(ns, j) \subseteq Children(ms, j)
  PROVE  Downward(p, ms)
<1>1. \A k \in DOMAIN p : k > 1 => k - 1 \in DOMAIN p
  OBVIOUS
<1>2. QED
  BY <1>1 DEF Downward

LEMMA FlagStepPath ==
  ASSUME NEW p \in Seq(Nat), NEW ns, NEW ms, NEW i, FlagStep(ms, ns, i), Downward(p, ns)
  PROVE  Downward(p, ms)
<1>1. \A j \in DOMAIN ns : Children(ns, j) \subseteq Children(ms, j)
  BY DEF FlagStep, Children
<1>2. DOMAIN ns \subseteq DOMAIN ms
  BY DEF FlagStep
<1>3. QED
  BY <1>1, <1>2, PathKept

LEMMA GrownPath ==
  ASSUME NEW p \in Seq(Nat), NEW ns \in Seq(NodeStates), Tree(ns), NEW i \in DOMAIN ns, NEW ms,
         NEW t, NEW state \in Seq(Goals), Grown(ms, ns, i, t, state), Downward(p, ns)
  PROVE  Downward(p, ms)
<1>1. \A j \in DOMAIN ns : Children(ns, j) \subseteq Children(ms, j)
  <2>1. SUFFICES ASSUME NEW j \in DOMAIN ns, NEW k \in DOMAIN ns[j].children
                 PROVE  Child(ns, j, k) \in Children(ms, j)
    BY DEF Children, Child
  <2>2. k \in DOMAIN ms[j].children /\ Child(ms, j, k) = Child(ns, j, k)
    BY GrownKeepsEdges
  <2>3. QED
    BY <2>2 DEF Children, Child
<1>2. DOMAIN ns \subseteq DOMAIN ms
  <2>1. /\ Len(ns) + 1 \in Nat /\ Len(Focus(state)) \in Nat /\ DOMAIN ns = 1..(Len(ns) + 1 - 1)
        /\ DOMAIN ms = 1..(Len(ns) + 1 + Len(Focus(state)))
    BY GrownType
  <2>2. QED
    BY <2>1
<1>3. QED
  BY <1>1, <1>2, PathKept

-----------------------------------------------------------------------------
(* A repeated child.                                                       *)

\* It was made for the state that the tactic leaves now, so only the flag of its
\* parent can change.
LEMMA MergedStep ==
  ASSUME nodes \in Seq(NodeStates), Tree(nodes), Shape(nodes), Backed(nodes),
         NEW i \in DOMAIN nodes, nodes[i].kind = "or", NEW t,
         NEW state, state = Apply(nodes[i].state, t), NEW k \in Duplicates(i, t, state)
  PROVE  FlagStep(Merged(i, k, state), nodes, i)
<1>1. PICK c \in DOMAIN nodes : c = Child(nodes, i, k) /\ c # i /\ k \in DOMAIN nodes[i].children
  <2>1. k \in DOMAIN nodes[i].children
    BY DEF Duplicates
  <2>2. Child(nodes, i, k) \in DOMAIN nodes /\ i < Child(nodes, i, k)
    BY <2>1, EdgeType
  <2>3. Child(nodes, i, k) # i
    BY <2>2, NodeType
  <2>4. QED
    BY <2>1, <2>2, <2>3
<1>2. nodes[c].state = state
  <2>1. nodes[c].state = Apply(nodes[i].state, nodes[i].children[k].by)
    BY <1>1 DEF Shape
  <2>2. nodes[i].children[k].by = t \/ nodes[c].state = state
    BY <1>1 DEF Duplicates, Child
  <2>3. QED
    BY <2>1, <2>2
<1>3. state = << >> => nodes[c].solved
  BY <1>1, <1>2 DEF Backed
<1>4. nodes[c].solved \in BOOLEAN /\ nodes[i].solved \in BOOLEAN
  BY NodeType
<1>5. PICK a \in BOOLEAN : a = (nodes[c].solved \/ state = << >>) /\ a = nodes[c].solved
  BY <1>3, <1>4
<1>6. PICK b \in BOOLEAN : /\ b = (nodes[i].solved \/ nodes[c].solved \/ state = << >>)
                           /\ b = (nodes[i].solved \/ nodes[c].solved)
  BY <1>3, <1>4
<1>7. PICK z \in NodeStates : z = nodes[c] /\ [z EXCEPT !.solved = a] = z
  <2>1. PICK z \in NodeStates : z = nodes[c]
    BY NodeType
  <2>2. z.solved = a
    BY <1>5, <2>1
  <2>3. [z EXCEPT !.solved = a] = z
    BY <2>2 DEF NodeStates
  <2>4. QED
    BY <2>1, <2>3
<1>8. PICK n \in NodeStates : /\ n = [nodes[i] EXCEPT !.solved = b]
                              /\ n.state = nodes[i].state /\ n.kind = nodes[i].kind
                              /\ n.children = nodes[i].children /\ n.solved = b
  <2>1. PICK y \in NodeStates : y = nodes[i]
    BY NodeType
  <2>2. PICK n \in NodeStates : n = [y EXCEPT !.solved = b]
    BY DEF NodeStates
  <2>3. n.state = y.state /\ n.kind = y.kind /\ n.children = y.children /\ n.solved = b
    BY <2>2 DEF NodeStates
  <2>4. QED
    BY <2>1, <2>2, <2>3
<1>9. Merged(i, k, state) = [nodes EXCEPT ![i] = n]
  <2>1. [nodes EXCEPT ![c] = z] = nodes
    BY <1>1, <1>7
  <2>2. Merged(i, k, state) = [nodes EXCEPT ![c].solved = @ \/ state = << >>,
                                            ![i].solved = @ \/ nodes[c].solved \/ state = << >>]
    BY <1>1 DEF Merged, Child
  <2>3. Merged(i, k, state) = [[nodes EXCEPT ![c] = z] EXCEPT ![i] = n]
    BY <1>1, <1>5, <1>6, <1>7, <1>8, <2>1, <2>2
  <2>4. QED
    BY <2>1, <2>3
<1>10. /\ [nodes EXCEPT ![i] = n] \in Seq(NodeStates) /\ Len([nodes EXCEPT ![i] = n]) = Len(nodes)
       /\ DOMAIN [nodes EXCEPT ![i] = n] = DOMAIN nodes
       /\ [nodes EXCEPT ![i] = n][i] = n
       /\ \A j \in DOMAIN nodes \ {i} : [nodes EXCEPT ![i] = n][j] = nodes[j]
  OBVIOUS
<1>11. nodes[i].solved => b
  BY <1>6
<1>12. b => NodeSolved(nodes, i)
  BY <1>1, <1>6, NodeSolvedBy
<1>13. QED
  BY <1>8, <1>9, <1>10, <1>11, <1>12 DEF FlagStep

-----------------------------------------------------------------------------
(* The invariant.                                                          *)

LEMMA InitInv ==
  ASSUME Init
  PROVE  IInv
<1>1. PICK state \in Starts : nodes = <<Leaf(state, "or")>>
  BY DEF Init
<1>2. state \in Seq(Goals) /\ state # << >>
  BY MctsAssumption
<1>3. PICK z \in NodeStates : /\ z = Leaf(state, "or") /\ z.state = state /\ z.kind = "or"
                              /\ z.solved = FALSE /\ z.children = << >>
  BY <1>2, LeafType
<1>4. nodes = <<z>> /\ nodes \in Seq(NodeStates) /\ Len(nodes) = 1 /\ DOMAIN nodes = {1} /\ nodes[1] = z
  BY <1>1, <1>3
<1>5. TypeOK
  <2>1. path \in Seq(Nat) /\ offered \in Seq(Tactics) /\ step \in Nat
    BY DEF Init
  <2>2. QED
    BY <1>4, <2>1 DEF Init, TypeOK
<1>6. Tree(nodes) /\ Shape(nodes) /\ Backed(nodes)
  BY <1>2, <1>3, <1>4 DEF Tree, Shape, Backed
<1>7. PathInv
  BY <1>4 DEF Init, PathInv, Downward
<1>8. PhaseInv
  BY DEF Init, PhaseInv
<1>9. AgreeInv
  <2>1. ~ NodeSolved(nodes, 1)
    BY <1>3, <1>4, NodeSolvedBy
  <2>2. nodes[1].solved = NodeSolved(nodes, 1)
    BY <1>3, <1>4, <2>1 DEF NodeSolved
  <2>3. QED
    BY <1>4, <2>2 DEF AgreeInv
<1>10. QED
  BY <1>5, <1>6, <1>7, <1>8, <1>9 DEF IInv

\* The shape is the same as long as the proof system is.
LEMMA ShapePrimed ==
  ASSUME rules' = rules, NEW ms, nodes' = ms, Shape(ms)
  PROVE  Shape(nodes)'
<1>1. \A state, t : Apply(state, t)' = Apply(state, t)
  BY DEF Apply
<1>2. QED
  BY <1>1 DEF Shape, Child

\* A step that leaves the nodes alone and lets no further flag lag behind.
LEMMA SameNodes ==
  ASSUME IInv, nodes' = nodes, rules' = rules, MayLag \subseteq MayLag'
  PROVE  Tree(nodes)' /\ Shape(nodes)' /\ Backed(nodes)' /\ AgreeInv'
<1>1. Tree(nodes)' /\ Backed(nodes)'
  BY DEF IInv
<1>2. Shape(nodes)'
  <2>1. PICK ms : ms = nodes
    OBVIOUS
  <2>2. Shape(ms)
    BY <2>1 DEF IInv
  <2>3. QED
    BY <2>1, <2>2, ShapePrimed
<1>3. AgreeInv'
  BY DEF IInv, AgreeInv
<1>4. QED
  BY <1>1, <1>2, <1>3

LEMMA DescendInv ==
  ASSUME IInv, Descend
  PROVE  IInv'
<1> USE DEF IInv
<1>1. PICK k \in DOMAIN nodes[Here].children : path' = Append(path, Child(nodes, Here, k))
  BY DEF Descend, Child
<1>2. PICK c \in DOMAIN nodes : c = Child(nodes, Here, k) /\ c \in Nat /\ c \in Children(nodes, Here)
  <2>1. Here \in DOMAIN nodes /\ nodes \in Seq(NodeStates)
    BY PathType DEF TypeOK
  <2>2. Child(nodes, Here, k) \in DOMAIN nodes
    BY <2>1, EdgeType
  <2>3. Child(nodes, Here, k) \in Nat
    BY <2>1, <2>2
  <2>4. QED
    BY <2>2, <2>3 DEF Children, Child
<1>3. path' = Append(path, c) /\ path \in Seq(Nat)
  BY <1>1, <1>2 DEF TypeOK
<1>4. TypeOK'
  BY <1>2, <1>3 DEF TypeOK, Descend
<1>5. Tree(nodes)' /\ Shape(nodes)' /\ Backed(nodes)' /\ AgreeInv'
  BY SameNodes DEF Descend, MayLag
<1>6. PathInv'
  <2>1. DOMAIN path = 1..Len(path) /\ Len(path) \in Nat /\ Len(path) >= 1 /\ Here = path[Len(path)]
    BY PathType DEF Here
  <2>2. /\ DOMAIN path' = 1..(Len(path) + 1) /\ path'[Len(path) + 1] = c
        /\ \A n \in 1..Len(path) : path'[n] = path[n]
    BY <1>2, <1>3
  <2>3. path' # << >> /\ path'[1] = 1
    BY <2>1, <2>2 DEF PathInv, Downward
  <2>4. \A n \in DOMAIN path' : path'[n] \in DOMAIN nodes
    BY <1>2, <2>1, <2>2 DEF PathInv, Downward
  <2>5. ASSUME NEW n \in DOMAIN path', n > 1 PROVE path'[n] \in Children(nodes, path'[n - 1])
    <3>1. CASE n = Len(path) + 1
      BY <1>2, <2>1, <2>2, <3>1
    <3>2. CASE n \in 1..Len(path)
      <4>1. n - 1 \in 1..Len(path)
        BY <2>1, <2>5, <3>2
      <4>2. QED
        BY <2>1, <2>2, <2>5, <3>2, <4>1 DEF PathInv, Downward
    <3>3. QED
      BY <2>1, <2>2, <3>1, <3>2
  <2>6. Downward(path', nodes)
    BY <2>3, <2>4, <2>5 DEF Downward
  <2>7. QED
    BY <2>6 DEF Descend, PathInv
<1>7. PhaseInv'
  BY DEF Descend, PhaseInv
<1>8. QED
  BY <1>4, <1>5, <1>6, <1>7

LEMMA VisitInv ==
  ASSUME IInv, Visit
  PROVE  IInv'
<1> USE DEF IInv
<1>1. offered' \in Seq(Tactics)
  BY MctsAssumption DEF Visit
<1>2. TypeOK'
  BY <1>1 DEF TypeOK, Visit
<1>3. Tree(nodes)' /\ Shape(nodes)' /\ Backed(nodes)' /\ AgreeInv'
  BY SameNodes DEF Visit, MayLag
<1>4. PathInv'
  BY DEF Visit, PathInv, Downward, Children
<1>5. PhaseInv'
  <2>1. Here' = Here
    BY DEF Visit, Here
  <2>2. QED
    BY <2>1 DEF Visit, PhaseInv
<1>6. QED
  BY <1>2, <1>3, <1>4, <1>5

\* What Try leaves to show, whatever it does to the nodes.
LEMMA TryRest ==
  ASSUME IInv, Try, nodes' \in Seq(NodeStates),
         nodes'[Here].kind = nodes[Here].kind, nodes'[Here].state = nodes[Here].state
  PROVE  TypeOK' /\ PhaseInv' /\ MayLag' = MayLag /\ Here \in MayLag /\ path' = path
<1> USE DEF IInv
<1>1. offered \in Seq(Tactics) /\ offered # << >> /\ offered' = Tail(offered)
  BY DEF Try, TypeOK
<1>2. offered' \in Seq(Tactics)
  BY <1>1
<1>3. TypeOK'
  BY <1>2 DEF Try, TypeOK
<1>4. Here' = Here /\ path' = path
  BY DEF Try, Here
<1>5. PhaseInv'
  BY <1>1, <1>4 DEF Try, PhaseInv
<1>6. MayLag' = MayLag
  BY DEF Try, MayLag
<1>7. Here \in MayLag
  <2>1. Len(path) \in DOMAIN path
    BY PathType
  <2>2. QED
    BY <2>1 DEF Try, MayLag, Here
<1>8. QED
  BY <1>3, <1>4, <1>5, <1>6, <1>7

LEMMA TryFailsInv ==
  ASSUME IInv, Try, TryFails
  PROVE  IInv'
<1>1. nodes' = nodes /\ rules' = rules
  BY DEF Try, TryFails
<1>2. TypeOK' /\ PhaseInv' /\ MayLag' = MayLag /\ path' = path
  BY <1>1, TryRest DEF IInv, TypeOK
<1>3. Tree(nodes)' /\ Shape(nodes)' /\ Backed(nodes)' /\ AgreeInv'
  BY <1>1, <1>2, SameNodes
<1>4. PathInv'
  BY <1>1, <1>2 DEF IInv, PathInv
<1>5. QED
  BY <1>2, <1>3, <1>4 DEF IInv

\* The state that a tactic leaves is one.
LEMMA TriedState ==
  ASSUME IInv, Try, TrySucceeds(offered[1])
  PROVE  /\ Here \in DOMAIN nodes /\ nodes[Here].kind = "or" /\ offered[1] \in Tactics
         /\ Apply(nodes[Here].state, offered[1]) \in Seq(Goals)
<1> USE DEF IInv
<1>1. Here \in DOMAIN nodes /\ nodes[Here].kind = "or" /\ nodes[Here].state # << >>
  BY PathType DEF Try, PhaseInv
<1>2. offered[1] \in Tactics
  BY DEF Try, TypeOK
<1>3. nodes[Here].state \in Seq(Goals)
  BY <1>1, NodeType DEF TypeOK
<1>4. Apply(nodes[Here].state, offered[1]) # Fails
  BY DEF TrySucceeds
<1>5. QED
  BY <1>1, <1>2, <1>3, <1>4, ApplyType

LEMMA PushedInv ==
  ASSUME IInv, Try, TrySucceeds(offered[1]),
         Duplicates(Here, offered[1], Apply(nodes[Here].state, offered[1])) = {}
  PROVE  IInv'
<1> USE DEF IInv
<1>1. PICK t \in Tactics : t = offered[1]
  BY TriedState
<1>2. PICK state \in Seq(Goals) : state = Apply(nodes[Here].state, t)
  BY <1>1, TriedState
<1>3. PICK i \in DOMAIN nodes : i = Here /\ nodes[i].kind = "or"
  BY TriedState
<1>4. nodes' = Pushed(i, t, state)
  BY <1>1, <1>2, <1>3 DEF TrySucceeds
<1>5. nodes \in Seq(NodeStates)
  BY DEF TypeOK
<1>6. PICK ms : ms = Pushed(i, t, state)
  OBVIOUS
<1>7. nodes' = ms /\ Grown(ms, nodes, i, t, state)
  BY <1>4, <1>5, <1>6, PushedGrows
<1>8. ms \in Seq(NodeStates) /\ ms[i].kind = nodes[i].kind /\ ms[i].state = nodes[i].state
  BY <1>7 DEF Grown
<1>9. TypeOK' /\ PhaseInv' /\ MayLag' = MayLag /\ i \in MayLag /\ path' = path
  BY <1>3, <1>7, <1>8, TryRest
<1>10. Tree(ms) /\ Shape(ms) /\ Backed(ms)
  BY <1>2, <1>3, <1>5, <1>7, GrownTree, GrownShape, GrownBacked
<1>11. Tree(nodes)' /\ Shape(nodes)' /\ Backed(nodes)'
  <2>1. Tree(nodes)' /\ Backed(nodes)' /\ rules' = rules
    BY <1>7, <1>10 DEF Try
  <2>2. Shape(nodes)'
    BY <1>7, <1>10, <2>1, ShapePrimed
  <2>3. QED
    BY <2>1, <2>2
<1>12. PathInv'
  <2>1. path \in Seq(Nat) /\ Downward(path, nodes)
    BY DEF TypeOK, PathInv
  <2>2. Downward(path, ms)
    BY <1>5, <1>7, <2>1, GrownPath
  <2>3. QED
    BY <1>7, <1>9, <2>2 DEF PathInv, Downward, Children
<1>13. AgreeInv'
  <2>1. ASSUME NEW j \in DOMAIN ms \ MayLag PROVE ms[j].solved = NodeSolved(ms, j)
    <3>1. j # i /\ (j \in DOMAIN nodes => nodes[j].solved = NodeSolved(nodes, j))
      BY <1>9, <2>1 DEF AgreeInv
    <3>2. QED
      BY <1>5, <1>7, <2>1, <3>1, GrownAgrees
  <2>2. QED
    BY <1>7, <1>9, <2>1 DEF AgreeInv
<1>14. QED
  BY <1>9, <1>11, <1>12, <1>13

LEMMA MergedInv ==
  ASSUME IInv, Try, TrySucceeds(offered[1]),
         Duplicates(Here, offered[1], Apply(nodes[Here].state, offered[1])) # {}
  PROVE  IInv'
<1> USE DEF IInv
<1>1. PICK t \in Tactics : t = offered[1]
  BY TriedState
<1>2. PICK state \in Seq(Goals) : state = Apply(nodes[Here].state, t)
  BY <1>1, TriedState
<1>3. PICK i \in DOMAIN nodes : i = Here /\ nodes[i].kind = "or"
  BY TriedState
<1>4. nodes \in Seq(NodeStates)
  BY DEF TypeOK
<1>5. PICK k \in Duplicates(i, t, state) : nodes' = Merged(i, k, state)
  <2> DEFINE D == Duplicates(i, t, state)
  <2>1. D # {} /\ D \in SUBSET Nat
    <3>1. DOMAIN nodes[i].children \subseteq Nat
      BY <1>4, NodeType
    <3>2. QED
      BY <1>1, <1>2, <1>3, <3>1 DEF Duplicates
  <2>2. nodes' = Merged(i, CHOOSE k \in D : \A j \in D : k <= j, state)
    BY <1>1, <1>2, <1>3, <2>1 DEF TrySucceeds
  <2> HIDE DEF D
  <2>3. \E k \in D : \A j \in D : k <= j
    BY <2>1, LeastNat
  <2>4. (CHOOSE k \in D : \A j \in D : k <= j) \in D
    BY <2>3, Zenon
  <2>5. QED
    BY <2>2, <2>4 DEF D
<1>6. PICK ms : ms = Merged(i, k, state)
  OBVIOUS
<1>7. nodes' = ms /\ FlagStep(ms, nodes, i)
  BY <1>2, <1>3, <1>4, <1>5, <1>6, MergedStep
<1>8. ms \in Seq(NodeStates) /\ ms[i].kind = nodes[i].kind /\ ms[i].state = nodes[i].state
  BY <1>7 DEF FlagStep
<1>9. TypeOK' /\ PhaseInv' /\ MayLag' = MayLag /\ i \in MayLag /\ path' = path
  BY <1>3, <1>7, <1>8, TryRest
<1>10. Tree(ms) /\ Shape(ms) /\ Backed(ms)
  BY <1>4, <1>7, FlagStepKeeps
<1>11. Tree(nodes)' /\ Shape(nodes)' /\ Backed(nodes)'
  <2>1. Tree(nodes)' /\ Backed(nodes)' /\ rules' = rules
    BY <1>7, <1>10 DEF Try
  <2>2. Shape(nodes)'
    BY <1>7, <1>10, <2>1, ShapePrimed
  <2>3. QED
    BY <2>1, <2>2
<1>12. PathInv'
  <2>1. path \in Seq(Nat) /\ Downward(path, nodes)
    BY DEF TypeOK, PathInv
  <2>2. Downward(path, ms)
    BY <1>7, <2>1, FlagStepPath
  <2>3. QED
    BY <1>7, <1>9, <2>2 DEF PathInv, Downward, Children
<1>13. AgreeInv'
  <2>1. ASSUME NEW j \in DOMAIN ms \ MayLag PROVE ms[j].solved = NodeSolved(ms, j)
    <3>1. j \in DOMAIN nodes \ {i} /\ nodes[j].solved = NodeSolved(nodes, j)
      BY <1>7, <1>9, <2>1 DEF AgreeInv, FlagStep
    <3>2. i \notin Children(nodes, j)
      <4>1. SUFFICES ASSUME i \in Children(nodes, j) PROVE FALSE
        OBVIOUS
      <4>2. Len(path) \in 1..Len(path) /\ path[Len(path)] = i /\ DOMAIN path = 1..Len(path)
        BY <1>3, PathType DEF Here
      <4>3. Len(path) > 1 /\ j = path[Len(path) - 1]
        BY <3>1, <4>1, <4>2, ParentOnPath
      <4>4. j \in MayLag
        BY <4>2, <4>3 DEF MayLag, Try
      <4>5. QED
        BY <2>1, <4>4
    <3>3. QED
      BY <1>4, <1>7, <3>1, <3>2, FlagStepAgrees
  <2>2. QED
    BY <1>7, <1>9, <2>1 DEF AgreeInv
<1>14. QED
  BY <1>9, <1>11, <1>12, <1>13

LEMMA TryInv ==
  ASSUME IInv, Try
  PROVE  IInv'
BY TryFailsInv, PushedInv, MergedInv DEF Try

\* A step that refreshes a node on the path, after which that node and those below
\* it on the path may no longer lag behind.
LEMMA RefreshesPath ==
  ASSUME IInv, rules' = rules, NEW k \in 1..Len(path), nodes' = Refreshed(nodes, path[k]),
         MayLag' = {path[n] : n \in 1..(k - 1)}, MayLag \subseteq {path[n] : n \in 1..k}
  PROVE  /\ nodes' \in Seq(NodeStates) /\ Tree(nodes)' /\ Shape(nodes)' /\ Backed(nodes)'
         /\ AgreeInv' /\ Downward(path, nodes')
<1> USE DEF IInv
<1>1. PICK i \in DOMAIN nodes : i = path[k]
  BY PathType
<1>2. nodes \in Seq(NodeStates) /\ path \in Seq(Nat) /\ Downward(path, nodes)
  BY DEF TypeOK, PathInv
<1>3. PICK ms : ms = Refreshed(nodes, i)
  OBVIOUS
<1>4. nodes' = ms /\ FlagStep(ms, nodes, i) /\ ms[i].solved = NodeSolved(ms, i)
  BY <1>1, <1>2, <1>3, RefreshedStep, RefreshedAgrees
<1>5. Tree(ms) /\ Shape(ms) /\ Backed(ms) /\ Downward(path, ms) /\ ms \in Seq(NodeStates)
  <2>1. Tree(ms) /\ Shape(ms) /\ Backed(ms)
    BY <1>2, <1>4, FlagStepKeeps
  <2>2. Downward(path, ms)
    BY <1>2, <1>4, FlagStepPath
  <2>3. QED
    BY <1>4, <2>1, <2>2 DEF FlagStep
<1>6. Tree(nodes)' /\ Shape(nodes)' /\ Backed(nodes)'
  <2>1. Tree(nodes)' /\ Backed(nodes)'
    BY <1>4, <1>5
  <2>2. Shape(nodes)'
    BY <1>4, <1>5, ShapePrimed
  <2>3. QED
    BY <2>1, <2>2
<1>7. AgreeInv'
  <2>1. ASSUME NEW j \in DOMAIN ms \ MayLag' PROVE ms[j].solved = NodeSolved(ms, j)
    <3>1. CASE j = i
      BY <1>4, <3>1
    <3>2. CASE j # i
      <4>1. j \notin MayLag
        <5>1. SUFFICES ASSUME j \in MayLag PROVE FALSE
          OBVIOUS
        <5>2. PICK n \in 1..k : j = path[n]
          BY <5>1
        <5>3. n \in 1..(k - 1)
          BY <1>1, <3>2, <5>2, PathType
        <5>4. QED
          BY <2>1, <5>2, <5>3
      <4>2. j \in DOMAIN nodes \ {i} /\ nodes[j].solved = NodeSolved(nodes, j)
        BY <1>4, <2>1, <3>2, <4>1 DEF AgreeInv, FlagStep
      <4>3. i \notin Children(nodes, j)
        <5>1. SUFFICES ASSUME i \in Children(nodes, j) PROVE FALSE
          OBVIOUS
        <5>2. k > 1 /\ j = path[k - 1]
          BY <1>1, <4>2, <5>1, ParentOnPath
        <5>3. k - 1 \in 1..(k - 1)
          BY <5>2, PathType
        <5>4. QED
          BY <2>1, <5>2, <5>3
      <4>4. QED
        BY <1>2, <1>4, <4>2, <4>3, FlagStepAgrees
    <3>3. QED
      BY <3>1, <3>2
  <2>2. QED
    BY <1>4, <2>1 DEF AgreeInv
<1>8. QED
  BY <1>4, <1>5, <1>6, <1>7

LEMMA RefreshInv ==
  ASSUME IInv, Refresh
  PROVE  IInv'
<1> USE DEF IInv
<1>1. /\ Len(path) \in Nat /\ Len(path) >= 1 /\ DOMAIN path = 1..Len(path)
      /\ Here = path[Len(path)]
  BY PathType DEF Here
<1>2. Len(path) \in 1..Len(path) /\ rules' = rules /\ nodes' = Refreshed(nodes, path[Len(path)])
  BY <1>1 DEF Refresh
<1>3. MayLag = {path[n] : n \in 1..Len(path)} /\ MayLag' = {path[n] : n \in 1..(Len(path) - 1)}
  BY <1>1 DEF Refresh, MayLag
<1>4. /\ nodes' \in Seq(NodeStates) /\ Tree(nodes)' /\ Shape(nodes)' /\ Backed(nodes)'
      /\ AgreeInv' /\ Downward(path, nodes')
  BY <1>2, <1>3, RefreshesPath
<1>5. TypeOK'
  BY <1>4 DEF Refresh, TypeOK
<1>6. PathInv'
  BY <1>4 DEF Refresh, PathInv
<1>7. PhaseInv'
  BY DEF Refresh, PhaseInv
<1>8. QED
  BY <1>4, <1>5, <1>6, <1>7

LEMMA BackUpInv ==
  ASSUME IInv, BackUp
  PROVE  IInv'
<1> USE DEF IInv
<1>1. Len(path) \in Nat /\ Len(path) > 1 /\ DOMAIN path = 1..Len(path) /\ path \in Seq(Nat)
  BY PathType DEF BackUp, TypeOK
<1>2. PICK k \in 1..Len(path) : k = Len(path) - 1 /\ k \in Nat /\ k >= 1
  <2>1. Len(path) - 1 \in 1..Len(path) /\ Len(path) - 1 \in Nat /\ Len(path) - 1 >= 1
    BY <1>1
  <2>2. QED
    BY <2>1, Zenon
<1>3. /\ path' \in Seq(Nat) /\ Len(path') = k /\ DOMAIN path' = 1..k
      /\ \A n \in 1..k : path'[n] = path[n]
  BY <1>1, <1>2 DEF BackUp
<1>4. rules' = rules /\ nodes' = Refreshed(nodes, path[k])
  BY <1>2 DEF BackUp
<1>5. MayLag = {path[n] : n \in 1..k} /\ MayLag' = {path[n] : n \in 1..(k - 1)}
  <2>1. MayLag = {path[n] : n \in 1..k}
    BY <1>2 DEF BackUp, MayLag
  <2>2. MayLag' = {path'[n] : n \in 1..(k - 1)}
    BY <1>3 DEF BackUp, MayLag
  <2>3. \A n \in 1..(k - 1) : path'[n] = path[n]
    BY <1>2, <1>3
  <2>4. QED
    BY <2>1, <2>2, <2>3
<1>6. /\ nodes' \in Seq(NodeStates) /\ Tree(nodes)' /\ Shape(nodes)' /\ Backed(nodes)'
      /\ AgreeInv' /\ Downward(path, nodes')
  BY <1>4, <1>5, RefreshesPath
<1>7. TypeOK'
  BY <1>3, <1>6 DEF BackUp, TypeOK
<1>8. PathInv'
  <2>1. path' # << >> /\ path'[1] = 1
    BY <1>2, <1>3, <1>6 DEF Downward
  <2>2. ASSUME NEW n \in 1..k PROVE path'[n] \in DOMAIN nodes'
    <3>1. n \in DOMAIN path /\ path'[n] = path[n]
      BY <1>1, <1>2, <1>3
    <3>2. QED
      BY <1>6, <3>1 DEF Downward
  <2>3. ASSUME NEW n \in 1..k, n > 1 PROVE path'[n] \in Children(nodes', path'[n - 1])
    <3>1. n \in DOMAIN path /\ n - 1 \in 1..k
      BY <1>1, <1>2, <2>3
    <3>2. path'[n] = path[n] /\ path'[n - 1] = path[n - 1]
      BY <1>3, <3>1
    <3>3. QED
      BY <1>6, <2>3, <3>1, <3>2 DEF Downward
  <2>4. Downward(path', nodes')
    BY <1>3, <2>1, <2>2, <2>3 DEF Downward
  <2>5. QED
    BY <2>4 DEF PathInv
<1>9. PhaseInv'
  BY DEF BackUp, PhaseInv
<1>10. QED
  BY <1>6, <1>7, <1>8, <1>9

LEMMA EndStepInv ==
  ASSUME IInv, EndStep
  PROVE  IInv'
<1> USE DEF IInv
<1>1. nodes' = nodes /\ path' = path /\ rules' = rules
  BY DEF EndStep
<1>2. /\ phase' \in {"select", "ended"} /\ step' \in Nat
      /\ verdict' \in {"none", "solved", "exhausted"}
  BY DEF EndStep, TypeOK
<1>3. TypeOK'
  BY <1>1, <1>2 DEF EndStep, TypeOK
<1>4. MayLag = {}
  BY DEF EndStep, MayLag
<1>5. Tree(nodes)' /\ Shape(nodes)' /\ Backed(nodes)' /\ AgreeInv'
  BY <1>1, <1>4, SameNodes
<1>6. PathInv'
  BY <1>1 DEF PathInv
<1>7. PhaseInv'
  BY <1>1, <1>2 DEF EndStep, PhaseInv
<1>8. QED
  BY <1>3, <1>5, <1>6, <1>7

LEMMA StutterInv ==
  ASSUME IInv, UNCHANGED vars
  PROVE  IInv'
<1>1. /\ nodes' = nodes /\ path' = path /\ rules' = rules /\ open' = open /\ phase' = phase
      /\ offered' = offered /\ step' = step /\ verdict' = verdict
  BY DEF vars
<1>2. TypeOK'
  BY <1>1 DEF IInv, TypeOK
<1>3. MayLag' = MayLag
  BY <1>1 DEF MayLag
<1>4. Tree(nodes)' /\ Shape(nodes)' /\ Backed(nodes)' /\ AgreeInv'
  BY <1>1, <1>3, SameNodes
<1>5. PathInv' /\ PhaseInv'
  BY <1>1 DEF IInv, PathInv, PhaseInv, Here
<1>6. QED
  BY <1>2, <1>4, <1>5 DEF IInv

LEMMA StepInv == IInv /\ [Next \/ Ended]_vars => IInv'
<1> SUFFICES ASSUME IInv, [Next \/ Ended]_vars PROVE IInv'
  OBVIOUS
<1>1. CASE Descend
  BY <1>1, DescendInv
<1>2. CASE Visit
  BY <1>2, VisitInv
<1>3. CASE Try
  BY <1>3, TryInv
<1>4. CASE Refresh
  BY <1>4, RefreshInv
<1>5. CASE BackUp
  BY <1>5, BackUpInv
<1>6. CASE EndStep
  BY <1>6, EndStepInv
<1>7. CASE Ended \/ UNCHANGED vars
  BY <1>7, StutterInv DEF Ended
<1>8. QED
  BY <1>1, <1>2, <1>3, <1>4, <1>5, <1>6, <1>7 DEF Next

\* The nodes are a tree, flags are backed, and only those on the path may lag behind
\* (MCTS.lean: reapMCTSStep and the functions it calls).
THEOREM SearchInvariant == Spec => []IInv
<1>1. Init => IInv
  BY InitInv
<1>2. QED
  BY <1>1, StepInv, PTL DEF Spec

\* Whatever the policy offers, however often and in whatever order: a solved node
\* has a proof the replay finds (TreeSearch.lean:560-582).
THEOREM ReplaysSafe == Spec => []SolvedReplays
<1>1. IInv => SolvedReplays
  BY BackedReplays DEF IInv, TypeOK
<1>2. QED
  BY <1>1, SearchInvariant, PTL

\* Whatever path a search step took, it leaves no flag behind the flags of the
\* node's children (TreeSearch.lean:202-205, 410-416).
THEOREM FlagsSafe == Spec => []FlagsAgree
<1>1. IInv => FlagsAgree
  BY DEF IInv, AgreeInv, MayLag, FlagsAgree
<1>2. QED
  BY <1>1, SearchInvariant, PTL

=============================================================================
