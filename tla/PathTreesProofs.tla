-------------------------- MODULE PathTreesProofs ---------------------------
(***************************************************************************)
(* Proofs about DependencyGraph and PathTrees, for any network, any rules, *)
(* any order of the tasks of the detector and any number of them: types; that *)
(* the domain of every rule is what the rules above it leave to it; and that *)
(* the edges of the graph of a plain network carry what the tables do.     *)
(*                                                                         *)
(* The operations on the graph are folds over sequences.  For each there is *)
(* an instance of FoldFacts, a lemma that the operation is a fold of that  *)
(* instance, and a lemma of what holds of the part folded so far.          *)
(***************************************************************************)
EXTENDS PathTrees, SequenceFacts, FiniteSetTheorems

(***************************************************************************)
(* Vertices, rules, spaces and lists of them.                              *)
(***************************************************************************)
LEMMA AppendedElements ==
  ASSUME NEW S, NEW s \in Seq(S), NEW x \in S
  PROVE  Append(s, x) \in Seq(S) /\ ToSet(Append(s, x)) = ToSet(s) \cup {x}
<1>1. /\ DOMAIN s = 1 .. Len(s) /\ Len(s) \in Nat
      /\ DOMAIN Append(s, x) = 1 .. Len(s) + 1
      /\ \A i \in DOMAIN s : Append(s, x)[i] = s[i]
      /\ Append(s, x)[Len(s) + 1] = x /\ Append(s, x) \in Seq(S)
  BY AppendFacts
<1>2. DOMAIN Append(s, x) = DOMAIN s \cup {Len(s) + 1}
  BY <1>1
<1> QED BY <1>1, <1>2 DEF ToSet

LEMMA EmptyElements == ToSet(<<>>) = {}
BY DEF ToSet

LEMMA Enumerated ==
  ASSUME NEW S, IsFiniteSet(S), NEW s \in [1 .. Cardinality(S) -> S], IsInjective(s)
  PROVE  s \in Seq(S) /\ ToSet(s) = S
<1> DEFINE n == Cardinality(S)
<1>1. n \in Nat
  BY FS_CardinalityType
<1>4. s \in Injection(1 .. n, S)
  BY DEF Injection, IsInjective
<1>5. Cardinality(1 .. n) = n
  BY <1>1, FS_Interval
<1>6. s \in Surjection(1 .. n, S)
  BY <1>4, <1>5, FS_Injection
<1>7. s \in Seq(S) /\ DOMAIN s = 1 .. n
  BY <1>1
<1>8. ToSet(s) = S
  BY <1>6, <1>7 DEF Surjection, ToSet
<1> QED BY <1>7, <1>8

LEMMA ListOfSet ==
  ASSUME NEW S, IsFiniteSet(S)
  PROVE  SetToSeq(S) \in Seq(S) /\ ToSet(SetToSeq(S)) = S
<1> DEFINE n == Cardinality(S)
           s == SetToSeq(S)
<1>1. n \in Nat /\ ExistsBijection(1 .. n, S)
  BY FS_CardinalityType
<1>2. \E f \in [1 .. n -> S] : IsInjective(f)
  BY <1>1 DEF ExistsBijection, Bijection, Injection, IsInjective
<1>3. s \in [1 .. n -> S] /\ IsInjective(s)
  BY <1>2 DEF SetToSeq
<1> QED BY <1>3, Enumerated

LEMMA SortedExists ==
  ASSUME NEW S, IsFiniteSet(S), NEW key \in [S -> Nat],
         \A x, y \in S : key[x] = key[y] => x = y
  PROVE  \E s \in SetToSeqs(S) :
           \A i, j \in DOMAIN s : i < j => key[s[i]] > key[s[j]]
<1> DEFINE Sorted(s) == \A i, j \in DOMAIN s : i < j => key[s[i]] > key[s[j]]
           N == {n \in Nat : \A T \in SUBSET S : Cardinality(T) = n =>
                   \E s \in [1 .. n -> T] :
                     /\ \A i, j \in 1 .. n : i # j => s[i] # s[j]
                     /\ \A i, j \in 1 .. n : i < j => key[s[i]] > key[s[j]]}
<1>1. 0 \in N
  <2> SUFFICES ASSUME NEW T \in SUBSET S, Cardinality(T) = 0
               PROVE  \E s \in [1 .. 0 -> T] :
                     /\ \A i, j \in 1 .. 0 : i # j => s[i] # s[j]
                     /\ \A i, j \in 1 .. 0 : i < j => key[s[i]] > key[s[j]]
    OBVIOUS
  <2>1. 1 .. 0 = {}
    OBVIOUS
  <2>2. [i \in 1 .. 0 |-> 0] \in [1 .. 0 -> T]
    BY <2>1
  <2> QED BY <2>1, <2>2
<1>2. ASSUME NEW n \in N PROVE n + 1 \in N
  <2> SUFFICES ASSUME NEW T \in SUBSET S, Cardinality(T) = n + 1
               PROVE  \E s \in [1 .. n + 1 -> T] :
                     /\ \A i, j \in 1 .. n + 1 : i # j => s[i] # s[j]
                     /\ \A i, j \in 1 .. n + 1 : i < j => key[s[i]] > key[s[j]]
    OBVIOUS
  <2>1. n \in Nat /\ IsFiniteSet(T)
    BY FS_Subset
  <2>2. T # {}
    BY <2>1, FS_EmptySet
  <2>3. PICK x \in T : \A y \in T : key[x] <= key[y]
    <3> DEFINE keys == {key[y] : y \in T}
    <3>1. keys \in SUBSET Nat /\ keys # {}
      BY <2>2
    <3> HIDE DEF keys
    <3>2. PICK m \in keys : \A k \in keys : m <= k
      BY <3>1, LeastElement
    <3> QED BY <3>2 DEF keys
  <2>4. T \ {x} \in SUBSET S /\ Cardinality(T \ {x}) = n
    <3>1. Cardinality(T \ {x}) = Cardinality(T) - 1
      BY <2>1, <2>3, FS_RemoveElement
    <3> QED BY <2>1, <3>1
  <2>5. PICK s \in [1 .. n -> T \ {x}] :
          /\ \A i, j \in 1 .. n : i # j => s[i] # s[j]
          /\ \A i, j \in 1 .. n : i < j => key[s[i]] > key[s[j]]
    BY <2>4
  <2> DEFINE r == [i \in 1 .. n + 1 |-> IF i = n + 1 THEN x ELSE s[i]]
  <2>6. \A i \in 1 .. n : i \in 1 .. n + 1 /\ i # n + 1 /\ s[i] \in T /\ s[i] # x
    BY <2>1, <2>5
  <2>7. \A i \in 1 .. n : key[s[i]] > key[x]
    <3> TAKE i \in 1 .. n
    <3>1. s[i] \in S /\ x \in S /\ key[x] <= key[s[i]] /\ key[s[i]] # key[x]
      BY <2>3, <2>6
    <3>2. key[x] \in Nat /\ key[s[i]] \in Nat
      BY <3>1
    <3> QED BY <3>1, <3>2
  <2>8. \A i \in 1 .. n + 1 : i = n + 1 \/ i \in 1 .. n
    BY <2>1
  <2>9. r \in [1 .. n + 1 -> T]
    BY <2>6, <2>8
  <2>10. \A i, j \in 1 .. n + 1 : i # j => r[i] # r[j]
    BY <2>5, <2>6, <2>8
  <2>11. \A i, j \in 1 .. n + 1 : i < j => key[r[i]] > key[r[j]]
    <3> TAKE i, j \in 1 .. n + 1
    <3> HAVE i < j
    <3>1. i \in 1 .. n /\ r[i] = s[i]
      BY <2>1
    <3> QED BY <2>5, <2>7, <2>8, <3>1
  <2> QED BY <2>9, <2>10, <2>11
<1>3. N = Nat
  <2> HIDE DEF N
  <2>1. N \in SUBSET Nat
    BY DEF N
  <2> QED BY <1>1, <1>2, <2>1, Induction
<1>4. Cardinality(S) \in N /\ S \in SUBSET S
  <2>1. Cardinality(S) \in Nat
    BY FS_CardinalityType
  <2> QED BY <1>3, <2>1
<1>5. PICK s \in [1 .. Cardinality(S) -> S] :
                     /\ \A i, j \in 1 .. Cardinality(S) : i # j => s[i] # s[j]
                     /\ \A i, j \in 1 .. Cardinality(S) : i < j => key[s[i]] > key[s[j]]
  BY <1>4
<1> QED BY <1>5 DEF SetToSeqs


LEMMA VertexFacts ==
  /\ \A p \in Ports : /\ Source(p) \in Vertices /\ Kind(Source(p)) = "source" /\ Source(p)[2] = p
                      /\ Sink(p) \in Outputs /\ Kind(Sink(p)) = "sink"
                      /\ Sink(p)[2] = p
  /\ Drop \in Outputs /\ Kind(Drop) = "drop"
  /\ Controller \in Outputs /\ Kind(Controller) = "controller"
  /\ \A s \in Switches : Miss(s) \in TableRule /\ Kind(Miss(s)) = "miss" /\ Miss(s)[2] = s
  /\ \A f \in Flows : Flow(f) \in TableRule /\ Kind(Flow(f)) = "flow" /\ Flow(f)[2] = f
  /\ Outputs \subseteq Vertices /\ TableRule \subseteq Vertices
  /\ \A o \in Outputs : Kind(o) = "sink" => \E p \in Ports : o = Sink(p)
  /\ \A o \in Outputs : Kind(o) \in {"sink", "drop", "controller"}
  /\ \A r \in TableRule : \/ Kind(r) = "miss" /\ \E s \in Switches : r = Miss(s)
                          \/ Kind(r) = "flow" /\ \E f \in Flows : r = Flow(f)
  /\ \A v \in Vertices : \/ v \in Outputs
                         \/ v \in TableRule
                         \/ \E p \in Ports : v = Source(p)
BY DEF Vertices, Outputs, TableRule, Source, Sink, Drop, Controller, Miss, Flow, Kind

LEMMA SpaceFacts ==
  /\ EmptySpace \in Space
  /\ \A p \in Ports \cup {AnyPort, NoPort} : SpaceAt(p) \in Space
  /\ \A s, t \in Space : Meet(s, t) \in Space /\ Minus(s, t) \in Space /\ InverseSpace(s) \in Space
  /\ \A s \in Space, p \in Ports \cup {NoPort} : Apply(p, s) \in Space
BY DEF Space, EmptySpace, SpaceAt, Meet, CommonPort, Minus, InverseSpace, Apply

LEMMA RuleFacts ==
  ASSUME NEW r \in TableRule
  PROVE  /\ Switch[r] \in Switches /\ Priority[r] \in Nat
         /\ Match[r] \in Space /\ Actions[r] \in Seq(Outputs)
<1>1. CASE \E s \in Switches : r = Miss(s)
  BY <1>1, VertexFacts, SpaceFacts DEF Switch, Priority, Match, Actions, Kind
<1>2. CASE \E f \in Flows : r = Flow(f)
  <2>1. PICK f \in Flows : r = Flow(f)
    BY <1>2
  <2>2. Attr[f] \in [sw : Switches, priority : Nat \ {0}, match : Space, out : Seq(Outputs)]
    BY NetworkShape
  <2>3. r[1] = "flow" /\ r[2] = f /\ r \in Vertices
    BY <2>1, VertexFacts DEF Kind
  <2> QED BY <2>2, <2>3, VertexFacts DEF Switch, Priority, Match, Actions, Kind
<1> QED BY <1>1, <1>2, VertexFacts

LEMMA MatchFacts ==
  /\ \A v \in Vertices : Match[v] \in Space
  /\ \A p \in Ports : Match[Source(p)] = SpaceAt(p) /\ Match[Sink(p)] = SpaceAt(p)
  /\ Match[Drop] = SpaceAt(AnyPort) /\ Match[Controller] = SpaceAt(AnyPort)
  /\ \A s \in Switches : Match[Miss(s)] = SpaceAt(AnyPort)
  /\ \A f \in Flows : Match[Flow(f)] = Attr[f].match
<1>1. \A p \in Ports : Match[Source(p)] = SpaceAt(p) /\ Match[Sink(p)] = SpaceAt(p)
  BY VertexFacts DEF Match, Kind
<1>2. Match[Drop] = SpaceAt(AnyPort) /\ Match[Controller] = SpaceAt(AnyPort)
  BY VertexFacts DEF Match, Kind
<1>3. \A s \in Switches : Match[Miss(s)] = SpaceAt(AnyPort)
  BY VertexFacts DEF Match, Kind
<1>4. \A f \in Flows : Match[Flow(f)] = Attr[f].match
  BY VertexFacts DEF Match, Kind
<1>5. ASSUME NEW v \in Vertices PROVE Match[v] \in Space
  <2>1. CASE v \in TableRule
    BY <2>1, RuleFacts
  <2>2. CASE v \in Outputs
    BY <2>2, <1>1, <1>2, SpaceFacts DEF Outputs
  <2>3. CASE \E p \in Ports : v = Source(p)
    BY <2>3, <1>1, SpaceFacts
  <2> QED BY <2>1, <2>2, <2>3, VertexFacts
<1> QED BY <1>1, <1>2, <1>3, <1>4, <1>5

LEMMA RulesFinite == IsFiniteSet(TableRule)
<1>1. IsFiniteSet({Miss(s) : s \in Switches}) /\ IsFiniteSet({Flow(f) : f \in Flows})
  <2> DEFINE m == [s \in Switches |-> Miss(s)]
             f == [x \in Flows |-> Flow(x)]
             A == {Miss(s) : s \in Switches}
             B == {Flow(x) : x \in Flows}
  <2>1. m \in Surjection(Switches, A) /\ f \in Surjection(Flows, B)
    BY DEF Surjection
  <2>2. IsFiniteSet(Switches) /\ IsFiniteSet(Flows)
    BY NetworkShape
  <2> HIDE DEF m, f, A, B
  <2>3. IsFiniteSet(A) /\ IsFiniteSet(B)
    BY <2>1, <2>2, FS_Surjection
  <2> QED BY <2>3 DEF A, B
<1> QED BY <1>1, FS_Union DEF TableRule

LEMMA DescendingFacts ==
  ASSUME NEW R \in SUBSET TableRule,
         \A q, r \in R : Priority[q] = Priority[r] => q = r
  PROVE  Descending(R) \in Seq(R) /\ ToSet(Descending(R)) = R
<1> DEFINE key == [r \in R |-> Priority[r]]
<1>1. IsFiniteSet(R)
  BY RulesFinite, FS_Subset
<1>2. key \in [R -> Nat] /\ \A x, y \in R : key[x] = key[y] => x = y
  BY RuleFacts
<1> HIDE DEF key
<1>3. PICK s \in SetToSeqs(R) :
           \A i, j \in DOMAIN s : i < j => key[s[i]] > key[s[j]]
  BY <1>1, <1>2, SortedExists
<1>4. \A t \in SetToSeqs(R) : t \in [1 .. Cardinality(R) -> R] /\ IsInjective(t)
  BY DEF SetToSeqs, IsInjective
<1>5. \A i, j \in DOMAIN s : i < j => Priority[s[i]] > Priority[s[j]]
  BY <1>3, <1>4 DEF key
<1>6. Descending(R) \in SetToSeqs(R)
  BY <1>3, <1>5 DEF Descending
<1> QED BY <1>1, <1>4, <1>6, Enumerated

(* The function that Chosen takes its value from.                          *)
UpTo(f, s, I, n) ==
  f = [k \in 0 .. n |->
         IF k = 0 THEN <<>> ELSE IF k \in I THEN Append(f[k - 1], s[k]) ELSE f[k - 1]]

LEMMA UpToExists ==
  ASSUME NEW s, NEW I, NEW n \in Nat
  PROVE  \E f : UpTo(f, s, I, n)
<1> DEFINE N == {m \in Nat : \E f : UpTo(f, s, I, m)}
<1>1. 0 \in N
  <2>1. \A k \in 0 .. 0 : k = 0
    OBVIOUS
  <2>2. UpTo([k \in 0 .. 0 |-> <<>>], s, I, 0)
    BY <2>1 DEF UpTo
  <2> QED BY <2>2
<1>2. ASSUME NEW m \in N PROVE m + 1 \in N
  <2>1. PICK f : UpTo(f, s, I, m)
    OBVIOUS
  <2>2. /\ f = [k \in 0 .. m |-> f[k]]
        /\ \A k \in 0 .. m : f[k] = IF k = 0 THEN <<>>
                                   ELSE IF k \in I THEN Append(f[k - 1], s[k]) ELSE f[k - 1]
    BY <2>1, Zenon DEF UpTo
  <2> DEFINE last == IF m + 1 \in I THEN Append(f[m], s[m + 1]) ELSE f[m]
             h == [k \in 0 .. m + 1 |-> IF k = m + 1 THEN last ELSE f[k]]
  <2>3. m \in Nat
    OBVIOUS
  <2>4. ASSUME NEW k \in 0 .. m + 1
        PROVE  h[k] = IF k = 0 THEN <<>>
                      ELSE IF k \in I THEN Append(h[k - 1], s[k]) ELSE h[k - 1]
    <3>1. CASE k = m + 1
      <4>1. k # 0 /\ k - 1 = m /\ m \in 0 .. m + 1 /\ m # m + 1 /\ m + 1 \in 0 .. m + 1
        BY <2>3, <3>1
      <4>2. h[m] = f[m] /\ h[m + 1] = last
        BY <4>1
      <4> HIDE DEF h
      <4> QED BY <3>1, <4>1, <4>2
    <3>2. CASE k # m + 1
      <4>1. k \in 0 .. m /\ (k # 0 => k - 1 \in 0 .. m + 1 /\ k - 1 # m + 1)
        BY <2>3, <3>2
      <4>2. h[k] = f[k] /\ (k # 0 => h[k - 1] = f[k - 1])
        BY <3>2, <4>1
      <4> HIDE DEF h
      <4> QED BY <2>2, <4>1, <4>2
    <3> QED BY <3>1, <3>2
  <2>5. h = [k \in 0 .. m + 1 |-> h[k]]
    OBVIOUS
  <2> HIDE DEF h
  <2>6. UpTo(h, s, I, m + 1)
    BY <2>4, <2>5, Zenon DEF UpTo
  <2> QED BY <2>3, <2>6
<1>3. N = Nat
  <2> HIDE DEF N
  <2>1. N \in SUBSET Nat
    BY DEF N
  <2> QED BY <1>1, <1>2, <2>1, Induction
<1> QED BY <1>3

LEMMA ChosenFacts ==
  ASSUME NEW S, NEW s \in Seq(S), NEW I
  PROVE  /\ Chosen(s, I) \in Seq(S)
         /\ ToSet(Chosen(s, I)) = {s[i] : i \in DOMAIN s \cap I}
<1> DEFINE n == Len(s)
           f == CHOOSE f : UpTo(f, s, I, n)
<1>1. n \in Nat /\ DOMAIN s = 1 .. n
  OBVIOUS
<1>2. UpTo(f, s, I, n)
  BY <1>1, UpToExists
<1>3. Chosen(s, I) = f[n]
  BY Zenon DEF Chosen, UpTo
<1> HIDE DEF f, n
<1>4. \A k \in 0 .. n : f[k] = IF k = 0 THEN <<>>
                             ELSE IF k \in I THEN Append(f[k - 1], s[k]) ELSE f[k - 1]
  BY <1>2, Zenon DEF UpTo
<1> DEFINE N == {m \in Nat : m \in 0 .. n =>
                   f[m] \in Seq(S) /\ ToSet(f[m]) = {s[i] : i \in (1 .. m) \cap I}}
<1>5. 0 \in N
  <2>1. f[0] = <<>> /\ 1 .. 0 = {} /\ DOMAIN <<>> = {} /\ <<>> \in Seq(S)
    BY <1>1, <1>4
  <2> QED BY <2>1 DEF ToSet
<1>6. ASSUME NEW m \in N PROVE m + 1 \in N
  <2> SUFFICES ASSUME m + 1 \in 0 .. n
               PROVE  /\ f[m + 1] \in Seq(S)
                      /\ ToSet(f[m + 1]) = {s[i] : i \in (1 .. m + 1) \cap I}
    OBVIOUS
  <2>1. /\ m \in Nat /\ m \in 0 .. n /\ m + 1 \in DOMAIN s /\ m + 1 # 0
        /\ (m + 1) - 1 = m
        /\ 1 .. m + 1 = (1 .. m) \cup {m + 1} /\ s[m + 1] \in S
    BY <1>1
  <2>2. f[m] \in Seq(S) /\ ToSet(f[m]) = {s[i] : i \in (1 .. m) \cap I}
    BY <2>1
  <2>3. f[m + 1] = IF m + 1 \in I THEN Append(f[m], s[m + 1]) ELSE f[m]
    BY <1>4, <2>1
  <2>4. Append(f[m], s[m + 1]) \in Seq(S)
        /\ ToSet(Append(f[m], s[m + 1])) = ToSet(f[m]) \cup {s[m + 1]}
    BY <2>1, <2>2, AppendedElements
  <2>5. CASE m + 1 \in I
    BY <2>1, <2>2, <2>3, <2>4, <2>5
  <2>6. CASE m + 1 \notin I
    BY <2>1, <2>2, <2>3, <2>6
  <2> QED BY <2>5, <2>6
<1>7. N = Nat
  <2> HIDE DEF N
  <2>1. N \in SUBSET Nat
    BY DEF N
  <2> QED BY <1>5, <1>6, <2>1, Induction
<1>8. n \in N
  BY <1>1, <1>7
<1>9. n \in 0 .. n
  BY <1>1
<1> QED BY <1>1, <1>3, <1>8, <1>9

(***************************************************************************)
(* Types: the graph g that the operations work on.  Kept relates it to     *)
(* what an operation makes of it: everything but the edges and the diffs.  *)
(***************************************************************************)
Edge == [src : Vertices, dst : Vertices, transfer : Ports \cup {NoPort}, domain : Space]
Removal == [src : Vertices, dst : Vertices]
EdgeDiff == [new : Seq(Edge), newDependent : Seq(Edge), changed : Seq(Edge),
             removed : Seq(Removal), removedDependent : Seq(Removal)]
Domains == UNION {[V -> Space] : V \in SUBSET Vertices}
Links == UNION {[P -> Ports] : P \in SUBSET Ports}

Graph ==
  {g \in [rules : SUBSET TableRule, links : Links, domain : Domains,
          influences : SUBSET (TableRule \X TableRule), edges : Seq(Edge),
          diff : EdgeDiff, step : EdgeDiff, lossy : BOOLEAN, doubled : BOOLEAN] :
     \A i \in DOMAIN g.edges : /\ g.edges[i].src \in DOMAIN g.domain
                               /\ g.edges[i].dst \in DOMAIN g.domain}

Kept(g, h) ==
  /\ h \in Graph
  /\ h.rules = g.rules /\ h.links = g.links
  /\ h.domain = g.domain /\ h.influences = g.influences
  /\ g.doubled => h.doubled

LEMMA DomainsFacts ==
  \A d : d \in Domains <=> /\ DOMAIN d \subseteq Vertices
                           /\ d \in [DOMAIN d -> Space]
BY DEF Domains

LEMMA LinksFacts ==
  \A d : d \in Links <=> /\ DOMAIN d \subseteq Ports
                         /\ d \in [DOMAIN d -> Ports]
BY DEF Links

LEMMA GraphFacts ==
  ASSUME NEW g \in Graph
  PROVE  /\ g.rules \subseteq TableRule
         /\ DOMAIN g.links \subseteq Ports
         /\ \A p \in DOMAIN g.links : g.links[p] \in Ports
         /\ DOMAIN g.domain \subseteq Vertices
         /\ \A v \in DOMAIN g.domain : g.domain[v] \in Space
         /\ g.edges \in Seq(Edge) /\ Len(g.edges) \in Nat
         /\ DOMAIN g.edges = 1 .. Len(g.edges)
         /\ \A i \in DOMAIN g.edges : /\ g.edges[i] \in Edge
                                      /\ g.edges[i].src \in DOMAIN g.domain
                                      /\ g.edges[i].dst \in DOMAIN g.domain
         /\ \A e \in ToSet(g.edges) : /\ e \in Edge
                                      /\ e.src \in DOMAIN g.domain
                                      /\ e.dst \in DOMAIN g.domain
         /\ g.diff \in EdgeDiff /\ g.step \in EdgeDiff
<1>1. /\ g.rules \subseteq TableRule /\ g.links \in Links
      /\ g.domain \in Domains
      /\ g.edges \in Seq(Edge) /\ g.diff \in EdgeDiff /\ g.step \in EdgeDiff
      /\ \A i \in DOMAIN g.edges : /\ g.edges[i].src \in DOMAIN g.domain
                                   /\ g.edges[i].dst \in DOMAIN g.domain
  BY DEF Graph
<1>2. Len(g.edges) \in Nat /\ DOMAIN g.edges = 1 .. Len(g.edges)
      /\ \A i \in DOMAIN g.edges : g.edges[i] \in Edge
  BY <1>1
<1> QED BY <1>1, <1>2, DomainsFacts, LinksFacts DEF ToSet

LEMMA KeptFacts ==
  /\ \A g \in Graph : Kept(g, g)
  /\ \A g, h, k : Kept(g, h) /\ Kept(h, k) => Kept(g, k)
BY DEF Kept

(* The edge that addEdge makes of a way, a source, a destination and a     *)
(* transfer; and those of a set of ways that carry a packet.               *)
Way(e) == <<e.src, e.dst, e.transfer>>
EdgeOf(g, w) ==
  [src |-> w[1], dst |-> w[2], transfer |-> w[3], domain |-> Handed(g, w[1], w[2], w[3])]
Carrying(g, W) == {e \in {EdgeOf(g, w) : w \in W} : ~IsEmpty(e.domain)}
WaysOf(g) == (DOMAIN g.domain) \X (DOMAIN g.domain) \X (Ports \cup {NoPort})

LEMMA EdgeOfFacts ==
  ASSUME NEW g \in Graph, NEW w \in WaysOf(g)
  PROVE  /\ EdgeOf(g, w) \in Edge
         /\ EdgeOf(g, w).src = w[1] /\ EdgeOf(g, w).dst = w[2]
         /\ EdgeOf(g, w).transfer = w[3]
         /\ EdgeOf(g, w).domain = Handed(g, w[1], w[2], w[3])
<1>1. /\ w[1] \in DOMAIN g.domain /\ w[2] \in DOMAIN g.domain
      /\ w[3] \in Ports \cup {NoPort}
      /\ w[1] \in Vertices /\ w[2] \in Vertices
  BY GraphFacts DEF WaysOf
<1>2. Match[w[1]] \in Space /\ g.domain[w[2]] \in Space
  BY <1>1, GraphFacts, MatchFacts
<1>3. Handed(g, w[1], w[2], w[3]) \in Space
  BY <1>1, <1>2, SpaceFacts DEF Handed
<1> QED BY <1>1, <1>3 DEF EdgeOf, Edge

LEMMA AddEdgeFacts ==
  ASSUME NEW g \in Graph, NEW src \in DOMAIN g.domain, NEW dst \in DOMAIN g.domain,
         NEW transfer \in Ports \cup {NoPort}, NEW list \in {"new", "newDependent"}
  PROVE  LET h == AddEdge(g, src, dst, transfer, list)
             w == <<src, dst, transfer>>
         IN  /\ Kept(g, h)
             /\ h.edges = IF IsEmpty(EdgeOf(g, w).domain) THEN g.edges
                          ELSE Append(g.edges, EdgeOf(g, w))
             /\ EdgeOf(g, w) \in Edge
<1> DEFINE w == <<src, dst, transfer>>
           e == EdgeOf(g, w)
           h == AddEdge(g, src, dst, transfer, list)
           k == [g EXCEPT !.edges = Append(@, e), !.step[list] = Append(@, e)]
<1>1. w \in WaysOf(g)
  BY DEF WaysOf
<1>2. /\ e \in Edge /\ e.src = src /\ e.dst = dst
      /\ e = [src |-> src, dst |-> dst, transfer |-> transfer,
              domain |-> Handed(g, src, dst, transfer)]
  BY <1>1, EdgeOfFacts DEF EdgeOf
<1>3. h = IF IsEmpty(e.domain) THEN g ELSE k
  BY <1>2 DEF AddEdge
<1> HIDE DEF e
<1>5. k \in Graph
  <2>1. /\ g \in [rules : SUBSET TableRule, links : Links, domain : Domains,
          influences : SUBSET (TableRule \X TableRule), edges : Seq(Edge),
          diff : EdgeDiff, step : EdgeDiff, lossy : BOOLEAN, doubled : BOOLEAN]
        /\ \A i \in DOMAIN g.edges : g.edges[i].src \in DOMAIN g.domain /\ g.edges[i].dst \in DOMAIN g.domain
    BY DEF Graph
  <2>2. Append(g.edges, e) \in Seq(Edge) /\ DOMAIN Append(g.edges, e) = 1 .. Len(g.edges) + 1
        /\ Len(g.edges) \in Nat /\ DOMAIN g.edges = 1 .. Len(g.edges)
        /\ \A i \in DOMAIN g.edges : Append(g.edges, e)[i] = g.edges[i]
        /\ Append(g.edges, e)[Len(g.edges) + 1] = e
    BY <1>2, <2>1, AppendFacts
  <2>3. [g.step EXCEPT ![list] = Append(@, e)] \in EdgeDiff
    <3>1. g.step \in EdgeDiff
      BY <2>1
    <3>2. CASE list = "new"
      <4>1. Append(g.step.new, e) \in Seq(Edge)
        BY <1>2, <3>1 DEF EdgeDiff
      <4>2. [g.step EXCEPT !.new = Append(g.step.new, e)] \in EdgeDiff
        BY <3>1, <4>1 DEF EdgeDiff
      <4> QED BY <3>2, <4>2
    <3>3. CASE list = "newDependent"
      <4>1. Append(g.step.newDependent, e) \in Seq(Edge)
        BY <1>2, <3>1 DEF EdgeDiff
      <4>2. [g.step EXCEPT !.newDependent = Append(g.step.newDependent, e)] \in EdgeDiff
        BY <3>1, <4>1 DEF EdgeDiff
      <4> QED BY <3>3, <4>2
    <3> QED BY <3>2, <3>3
  <2>4. k = [g EXCEPT !.edges = Append(g.edges, e), !.step = [g.step EXCEPT ![list] = Append(@, e)]]
    OBVIOUS
  <2> DEFINE l == [g.step EXCEPT ![list] = Append(@, e)]
  <2> HIDE DEF l
  <2>5. k.edges = Append(g.edges, e) /\ k.domain = g.domain
    BY <2>1
  <2>6. \A i \in DOMAIN k.edges : k.edges[i].src \in DOMAIN k.domain /\ k.edges[i].dst \in DOMAIN k.domain
    BY <1>2, <2>1, <2>2, <2>5
  <2>7. k \in [rules : SUBSET TableRule, links : Links, domain : Domains,
          influences : SUBSET (TableRule \X TableRule), edges : Seq(Edge),
          diff : EdgeDiff, step : EdgeDiff, lossy : BOOLEAN, doubled : BOOLEAN]
    BY <2>1, <2>2, <2>3, <2>4 DEF l
  <2> QED BY <2>6, <2>7 DEF Graph
<1>6. Kept(g, k) /\ k.edges = Append(g.edges, e)
  <2>1. /\ k.rules = g.rules /\ k.links = g.links /\ k.domain = g.domain
        /\ k.influences = g.influences /\ k.doubled = g.doubled
        /\ k.edges = Append(g.edges, e)
    BY DEF Graph
  <2> HIDE DEF k
  <2> QED BY <1>5, <2>1 DEF Kept
<1> SUFFICES /\ Kept(g, h) /\ e \in Edge
             /\ h.edges = IF IsEmpty(e.domain) THEN g.edges ELSE Append(g.edges, e)
  BY DEF e
<1> HIDE DEF h, k
<1>7. CASE IsEmpty(e.domain)
  BY <1>2, <1>3, <1>7, KeptFacts
<1>8. CASE ~IsEmpty(e.domain)
  BY <1>2, <1>3, <1>6, <1>8
<1> QED BY <1>7, <1>8

(***************************************************************************)
(* The operations on the list of edges.                                    *)
(***************************************************************************)
LEMMA ReplaceFacts ==
  ASSUME NEW g \in Graph, NEW h, NEW es \in Seq(Edge), NEW st \in EdgeDiff,
         h = [g EXCEPT !.edges = es, !.step = st],
         \A i \in DOMAIN es : es[i].src \in DOMAIN g.domain /\ es[i].dst \in DOMAIN g.domain
  PROVE  Kept(g, h) /\ h.edges = es /\ h.doubled = g.doubled
<1>1. /\ h.rules = g.rules /\ h.links = g.links /\ h.domain = g.domain
      /\ h.influences = g.influences /\ h.doubled = g.doubled /\ h.edges = es
  BY DEF Graph
<1>2. h \in [rules : SUBSET TableRule, links : Links, domain : Domains,
          influences : SUBSET (TableRule \X TableRule), edges : Seq(Edge),
          diff : EdgeDiff, step : EdgeDiff, lossy : BOOLEAN, doubled : BOOLEAN]
  BY DEF Graph
<1>3. h \in Graph
  BY <1>1, <1>2 DEF Graph
<1> QED BY <1>1, <1>3 DEF Kept

LEMMA UpdateEdgeFacts ==
  ASSUME NEW g \in Graph, NEW i \in DOMAIN g.edges
  PROVE  LET h == UpdateEdge(g, i)
         IN  /\ Kept(g, h) /\ h.doubled = g.doubled
             /\ DOMAIN h.edges = DOMAIN g.edges
             /\ h.edges[i] = EdgeOf(g, Way(g.edges[i]))
             /\ \A j \in DOMAIN g.edges \ {i} : h.edges[j] = g.edges[j]
<1> DEFINE w == Way(g.edges[i])
           e == EdgeOf(g, w)
           es == [g.edges EXCEPT ![i] = e]
           st == [g.step EXCEPT !.changed = IF IsEmpty(e.domain) THEN @ ELSE Append(@, e)]
           h == UpdateEdge(g, i)
<1>1. /\ g.edges[i] \in Edge /\ g.edges[i].src \in DOMAIN g.domain
      /\ g.edges[i].dst \in DOMAIN g.domain /\ g.edges \in Seq(Edge)
      /\ g.step \in EdgeDiff
      /\ \A j \in DOMAIN g.edges : g.edges[j].src \in DOMAIN g.domain /\ g.edges[j].dst \in DOMAIN g.domain
  BY GraphFacts
<1>2. w \in WaysOf(g)
  BY <1>1 DEF Way, WaysOf, Edge
<1>3. e \in Edge /\ e.src = g.edges[i].src /\ e.dst = g.edges[i].dst
  BY <1>2, EdgeOfFacts DEF Way
<1>4. e = [g.edges[i] EXCEPT !.domain =
             Handed(g, g.edges[i].src, g.edges[i].dst, g.edges[i].transfer)]
  BY <1>1 DEF EdgeOf, Way, Edge
<1>5. h = [g EXCEPT !.edges = es, !.step = st]
  <2> HIDE DEF e
  <2>1. h = [g EXCEPT !.edges[i] = e,
                !.step.changed = IF IsEmpty(e.domain) THEN @ ELSE Append(@, e)]
    BY <1>4 DEF UpdateEdge
  <2> QED BY <2>1 DEF Graph
<1> HIDE DEF e
<1>6. es \in Seq(Edge) /\ DOMAIN es = DOMAIN g.edges /\ es[i] = e
      /\ \A j \in DOMAIN g.edges \ {i} : es[j] = g.edges[j]
  BY <1>1, <1>3
<1>7. st \in EdgeDiff
  <2>1. g.step.changed \in Seq(Edge)
    BY <1>1 DEF EdgeDiff
  <2>2. (IF IsEmpty(e.domain) THEN g.step.changed ELSE Append(g.step.changed, e)) \in Seq(Edge)
    BY <1>3, <2>1
  <2> DEFINE c == IF IsEmpty(e.domain) THEN g.step.changed ELSE Append(g.step.changed, e)
  <2>3. st = [g.step EXCEPT !.changed = c]
    OBVIOUS
  <2> HIDE DEF c, st
  <2> QED BY <1>1, <2>2, <2>3 DEF EdgeDiff, c
<1>8. \A j \in DOMAIN es : es[j].src \in DOMAIN g.domain /\ es[j].dst \in DOMAIN g.domain
  BY <1>1, <1>3, <1>6
<1> SUFFICES /\ Kept(g, h) /\ h.doubled = g.doubled
             /\ DOMAIN h.edges = DOMAIN g.edges /\ h.edges[i] = e
             /\ \A j \in DOMAIN g.edges \ {i} : h.edges[j] = g.edges[j]
  BY DEF e
<1> HIDE DEF h, es, st
<1>10. Kept(g, h) /\ h.edges = es /\ h.doubled = g.doubled
  BY <1>5, <1>6, <1>7, <1>8, ReplaceFacts
<1> QED BY <1>6, <1>10

LEMMA EndsFacts ==
  ASSUME NEW es \in Seq(Edge)
  PROVE  Ends(es) \in Seq(Removal)
<1>1. \A i \in DOMAIN es : [src |-> es[i].src, dst |-> es[i].dst] \in Removal
  <2>1. \A i \in DOMAIN es : es[i] \in Edge
    OBVIOUS
  <2> QED BY <2>1 DEF Edge, Removal
<1>2. DOMAIN es = 1 .. Len(es) /\ Len(es) \in Nat
  OBVIOUS
<1> QED BY <1>1, <1>2 DEF Ends

LEMMA RemoveEdgesFacts ==
  ASSUME NEW g \in Graph, NEW I, NEW list \in {"removed", "removedDependent"}
  PROVE  LET h == RemoveEdges(g, I, list)
         IN  /\ Kept(g, h) /\ h.doubled = g.doubled
             /\ ToSet(h.edges) = {g.edges[i] : i \in DOMAIN g.edges \ I}
<1> DEFINE es == Chosen(g.edges, DOMAIN g.edges \ I)
           gone == Ends(Chosen(g.edges, I))
           st == [g.step EXCEPT ![list] = @ \o gone]
           h == RemoveEdges(g, I, list)
<1>1. g.edges \in Seq(Edge) /\ g.step \in EdgeDiff
      /\ \A j \in DOMAIN g.edges : g.edges[j].src \in DOMAIN g.domain /\ g.edges[j].dst \in DOMAIN g.domain
  BY GraphFacts
<1>2. /\ es \in Seq(Edge)
      /\ ToSet(es) = {g.edges[i] : i \in DOMAIN g.edges \cap (DOMAIN g.edges \ I)}
      /\ Chosen(g.edges, I) \in Seq(Edge)
  BY <1>1, ChosenFacts
<1>3. gone \in Seq(Removal)
  BY <1>2, EndsFacts
<1>4. ToSet(es) = {g.edges[i] : i \in DOMAIN g.edges \ I}
  BY <1>2
<1>5. h = [g EXCEPT !.edges = es, !.step = st]
  BY DEF RemoveEdges, Graph
<1> HIDE DEF es, gone
<1>6. \A j \in DOMAIN es : es[j].src \in DOMAIN g.domain /\ es[j].dst \in DOMAIN g.domain
  <2>1. \A j \in DOMAIN es : es[j] \in ToSet(es)
    BY DEF ToSet
  <2> QED BY <1>1, <1>4, <2>1
<1>7. st \in EdgeDiff
    <3>2. CASE list = "removed"
      <4>1. g.step.removed \o gone \in Seq(Removal)
        BY <1>1, <1>3 DEF EdgeDiff
      <4>2. [g.step EXCEPT !.removed = g.step.removed \o gone] \in EdgeDiff
        BY <1>1, <4>1 DEF EdgeDiff
      <4> QED BY <3>2, <4>2
    <3>3. CASE list = "removedDependent"
      <4>1. g.step.removedDependent \o gone \in Seq(Removal)
        BY <1>1, <1>3 DEF EdgeDiff
      <4>2. [g.step EXCEPT !.removedDependent = g.step.removedDependent \o gone] \in EdgeDiff
        BY <1>1, <4>1 DEF EdgeDiff
      <4> QED BY <3>3, <4>2
    <3> QED BY <3>2, <3>3
<1> HIDE DEF h, st
<1>10. Kept(g, h) /\ h.edges = es /\ h.doubled = g.doubled
  BY <1>2, <1>5, <1>6, <1>7, ReplaceFacts
<1> QED BY <1>4, <1>10 DEF h

LEMMA LeastIndex ==
  ASSUME NEW I \in SUBSET Nat, I # {}
  PROVE  Min(I) \in I
<1>1. PICK m \in I : \A k \in I : m <= k
  BY LeastElement
<1> QED BY <1>1 DEF Min

LEMMA RemoveAtFacts ==
  ASSUME NEW S, NEW s \in Seq(S), NEW k \in DOMAIN s
  PROVE  /\ RemoveAt(s, k) \in Seq(S)
         /\ ToSet(RemoveAt(s, k)) = {s[i] : i \in DOMAIN s \ {k}}
<1> DEFINE n == Len(s)
           r == RemoveAt(s, k)
<1>1. /\ n \in Nat /\ DOMAIN s = 1 .. n /\ k \in 1 .. n
      /\ SubSeq(s, 1, k - 1) \in Seq(S) /\ Len(SubSeq(s, 1, k - 1)) = k - 1
      /\ SubSeq(s, k + 1, n) \in Seq(S) /\ Len(SubSeq(s, k + 1, n)) = n - k
      /\ \A i \in 1 .. k - 1 : SubSeq(s, 1, k - 1)[i] = s[i]
      /\ \A i \in 1 .. n - k : SubSeq(s, k + 1, n)[i] = s[k + i]
  OBVIOUS
<1>2. /\ r \in Seq(S) /\ Len(r) = n - 1
      /\ \A i \in 1 .. k - 1 : r[i] = s[i]
      /\ \A i \in k .. n - 1 : r[i] = s[i + 1]
  <2> DEFINE a == SubSeq(s, 1, k - 1)
             b == SubSeq(s, k + 1, n)
  <2>1. /\ a \in Seq(S) /\ b \in Seq(S) /\ Len(a) = k - 1 /\ Len(b) = n - k
        /\ \A i \in 1 .. k - 1 : a[i] = s[i]
        /\ \A i \in 1 .. n - k : b[i] = s[k + i]
    BY <1>1
  <2>2. r = a \o b
    BY DEF RemoveAt
  <2> HIDE DEF a, b, r
  <2>3. /\ r \in Seq(S) /\ Len(r) = Len(a) + Len(b)
        /\ \A i \in 1 .. Len(a) : r[i] = a[i]
        /\ \A i \in 1 .. Len(a) + Len(b) : i > Len(a) => r[i] = b[i - Len(a)]
    <3>1. /\ a \o b \in Seq(S) /\ Len(a \o b) = Len(a) + Len(b)
          /\ \A i \in 1 .. Len(a) : (a \o b)[i] = a[i]
          /\ \A i \in 1 .. Len(a) + Len(b) : i > Len(a) => (a \o b)[i] = b[i - Len(a)]
      <4>1. a \in Seq(S) /\ b \in Seq(S)
        BY <2>1
      <4> QED BY ONLY <4>1, JoinFacts
    <3> QED BY <2>2, <3>1, Zenon
  <2> HIDE DEF n
  <2>6. n \in Nat /\ k \in 1 .. n
    BY <1>1
  <2>4. \A i \in k .. n - 1 : /\ i - (k - 1) \in 1 .. n - k /\ k + (i - (k - 1)) = i + 1
                              /\ i \in 1 .. n - 1 /\ i > k - 1
    BY <2>6
  <2>5. (k - 1) + (n - k) = n - 1
    BY <2>6
  <2> QED BY <2>1, <2>3, <2>4, <2>5
<1> HIDE DEF r
<1>3. DOMAIN r = 1 .. n - 1
  BY <1>2
<1>4. \A x \in ToSet(r) : x \in {s[i] : i \in DOMAIN s \ {k}}
  <2> SUFFICES ASSUME NEW i \in 1 .. n - 1 PROVE r[i] \in {s[j] : j \in DOMAIN s \ {k}}
    BY <1>3 DEF ToSet
  <2>1. CASE i <= k - 1
    <3>1. i \in 1 .. k - 1 /\ i \in DOMAIN s \ {k}
      BY <1>1, <2>1
    <3> QED BY <1>2, <3>1
  <2>2. CASE ~(i <= k - 1)
    <3>1. i \in k .. n - 1 /\ i + 1 \in DOMAIN s \ {k}
      BY <1>1, <2>2
    <3> QED BY <1>2, <3>1
  <2> QED BY <2>1, <2>2
<1>5. \A j \in DOMAIN s \ {k} : s[j] \in ToSet(r)
  <2> TAKE j \in DOMAIN s \ {k}
  <2>1. CASE j < k
    <3>1. j \in 1 .. k - 1 /\ j \in 1 .. n - 1
      BY <1>1, <2>1
    <3> QED BY <1>2, <1>3, <3>1 DEF ToSet
  <2>2. CASE ~(j < k)
    <3>1. j - 1 \in k .. n - 1 /\ j - 1 \in 1 .. n - 1 /\ (j - 1) + 1 = j
      BY <1>1, <2>2
    <3> QED BY <1>2, <1>3, <3>1 DEF ToSet
  <2> QED BY <2>1, <2>2
<1> QED BY <1>2, <1>4, <1>5 DEF r

LEMMA DeleteEdgeFacts ==
  ASSUME NEW g \in Graph, NEW src \in Vertices, NEW dst \in Vertices
  PROVE  LET h == DeleteEdge(g, src, dst)
         IN  /\ Kept(g, h)
             /\ ToSet(h.edges) \subseteq ToSet(g.edges)
             /\ \A e \in ToSet(g.edges) : e.src # src \/ e.dst # dst => e \in ToSet(h.edges)
             /\ ~h.doubled => \A e \in ToSet(h.edges) : e.src # src \/ e.dst # dst
<1> DEFINE found == OutEdges(g, src) \cap InEdges(g, dst)
           es == IF found = {} THEN g.edges ELSE RemoveAt(g.edges, Min(found))
           st == [g.step EXCEPT !.removed = Append(@, [src |-> src, dst |-> dst])]
           b == g.doubled \/ \E i, j \in found : i # j
           h == DeleteEdge(g, src, dst)
<1>1. g.edges \in Seq(Edge) /\ g.step \in EdgeDiff
      /\ \A j \in DOMAIN g.edges : g.edges[j].src \in DOMAIN g.domain /\ g.edges[j].dst \in DOMAIN g.domain
      /\ DOMAIN g.edges = 1 .. Len(g.edges)
  BY GraphFacts
<1>2. found = {i \in DOMAIN g.edges : g.edges[i].src = src /\ g.edges[i].dst = dst}
  BY DEF OutEdges, InEdges
<1>3. h = [g EXCEPT !.edges = es, !.step = st, !.doubled = b]
  BY DEF DeleteEdge, Graph
<1> HIDE DEF found
<1>4. found # {} => Min(found) \in found
  <2>1. found \in SUBSET Nat
    BY <1>1, <1>2
  <2> QED BY <2>1, LeastIndex
<1>5. /\ es \in Seq(Edge)
      /\ ToSet(es) = {g.edges[i] : i \in {j \in DOMAIN g.edges : found = {} \/ j # Min(found)}}
  <2>1. CASE found = {}
    BY <1>1, <2>1 DEF ToSet
  <2>2. CASE found # {}
    <3>1. Min(found) \in DOMAIN g.edges
      BY <1>2, <1>4, <2>2
    <3> QED BY <1>1, <2>2, <3>1, RemoveAtFacts
  <2> QED BY <2>1, <2>2
<1> HIDE DEF es
<1>6. \A j \in DOMAIN es : es[j].src \in DOMAIN g.domain /\ es[j].dst \in DOMAIN g.domain
  <2>1. \A j \in DOMAIN es : es[j] \in ToSet(es)
    BY DEF ToSet
  <2> QED BY <1>1, <1>5, <2>1
<1>7. st \in EdgeDiff
  <2>1. Append(g.step.removed, [src |-> src, dst |-> dst]) \in Seq(Removal)
    BY <1>1 DEF EdgeDiff, Removal
  <2> QED BY <1>1, <2>1 DEF EdgeDiff
<1>8. b \in BOOLEAN /\ (g.doubled => b)
  OBVIOUS
<1> DEFINE k == [g EXCEPT !.edges = es, !.step = st]
<1> HIDE DEF h, st
<1>13. Kept(g, k) /\ k.edges = es /\ k.doubled = g.doubled
  BY <1>5, <1>6, <1>7, ReplaceFacts
<1>14. h = [k EXCEPT !.doubled = b]
  BY <1>3 DEF Graph
<1> HIDE DEF k, b
<1>9. Kept(g, h) /\ h.edges = es /\ h.doubled = b
  <2>1. k \in Graph
    BY <1>13 DEF Kept
  <2>2. /\ h.rules = k.rules /\ h.links = k.links /\ h.domain = k.domain
        /\ h.influences = k.influences /\ h.edges = k.edges /\ h.doubled = b
    BY <1>14, <2>1 DEF Graph
  <2>3. h \in [rules : SUBSET TableRule, links : Links, domain : Domains,
          influences : SUBSET (TableRule \X TableRule), edges : Seq(Edge),
          diff : EdgeDiff, step : EdgeDiff, lossy : BOOLEAN, doubled : BOOLEAN]
    BY <1>8, <1>14, <2>1 DEF Graph
  <2>4. h \in Graph
    BY <2>1, <2>2, <2>3 DEF Graph
  <2> QED BY <1>8, <1>13, <2>2, <2>4 DEF Kept
<1>10. \A e \in ToSet(g.edges) : e.src # src \/ e.dst # dst => e \in ToSet(es)
  <2>1. \A i \in DOMAIN g.edges : g.edges[i].src # src \/ g.edges[i].dst # dst => i \notin found
    BY <1>2
  <2> QED BY <1>4, <1>5, <2>1 DEF ToSet
<1>11. ~b => \A e \in ToSet(es) : e.src # src \/ e.dst # dst
  <2> SUFFICES ASSUME ~b, NEW i \in DOMAIN g.edges, found = {} \/ i # Min(found)
               PROVE  g.edges[i].src # src \/ g.edges[i].dst # dst
    BY <1>5
  <2>1. \A j, n \in found : j = n
    BY DEF b
  <2> QED BY <1>2, <1>4, <2>1
<1>12. ToSet(es) \subseteq ToSet(g.edges)
  BY <1>5 DEF ToSet
<1> QED BY <1>9, <1>10, <1>11, <1>12 DEF h

(***************************************************************************)
(* The sum of two edge diffs, and Finish, which ends an operation.         *)
(***************************************************************************)
Crossing == INSTANCE FoldFacts WITH Op <- LAMBDA p, o, both, e : Cross(both, e)
Cancelling == INSTANCE FoldFacts WITH Op <- LAMBDA p, o, both, c : Cancel(both, c)

LEMMA CrossingFold ==
  \A b, s : FoldLeft(Cross, b, s) = Crossing!Fold(0, 0, b, s)
BY Zenon DEF Crossing!Fold, FoldLeft, MapThenFoldSet,
             Crossing!MapThenFoldSet, Max, Crossing!Largest

LEMMA CancellingFold ==
  \A b, s : FoldLeft(Cancel, b, s) = Cancelling!Fold(0, 0, b, s)
BY Zenon DEF Cancelling!Fold, FoldLeft, MapThenFoldSet,
             Cancelling!MapThenFoldSet, Max, Cancelling!Largest

LEMMA CrossType ==
  ASSUME NEW S, NEW T, NEW both \in [mine : Seq(S), theirs : Seq(T)], NEW e \in S
  PROVE  Cross(both, e) \in [mine : Seq(S), theirs : Seq(T)]
<1>1. CASE \E i \in DOMAIN both.theirs : SameEdge(e, both.theirs[i])
  <2> DEFINE s == both.theirs
             I == {i \in 1 .. Len(s) : SameEdge(e, s[i])}
  <2>1. s \in Seq(T) /\ DOMAIN s = 1 .. Len(s)
    OBVIOUS
  <2>2. I # {} /\ I \in SUBSET Nat
    BY <1>1, <2>1
  <2>3. Min(I) \in I
    BY <2>2, LeastIndex
  <2>4. RemoveFirstMatch(s, LAMBDA f : SameEdge(e, f)) = RemoveAt(s, Min(I))
    BY <2>2 DEF RemoveFirstMatch, SelectInSeq
  <2>5. RemoveAt(s, Min(I)) \in Seq(T)
    BY <2>1, <2>3, RemoveAtFacts
  <2>6. Cross(both, e) = [both EXCEPT !.theirs = RemoveAt(s, Min(I))]
    BY <1>1, <2>4 DEF Cross
  <2> HIDE DEF I
  <2> QED BY <2>5, <2>6
<1>2. CASE ~\E i \in DOMAIN both.theirs : SameEdge(e, both.theirs[i])
  <2>1. Append(both.mine, e) \in Seq(S)
    OBVIOUS
  <2> QED BY <1>2, <2>1 DEF Cross
<1> QED BY <1>1, <1>2

LEMMA DeleteIntersectionType ==
  ASSUME NEW S, NEW T, NEW mine \in Seq(S), NEW theirs \in Seq(T)
  PROVE  DeleteIntersection(mine, theirs) \in [mine : Seq(S), theirs : Seq(T)]
<1> DEFINE B == [mine : Seq(S), theirs : Seq(T)]
           b == [mine |-> <<>>, theirs |-> theirs]
<1>1. b \in B
  OBVIOUS
<1>2. \A t \in B, e \in S : Cross(t, e) \in B
  BY CrossType
<1> HIDE DEF B, b
<1>3. Crossing!Fold(0, 0, b, mine) \in B
  BY <1>1, <1>2, Crossing!FoldIn, NaturalInduction
        DEF Crossing!Induction
<1> QED BY <1>3, CrossingFold DEF DeleteIntersection, B, b

LEMMA CancelledType ==
  ASSUME NEW old \in EdgeDiff, NEW new \in EdgeDiff
  PROVE  Cancelled(old, new) \in [old : EdgeDiff, new : EdgeDiff]
<1> DEFINE B == [old : EdgeDiff, new : EdgeDiff]
           C == {"new", "newDependent", "changed"} \X {"removed", "removedDependent"}
           b == [old |-> old, new |-> new]
<1>1. b \in B /\ Cancellations \in Seq(C)
  BY DEF Cancellations
<1>2. ASSUME NEW t \in B, NEW c \in C PROVE Cancel(t, c) \in B
  <2>1. t.old \in EdgeDiff /\ t.new \in EdgeDiff
    OBVIOUS
  <2>2. t.old[c[1]] \in Seq(Edge)
    BY <2>1 DEF EdgeDiff
  <2>3. t.new[c[2]] \in Seq(Removal)
    BY <2>1 DEF EdgeDiff
  <2> DEFINE rest == DeleteIntersection(t.old[c[1]], t.new[c[2]])
  <2>4. rest.mine \in Seq(Edge) /\ rest.theirs \in Seq(Removal)
    BY <2>2, <2>3, DeleteIntersectionType
  <2>5. Cancel(t, c) = [old |-> [t.old EXCEPT ![c[1]] = rest.mine],
                        new |-> [t.new EXCEPT ![c[2]] = rest.theirs]]
    BY DEF Cancel
  <2> HIDE DEF rest
  <2>6. [t.old EXCEPT ![c[1]] = rest.mine] \in EdgeDiff
    <3>1. CASE c[1] = "new"
      BY <2>1, <2>4, <3>1 DEF EdgeDiff
    <3>2. CASE c[1] = "newDependent"
      BY <2>1, <2>4, <3>2 DEF EdgeDiff
    <3>3. CASE c[1] = "changed"
      BY <2>1, <2>4, <3>3 DEF EdgeDiff
    <3> QED BY <3>1, <3>2, <3>3
  <2>7. [t.new EXCEPT ![c[2]] = rest.theirs] \in EdgeDiff
    <3>1. CASE c[2] = "removed"
      BY <2>1, <2>4, <3>1 DEF EdgeDiff
    <3>2. CASE c[2] = "removedDependent"
      BY <2>1, <2>4, <3>2 DEF EdgeDiff
    <3> QED BY <3>1, <3>2
  <2> QED BY <2>5, <2>6, <2>7
<1> HIDE DEF B, C, b
<1>3. Cancelling!Fold(0, 0, b, Cancellations) \in B
  BY <1>1, <1>2, Cancelling!FoldIn, NaturalInduction
        DEF Cancelling!Induction
<1> QED BY <1>3, CancellingFold DEF Cancelled, B, b

LEMMA SumType ==
  ASSUME NEW left \in [old : EdgeDiff, new : EdgeDiff]
  PROVE  Sum(left) \in EdgeDiff
<1> DEFINE old == left.old
           new == left.new
           independent == Select(new.new, LAMBDA e : ~IsDependent(e, old.new))
           dependent == Select(new.new, LAMBDA e : IsDependent(e, old.new))
           allNew == old.new \o independent
           allDep == old.newDependent \o new.newDependent \o dependent
           once == MoveIntersection(old.changed \o new.changed, allNew)
           twice == MoveIntersection(once, allDep)
<1>1. /\ old.new \in Seq(Edge) /\ old.newDependent \in Seq(Edge)
      /\ old.changed \in Seq(Edge)
      /\ old.removed \in Seq(Removal) /\ old.removedDependent \in Seq(Removal)
      /\ new.new \in Seq(Edge) /\ new.newDependent \in Seq(Edge)
      /\ new.changed \in Seq(Edge)
      /\ new.removed \in Seq(Removal) /\ new.removedDependent \in Seq(Removal)
  BY DEF EdgeDiff
<1>2. independent \in Seq(Edge) /\ dependent \in Seq(Edge)
  BY <1>1, ChosenFacts DEF Select
<1>3. \A t : \A s \in Seq(Edge) : MoveIntersection(s, t) \in Seq(Edge)
  BY ChosenFacts DEF MoveIntersection, Select
<1> HIDE DEF independent, dependent, old, new
<1>4. allNew \in Seq(Edge) /\ allDep \in Seq(Edge) /\ old.changed \o new.changed \in Seq(Edge)
  BY <1>1, <1>2
<1> HIDE DEF allNew, allDep
<1>5. once \in Seq(Edge)
  BY <1>3, <1>4
<1> HIDE DEF once
<1>6. twice \in Seq(Edge)
  BY <1>3, <1>5
<1> HIDE DEF twice
<1>7. /\ old.removed \o new.removed \in Seq(Removal)
      /\ old.removedDependent \o new.removedDependent \in Seq(Removal)
  BY <1>1
<1>8. Sum(left) = [new |-> allNew, newDependent |-> allDep, changed |-> twice,
                   removed |-> old.removed \o new.removed,
                   removedDependent |-> old.removedDependent \o new.removedDependent]
  BY DEF Sum, Joined, independent, dependent, old, new, allNew, allDep, once, twice
<1> QED BY <1>4, <1>6, <1>7, <1>8 DEF EdgeDiff

LEMMA FinishFacts ==
  ASSUME NEW g \in Graph
  PROVE  LET h == Finish(g)
         IN  /\ Kept(g, h) /\ h.doubled = g.doubled
             /\ ToSet(h.edges) = {e \in ToSet(g.edges) : ~IsEmpty(e.domain)}
             /\ h.step = NoDiff
<1> DEFINE k == RemoveEdges(g, EmptyEdges(g), "removed")
           left == Cancelled(k.diff, k.step)
           sum == Sum(left)
           l == LosesRemoval(k.diff, k.step) \/ LosesChange(left, sum)
           h == Finish(g)
<1>1. Kept(g, k) /\ k.doubled = g.doubled
      /\ ToSet(k.edges) = {g.edges[i] : i \in DOMAIN g.edges \ EmptyEdges(g)}
  BY RemoveEdgesFacts
<1>2. {g.edges[i] : i \in DOMAIN g.edges \ EmptyEdges(g)} = {e \in ToSet(g.edges) : ~IsEmpty(e.domain)}
  BY DEF EmptyEdges, ToSet
<1>3. h = [k EXCEPT !.diff = sum, !.step = NoDiff, !.lossy = @ \/ l]
  BY DEF Finish, AddStep, AddLeft, AddToDiff
<1>4. k \in Graph
  BY <1>1 DEF Kept
<1> HIDE DEF k
<1>5. sum \in EdgeDiff
  BY <1>4, GraphFacts, CancelledType, SumType
<1>6. NoDiff \in EdgeDiff
  BY DEF NoDiff, EdgeDiff
<1> HIDE DEF sum, l, h
<1>7. /\ h.rules = k.rules /\ h.links = k.links /\ h.domain = k.domain
      /\ h.step = NoDiff
      /\ h.influences = k.influences /\ h.edges = k.edges
      /\ h.doubled = k.doubled
  BY <1>3, <1>4 DEF Graph
<1>8. h \in [rules : SUBSET TableRule, links : Links, domain : Domains,
          influences : SUBSET (TableRule \X TableRule), edges : Seq(Edge),
          diff : EdgeDiff, step : EdgeDiff, lossy : BOOLEAN, doubled : BOOLEAN]
  BY <1>3, <1>4, <1>5, <1>6 DEF Graph
<1>9. h \in Graph
  BY <1>4, <1>7, <1>8 DEF Graph
<1> QED BY <1>1, <1>2, <1>7, <1>9 DEF Kept, h

(***************************************************************************)
(* The edges that AddOutEdges and AddMissEdges add.  Carrying gives the    *)
(* edges of a set of ways that carry something.                            *)
(***************************************************************************)
LEMMA SameWays ==
  ASSUME NEW g, NEW h, Kept(g, h)
  PROVE  /\ \A w : EdgeOf(h, w) = EdgeOf(g, w)
         /\ \A W : Carrying(h, W) = Carrying(g, W)
         /\ \A o : Receivers(h, o) = Receivers(g, o) /\ TransferTo(h, o) = TransferTo(g, o)
         /\ \A p : SrcRules(h, p) = SrcRules(g, p) /\ DstRules(h, p) = DstRules(g, p)
<1>1. h.domain = g.domain /\ h.rules = g.rules /\ h.links = g.links
  BY DEF Kept
<1>2. \A w : EdgeOf(h, w) = EdgeOf(g, w)
  BY <1>1 DEF EdgeOf, Handed
<1>3. \A W : Carrying(h, W) = Carrying(g, W)
  BY <1>2 DEF Carrying
<1>4. \A p : SrcRules(h, p) = SrcRules(g, p) /\ DstRules(h, p) = DstRules(g, p)
  BY <1>1 DEF SrcRules, DstRules, Table
<1>5. \A o : Receivers(h, o) = Receivers(g, o) /\ TransferTo(h, o) = TransferTo(g, o)
  BY <1>1, <1>4 DEF Receivers, TransferTo, Linked
<1> QED BY <1>2, <1>3, <1>4, <1>5

LEMMA CarryingUnion ==
  \A g, V, W : Carrying(g, V \cup W) = Carrying(g, V) \cup Carrying(g, W)
BY DEF Carrying

LEMMA CarryingNone == \A g : Carrying(g, {}) = {}
BY DEF Carrying

(* The edges of a set of ways are added, and nothing else changes.         *)
Adds(g, h, W) ==
  /\ Kept(g, h) /\ h.doubled = g.doubled
  /\ ToSet(h.edges) = ToSet(g.edges) \cup Carrying(g, W)

LEMMA AddsFacts ==
  /\ \A g \in Graph : Adds(g, g, {})
  /\ \A g, h, k, V, W : Adds(g, h, V) /\ Adds(h, k, W) => Adds(g, k, V \cup W)
<1>1. \A g \in Graph : Adds(g, g, {})
  BY KeptFacts, CarryingNone DEF Adds
<1>2. ASSUME NEW g, NEW h, NEW k, NEW V, NEW W, Adds(g, h, V), Adds(h, k, W)
      PROVE  Adds(g, k, V \cup W)
  <2>1. Kept(g, h) /\ Kept(h, k) /\ k.doubled = g.doubled
    BY <1>2 DEF Adds
  <2>2. Carrying(h, W) = Carrying(g, W)
    BY <2>1, SameWays
  <2>3. ToSet(k.edges) = ToSet(g.edges) \cup Carrying(g, V \cup W)
    BY <1>2, <2>2, CarryingUnion DEF Adds
  <2> QED BY <2>1, <2>3, KeptFacts DEF Adds
<1> QED BY <1>1, <1>2

LEMMA AddEdgeAdds ==
  ASSUME NEW g \in Graph, NEW src \in DOMAIN g.domain, NEW dst \in DOMAIN g.domain,
         NEW transfer \in Ports \cup {NoPort}, NEW list \in {"new", "newDependent"}
  PROVE  Adds(g, AddEdge(g, src, dst, transfer, list), {<<src, dst, transfer>>})
<1> DEFINE h == AddEdge(g, src, dst, transfer, list)
           w == <<src, dst, transfer>>
           e == EdgeOf(g, w)
<1>1. /\ Kept(g, h) /\ e \in Edge
      /\ h.edges = IF IsEmpty(e.domain) THEN g.edges ELSE Append(g.edges, e)
  BY AddEdgeFacts
<1>2. g.edges \in Seq(Edge)
  BY GraphFacts
<1>3. h.doubled = g.doubled
  BY DEF AddEdge, Graph
<1>7. Carrying(g, {w}) = IF IsEmpty(e.domain) THEN {} ELSE {e}
  BY DEF Carrying
<1> HIDE DEF h, e, w
<1>4. ToSet(Append(g.edges, e)) = ToSet(g.edges) \cup {e}
  BY <1>1, <1>2, AppendedElements
<1>5. ToSet(h.edges) = ToSet(g.edges) \cup Carrying(g, {w})
  BY <1>1, <1>4, <1>7
<1>6. Adds(g, h, {w})
  BY <1>1, <1>3, <1>5 DEF Adds
<1> QED BY <1>6 DEF h, w

AddingEdges == INSTANCE FoldFacts
  WITH Op <- LAMBDA p, o, h, dst : AddEdge(h, p, dst, o, "new")

LEMMA AddingEdgesFold ==
  \A g, src, dsts, transfer :
    AddEdges(g, src, dsts, transfer) = AddingEdges!Fold(src, transfer, g, dsts)
BY Zenon DEF AddEdges, AddingEdges!Fold, FoldLeft, MapThenFoldSet,
             AddingEdges!MapThenFoldSet, Max, AddingEdges!Largest

LEMMA AddEdgesAdds ==
  ASSUME NEW g \in Graph, NEW src \in DOMAIN g.domain,
         NEW dsts \in Seq(DOMAIN g.domain), NEW transfer \in Ports \cup {NoPort}
  PROVE  Adds(g, AddEdges(g, src, dsts, transfer),
              {<<src, dst, transfer>> : dst \in ToSet(dsts)})
<1> DEFINE D == DOMAIN g.domain
           W(q) == {<<src, dst, transfer>> : dst \in ToSet(q)}
           Z == {z \in Seq(D) \X Graph : Adds(g, z[2], W(z[1]))}
<1>1. <<<<>>, g>> \in Z
  <2>1. W(<<>>) = {} /\ <<>> \in Seq(D)
    BY EmptyElements
  <2> QED BY <2>1, AddsFacts
<1>2. ASSUME NEW h, NEW q \in Seq(D), NEW dst \in D, <<q, h>> \in Z
      PROVE  <<Append(q, dst), AddEdge(h, src, dst, transfer, "new")>> \in Z
  <2>1. h \in Graph /\ Adds(g, h, W(q))
    BY <1>2
  <2>2. h.domain = g.domain
    BY <2>1 DEF Adds, Kept
  <2> DEFINE k == AddEdge(h, src, dst, transfer, "new")
  <2>3. Adds(h, k, {<<src, dst, transfer>>})
    BY <2>1, <2>2, AddEdgeAdds
  <2>4. Append(q, dst) \in Seq(D) /\ ToSet(Append(q, dst)) = ToSet(q) \cup {dst}
    BY AppendedElements
  <2>5. W(Append(q, dst)) = W(q) \cup {<<src, dst, transfer>>}
    BY <2>4
  <2> HIDE DEF k, W
  <2>6. Adds(g, k, W(Append(q, dst)))
    BY <2>1, <2>3, <2>5, AddsFacts
  <2>7. k \in Graph
    BY <2>3 DEF Adds, Kept
  <2> QED BY <2>4, <2>6, <2>7 DEF k
<1> HIDE DEF Z, D
<1>3. <<dsts, AddingEdges!Fold(src, transfer, g, dsts)>> \in Z
  BY <1>1, <1>2, AddingEdges!FoldSteps, NaturalInduction DEF AddingEdges!Induction, D
<1> QED BY <1>3, AddingEdgesFold DEF Z

----
(* The ways out of a rule.                                                 *)
Onwards(g, r, o) == {<<r, dst, TransferTo(g, o)>> : dst \in ToSet(Receivers(g, o))}
OutWays(g, r) == UNION {Onwards(g, r, o) : o \in ToSet(Actions[r])}

AddingOut == INSTANCE FoldFacts
  WITH Op <- LAMBDA r, p, h, o : AddEdges(h, r, Receivers(h, o), TransferTo(h, o))

LEMMA AddingOutFold ==
  \A g, r : AddOutEdges(g, r) = AddingOut!Fold(r, 0, g, Actions[r])
BY Zenon DEF AddOutEdges, AddingOut!Fold, FoldLeft, MapThenFoldSet,
             AddingOut!MapThenFoldSet, Max, AddingOut!Largest

LEMMA TransferFacts ==
  ASSUME NEW g \in Graph, NEW o \in Outputs
  PROVE  TransferTo(g, o) \in Ports \cup {NoPort}
<1>1. Kind(o) = "sink" => o[2] \in Ports
  BY VertexFacts
<1>2. \A p \in DOMAIN g.links : g.links[p] \in Ports
  BY GraphFacts
<1> QED BY <1>1, <1>2 DEF TransferTo, Linked

LEMMA AddOutEdgesAdds ==
  ASSUME NEW g \in Graph, NEW r \in TableRule, r \in DOMAIN g.domain,
         \A o \in Outputs : Receivers(g, o) \in Seq(DOMAIN g.domain)
  PROVE  Adds(g, AddOutEdges(g, r), OutWays(g, r))
<1> DEFINE W(q) == UNION {Onwards(g, r, o) : o \in ToSet(q)}
           Z == {z \in Seq(Outputs) \X Graph : Adds(g, z[2], W(z[1]))}
<1>1. <<<<>>, g>> \in Z
  <2>1. W(<<>>) = {} /\ <<>> \in Seq(Outputs)
    BY EmptyElements
  <2> QED BY <2>1, AddsFacts
<1>2. ASSUME NEW h, NEW q \in Seq(Outputs), NEW o \in Outputs, <<q, h>> \in Z
      PROVE  <<Append(q, o), AddEdges(h, r, Receivers(h, o), TransferTo(h, o))>> \in Z
  <2>1. h \in Graph /\ Adds(g, h, W(q))
    BY <1>2
  <2>2. h.domain = g.domain /\ Kept(g, h)
    BY <2>1 DEF Adds, Kept
  <2>3. Receivers(h, o) = Receivers(g, o) /\ TransferTo(h, o) = TransferTo(g, o)
    BY <2>2, SameWays
  <2> DEFINE k == AddEdges(h, r, Receivers(h, o), TransferTo(h, o))
  <2>4. Adds(h, k, Onwards(g, r, o))
    BY <2>1, <2>2, <2>3, AddEdgesAdds, TransferFacts DEF Onwards
  <2>5. Append(q, o) \in Seq(Outputs) /\ ToSet(Append(q, o)) = ToSet(q) \cup {o}
    BY AppendedElements
  <2>6. W(Append(q, o)) = W(q) \cup Onwards(g, r, o)
    BY <2>5
  <2> HIDE DEF k, W
  <2>7. Adds(g, k, W(Append(q, o))) /\ k \in Graph
    BY <2>1, <2>4, <2>6, AddsFacts DEF Adds, Kept
  <2> QED BY <2>5, <2>7 DEF k
<1> HIDE DEF Z
<1>3. <<Actions[r], AddingOut!Fold(r, 0, g, Actions[r])>> \in Z
  BY <1>1, <1>2, RuleFacts, AddingOut!FoldSteps, NaturalInduction
        DEF AddingOut!Induction
<1> QED BY <1>3, AddingOutFold DEF Z, OutWays

----
MissWays(miss) == {<<Source(p), miss, NoPort>> : p \in {x \in Ports : Home[x] = Switch[miss]}}

AddingMiss == INSTANCE FoldFacts
  WITH Op <- LAMBDA miss, o, h, p : AddEdge(h, Source(p), miss, NoPort, "newDependent")

LEMMA AddingMissFold ==
  \A g, miss : AddMissEdges(g, miss) =
    AddingMiss!Fold(miss, 0, g, SetToSeq({p \in Ports : Home[p] = Switch[miss]}))
BY Zenon DEF AddMissEdges, AddingMiss!Fold, FoldLeft, MapThenFoldSet,
             AddingMiss!MapThenFoldSet, Max, AddingMiss!Largest

LEMMA AddMissEdgesAdds ==
  ASSUME NEW g \in Graph, NEW r \in DOMAIN g.domain,
         \A p \in Ports : Source(p) \in DOMAIN g.domain
  PROVE  Adds(g, AddMissEdges(g, r), MissWays(r))
<1> DEFINE P == {p \in Ports : Home[p] = Switch[r]}
           W(q) == {<<Source(p), r, NoPort>> : p \in ToSet(q)}
           Z == {z \in Seq(P) \X Graph : Adds(g, z[2], W(z[1]))}
<1>0. SetToSeq(P) \in Seq(P) /\ ToSet(SetToSeq(P)) = P
  <2>1. IsFiniteSet(Ports)
    BY NetworkShape
  <2> QED BY <2>1, FS_Subset, ListOfSet
<1>1. <<<<>>, g>> \in Z
  <2>1. W(<<>>) = {} /\ <<>> \in Seq(P)
    BY EmptyElements
  <2> QED BY <2>1, AddsFacts
<1>2. ASSUME NEW h, NEW q \in Seq(P), NEW p \in P, <<q, h>> \in Z
      PROVE  <<Append(q, p), AddEdge(h, Source(p), r, NoPort, "newDependent")>> \in Z
  <2>1. h \in Graph /\ Adds(g, h, W(q))
    BY <1>2
  <2>2. h.domain = g.domain
    BY <2>1 DEF Adds, Kept
  <2> DEFINE k == AddEdge(h, Source(p), r, NoPort, "newDependent")
  <2>3. Adds(h, k, {<<Source(p), r, NoPort>>})
    BY <2>1, <2>2, AddEdgeAdds
  <2>4. Append(q, p) \in Seq(P) /\ ToSet(Append(q, p)) = ToSet(q) \cup {p}
    BY AppendedElements
  <2>5. W(Append(q, p)) = W(q) \cup {<<Source(p), r, NoPort>>}
    BY <2>4
  <2> HIDE DEF k, W, P
  <2>6. Adds(g, k, W(Append(q, p)))
    BY <2>1, <2>3, <2>5, AddsFacts
  <2>7. k \in Graph
    BY <2>3 DEF Adds, Kept
  <2> QED BY <2>4, <2>6, <2>7 DEF k
<1> HIDE DEF Z
<1>3. <<SetToSeq(P), AddingMiss!Fold(r, 0, g, SetToSeq(P))>> \in Z
  <2> HIDE DEF P
  <2> QED BY <1>0, <1>1, <1>2, AddingMiss!FoldSteps, NaturalInduction
        DEF AddingMiss!Induction
<1>4. Adds(g, AddMissEdges(g, r), W(SetToSeq(P)))
  BY <1>3, AddingMissFold DEF Z
<1>5. W(SetToSeq(P)) = MissWays(r)
  BY <1>0 DEF MissWays
<1> QED BY <1>4, <1>5

(***************************************************************************)
(* Domains: UpdateDomain computes what the influences say.                 *)
(***************************************************************************)
Fields == [rules : SUBSET TableRule, links : Links, domain : Domains,
           influences : SUBSET (TableRule \X TableRule), edges : Seq(Edge),
           diff : EdgeDiff, step : EdgeDiff, lossy : BOOLEAN, doubled : BOOLEAN]

(* The tables, the links and the vertices are exchanged.                   *)
Exchanged(g, R, L, D, I) ==
  [g EXCEPT !.rules = R, !.links = L, !.domain = D, !.influences = I]

LEMMA ExchangeFacts ==
  ASSUME NEW g \in Graph, NEW R \in SUBSET TableRule, NEW L \in Links,
         NEW D \in Domains, NEW I \in SUBSET (TableRule \X TableRule),
         \A e \in ToSet(g.edges) : e.src \in DOMAIN D /\ e.dst \in DOMAIN D,
         NEW h, h = Exchanged(g, R, L, D, I)
  PROVE  /\ h \in Graph
         /\ h.rules = R /\ h.links = L /\ h.domain = D /\ h.influences = I
         /\ h.edges = g.edges /\ h.doubled = g.doubled
<1>1. g \in Fields
  BY DEF Graph, Fields
<1>2. /\ h \in Fields /\ h.rules = R /\ h.links = L /\ h.domain = D
      /\ h.influences = I
      /\ h.edges = g.edges /\ h.doubled = g.doubled
  BY <1>1 DEF Fields, Exchanged
<1>3. \A i \in DOMAIN h.edges : h.edges[i].src \in DOMAIN h.domain /\ h.edges[i].dst \in DOMAIN h.domain
  BY <1>2 DEF ToSet
<1>4. h \in Graph
  BY <1>2, <1>3 DEF Graph, Fields
<1> QED BY <1>2, <1>4

(* What the rules above a rule leave to it.                                *)
Uppers(I, v) == {u \in TableRule : <<u, v>> \in I}
Taken(U, v) == UNION {Meet(Match[u], Match[v]).headers : u \in U}
Left(I, v) == [port |-> Match[v].port, headers |-> Match[v].headers \ Taken(Uppers(I, v), v)]

Distinct(R) == \A q, r \in R : Switch[q] = Switch[r] /\ Priority[q] = Priority[r] => q = r
Over(q, r) == Switch[q] = Switch[r] /\ Priority[q] > Priority[r] /\ Overlap(q, r)
Pairs(R) == {pair \in R \X R : Over(pair[1], pair[2])}

LEMMA LeftFacts ==
  ASSUME NEW r \in TableRule, NEW U
  PROVE  [port |-> Match[r].port, headers |-> Match[r].headers \ Taken(U, r)] \in Space
BY RuleFacts DEF Space

LEMMA MinusFacts ==
  ASSUME NEW P, NEW H, NEW s
  PROVE  Minus([port |-> P, headers |-> H], s) = [port |-> P, headers |-> H \ s.headers]
BY DEF Minus

Taking == INSTANCE FoldFacts
  WITH Op <- LAMBDA r, o, d, q : Minus(d, Meet(Match[q], Match[r]))

LEMMA TakingFold ==
  \A r, s : FoldLeft(LAMBDA d, q : Minus(d, Meet(Match[q], Match[r])), Match[r], s)
              = Taking!Fold(r, 0, Match[r], s)
BY Zenon DEF Taking!Fold, FoldLeft, MapThenFoldSet,
             Taking!MapThenFoldSet, Max, Taking!Largest

LEMMA UpdateDomainFacts ==
  ASSUME NEW g \in Graph, NEW r \in TableRule, r \in DOMAIN g.domain,
         Distinct(g.rules), g.influences \subseteq Pairs(g.rules)
  PROVE  LET h == UpdateDomain(g, r)
         IN  /\ h = [g EXCEPT !.domain = [g.domain EXCEPT ![r] = Left(g.influences, r)]]
             /\ h \in Graph
             /\ h.rules = g.rules /\ h.links = g.links
             /\ h.influences = g.influences
             /\ h.edges = g.edges /\ h.doubled = g.doubled
             /\ h.domain = [g.domain EXCEPT ![r] = Left(g.influences, r)]
<1> DEFINE U == {q \in g.rules : <<q, r>> \in g.influences}
           upper == Descending(U)
           S(q) == [port |-> Match[r].port, headers |-> Match[r].headers \ Taken(ToSet(q), r)]
           Z == {z \in Seq(U) \X Space : z[2] = S(z[1])}
<1>1. upper \in Seq(U) /\ ToSet(upper) = U
  <2>1. g.rules \subseteq TableRule
    BY GraphFacts
  <2>2. \A q \in U : Switch[q] = Switch[r]
    BY DEF Pairs, Over
  <2>3. U \in SUBSET TableRule /\ \A q, u \in U : Priority[q] = Priority[u] => q = u
    BY <2>1, <2>2 DEF Distinct
  <2> HIDE DEF U
  <2> QED BY <2>3, DescendingFacts
<1>2. U = Uppers(g.influences, r)
  BY GraphFacts DEF Uppers, Pairs
<1>3. Match[r] \in Space
  BY RuleFacts
<1>4. <<<<>>, Match[r]>> \in Z
  <2>1. Taken({}, r) = {}
    BY DEF Taken
  <2>3. Match[r] = [port |-> Match[r].port, headers |-> Match[r].headers]
    BY <1>3 DEF Space
  <2>4. Match[r].headers \ Taken(ToSet(<<>>), r) = Match[r].headers
    BY <2>1, EmptyElements
  <2>2. S(<<>>) = Match[r]
    BY <2>3, <2>4, Zenon
  <2>5. <<>> \in Seq(U)
    OBVIOUS
  <2> HIDE DEF S, U
  <2> QED BY <1>3, <2>2, <2>5
<1>5. ASSUME NEW d, NEW q \in Seq(U), NEW u \in U, <<q, d>> \in Z
      PROVE  <<Append(q, u), Minus(d, Meet(Match[u], Match[r]))>> \in Z
  <2>1. d \in Space /\ d = S(q)
    BY <1>5
  <2>2. Append(q, u) \in Seq(U) /\ ToSet(Append(q, u)) = ToSet(q) \cup {u}
    BY AppendedElements
  <2>3. Taken(ToSet(q) \cup {u}, r) = Taken(ToSet(q), r) \cup Meet(Match[u], Match[r]).headers
    <3>1. \A x : x \in Taken(ToSet(q) \cup {u}, r) <=>
                 x \in Taken(ToSet(q), r) \/ x \in Meet(Match[u], Match[r]).headers
      BY Zenon DEF Taken
    <3> QED BY <3>1
  <2>4. Minus(d, Meet(Match[u], Match[r])) = S(Append(q, u))
    <3> DEFINE H == Match[r].headers
               M == Meet(Match[u], Match[r]).headers
    <3>1. (H \ Taken(ToSet(q), r)) \ M = H \ (Taken(ToSet(q), r) \cup M)
      OBVIOUS
    <3>2. Minus(d, Meet(Match[u], Match[r])) =
            [port |-> Match[r].port, headers |-> (H \ Taken(ToSet(q), r)) \ M]
      BY <2>1, MinusFacts, Zenon
    <3> HIDE DEF H, M
    <3> QED BY <2>2, <2>3, <3>1, <3>2 DEF H, M
  <2>5. S(Append(q, u)) \in Space
    BY LeftFacts
  <2> HIDE DEF U, S
  <2> QED BY <2>2, <2>4, <2>5
<1> HIDE DEF Z, U
<1>6. <<upper, Taking!Fold(r, 0, Match[r], upper)>> \in Z
  BY <1>1, <1>4, <1>5, Taking!FoldSteps, NaturalInduction
        DEF Taking!Induction
<1>7. Taking!Fold(r, 0, Match[r], upper) = Left(g.influences, r)
  BY <1>1, <1>2, <1>6 DEF Z, Left
<1> DEFINE D == [g.domain EXCEPT ![r] = Left(g.influences, r)]
           h == UpdateDomain(g, r)
<1>8. h = [g EXCEPT !.domain = D]
  BY <1>7, TakingFold, Zenon DEF UpdateDomain, U
<1>9. D \in Domains /\ DOMAIN D = DOMAIN g.domain
  <2>1. Left(g.influences, r) \in Space
    BY LeftFacts DEF Left
  <2>2. g.domain \in Domains
    BY DEF Graph
  <2> QED BY <2>1, <2>2, DomainsFacts
<1> DEFINE k == [g EXCEPT !.rules = g.rules, !.links = g.links, !.domain = D, !.influences = g.influences]
<1> HIDE DEF D
<1>10. [g EXCEPT !.domain = D] = k
  BY DEF Graph
<1>11. \A e \in ToSet(g.edges) : e.src \in DOMAIN D /\ e.dst \in DOMAIN D
  BY <1>9, GraphFacts
<1>12. /\ g.rules \in SUBSET TableRule /\ g.links \in Links
       /\ g.influences \in SUBSET (TableRule \X TableRule)
  BY DEF Graph
<1>20. k = Exchanged(g, g.rules, g.links, D, g.influences)
  BY DEF Exchanged
<1> HIDE DEF k
<1>13. /\ k \in Graph
       /\ k.rules = g.rules /\ k.links = g.links /\ k.domain = D
       /\ k.influences = g.influences
       /\ k.edges = g.edges /\ k.doubled = g.doubled
  BY <1>9, <1>11, <1>12, <1>20, ExchangeFacts
<1> HIDE DEF h
<1>14. h = k
  BY <1>8, <1>10 DEF k
<1>15. /\ h = [g EXCEPT !.domain = D] /\ h \in Graph
       /\ h.rules = g.rules /\ h.links = g.links /\ h.domain = D
       /\ h.influences = g.influences
       /\ h.edges = g.edges /\ h.doubled = g.doubled
  BY <1>8, <1>13, <1>14
<1> QED BY <1>15, Zenon DEF h, D

(* One more or one less influence on a rule, whose domain follows.         *)
Influenced(g, I, r) ==
  UpdateDomain([g EXCEPT !.influences = I], r)

LEMMA InfluencedFacts ==
  ASSUME NEW g \in Graph, NEW r \in TableRule, r \in DOMAIN g.domain,
         Distinct(g.rules), NEW I, I \subseteq Pairs(g.rules),
         NEW f, f = Influenced(g, I, r)
  PROVE  /\ f \in Graph
         /\ f.rules = g.rules /\ f.links = g.links /\ f.influences = I
         /\ f.edges = g.edges /\ f.doubled = g.doubled
         /\ f.domain = [g.domain EXCEPT ![r] = Left(I, r)]
<1> DEFINE k == [g EXCEPT !.influences = I]
           k2 == [g EXCEPT !.rules = g.rules, !.links = g.links, !.domain = g.domain, !.influences = I]
<1>1. k = k2
  BY DEF Graph
<1>2. /\ g.rules \in SUBSET TableRule /\ g.links \in Links
      /\ g.domain \in Domains
  BY DEF Graph
<1>3. I \in SUBSET (TableRule \X TableRule)
  BY <1>2 DEF Pairs
<1>4. \A e \in ToSet(g.edges) : e.src \in DOMAIN g.domain /\ e.dst \in DOMAIN g.domain
  BY GraphFacts
<1>20. k2 = Exchanged(g, g.rules, g.links, g.domain, I)
  BY DEF Exchanged
<1> HIDE DEF k, k2
<1>5. /\ k2 \in Graph
      /\ k2.rules = g.rules /\ k2.links = g.links /\ k2.domain = g.domain
      /\ k2.influences = I
      /\ k2.edges = g.edges /\ k2.doubled = g.doubled
  BY <1>2, <1>3, <1>4, <1>20, ExchangeFacts
<1> DEFINE h == UpdateDomain(k, r)
<1>6. /\ h \in Graph
      /\ h.rules = k.rules /\ h.links = k.links /\ h.influences = k.influences
      /\ h.edges = k.edges /\ h.doubled = k.doubled
      /\ h.domain = [k.domain EXCEPT ![r] = Left(k.influences, r)]
  BY <1>1, <1>5, UpdateDomainFacts
<1> HIDE DEF h
<1>7. /\ h \in Graph
      /\ h.rules = g.rules /\ h.links = g.links /\ h.influences = I
      /\ h.edges = g.edges /\ h.doubled = g.doubled
      /\ h.domain = [g.domain EXCEPT ![r] = Left(I, r)]
  BY <1>1, <1>5, <1>6
<1>8. f = h
  BY Zenon DEF h, k, Influenced
<1> QED BY <1>7, <1>8

(***************************************************************************)
(* TakeFrom, the part of AddInEdges about one lower rule: its loop over    *)
(* the edges to that rule.                                                 *)
(***************************************************************************)
LEMMA Intervals ==
  ASSUME NEW a \in Nat, NEW b \in Nat, a <= b
  PROVE  /\ a + 1 .. a = {} /\ a + 1 .. a + 1 = {a + 1}
         /\ 1 .. b = (1 .. a) \cup (a + 1 .. b)
         /\ \A c \in Nat : b <= c => a + 1 .. c = (a + 1 .. b) \cup (b + 1 .. c)
OBVIOUS

LEMMA InOrderFacts ==
  ASSUME NEW g, NEW I, I \subseteq DOMAIN g.edges, Len(g.edges) \in Nat,
         DOMAIN g.edges = 1 .. Len(g.edges)
  PROVE  InOrder(g, I) \in Seq(I) /\ ToSet(InOrder(g, I)) = I
<1> DEFINE D == DOMAIN g.edges
           s == [i \in D |-> i]
           c == Chosen(s, I)
<1>1. s \in Seq(D) /\ DOMAIN s = D /\ \A i \in D : s[i] = i
  OBVIOUS
<1> HIDE DEF s
<1>2. c \in Seq(D) /\ ToSet(c) = {s[i] : i \in DOMAIN s \cap I}
  BY <1>1, ChosenFacts
<1>3. ToSet(c) = I
  BY <1>1, <1>2
<1> HIDE DEF c
<1>4. c \in Seq(I)
  <2>1. \A i \in DOMAIN c : c[i] \in I
    BY <1>3 DEF ToSet
  <2>2. Len(c) \in Nat /\ c = [i \in 1 .. Len(c) |-> c[i]] /\ DOMAIN c = 1 .. Len(c)
    BY <1>2
  <2> QED BY <2>1, <2>2
<1> QED BY <1>3, <1>4 DEF InOrder, c, s

(* What TakeFrom folds, on a graph h whose influences are up to date.      *)
Shared(h, r, lower, e) == e.dst = lower /\ ~IsEmpty(Meet(e.domain, h.domain[r]))
NewWay(r, e) == <<e.src, r, e.transfer>>
SharedEdges(h, r, lower) == {e \in ToSet(h.edges) : Shared(h, r, lower, e)}
(* The edges of g when those to the lower rule have been shared.           *)
EdgesShared(g, k, r, lower) ==
  (ToSet(g.edges) \ SharedEdges(g, r, lower))
    \cup {EdgeOf(k, Way(e)) : e \in SharedEdges(g, r, lower)}
    \cup Carrying(k, {NewWay(r, e) : e \in SharedEdges(g, r, lower)})

TakingFrom == INSTANCE FoldFacts
  WITH Op <- LAMBDA r, o, k, i :
         UpdateEdge(AddEdge(k, k.edges[i].src, r, k.edges[i].transfer, "newDependent"), i)

LEMMA TakingFromFold ==
  \A r, h, s :
    FoldLeft(LAMBDA k, i : UpdateEdge(AddEdge(k, k.edges[i].src, r, k.edges[i].transfer,
                                              "newDependent"), i), h, s)
      = TakingFrom!Fold(r, 0, h, s)
BY Zenon DEF TakingFrom!Fold, FoldLeft, MapThenFoldSet,
             TakingFrom!MapThenFoldSet, Max, TakingFrom!Largest

(* The state of the fold when the edges at the indices of J are done.      *)
TakenSoFar(h, k, r, J) ==
  /\ Kept(h, k) /\ k.doubled = h.doubled
  /\ Len(k.edges) >= Len(h.edges)
  /\ \A j \in DOMAIN h.edges :
       k.edges[j] = IF j \in J THEN EdgeOf(h, Way(h.edges[j])) ELSE h.edges[j]
  /\ {k.edges[j] : j \in Len(h.edges) + 1 .. Len(k.edges)}
       = Carrying(h, {NewWay(r, h.edges[j]) : j \in J})

LEMMA TakeStep ==
  ASSUME NEW h \in Graph, NEW r \in DOMAIN h.domain, NEW J \in SUBSET DOMAIN h.edges,
         NEW k, TakenSoFar(h, k, r, J), NEW i \in DOMAIN h.edges
  PROVE  LET m == UpdateEdge(AddEdge(k, k.edges[i].src, r, k.edges[i].transfer,
                                     "newDependent"), i)
         IN  TakenSoFar(h, m, r, J \cup {i})
<1> DEFINE w == NewWay(r, h.edges[i])
           e == EdgeOf(h, w)
           u == EdgeOf(h, Way(h.edges[i]))
           a == AddEdge(k, k.edges[i].src, r, k.edges[i].transfer, "newDependent")
           m == UpdateEdge(a, i)
           n == Len(h.edges)
<1>1. /\ k \in Graph /\ Kept(h, k) /\ k.doubled = h.doubled
      /\ k.domain = h.domain
  BY DEF TakenSoFar, Kept
<1>2. /\ n \in Nat /\ DOMAIN h.edges = 1 .. n
      /\ \A j \in DOMAIN h.edges : /\ h.edges[j] \in Edge
                                   /\ h.edges[j].src \in DOMAIN h.domain
                                   /\ h.edges[j].dst \in DOMAIN h.domain
      /\ Len(k.edges) \in Nat /\ DOMAIN k.edges = 1 .. Len(k.edges)
      /\ k.edges \in Seq(Edge)
  BY <1>1, GraphFacts
<1>3. /\ k.edges[i].src = h.edges[i].src /\ k.edges[i].dst = h.edges[i].dst
      /\ k.edges[i].transfer = h.edges[i].transfer
  <2>1. k.edges[i] \in {h.edges[i], u}
    BY DEF TakenSoFar
  <2> QED BY <2>1 DEF EdgeOf, Way
<1>4. /\ h.edges[i].src \in DOMAIN h.domain
      /\ h.edges[i].transfer \in Ports \cup {NoPort}
  BY <1>2 DEF Edge
<1>5. EdgeOf(k, w) = e /\ Carrying(k, {w}) = Carrying(h, {w})
  BY <1>1, SameWays
<1>6. a = AddEdge(k, h.edges[i].src, r, h.edges[i].transfer, "newDependent")
  BY <1>3
<1> HIDE DEF a
<1>7. /\ Kept(k, a) /\ e \in Edge
      /\ a.edges = IF IsEmpty(e.domain) THEN k.edges ELSE Append(k.edges, e)
      /\ Adds(k, a, {w})
  <2>1. /\ Kept(k, a)
        /\ a.edges = IF IsEmpty(EdgeOf(k, w).domain) THEN k.edges ELSE Append(k.edges, EdgeOf(k, w))
        /\ EdgeOf(k, w) \in Edge
    BY <1>1, <1>4, <1>6, AddEdgeFacts DEF NewWay
  <2>2. Adds(k, a, {w})
    BY <1>1, <1>4, <1>6, AddEdgeAdds DEF NewWay
  <2> QED BY <1>5, <2>1, <2>2
<1>8. /\ a \in Graph /\ Kept(h, a) /\ a.doubled = h.doubled
  BY <1>1, <1>7, KeptFacts DEF Kept, Adds
<1>9. /\ Len(a.edges) \in Nat /\ Len(a.edges) >= Len(k.edges)
      /\ DOMAIN a.edges = 1 .. Len(a.edges)
      /\ \A j \in DOMAIN k.edges : a.edges[j] = k.edges[j]
      /\ {a.edges[j] : j \in Len(k.edges) + 1 .. Len(a.edges)} = Carrying(h, {w})
  <2> HIDE DEF e, w
  <2>0. Carrying(h, {w}) = IF IsEmpty(e.domain) THEN {} ELSE {e}
    BY DEF Carrying, e
  <2>1. CASE IsEmpty(e.domain)
    <3>1. a.edges = k.edges /\ Carrying(h, {w}) = {}
      BY <1>7, <2>0, <2>1
    <3>2. {a.edges[j] : j \in Len(k.edges) + 1 .. Len(a.edges)} = {}
      <4>1. Len(k.edges) + 1 .. Len(a.edges) = {}
        BY <1>2, <3>1, Intervals
      <4> QED BY <4>1
    <3>3. Len(a.edges) \in Nat /\ Len(a.edges) >= Len(k.edges) /\ DOMAIN a.edges = 1 .. Len(a.edges)
      BY <1>2, <3>1
    <3>4. \A j \in DOMAIN k.edges : a.edges[j] = k.edges[j]
      BY <3>1
    <3> QED BY <3>1, <3>2, <3>3, <3>4
  <2>2. CASE ~IsEmpty(e.domain)
    <3>1. a.edges = Append(k.edges, e) /\ Carrying(h, {w}) = {e}
      BY <1>7, <2>0, <2>2
    <3>2. /\ Len(a.edges) = Len(k.edges) + 1
          /\ DOMAIN a.edges = 1 .. Len(k.edges) + 1
          /\ \A j \in DOMAIN k.edges : a.edges[j] = k.edges[j]
          /\ a.edges[Len(k.edges) + 1] = e
      BY <1>2, <1>7, <3>1, AppendFacts
    <3>3. {a.edges[j] : j \in Len(k.edges) + 1 .. Len(a.edges)} = {e}
      <4>1. Len(k.edges) + 1 .. Len(a.edges) = {Len(k.edges) + 1}
        BY <1>2, <3>2, Intervals
      <4> QED BY <3>2, <4>1
    <3>4. Len(a.edges) \in Nat /\ Len(a.edges) >= Len(k.edges) /\ DOMAIN a.edges = 1 .. Len(a.edges)
      BY <1>2, <3>2
    <3> QED BY <3>1, <3>2, <3>3, <3>4
  <2> QED BY <2>1, <2>2
<1>10. i \in DOMAIN a.edges /\ a.edges[i] = k.edges[i] /\ Way(a.edges[i]) = Way(h.edges[i])
  <2>1. Len(k.edges) >= n /\ i \in 1 .. n
    BY <1>2 DEF TakenSoFar
  <2>2. i \in DOMAIN k.edges
    BY <1>2, <2>1
  <2> QED BY <1>2, <1>3, <1>9, <2>2 DEF Way
<1>11. EdgeOf(a, Way(a.edges[i])) = u
  BY <1>8, <1>10, SameWays
<1>12. /\ Kept(a, m) /\ m.doubled = a.doubled
       /\ DOMAIN m.edges = DOMAIN a.edges
       /\ m.edges[i] = u
       /\ \A j \in DOMAIN a.edges \ {i} : m.edges[j] = a.edges[j]
  BY <1>8, <1>10, <1>11, UpdateEdgeFacts
<1> HIDE DEF m, u, w, n, e
<1>13. Kept(h, m) /\ m.doubled = h.doubled
  BY <1>8, <1>12, KeptFacts
<1>14. Len(m.edges) = Len(a.edges)
  <2>1. m \in Graph
    BY <1>12 DEF Kept
  <2>2. Len(m.edges) \in Nat /\ DOMAIN m.edges = 1 .. Len(m.edges)
    BY <2>1, GraphFacts
  <2> QED BY <1>9, <1>12, <2>2
<1>15. Len(k.edges) >= n
  BY DEF TakenSoFar, n
<1>16. Len(m.edges) >= n
  BY <1>2, <1>9, <1>14, <1>15
<1>17. ASSUME NEW j \in DOMAIN h.edges
       PROVE  m.edges[j] = IF j \in J \cup {i} THEN EdgeOf(h, Way(h.edges[j])) ELSE h.edges[j]
  <2>1. j \in DOMAIN k.edges /\ j \in DOMAIN a.edges
    BY <1>2, <1>9, <1>15
  <2>2. CASE j = i
    BY <1>12, <2>2 DEF u
  <2>3. CASE j # i
    <3>1. m.edges[j] = k.edges[j]
      BY <1>9, <1>12, <2>1, <2>3
    <3>2. k.edges[j] = IF j \in J THEN EdgeOf(h, Way(h.edges[j])) ELSE h.edges[j]
      BY DEF TakenSoFar
    <3> QED BY <2>3, <3>1, <3>2
  <2> QED BY <2>2, <2>3
<1>18. {m.edges[j] : j \in n + 1 .. Len(m.edges)}
          = Carrying(h, {NewWay(r, h.edges[j]) : j \in J \cup {i}})
  <2>1. ASSUME NEW j \in n + 1 .. Len(m.edges) PROVE j \in DOMAIN a.edges \ {i} /\ m.edges[j] = a.edges[j]
    BY <1>2, <1>9, <1>12, <1>14
  <2>2. n + 1 .. Len(m.edges) = (n + 1 .. Len(k.edges)) \cup (Len(k.edges) + 1 .. Len(a.edges))
    BY <1>2, <1>9, <1>14, <1>15
  <2>3. \A j \in n + 1 .. Len(k.edges) : a.edges[j] = k.edges[j]
    BY <1>2, <1>9
  <2>4. {m.edges[j] : j \in n + 1 .. Len(m.edges)}
          = {k.edges[j] : j \in n + 1 .. Len(k.edges)}
              \cup {a.edges[j] : j \in Len(k.edges) + 1 .. Len(a.edges)}
    BY <2>1, <2>2, <2>3
  <2>5. {k.edges[j] : j \in n + 1 .. Len(k.edges)} = Carrying(h, {NewWay(r, h.edges[j]) : j \in J})
    BY DEF TakenSoFar, n
  <2>6. {NewWay(r, h.edges[j]) : j \in J \cup {i}} = {NewWay(r, h.edges[j]) : j \in J} \cup {w}
    BY DEF w
  <2> DEFINE V == {NewWay(r, h.edges[j]) : j \in J}
  <2>7. {NewWay(r, h.edges[j]) : j \in J \cup {i}} = V \cup {w}
    BY <2>6
  <2>8. {m.edges[j] : j \in n + 1 .. Len(m.edges)} = Carrying(h, V) \cup Carrying(h, {w})
    BY <1>9, <2>4, <2>5
  <2> HIDE DEF V
  <2>9. Carrying(h, V \cup {w}) = Carrying(h, V) \cup Carrying(h, {w})
    <3> DEFINE U == {w}
    <3> HIDE DEF U
    <3>1. Carrying(h, V \cup U) = Carrying(h, V) \cup Carrying(h, U)
      BY CarryingUnion
    <3> QED BY <3>1 DEF U
  <2> QED BY <2>7, <2>8, <2>9
<1> QED BY <1>13, <1>16, <1>17, <1>18 DEF TakenSoFar, m, a, n

(* The edges to the lower rule are shared with the new one.                *)
LEMMA TakeEdges ==
  ASSUME NEW h \in Graph, NEW r \in DOMAIN h.domain, NEW lower,
         NEW shared, shared = {i \in InEdges(h, lower) :
                                 ~IsEmpty(Meet(h.edges[i].domain, h.domain[r]))},
         NEW k, k = TakingFrom!Fold(r, 0, h, InOrder(h, shared))
  PROVE  /\ Kept(h, k) /\ k.doubled = h.doubled
         /\ ToSet(k.edges) = EdgesShared(h, h, r, lower)
<1> DEFINE Z == {z \in Seq(shared) \X Graph : TakenSoFar(h, z[2], r, ToSet(z[1]))}
           n == Len(h.edges)
           E == {e \in ToSet(h.edges) : Shared(h, r, lower, e)}
<1>1. /\ shared \subseteq DOMAIN h.edges /\ n \in Nat /\ DOMAIN h.edges = 1 .. n
      /\ \A i \in DOMAIN h.edges : i \in shared <=> Shared(h, r, lower, h.edges[i])
  BY GraphFacts DEF InEdges, Shared
<1>2. InOrder(h, shared) \in Seq(shared) /\ ToSet(InOrder(h, shared)) = shared
  BY <1>1, InOrderFacts
<1>3. <<<<>>, h>> \in Z
  <2>1. TakenSoFar(h, h, r, {})
    <3>1. n + 1 .. n = {} /\ {NewWay(r, h.edges[j]) : j \in {}} = {}
      BY <1>1
    <3>2. {h.edges[j] : j \in n + 1 .. n} = {}
      BY <3>1
    <3>3. Carrying(h, {NewWay(r, h.edges[j]) : j \in {}}) = {}
      BY <3>1, CarryingNone
    <3>4. Len(h.edges) >= Len(h.edges) /\ Kept(h, h)
      BY <1>1, KeptFacts
    <3> QED BY <3>2, <3>3, <3>4 DEF TakenSoFar
  <2>2. <<>> \in Seq(shared) /\ ToSet(<<>>) = {}
    BY EmptyElements
  <2> QED BY <2>1, <2>2
<1>4. ASSUME NEW t, NEW q \in Seq(shared), NEW i \in shared, <<q, t>> \in Z
      PROVE  <<Append(q, i), UpdateEdge(AddEdge(t, t.edges[i].src, r, t.edges[i].transfer,
                                     "newDependent"), i)>> \in Z
  <2> DEFINE m == UpdateEdge(AddEdge(t, t.edges[i].src, r, t.edges[i].transfer, "newDependent"), i)
  <2>1. TakenSoFar(h, t, r, ToSet(q))
    BY <1>4
  <2>2. Append(q, i) \in Seq(shared) /\ ToSet(Append(q, i)) = ToSet(q) \cup {i}
    BY AppendedElements
  <2>3. ToSet(q) \in SUBSET DOMAIN h.edges /\ i \in DOMAIN h.edges
    BY <1>1 DEF ToSet
  <2>4. TakenSoFar(h, m, r, ToSet(q) \cup {i})
    BY <2>1, <2>3, TakeStep
  <2> HIDE DEF m
  <2>5. m \in Graph
    BY <2>4 DEF TakenSoFar, Kept
  <2>6. <<Append(q, i), m>> \in Z
    BY <2>2, <2>4, <2>5
  <2> QED BY <2>6 DEF m
<1> HIDE DEF Z
<1>5. <<InOrder(h, shared), k>> \in Z
  BY <1>2, <1>3, <1>4, TakingFrom!FoldSteps, NaturalInduction
        DEF TakingFrom!Induction
<1>6. TakenSoFar(h, k, r, shared) /\ k \in Graph
  BY <1>2, <1>5 DEF Z
<1>7. Len(k.edges) \in Nat /\ DOMAIN k.edges = 1 .. Len(k.edges) /\ Len(k.edges) >= n
  BY <1>6, GraphFacts DEF TakenSoFar
<1>8. ToSet(k.edges) = {k.edges[j] : j \in 1 .. n} \cup {k.edges[j] : j \in n + 1 .. Len(k.edges)}
  <2>1. DOMAIN k.edges = (1 .. n) \cup (n + 1 .. Len(k.edges))
    <3> DEFINE l == Len(k.edges)
    <3>1. n \in Nat /\ l \in Nat /\ n <= l /\ DOMAIN k.edges = 1 .. l
      BY <1>1, <1>7
    <3> HIDE DEF n, l
    <3>2. 1 .. l = (1 .. n) \cup (n + 1 .. l)
      BY <3>1, Intervals
    <3> QED BY <3>1, <3>2 DEF l
  <2> QED BY <2>1 DEF ToSet
<1>9. {k.edges[j] : j \in n + 1 .. Len(k.edges)} = Carrying(h, {NewWay(r, e) : e \in E})
  <2>1. {NewWay(r, h.edges[j]) : j \in shared} = {NewWay(r, e) : e \in E}
    BY <1>1 DEF ToSet
  <2> QED BY <1>6, <2>1 DEF TakenSoFar
<1>10. {k.edges[j] : j \in 1 .. n} = {e \in ToSet(h.edges) : ~Shared(h, r, lower, e)}
                                       \cup {EdgeOf(h, Way(e)) : e \in E}
  <2>1. \A j \in 1 .. n : k.edges[j] = IF Shared(h, r, lower, h.edges[j])
                                      THEN EdgeOf(h, Way(h.edges[j])) ELSE h.edges[j]
    BY <1>1, <1>6 DEF TakenSoFar
  <2>2. ASSUME NEW j \in 1 .. n
        PROVE  k.edges[j] \in {e \in ToSet(h.edges) : ~Shared(h, r, lower, e)}
                                       \cup {EdgeOf(h, Way(e)) : e \in E}
    <3>1. h.edges[j] \in ToSet(h.edges)
      BY <1>1 DEF ToSet
    <3> QED BY <2>1, <3>1
  <2>3. ASSUME NEW e \in ToSet(h.edges)
        PROVE  (IF Shared(h, r, lower, e) THEN EdgeOf(h, Way(e)) ELSE e) \in {k.edges[j] : j \in 1 .. n}
    <3>1. PICK j \in 1 .. n : e = h.edges[j]
      BY <1>1 DEF ToSet
    <3> QED BY <2>1, <3>1
  <2> QED BY <2>2, <2>3
<1>11. /\ E = SharedEdges(h, r, lower)
       /\ {e \in ToSet(h.edges) : ~Shared(h, r, lower, e)} = ToSet(h.edges) \ E
  BY DEF SharedEdges
<1> HIDE DEF E
<1>12. ToSet(k.edges) = (ToSet(h.edges) \ E) \cup {EdgeOf(h, Way(e)) : e \in E}
                          \cup Carrying(h, {NewWay(r, e) : e \in E})
  BY <1>8, <1>9, <1>10, <1>11
<1>13. ToSet(k.edges) = EdgesShared(h, h, r, lower)
  BY <1>11, <1>12 DEF EdgesShared
<1>14. Kept(h, k) /\ k.doubled = h.doubled
  BY <1>6 DEF TakenSoFar
<1> QED BY <1>13, <1>14

(***************************************************************************)
(* GiveBack, the part of GraphDeleteRule about one lower rule: its loop    *)
(* over the edges to the rule that goes.                                   *)
(***************************************************************************)
(* What GiveBack does for the edge at index i to the rule that goes.       *)
Give(k, lower, i) ==
  LET src   == k.edges[i].src
      found == OutEdges(k, src) \cap InEdges(k, lower)
  IN  IF found # {} THEN UpdateEdge(k, Min(found))
      ELSE AddEdge(k, src, lower, k.edges[i].transfer, "new")

GivingBack == INSTANCE FoldFacts
  WITH Op <- LAMBDA lower, o, k, i : Give(k, lower, i)

LEMMA GivingBackFold ==
  \A lower, h, s :
    FoldLeft(LAMBDA k, i :
                 LET src   == k.edges[i].src
                     found == OutEdges(k, src) \cap InEdges(k, lower)
                 IN  IF found # {} THEN UpdateEdge(k, Min(found))
                     ELSE AddEdge(k, src, lower, k.edges[i].transfer, "new"), h, s)
      = GivingBack!Fold(lower, 0, h, s)
BY Zenon DEF GivingBack!Fold, FoldLeft, MapThenFoldSet,
             GivingBack!MapThenFoldSet, Max, GivingBack!Largest, Give

GivenWay(lower, e) == <<e.src, lower, e.transfer>>
(* There is an up-to-date edge for an edge to the rule that goes.          *)
Given(h, k, lower, e) ==
  \/ IsEmpty(EdgeOf(h, GivenWay(lower, e)).domain)
  \/ \E x \in ToSet(k.edges) : /\ x.src = e.src /\ x.dst = lower
                               /\ x = EdgeOf(h, Way(x))

(* The state of the fold when the edges at the indices of J are done.      *)
GivenSoFar(h, k, r, lower, J) ==
  /\ Kept(h, k) /\ k.doubled = h.doubled
  /\ \A j \in DOMAIN h.edges :
       /\ j \in DOMAIN k.edges
       /\ \/ k.edges[j] = h.edges[j]
          \/ h.edges[j].dst = lower /\ k.edges[j] = EdgeOf(h, Way(h.edges[j]))
  /\ \A j \in DOMAIN k.edges \ DOMAIN h.edges :
       \E i \in InEdges(h, r) : k.edges[j] = EdgeOf(h, GivenWay(lower, h.edges[i]))
  /\ \A j \in J : Given(h, k, lower, h.edges[j])

LEMMA GiveStep ==
  ASSUME NEW h \in Graph, NEW r, NEW lower \in DOMAIN h.domain, r # lower,
         NEW J, NEW k, GivenSoFar(h, k, r, lower, J),
         NEW i \in InEdges(h, r)
  PROVE  GivenSoFar(h, Give(k, lower, i), r, lower, J \cup {i})
<1> DEFINE x == h.edges[i]
           w == GivenWay(lower, x)
           found == OutEdges(k, x.src) \cap InEdges(k, lower)
           m == Give(k, lower, i)
<1>1. /\ k \in Graph /\ Kept(h, k) /\ k.doubled = h.doubled
      /\ k.domain = h.domain
  BY DEF GivenSoFar, Kept
<1>2. /\ i \in DOMAIN h.edges /\ x.dst = r /\ x \in Edge
      /\ x.src \in DOMAIN h.domain
      /\ x.transfer \in Ports \cup {NoPort}
  BY GraphFacts DEF InEdges, Edge
<1>3. i \in DOMAIN k.edges /\ k.edges[i] = x
  BY <1>2 DEF GivenSoFar
<1>4. /\ k.edges \in Seq(Edge) /\ Len(k.edges) \in Nat
      /\ DOMAIN k.edges = 1 .. Len(k.edges)
  BY <1>1, GraphFacts
<1>5. \A v : EdgeOf(k, v) = EdgeOf(h, v)
  BY <1>1, SameWays
<1>6. m = IF found # {} THEN UpdateEdge(k, Min(found))
          ELSE AddEdge(k, x.src, lower, x.transfer, "new")
  BY <1>3 DEF Give
<1>7. found = {j \in DOMAIN k.edges : k.edges[j].src = x.src /\ k.edges[j].dst = lower}
  BY DEF OutEdges, InEdges
<1> HIDE DEF m, found, x
<1>8. CASE found # {}
  <2> DEFINE f == Min(found)
             u == EdgeOf(h, Way(k.edges[f]))
  <2>1. f \in found
    <3>1. found \in SUBSET Nat
      BY <1>4, <1>7
    <3> QED BY <1>8, <3>1, LeastIndex
  <2>2. f \in DOMAIN k.edges /\ k.edges[f].src = x.src /\ k.edges[f].dst = lower
    BY <1>7, <2>1
  <2>3. m = UpdateEdge(k, f)
    BY <1>6, <1>8
  <2> HIDE DEF f
  <2>4. /\ Kept(k, m) /\ m.doubled = k.doubled
        /\ DOMAIN m.edges = DOMAIN k.edges
        /\ m.edges[f] = u
        /\ \A j \in DOMAIN k.edges \ {f} : m.edges[j] = k.edges[j]
    BY <1>1, <1>5, <2>2, <2>3, UpdateEdgeFacts
  <2>5. Kept(h, m) /\ m.doubled = h.doubled
    BY <1>1, <2>4, KeptFacts
  <2>6. u.src = x.src /\ u.dst = lower /\ u = EdgeOf(h, Way(u)) /\ Way(u) = Way(k.edges[f])
    BY <2>2 DEF EdgeOf, Way
  <2> HIDE DEF u
  <2>7. ASSUME NEW j \in DOMAIN h.edges
        PROVE  /\ j \in DOMAIN m.edges
               /\ \/ m.edges[j] = h.edges[j]
                  \/ h.edges[j].dst = lower /\ m.edges[j] = EdgeOf(h, Way(h.edges[j]))
    <3>1. /\ j \in DOMAIN k.edges
          /\ \/ k.edges[j] = h.edges[j]
             \/ h.edges[j].dst = lower /\ k.edges[j] = EdgeOf(h, Way(h.edges[j]))
      BY DEF GivenSoFar
    <3>2. CASE j # f
      BY <2>4, <3>1, <3>2
    <3>3. CASE j = f
      <4>1. Way(k.edges[j]) = Way(h.edges[j]) /\ h.edges[j].dst = lower
        BY <2>2, <3>1, <3>3 DEF EdgeOf, Way
      <4> QED BY <2>4, <3>1, <3>3, <4>1 DEF u
    <3> QED BY <3>2, <3>3
  <2>8. ASSUME NEW j \in DOMAIN m.edges \ DOMAIN h.edges
        PROVE  \E n \in InEdges(h, r) : m.edges[j] = EdgeOf(h, GivenWay(lower, h.edges[n]))
    <3>1. PICK n \in InEdges(h, r) : k.edges[j] = EdgeOf(h, GivenWay(lower, h.edges[n]))
      BY <2>4 DEF GivenSoFar
    <3>2. Way(k.edges[j]) = GivenWay(lower, h.edges[n])
      BY <3>1 DEF EdgeOf, Way, GivenWay
    <3>3. m.edges[j] = k.edges[j] \/ m.edges[j] = EdgeOf(h, Way(k.edges[j]))
      BY <2>4 DEF u
    <3> QED BY <3>1, <3>2, <3>3
  <2>9. u \in ToSet(m.edges)
    BY <2>2, <2>4 DEF ToSet
  <2>10. ASSUME NEW j \in J \cup {i} PROVE Given(h, m, lower, h.edges[j])
    <3>1. CASE j = i
      BY <2>6, <2>9, <3>1 DEF Given, x
    <3>2. CASE j \in J
      <4>1. Given(h, k, lower, h.edges[j])
        BY <3>2 DEF GivenSoFar
      <4>2. CASE ~IsEmpty(EdgeOf(h, GivenWay(lower, h.edges[j])).domain)
        <5>1. PICK y \in ToSet(k.edges) : /\ y.src = h.edges[j].src /\ y.dst = lower
                                          /\ y = EdgeOf(h, Way(y))
          BY <4>1, <4>2 DEF Given
        <5>2. PICK n \in DOMAIN k.edges : y = k.edges[n]
          BY DEF ToSet
        <5>3. m.edges[n] = y
          BY <2>4, <5>1, <5>2 DEF u
        <5>4. y \in ToSet(m.edges)
          BY <2>4, <5>2, <5>3 DEF ToSet
        <5> QED BY <5>1, <5>4 DEF Given
      <4> QED BY <4>2 DEF Given
    <3> QED BY <3>1, <3>2
  <2> QED BY <2>5, <2>7, <2>8, <2>10, Zenon DEF GivenSoFar, m
<1>9. CASE found = {}
  <2> DEFINE e == EdgeOf(h, w)
  <2>1. m = AddEdge(k, x.src, lower, x.transfer, "new")
    BY <1>6, <1>9
  <2>2. /\ Kept(k, m) /\ e \in Edge
        /\ m.edges = IF IsEmpty(e.domain) THEN k.edges ELSE Append(k.edges, e)
    <3>1. /\ Kept(k, m) /\ EdgeOf(k, w) \in Edge
          /\ m.edges = IF IsEmpty(EdgeOf(k, w).domain) THEN k.edges ELSE Append(k.edges, EdgeOf(k, w))
      BY <1>1, <1>2, <2>1, AddEdgeFacts DEF GivenWay
    <3> QED BY <1>5, <3>1
  <2>3. m.doubled = k.doubled
    <3>1. Adds(k, m, {w})
      BY <1>1, <1>2, <2>1, AddEdgeAdds DEF GivenWay
    <3> QED BY <3>1 DEF Adds
  <2>4. Kept(h, m) /\ m.doubled = h.doubled
    BY <1>1, <2>2, <2>3, KeptFacts
  <2> HIDE DEF e
  <2>5. /\ DOMAIN k.edges \subseteq DOMAIN m.edges
        /\ \A j \in DOMAIN k.edges : m.edges[j] = k.edges[j]
        /\ \A j \in DOMAIN m.edges \ DOMAIN k.edges : m.edges[j] = e
        /\ IsEmpty(e.domain) \/ e \in ToSet(m.edges)
    <3>1. CASE IsEmpty(e.domain)
      BY <2>2, <3>1
    <3>2. CASE ~IsEmpty(e.domain)
      <4>1. m.edges = Append(k.edges, e)
        BY <2>2, <3>2
      <4>2. /\ DOMAIN m.edges = 1 .. Len(k.edges) + 1
            /\ \A j \in DOMAIN k.edges : m.edges[j] = k.edges[j]
            /\ m.edges[Len(k.edges) + 1] = e
        BY <1>4, <2>2, <4>1, AppendFacts
      <4>3. \A j \in DOMAIN m.edges \ DOMAIN k.edges : j = Len(k.edges) + 1
        BY <1>4, <4>2
      <4>4. e \in ToSet(m.edges)
        BY <1>4, <4>2 DEF ToSet
      <4>5. DOMAIN k.edges \subseteq DOMAIN m.edges
        BY <1>4, <4>2
      <4> QED BY <4>2, <4>3, <4>4, <4>5
    <3> QED BY <3>1, <3>2
  <2>6. ASSUME NEW j \in DOMAIN h.edges
        PROVE  /\ j \in DOMAIN m.edges
               /\ \/ m.edges[j] = h.edges[j]
                  \/ h.edges[j].dst = lower /\ m.edges[j] = EdgeOf(h, Way(h.edges[j]))
    BY <2>5 DEF GivenSoFar
  <2>7. ASSUME NEW j \in DOMAIN m.edges \ DOMAIN h.edges
        PROVE  \E n \in InEdges(h, r) : m.edges[j] = EdgeOf(h, GivenWay(lower, h.edges[n]))
    <3>1. CASE j \in DOMAIN k.edges
      BY <2>5, <3>1 DEF GivenSoFar
    <3>2. CASE j \notin DOMAIN k.edges
      BY <2>5, <3>2 DEF e, x
    <3> QED BY <3>1, <3>2
  <2>8. ASSUME NEW j \in J \cup {i} PROVE Given(h, m, lower, h.edges[j])
    <3>1. CASE j = i
      <4>1. e.src = x.src /\ e.dst = lower /\ e = EdgeOf(h, Way(e))
        BY DEF e, EdgeOf, Way, GivenWay
      <4> QED BY <2>5, <3>1, <4>1 DEF Given, x, e
    <3>2. CASE j \in J
      <4>1. Given(h, k, lower, h.edges[j])
        BY <3>2 DEF GivenSoFar
      <4>2. ToSet(k.edges) \subseteq ToSet(m.edges)
        BY <2>5 DEF ToSet
      <4> QED BY <4>1, <4>2 DEF Given
    <3> QED BY <3>1, <3>2
  <2> QED BY <2>4, <2>6, <2>7, <2>8 DEF GivenSoFar, m
<1> QED BY <1>8, <1>9 DEF m

LEMMA GiveEdges ==
  ASSUME NEW h \in Graph, NEW r, NEW lower \in DOMAIN h.domain, r # lower,
         NEW k, k = GivingBack!Fold(lower, 0, h, InOrder(h, InEdges(h, r)))
  PROVE  /\ Kept(h, k) /\ k.doubled = h.doubled
         /\ \A e \in ToSet(k.edges) :
              \/ e \in ToSet(h.edges)
              \/ \E x \in ToSet(h.edges) : x.dst = lower /\ e = EdgeOf(h, Way(x))
              \/ \E x \in ToSet(h.edges) : x.dst = r /\ e = EdgeOf(h, GivenWay(lower, x))
         /\ \A e \in ToSet(h.edges) :
              \/ e \in ToSet(k.edges)
              \/ e.dst = lower /\ EdgeOf(h, Way(e)) \in ToSet(k.edges)
         /\ \A e \in ToSet(h.edges) : e.dst = r => Given(h, k, lower, e)
<1> DEFINE I == InEdges(h, r)
           Z == {z \in Seq(I) \X Graph : GivenSoFar(h, z[2], r, lower, ToSet(z[1]))}
<1>1. /\ I \subseteq DOMAIN h.edges /\ Len(h.edges) \in Nat
      /\ DOMAIN h.edges = 1 .. Len(h.edges)
  BY GraphFacts DEF InEdges
<1>2. InOrder(h, I) \in Seq(I) /\ ToSet(InOrder(h, I)) = I
  BY <1>1, InOrderFacts
<1>3. <<<<>>, h>> \in Z
  <2>1. GivenSoFar(h, h, r, lower, {})
    BY KeptFacts DEF GivenSoFar
  <2>2. <<>> \in Seq(I) /\ ToSet(<<>>) = {}
    BY EmptyElements
  <2> HIDE DEF I
  <2> QED BY <2>1, <2>2
<1>4. ASSUME NEW t, NEW q \in Seq(I), NEW i \in I, <<q, t>> \in Z
      PROVE  <<Append(q, i), Give(t, lower, i)>> \in Z
  <2> DEFINE m == Give(t, lower, i)
  <2>1. GivenSoFar(h, t, r, lower, ToSet(q))
    BY <1>4
  <2>2. Append(q, i) \in Seq(I) /\ ToSet(Append(q, i)) = ToSet(q) \cup {i}
    BY AppendedElements
  <2>3. GivenSoFar(h, m, r, lower, ToSet(q) \cup {i})
    BY <2>1, GiveStep
  <2> HIDE DEF m, I
  <2>4. m \in Graph
    BY <2>3 DEF GivenSoFar, Kept
  <2>5. <<Append(q, i), m>> \in Z
    BY <2>2, <2>3, <2>4
  <2> QED BY <2>5 DEF m
<1> HIDE DEF Z, I
<1>5. <<InOrder(h, I), k>> \in Z
  BY <1>2, <1>3, <1>4, GivingBack!FoldSteps, NaturalInduction DEF GivingBack!Induction, I
<1>6. GivenSoFar(h, k, r, lower, I)
  BY <1>2, <1>5 DEF Z
<1>7. Kept(h, k) /\ k.doubled = h.doubled
  BY <1>6 DEF GivenSoFar
<1>8. ASSUME NEW e \in ToSet(k.edges)
      PROVE  \/ e \in ToSet(h.edges)
             \/ \E x \in ToSet(h.edges) : x.dst = lower /\ e = EdgeOf(h, Way(x))
             \/ \E x \in ToSet(h.edges) : x.dst = r /\ e = EdgeOf(h, GivenWay(lower, x))
  <2>1. PICK j \in DOMAIN k.edges : e = k.edges[j]
    BY DEF ToSet
  <2>2. CASE j \in DOMAIN h.edges
    <3>1. h.edges[j] \in ToSet(h.edges)
      BY <2>2 DEF ToSet
    <3> QED BY <1>6, <2>1, <2>2, <3>1 DEF GivenSoFar
  <2>3. CASE j \notin DOMAIN h.edges
    <3>1. PICK i \in InEdges(h, r) : k.edges[j] = EdgeOf(h, GivenWay(lower, h.edges[i]))
      BY <1>6, <2>3 DEF GivenSoFar
    <3>2. h.edges[i] \in ToSet(h.edges) /\ h.edges[i].dst = r
      BY DEF InEdges, ToSet
    <3> QED BY <2>1, <3>1, <3>2
  <2> QED BY <2>2, <2>3
<1>9. ASSUME NEW e \in ToSet(h.edges)
      PROVE  /\ \/ e \in ToSet(k.edges)
                \/ e.dst = lower /\ EdgeOf(h, Way(e)) \in ToSet(k.edges)
             /\ e.dst = r => Given(h, k, lower, e)
  <2>1. PICK j \in DOMAIN h.edges : e = h.edges[j]
    BY DEF ToSet
  <2>2. /\ j \in DOMAIN k.edges
        /\ \/ k.edges[j] = h.edges[j]
           \/ h.edges[j].dst = lower /\ k.edges[j] = EdgeOf(h, Way(h.edges[j]))
    BY <1>6 DEF GivenSoFar
  <2>3. k.edges[j] \in ToSet(k.edges)
    BY <2>2 DEF ToSet
  <2>4. e.dst = r => j \in I
    BY <2>1 DEF I, InEdges
  <2> QED BY <1>6, <2>1, <2>2, <2>3, <2>4 DEF GivenSoFar
<1> QED BY <1>7, <1>8, <1>9

(***************************************************************************)
(* What TakeFrom and GiveBack preserve.                                    *)
(***************************************************************************)
(* The state between two operations: influences are between overlapping    *)
(* rules of the tables, and no two rules of a table have equal priority.   *)
Kempt(g) == g \in Graph /\ Distinct(g.rules) /\ g.influences \subseteq Pairs(g.rules)

CanTake(g, r, lower) ==
  /\ Kempt(g) /\ r \in g.rules /\ lower \in g.rules /\ Over(r, lower)
  /\ r \in DOMAIN g.domain /\ lower \in DOMAIN g.domain

Took(g, k, r, lower) ==
  /\ Kempt(k) /\ k.rules = g.rules /\ k.links = g.links /\ k.doubled = g.doubled
  /\ k.influences = g.influences \cup {<<r, lower>>}
  /\ k.domain = [g.domain EXCEPT ![lower] = Left(k.influences, lower)]
  /\ ToSet(k.edges) = EdgesShared(g, k, r, lower)

CanGive(g, r, lower) ==
  /\ Kempt(g) /\ r \in g.rules /\ lower \in g.rules /\ r # lower
  /\ lower \in DOMAIN g.domain

Gave(g, k, r, lower) ==
  /\ Kempt(k) /\ k.rules = g.rules /\ k.links = g.links /\ k.doubled = g.doubled
  /\ k.influences = g.influences \ {<<r, lower>>}
  /\ k.domain = [g.domain EXCEPT ![lower] = Left(k.influences, lower)]
  /\ \A e \in ToSet(k.edges) :
       \/ e \in ToSet(g.edges)
       \/ \E x \in ToSet(g.edges) : x.dst = lower /\ e = EdgeOf(k, Way(x))
       \/ \E x \in ToSet(g.edges) : x.dst = r /\ e = EdgeOf(k, GivenWay(lower, x))
  /\ \A e \in ToSet(g.edges) :
       \/ e \in ToSet(k.edges)
       \/ e.dst = lower /\ EdgeOf(k, Way(e)) \in ToSet(k.edges)
  /\ \A e \in ToSet(g.edges) : e.dst = r => Given(k, k, lower, e)

LEMMA TakeFromFacts ==
  ASSUME NEW g, NEW r, NEW lower, CanTake(g, r, lower)
  PROVE  Took(g, TakeFrom(g, r, lower), r, lower)
<1> DEFINE k == TakeFrom(g, r, lower)
<1> SUFFICES Took(g, k, r, lower)
  OBVIOUS
<1>0. /\ g \in Graph /\ Distinct(g.rules)
      /\ g.influences \subseteq Pairs(g.rules)
      /\ r \in g.rules /\ lower \in g.rules /\ Over(r, lower)
      /\ r \in DOMAIN g.domain /\ lower \in DOMAIN g.domain
  BY DEF CanTake, Kempt
<1>k. k = TakeFrom(g, r, lower)
  OBVIOUS
<1> HIDE DEF k
<1> DEFINE I == g.influences \cup {<<r, lower>>}
           h == Influenced(g, I, lower)
           shared == {i \in InEdges(h, lower) : ~IsEmpty(Meet(h.edges[i].domain, h.domain[r]))}
<1>1. /\ r \in TableRule /\ lower \in TableRule /\ Priority[r] \in Nat
      /\ Priority[lower] \in Nat
  BY <1>0, GraphFacts, RuleFacts
<1>2. I \subseteq Pairs(g.rules) /\ r # lower
  BY <1>0, <1>1 DEF Pairs, Over
<1>20. h = Influenced(g, I, lower)
  OBVIOUS
<1> HIDE DEF h, I
<1>3. /\ h \in Graph /\ h.rules = g.rules /\ h.links = g.links
      /\ h.influences = I
      /\ h.edges = g.edges /\ h.doubled = g.doubled
      /\ h.domain = [g.domain EXCEPT ![lower] = Left(I, lower)]
  BY <1>0, <1>1, <1>2, <1>20, InfluencedFacts
<1>4. h.domain[r] = g.domain[r] /\ r \in DOMAIN h.domain
  BY <1>0, <1>2, <1>3
<1>5. k = FoldLeft(LAMBDA k1, i : UpdateEdge(AddEdge(k1, k1.edges[i].src, r, k1.edges[i].transfer,
                                              "newDependent"), i), h, InOrder(h, shared))
  BY <1>k DEF TakeFrom, Influenced, h, I
<1>6. k = TakingFrom!Fold(r, 0, h, InOrder(h, shared))
  BY <1>5, TakingFromFold, Zenon
<1>7. shared = {i \in InEdges(h, lower) : ~IsEmpty(Meet(h.edges[i].domain, h.domain[r]))}
  OBVIOUS
<1> HIDE DEF shared
<1>8. /\ Kept(h, k) /\ k.doubled = h.doubled
      /\ ToSet(k.edges) = EdgesShared(h, h, r, lower)
  BY <1>0, <1>3, <1>4, <1>6, <1>7, TakeEdges
<1>9. SharedEdges(h, r, lower) = SharedEdges(g, r, lower)
  BY <1>3, <1>4 DEF SharedEdges, Shared
<1>10. /\ \A w : EdgeOf(k, w) = EdgeOf(h, w)
       /\ \A W : Carrying(k, W) = Carrying(h, W)
  BY <1>8, SameWays
<1>11. EdgesShared(h, h, r, lower) = EdgesShared(g, k, r, lower)
  BY <1>3, <1>9, <1>10 DEF EdgesShared
<1>12. k.influences = I /\ k.domain = [g.domain EXCEPT ![lower] = Left(I, lower)]
  BY <1>3, <1>8 DEF Kept
<1>13. k \in Graph /\ k.rules = g.rules /\ k.links = g.links /\ k.doubled = g.doubled
  BY <1>3, <1>8 DEF Kept
<1>14. I = g.influences \cup {<<r, lower>>}
  BY DEF I
<1>15. Kempt(k)
  BY <1>0, <1>2, <1>12, <1>13 DEF Kempt
<1> QED BY <1>8, <1>11, <1>12, <1>13, <1>14, <1>15 DEF Took

LEMMA GiveBackFacts ==
  ASSUME NEW g, NEW r, NEW lower, CanGive(g, r, lower)
  PROVE  Gave(g, GiveBack(g, r, lower), r, lower)
<1> DEFINE k == GiveBack(g, r, lower)
<1> SUFFICES Gave(g, k, r, lower)
  OBVIOUS
<1>0. /\ g \in Graph /\ Distinct(g.rules)
      /\ g.influences \subseteq Pairs(g.rules)
      /\ r \in g.rules /\ lower \in g.rules /\ r # lower
      /\ lower \in DOMAIN g.domain
  BY DEF CanGive, Kempt
<1>k. k = GiveBack(g, r, lower)
  OBVIOUS
<1> HIDE DEF k
<1> DEFINE I == g.influences \ {<<r, lower>>}
           h == Influenced(g, I, lower)
<1>1. r \in TableRule /\ lower \in TableRule
  BY <1>0, GraphFacts
<1>2. I \subseteq Pairs(g.rules)
  BY <1>0
<1>20. h = Influenced(g, I, lower)
  OBVIOUS
<1> HIDE DEF h, I
<1>3. /\ h \in Graph /\ h.rules = g.rules /\ h.links = g.links
      /\ h.influences = I
      /\ h.edges = g.edges /\ h.doubled = g.doubled
      /\ h.domain = [g.domain EXCEPT ![lower] = Left(I, lower)]
  BY <1>0, <1>1, <1>2, <1>20, InfluencedFacts
<1>4. lower \in DOMAIN h.domain
  BY <1>0, <1>3
<1>5. k = FoldLeft(LAMBDA k1, i :
                 LET src   == k1.edges[i].src
                     found == OutEdges(k1, src) \cap InEdges(k1, lower)
                 IN  IF found # {} THEN UpdateEdge(k1, Min(found))
                     ELSE AddEdge(k1, src, lower, k1.edges[i].transfer, "new"),
                 h, InOrder(h, InEdges(h, r)))
  BY <1>k, Zenon DEF GiveBack, Influenced, h, I
<1>6. k = GivingBack!Fold(lower, 0, h, InOrder(h, InEdges(h, r)))
  BY <1>5, GivingBackFold, Zenon
<1>8. /\ Kept(h, k) /\ k.doubled = h.doubled
      /\ \A e \in ToSet(k.edges) :
              \/ e \in ToSet(h.edges)
              \/ \E x \in ToSet(h.edges) : x.dst = lower /\ e = EdgeOf(h, Way(x))
              \/ \E x \in ToSet(h.edges) : x.dst = r /\ e = EdgeOf(h, GivenWay(lower, x))
      /\ \A e \in ToSet(h.edges) :
              \/ e \in ToSet(k.edges)
              \/ e.dst = lower /\ EdgeOf(h, Way(e)) \in ToSet(k.edges)
      /\ \A e \in ToSet(h.edges) : e.dst = r => Given(h, k, lower, e)
  BY <1>0, <1>3, <1>4, <1>6, GiveEdges
<1>9. \A w : EdgeOf(h, w) = EdgeOf(k, w)
  BY <1>8, SameWays
<1>10. \A e : Given(h, k, lower, e) => Given(k, k, lower, e)
  BY <1>9 DEF Given
<1>11. /\ k \in Graph /\ k.rules = g.rules /\ k.links = g.links
       /\ k.doubled = g.doubled
       /\ k.influences = I
       /\ k.domain = [g.domain EXCEPT ![lower] = Left(I, lower)]
  BY <1>3, <1>8 DEF Kept
<1>12. /\ \A e \in ToSet(k.edges) :
              \/ e \in ToSet(g.edges)
              \/ \E x \in ToSet(g.edges) : x.dst = lower /\ e = EdgeOf(k, Way(x))
              \/ \E x \in ToSet(g.edges) : x.dst = r /\ e = EdgeOf(k, GivenWay(lower, x))
       /\ \A e \in ToSet(g.edges) :
              \/ e \in ToSet(k.edges)
              \/ e.dst = lower /\ EdgeOf(k, Way(e)) \in ToSet(k.edges)
       /\ \A e \in ToSet(g.edges) : e.dst = r => Given(k, k, lower, e)
  BY <1>3, <1>8, <1>9, <1>10
<1>13. I = g.influences \ {<<r, lower>>}
  BY DEF I
<1>15. Kempt(k)
  BY <1>0, <1>2, <1>11 DEF Kempt
<1> QED BY <1>11, <1>12, <1>13, <1>15 DEF Gave

----
(* The rules of V are vertices of the graph, and every domain is what the  *)
(* recorded influences leave of the match.                                 *)
Special == Outputs \cup {Source(p) : p \in Ports}

Tidy(g, V) ==
  /\ g \in Graph /\ Distinct(g.rules) /\ g.influences \subseteq Pairs(g.rules)
  /\ V \subseteq TableRule /\ DOMAIN g.domain = Special \cup V
  /\ \A v \in Special : g.domain[v] = Match[v]
  /\ \A v \in V : g.domain[v] = Left(g.influences, v)

LEMMA SpecialFacts ==
  /\ Special \subseteq Vertices
  /\ \A v \in Special : v \notin TableRule
BY VertexFacts DEF Special, Kind, Source, Sink, Miss, Flow, TableRule, Outputs, Drop, Controller, Vertices

LEMMA SameTidy ==
  ASSUME NEW g, NEW h, Kept(g, h), NEW V, Tidy(g, V)
  PROVE  Tidy(h, V)
BY DEF Kept, Tidy

(* Only the domain of one rule changes when one influence on it does.      *)
LEMMA InfluenceTidy ==
  ASSUME NEW g, NEW V, Tidy(g, V), NEW lower \in V,
         NEW k \in Graph, k.rules = g.rules, k.influences \subseteq Pairs(g.rules),
         k.domain = [g.domain EXCEPT ![lower] = Left(k.influences, lower)],
         \A q, v : v # lower => (<<q, v>> \in k.influences <=> <<q, v>> \in g.influences)
  PROVE  Tidy(k, V)
<1>1. lower \in TableRule /\ lower \notin Special /\ lower \in DOMAIN g.domain
  BY SpecialFacts DEF Tidy
<1>2. ASSUME NEW v \in V, v # lower PROVE k.domain[v] = Left(k.influences, v)
  <2>1. Uppers(k.influences, v) = Uppers(g.influences, v)
    BY <1>2 DEF Uppers
  <2>2. k.domain[v] = g.domain[v] /\ g.domain[v] = Left(g.influences, v)
    BY <1>2 DEF Tidy
  <2> QED BY <2>1, <2>2 DEF Left
<1>3. k.domain[lower] = Left(k.influences, lower)
  BY <1>1
<1>4. \A v \in Special : k.domain[v] = Match[v]
  BY <1>1 DEF Tidy
<1>5. DOMAIN k.domain = DOMAIN g.domain
  OBVIOUS
<1> QED BY <1>2, <1>3, <1>4, <1>5 DEF Tidy

LEMMA TakeFromTidy ==
  ASSUME NEW g, NEW V, Tidy(g, V), NEW r \in V \cap g.rules, NEW lower \in V \cap g.rules,
         Over(r, lower)
  PROVE  Tidy(TakeFrom(g, r, lower), V)
<1> DEFINE k == TakeFrom(g, r, lower)
<1>1. CanTake(g, r, lower)
  BY DEF Tidy, CanTake, Kempt
<1> HIDE DEF k
<1>3. /\ k \in Graph /\ k.rules = g.rules
      /\ k.influences = g.influences \cup {<<r, lower>>}
      /\ k.influences \subseteq Pairs(g.rules)
      /\ k.domain = [g.domain EXCEPT ![lower] = Left(k.influences, lower)]
  <2>1. Took(g, k, r, lower)
    BY <1>1, TakeFromFacts DEF k
  <2> QED BY <2>1 DEF Took, Kempt
<1>4. \A q, v : v # lower => (<<q, v>> \in k.influences <=> <<q, v>> \in g.influences)
  BY <1>3
<1>5. Tidy(k, V)
  BY <1>3, <1>4, InfluenceTidy
<1> QED BY <1>5 DEF k

LEMMA GiveBackTidy ==
  ASSUME NEW g, NEW V, Tidy(g, V), NEW r \in g.rules, NEW lower \in V \cap g.rules,
         r # lower
  PROVE  Tidy(GiveBack(g, r, lower), V)
<1> DEFINE k == GiveBack(g, r, lower)
<1>1. CanGive(g, r, lower)
  BY DEF Tidy, CanGive, Kempt
<1> HIDE DEF k
<1>3. /\ k \in Graph /\ k.rules = g.rules
      /\ k.influences = g.influences \ {<<r, lower>>}
      /\ k.influences \subseteq Pairs(g.rules)
      /\ k.domain = [g.domain EXCEPT ![lower] = Left(k.influences, lower)]
  <2>1. Gave(g, k, r, lower)
    BY <1>1, GiveBackFacts DEF k
  <2> QED BY <2>1 DEF Gave, Kempt
<1>4. \A q, v : v # lower => (<<q, v>> \in k.influences <=> <<q, v>> \in g.influences)
  BY <1>3
<1>5. Tidy(k, V)
  BY <1>3, <1>4, InfluenceTidy
<1> QED BY <1>5 DEF k

(***************************************************************************)
(* AddInEdges: the new rule takes from every lower rule.                   *)
(***************************************************************************)
LEMMA PairsFacts ==
  /\ \A R : Pairs(R) \subseteq R \X R
  /\ \A R, q, r : <<q, r>> \in Pairs(R) <=> q \in R /\ r \in R /\ Over(q, r)
  /\ \A R : \A q \in R : R \subseteq TableRule => ~Over(q, q)
<1>1. ASSUME NEW R, NEW q \in R, R \subseteq TableRule PROVE ~Over(q, q)
  <2>1. Priority[q] \in Nat
    BY <1>1, RuleFacts
  <2> QED BY <2>1 DEF Over
<1> QED BY <1>1 DEF Pairs

LEMMA TableFacts ==
  ASSUME NEW R \in SUBSET TableRule, Distinct(R), NEW s, NEW T \in SUBSET R,
         \A r \in T : Switch[r] = s
  PROVE  Descending(T) \in Seq(T) /\ ToSet(Descending(T)) = T
<1>1. \A q, r \in T : Priority[q] = Priority[r] => q = r
  BY DEF Distinct
<1> QED BY <1>1, DescendingFacts

LEMMA DstRulesFacts ==
  ASSUME NEW g \in Graph, Distinct(g.rules), NEW p
  PROVE  /\ DstRules(g, p) \in Seq(g.rules)
         /\ ToSet(DstRules(g, p)) = {r \in g.rules : Switch[r] = Home[p]
                                                     /\ Match[r].port \in {p, AnyPort}}
<1> DEFINE T == {r \in Table(g, Home[p]) : Match[r].port \in {p, AnyPort}}
<1>1. T \in SUBSET g.rules /\ g.rules \in SUBSET TableRule /\ \A r \in T : Switch[r] = Home[p]
  BY GraphFacts DEF Table
<1>2. T = {r \in g.rules : Switch[r] = Home[p] /\ Match[r].port \in {p, AnyPort}}
  BY DEF Table
<1> HIDE DEF T
<1>3. Descending(T) \in Seq(T) /\ ToSet(Descending(T)) = T
  BY <1>1, TableFacts
<1>4. Descending(T) \in Seq(g.rules)
  <2> DEFINE d == Descending(T)
  <2> HIDE DEF d
  <2>1. d \in Seq(T)
    BY <1>3 DEF d
  <2>2. d \in Seq(g.rules)
    BY <1>1, <2>1
  <2> QED BY <2>2 DEF d
<1> QED BY <1>2, <1>3, <1>4 DEF DstRules, T

LEMMA SrcRulesFacts ==
  ASSUME NEW g \in Graph, Distinct(g.rules), NEW p \in Ports
  PROVE  /\ SrcRules(g, p) \in Seq(g.rules)
         /\ ToSet(SrcRules(g, p)) = {r \in g.rules : Sink(p) \in ToSet(Actions[r])}
<1> DEFINE T == {r \in g.rules : \E i \in DOMAIN Actions[r] : Actions[r][i] = Sink(p)}
<1>1. T \in SUBSET g.rules /\ g.rules \in SUBSET TableRule
  BY GraphFacts
<1>2. T = {r \in g.rules : Sink(p) \in ToSet(Actions[r])}
  BY DEF ToSet
<1>3. ASSUME NEW r \in T PROVE Switch[r] = Home[p]
  <2>1. PICK i \in DOMAIN Actions[r] : Actions[r][i] = Sink(p)
    OBVIOUS
  <2>2. r \in TableRule
    BY <1>1
  <2>3. Sink(p) # Drop /\ Kind(Sink(p)) = "sink" /\ Sink(p)[2] = p
    BY DEF Sink, Drop, Kind
  <2>4. Actions[r] # <<Drop>>
    BY <2>1, <2>3
  <2>5. PICK f \in Flows : r = Flow(f)
    BY <2>2, <2>4, VertexFacts DEF Actions
  <2>6. Actions[r] = Attr[f].out /\ Switch[r] = Attr[f].sw
    BY <2>2, <2>4, <2>5, VertexFacts DEF Actions, Switch
  <2>7. i \in DOMAIN Attr[f].out /\ Attr[f].out[i] = Sink(p)
    BY <2>1, <2>6
  <2>8. \A j \in DOMAIN Attr[f].out :
          Kind(Attr[f].out[j]) = "sink" => Home[Attr[f].out[j][2]] = Attr[f].sw
    BY NetworkShape
  <2> QED BY <2>3, <2>6, <2>7, <2>8
<1> HIDE DEF T
<1>4. Descending(T) \in Seq(T) /\ ToSet(Descending(T)) = T
  BY <1>1, <1>3, TableFacts
<1>5. Descending(T) \in Seq(g.rules)
  <2> DEFINE d == Descending(T)
  <2> HIDE DEF d
  <2>1. d \in Seq(T)
    BY <1>4 DEF d
  <2>2. d \in Seq(g.rules)
    BY <1>1, <2>1
  <2> QED BY <2>2 DEF d
<1> QED BY <1>2, <1>4, <1>5 DEF SrcRules, T

LEMMA One ==
  ASSUME NEW S, NEW x \in S
  PROVE  <<x>> \in Seq(S)
OBVIOUS

LEMMA ReceiversFacts ==
  ASSUME NEW g, NEW V, Tidy(g, V), g.rules \subseteq V \/ DOMAIN g.links = {},
         NEW o \in Outputs
  PROVE  Receivers(g, o) \in Seq(DOMAIN g.domain)
<1>1. g \in Graph /\ Distinct(g.rules) /\ DOMAIN g.domain = Special \cup V
  BY DEF Tidy
<1>2. CASE Linked(g, o)
  <2> DEFINE d == DstRules(g, g.links[o[2]])
  <2>1. d \in Seq(g.rules)
    BY <1>1, DstRulesFacts
  <2>2. g.rules \subseteq DOMAIN g.domain
    BY <1>1, <1>2 DEF Linked
  <2> HIDE DEF d
  <2>3. d \in Seq(DOMAIN g.domain)
    BY <2>1, <2>2
  <2> QED BY <1>2, <2>3 DEF Receivers, d
<1>3. CASE ~Linked(g, o)
  <2>1. o \in DOMAIN g.domain
    BY <1>1 DEF Special
  <2>2. <<o>> \in Seq(DOMAIN g.domain)
    BY <2>1, One
  <2> QED BY <1>3, <2>2 DEF Receivers
<1> QED BY <1>2, <1>3

----
(* The influences on a new rule and by it.                                 *)
OntoRule(V, r) == Pairs(V \ {r}) \cup {pair \in Pairs(V) : pair[2] = r}

(* What AddInEdges folds, when the lower rules of Q have been taken from.  *)
TakenFrom(g, t, V, r, Q) ==
  /\ Tidy(t, V) /\ t.rules = g.rules /\ t.links = g.links
  /\ t.doubled = g.doubled
  /\ t.influences = OntoRule(V, r) \cup {<<r, x>> : x \in Q}

InStart(g, r) ==
  Influenced(g, g.influences \cup {<<q, r>> : q \in {x \in Above(g, r) : Overlap(x, r)}}, r)
Lowers(g, r) == {q \in Below(g, r) : Overlap(q, r)}

LEMMA OverlapFacts == \A q, r \in TableRule : Overlap(q, r) <=> Overlap(r, q)
BY RuleFacts, SpecialPorts DEF Overlap, Meet, IsEmpty, CommonPort, Space, EmptySpace

TakingAll == INSTANCE FoldFacts WITH Op <- LAMBDA r, o, k, q : TakeFrom(k, r, q)

LEMMA TakingAllFold ==
  \A r, h, s : FoldLeft(LAMBDA k, q : TakeFrom(k, r, q), h, s) = TakingAll!Fold(r, 0, h, s)
BY Zenon DEF TakingAll!Fold, FoldLeft, MapThenFoldSet,
             TakingAll!MapThenFoldSet, Max, TakingAll!Largest

LEMMA AddInEdgesFold ==
  \A g, r : AddInEdges(g, r) = TakingAll!Fold(r, 0, InStart(g, r), Descending(Lowers(g, r)))
BY TakingAllFold, Zenon DEF AddInEdges, InStart, Lowers, Influenced

LEMMA InStartFacts ==
  ASSUME NEW g, NEW V, Tidy(g, V), g.rules = V, NEW r \in V, g.influences = Pairs(V \ {r}),
         NEW h, h = InStart(g, r)
  PROVE  /\ TakenFrom(g, h, V, r, {}) /\ h.edges = g.edges
         /\ \A v \in V \ {r} : h.domain[v] = g.domain[v]
<1> DEFINE upper == {<<q, r>> : q \in {x \in Above(g, r) : Overlap(x, r)}}
           I == g.influences \cup upper
<1>1. /\ g \in Graph /\ V \subseteq TableRule /\ Distinct(g.rules)
      /\ r \in DOMAIN g.domain
      /\ r \in TableRule
  BY DEF Tidy
<1>2. upper = {pair \in Pairs(V) : pair[2] = r}
  BY DEF Above, Table, Pairs, Over
<1> HIDE DEF upper
<1>3. I = OntoRule(V, r) /\ I \subseteq Pairs(g.rules)
  BY <1>2 DEF OntoRule, Pairs
<1>4. h = Influenced(g, I, r)
  BY DEF InStart, upper
<1> HIDE DEF I
<1>5. /\ h \in Graph
      /\ h.rules = g.rules /\ h.links = g.links /\ h.influences = I
      /\ h.edges = g.edges /\ h.doubled = g.doubled
      /\ h.domain = [g.domain EXCEPT ![r] = Left(I, r)]
  BY <1>1, <1>3, <1>4, InfluencedFacts
<1>6. \A q, v : v # r => (<<q, v>> \in h.influences <=> <<q, v>> \in g.influences)
  BY <1>2, <1>5 DEF I
<1>7. Tidy(h, V)
  BY <1>3, <1>5, <1>6, InfluenceTidy
<1>8. {<<r, x>> : x \in {}} = {}
  OBVIOUS
<1>9. h.influences = OntoRule(V, r) \cup {<<r, x>> : x \in {}}
  BY <1>3, <1>5, <1>8
<1> QED BY <1>5, <1>7, <1>9 DEF TakenFrom

LEMMA TakenStep ==
  ASSUME NEW g, NEW V, g.rules = V, NEW r \in V, NEW t, NEW Q, TakenFrom(g, t, V, r, Q),
         NEW q \in Lowers(g, r)
  PROVE  /\ TakenFrom(g, TakeFrom(t, r, q), V, r, Q \cup {q})
         /\ q \in V /\ Over(r, q)
<1> DEFINE m == TakeFrom(t, r, q)
<1>1. /\ t \in Graph /\ V \subseteq TableRule /\ Tidy(t, V) /\ t.rules = V
      /\ Distinct(t.rules) /\ t.influences \subseteq Pairs(t.rules)
      /\ V \subseteq DOMAIN t.domain
  BY DEF TakenFrom, Tidy
<1>2. q \in V /\ Over(r, q)
  <2>1. q \in V /\ Switch[q] = Switch[r] /\ Priority[q] < Priority[r] /\ Overlap(q, r)
    BY DEF Lowers, Below, Table
  <2>2. Priority[q] \in Nat /\ Priority[r] \in Nat /\ Overlap(r, q)
    BY <1>1, <2>1, RuleFacts, OverlapFacts
  <2> QED BY <2>1, <2>2 DEF Over
<1>3. Tidy(m, V)
  BY <1>1, <1>2, TakeFromTidy
<1>4. /\ m.rules = t.rules /\ m.links = t.links /\ m.doubled = t.doubled
      /\ m.influences = t.influences \cup {<<r, q>>}
  <2>1. CanTake(t, r, q)
    BY <1>1, <1>2 DEF CanTake, Kempt
  <2>2. Took(t, m, r, q)
    BY <2>1, TakeFromFacts
  <2> QED BY <2>2 DEF Took
<1> HIDE DEF m
<1>5. m.influences = OntoRule(V, r) \cup {<<r, x>> : x \in Q \cup {q}}
  <2>1. {<<r, x>> : x \in Q \cup {q}} = {<<r, x>> : x \in Q} \cup {<<r, q>>}
    OBVIOUS
  <2> QED BY <1>4, <2>1 DEF TakenFrom
<1>6. TakenFrom(g, m, V, r, Q \cup {q})
  BY <1>3, <1>4, <1>5 DEF TakenFrom
<1> QED BY <1>2, <1>6 DEF m

LEMMA LowersFacts ==
  ASSUME NEW g, NEW V, Tidy(g, V), g.rules = V, NEW r \in V
  PROVE  Descending(Lowers(g, r)) \in Seq(Lowers(g, r))
         /\ ToSet(Descending(Lowers(g, r))) = Lowers(g, r)
<1>1. Lowers(g, r) \in SUBSET V /\ \A q \in Lowers(g, r) : Switch[q] = Switch[r]
  BY DEF Lowers, Below, Table
<1>2. V \in SUBSET TableRule /\ Distinct(V)
  BY DEF Tidy
<1> QED BY <1>1, <1>2, TableFacts

LEMMA AllTaken ==
  ASSUME NEW g, NEW V, g.rules = V, NEW r \in V, V \subseteq TableRule
  PROVE  OntoRule(V, r) \cup {<<r, x>> : x \in Lowers(g, r)} = Pairs(V)
<1>1. ASSUME NEW q \in V, NEW x \in V, Over(q, x)
      PROVE  <<q, x>> \in OntoRule(V, r) \cup {<<r, y>> : y \in Lowers(g, r)}
  <2>1. CASE q = r
    <3>1. Overlap(x, r) /\ Priority[x] < Priority[r] /\ Switch[x] = Switch[r]
      <4>1. Priority[q] \in Nat /\ Priority[x] \in Nat
        BY RuleFacts
      <4> QED BY <1>1, <2>1, <4>1, OverlapFacts DEF Over
    <3>2. x \in Lowers(g, r)
      BY <3>1 DEF Lowers, Below, Table
    <3> QED BY <2>1, <3>2
  <2>2. CASE x = r
    BY <1>1, <2>2 DEF OntoRule, Pairs
  <2>3. CASE q # r /\ x # r
    BY <1>1, <2>3 DEF OntoRule, Pairs
  <2> QED BY <2>1, <2>2, <2>3
<1>2. OntoRule(V, r) \subseteq Pairs(V)
  BY DEF OntoRule, Pairs
<1>3. ASSUME NEW y \in Lowers(g, r) PROVE <<r, y>> \in Pairs(V)
  <2>1. y \in V /\ Overlap(r, y) /\ Priority[y] < Priority[r] /\ Switch[y] = Switch[r]
    BY OverlapFacts DEF Lowers, Below, Table
  <2>2. Priority[r] \in Nat /\ Priority[y] \in Nat
    BY <2>1, RuleFacts
  <2> QED BY <2>1, <2>2 DEF Pairs, Over
<1>4. Pairs(V) \subseteq OntoRule(V, r) \cup {<<r, y>> : y \in Lowers(g, r)}
  <2> SUFFICES ASSUME NEW z \in Pairs(V)
               PROVE  z \in OntoRule(V, r) \cup {<<r, y>> : y \in Lowers(g, r)}
    OBVIOUS
  <2>1. PICK q \in V, x \in V : z = <<q, x>> /\ Over(q, x)
    BY DEF Pairs
  <2> QED BY <1>1, <2>1
<1> QED BY <1>2, <1>3, <1>4

LEMMA AddInTidy ==
  ASSUME NEW g, NEW V, Tidy(g, V), g.rules = V, NEW r \in V, g.influences = Pairs(V \ {r})
  PROVE  LET k == AddInEdges(g, r)
         IN  /\ Tidy(k, V) /\ k.rules = V /\ k.links = g.links
             /\ k.doubled = g.doubled
             /\ k.influences = Pairs(V)
<1> DEFINE L == Lowers(g, r)
           h == InStart(g, r)
           k == AddInEdges(g, r)
           Z == {z \in Seq(L) \X Graph : TakenFrom(g, z[2], V, r, ToSet(z[1]))}
<1>1. TakenFrom(g, h, V, r, {})
  BY InStartFacts
<1>2. <<<<>>, h>> \in Z
  <2>1. h \in Graph
    BY <1>1 DEF TakenFrom, Tidy
  <2>2. <<>> \in Seq(L) /\ ToSet(<<>>) = {}
    BY EmptyElements
  <2> HIDE DEF h, L
  <2> QED BY <1>1, <2>1, <2>2
<1>3. ASSUME NEW t, NEW q \in Seq(L), NEW x \in L, <<q, t>> \in Z
      PROVE  <<Append(q, x), TakeFrom(t, r, x)>> \in Z
  <2> DEFINE m == TakeFrom(t, r, x)
  <2>1. TakenFrom(g, t, V, r, ToSet(q))
    BY <1>3
  <2>2. Append(q, x) \in Seq(L) /\ ToSet(Append(q, x)) = ToSet(q) \cup {x}
    BY AppendedElements
  <2>3. TakenFrom(g, m, V, r, ToSet(q) \cup {x})
    BY <2>1, TakenStep
  <2> HIDE DEF m, L
  <2>4. m \in Graph
    BY <2>3 DEF TakenFrom, Tidy
  <2>5. <<Append(q, x), m>> \in Z
    BY <2>2, <2>3, <2>4
  <2> QED BY <2>5 DEF m
<1>4. Descending(L) \in Seq(L) /\ ToSet(Descending(L)) = L
  BY LowersFacts
<1>5. k = TakingAll!Fold(r, 0, h, Descending(L))
  BY AddInEdgesFold
<1> HIDE DEF Z, L, h, k
<1>6. <<Descending(L), TakingAll!Fold(r, 0, h, Descending(L))>> \in Z
  BY <1>2, <1>3, <1>4, TakingAll!FoldSteps, NaturalInduction
        DEF TakingAll!Induction
<1>7. TakenFrom(g, k, V, r, L)
  BY <1>4, <1>5, <1>6 DEF Z
<1>8. k.influences = Pairs(V)
  BY <1>7, AllTaken DEF TakenFrom, L, Tidy
<1> QED BY <1>7, <1>8 DEF TakenFrom, k

(***************************************************************************)
(* GraphAddRule.                                                           *)
(***************************************************************************)
(* The network is as the graph records it.                                 *)
Settled(g) == Tidy(g, g.rules) /\ g.influences = Pairs(g.rules)

(* The state g when only the vertices of V have been added to it.          *)
Alike(g, h) ==
  /\ h.rules = g.rules /\ h.links = g.links /\ h.influences = g.influences

LEMMA AddVertexFacts ==
  ASSUME NEW g, NEW V, Tidy(g, V), NEW r \in TableRule,
         Uppers(g.influences, r) = {}
  PROVE  LET h == AddVertex(g, r)
         IN  /\ Tidy(h, V \cup {r})
             /\ Alike(g, h) /\ h.edges = g.edges /\ h.doubled = g.doubled
             /\ h.domain[r] = Match[r]
             /\ \A v \in Special \cup V : h.domain[v] = g.domain[v]
<1> DEFINE D == [u \in DOMAIN g.domain \cup {r} |-> IF u = r THEN Match[r] ELSE g.domain[u]]
           h == AddVertex(g, r)
           k == [g EXCEPT !.rules = g.rules, !.links = g.links, !.domain = D, !.influences = g.influences]
<1>1. /\ g \in Graph /\ Distinct(g.rules)
      /\ g.influences \subseteq Pairs(g.rules)
      /\ V \subseteq TableRule /\ DOMAIN g.domain = Special \cup V
      /\ r \notin Special /\ r \in Vertices /\ Match[r] \in Space
  BY SpecialFacts, RuleFacts, VertexFacts DEF Tidy
<1>2. g.rules \in SUBSET TableRule /\ g.links \in Links /\ g.domain \in Domains
      /\ g.influences \in SUBSET (TableRule \X TableRule)
  BY <1>1 DEF Graph
<1>3. D \in Domains
  <2>1. DOMAIN g.domain \subseteq Vertices /\ \A v \in DOMAIN g.domain : g.domain[v] \in Space
    BY <1>2, DomainsFacts
  <2>2. DOMAIN D \subseteq Vertices /\ \A v \in DOMAIN D : D[v] \in Space
    BY <1>1, <2>1
  <2>3. D \in [DOMAIN D -> Space]
    BY <2>2
  <2> HIDE DEF D
  <2> QED BY <2>2, <2>3, DomainsFacts
<1>4. h = k
  BY <1>1 DEF AddVertex, Graph
<1>5. \A e \in ToSet(g.edges) : e.src \in DOMAIN D /\ e.dst \in DOMAIN D
  BY <1>1, GraphFacts
<1>6. k = Exchanged(g, g.rules, g.links, D, g.influences)
  BY DEF Exchanged
<1>9. Left(g.influences, r) = Match[r]
  <2>1. Taken({}, r) = {}
    BY DEF Taken
  <2>2. Match[r].headers \ Taken(Uppers(g.influences, r), r) = Match[r].headers
    BY <2>1
  <2>3. Match[r] = [port |-> Match[r].port, headers |-> Match[r].headers]
    BY <1>1 DEF Space
  <2> QED BY <2>2, <2>3 DEF Left
<1>7. /\ DOMAIN D = Special \cup (V \cup {r}) /\ D[r] = Match[r]
      /\ \A v \in Special \cup V : D[v] = g.domain[v]
  <2>1. r \in V => g.domain[r] = Match[r]
    BY <1>9 DEF Tidy
  <2> QED BY <1>1, <2>1
<1> HIDE DEF h, k, D
<1>8. /\ h \in Graph
      /\ h.rules = g.rules /\ h.links = g.links /\ h.domain = D
      /\ h.influences = g.influences /\ h.edges = g.edges
      /\ h.doubled = g.doubled
  BY <1>1, <1>2, <1>3, <1>4, <1>5, <1>6, ExchangeFacts
<1>10. Tidy(h, V \cup {r})
  BY <1>1, <1>7, <1>8, <1>9 DEF Tidy
<1> QED BY <1>7, <1>8, <1>10 DEF Alike, h

(* What DependencyGraph::addRule does before it turns to the ways into the *)
(* new rule.                                                               *)
RuleOut(g, r) == AddOutEdges(AddVertex(g, r), r)

LEMMA RuleOutFacts ==
  ASSUME NEW g, NEW V, Tidy(g, V), NEW r \in TableRule,
         Uppers(g.influences, r) = {},
         g.rules \subseteq V \cup {r} \/ DOMAIN g.links = {}
  PROVE  /\ Adds(AddVertex(g, r), RuleOut(g, r), OutWays(AddVertex(g, r), r))
         /\ Tidy(RuleOut(g, r), V \cup {r}) /\ Alike(g, RuleOut(g, r))
         /\ RuleOut(g, r).doubled = g.doubled
<1> DEFINE h == AddVertex(g, r)
           k == RuleOut(g, r)
<1>1. /\ Tidy(h, V \cup {r}) /\ Alike(g, h) /\ h.doubled = g.doubled
  BY AddVertexFacts
<1> HIDE DEF h
<1>2. h \in Graph /\ r \in DOMAIN h.domain
  BY <1>1 DEF Tidy
<1>3. h.rules \subseteq V \cup {r} \/ DOMAIN h.links = {}
  BY <1>1 DEF Alike
<1>4. \A o \in Outputs : Receivers(h, o) \in Seq(DOMAIN h.domain)
  BY <1>1, <1>3, ReceiversFacts
<1>5. Adds(h, AddOutEdges(h, r), OutWays(h, r))
  BY <1>2, <1>4, AddOutEdgesAdds
<1>6. k = AddOutEdges(h, r)
  BY DEF RuleOut, h
<1> HIDE DEF k
<1>7. Kept(h, k) /\ k.doubled = h.doubled
  BY <1>5, <1>6 DEF Adds
<1>8. Tidy(k, V \cup {r})
  BY <1>1, <1>7, SameTidy
<1>9. Alike(g, k)
  BY <1>1, <1>7 DEF Kept, Alike
<1> QED BY <1>1, <1>5, <1>6, <1>7, <1>8, <1>9 DEF h, k

LEMMA SourcesIn ==
  ASSUME NEW g, NEW V, Tidy(g, V), NEW p \in Ports
  PROVE  Source(p) \in DOMAIN g.domain
BY DEF Tidy, Special

(* A table miss is added.                                                  *)
LEMMA AddMissFacts ==
  ASSUME NEW g, NEW V, Tidy(g, V), NEW r \in TableRule,
         Uppers(g.influences, r) = {}, Kind(r) = "miss",
         g.rules \subseteq V \cup {r} \/ DOMAIN g.links = {}
  PROVE  LET k == AddMissEdges(RuleOut(g, r), r)
             h == GraphAddRule(g, r)
         IN  /\ h = Finish(k) /\ Adds(RuleOut(g, r), k, MissWays(r))
             /\ Tidy(h, V \cup {r}) /\ Alike(g, h) /\ h.doubled = g.doubled
<1> DEFINE j == RuleOut(g, r)
           k == AddMissEdges(j, r)
           h == GraphAddRule(g, r)
<1>1. h = Finish(k)
  BY DEF GraphAddRule, RuleOut
<1>2. Tidy(j, V \cup {r}) /\ Alike(g, j) /\ j.doubled = g.doubled
  BY RuleOutFacts
<1> HIDE DEF j, h
<1>3. j \in Graph /\ r \in DOMAIN j.domain
  BY <1>2 DEF Tidy
<1>4. Adds(j, k, MissWays(r))
  BY <1>2, <1>3, SourcesIn, AddMissEdgesAdds
<1> HIDE DEF k
<1>5. Kept(j, k) /\ k.doubled = j.doubled /\ k \in Graph
  BY <1>4 DEF Adds, Kept
<1>6. Kept(k, h) /\ h.doubled = k.doubled
  BY <1>1, <1>5, FinishFacts
<1>7. Kept(j, h)
  BY <1>5, <1>6, KeptFacts
<1>8. Tidy(h, V \cup {r})
  BY <1>2, <1>7, SameTidy
<1>9. Alike(g, h)
  BY <1>2, <1>7 DEF Kept, Alike
<1> QED BY <1>1, <1>2, <1>4, <1>5, <1>6, <1>8, <1>9 DEF h, k, j

LEMMA NoUppers ==
  ASSUME NEW V, NEW r
  PROVE  Uppers(Pairs(V \ {r}), r) = {}
BY DEF Uppers, Pairs

(* A rule of a controller is added.                                        *)
LEMMA AddFlowFacts ==
  ASSUME NEW g, NEW V, NEW r \in V, V \subseteq TableRule,
         Tidy(g, V \ {r}), g.rules = V, g.influences = Pairs(V \ {r}), Kind(r) # "miss"
  PROVE  LET k == AddInEdges(RuleOut(g, r), r)
             h == GraphAddRule(g, r)
         IN  /\ h = Finish(k)
             /\ Tidy(k, V) /\ k.rules = V /\ k.links = g.links
             /\ k.influences = Pairs(V)
             /\ Settled(h) /\ h.rules = V /\ h.links = g.links
             /\ h.doubled = g.doubled
<1> DEFINE j == RuleOut(g, r)
           k == AddInEdges(j, r)
           h == GraphAddRule(g, r)
<1>1. h = Finish(k)
  BY DEF GraphAddRule, RuleOut
<1>2. Tidy(j, V) /\ Alike(g, j) /\ j.doubled = g.doubled
  <2>1. Uppers(g.influences, r) = {}
    BY NoUppers
  <2>2. (V \ {r}) \cup {r} = V
    OBVIOUS
  <2>3. r \in TableRule /\ r \notin V \ {r} /\ g.rules \subseteq (V \ {r}) \cup {r}
    OBVIOUS
  <2>4. /\ Tidy(j, (V \ {r}) \cup {r}) /\ Alike(g, j) /\ j.doubled = g.doubled
    BY <2>1, <2>3, RuleOutFacts
  <2> QED BY <2>2, <2>4
<1> HIDE DEF j, h
<1>3. j.rules = V /\ j.links = g.links /\ j.influences = Pairs(V \ {r})
  BY <1>2 DEF Alike
<1>4. /\ Tidy(k, V) /\ k.rules = V /\ k.links = j.links /\ k.doubled = j.doubled
      /\ k.influences = Pairs(V)
  BY <1>2, <1>3, AddInTidy
<1> HIDE DEF k
<1>5. k \in Graph
  BY <1>4 DEF Tidy
<1>6. Kept(k, h) /\ h.doubled = k.doubled
  BY <1>1, <1>5, FinishFacts
<1>7. Tidy(h, V)
  BY <1>4, <1>6, SameTidy
<1>8. h.rules = V /\ h.links = g.links /\ h.influences = Pairs(V)
  BY <1>3, <1>4, <1>6 DEF Kept
<1>9. Settled(h)
  BY <1>7, <1>8 DEF Settled
<1> QED BY <1>1, <1>2, <1>3, <1>4, <1>6, <1>8, <1>9 DEF h, k, j

(***************************************************************************)
(* GraphDeleteRule.                                                        *)
(***************************************************************************)
GivingAll == INSTANCE FoldFacts WITH Op <- LAMBDA r, o, j, q : GiveBack(j, r, q)

LEMMA GivingAllFold ==
  \A r, h, s : FoldLeft(LAMBDA j, q : GiveBack(j, r, q), h, s) = GivingAll!Fold(r, 0, h, s)
BY Zenon DEF GivingAll!Fold, FoldLeft, MapThenFoldSet,
             GivingAll!MapThenFoldSet, Max, GivingAll!Largest

(* The steps of DependencyGraph::deleteRule.                               *)
Leaving(g, r) == DeleteOutEdges(g, r, "removed")
LowerRules(g, r) == {q \in g.rules : <<r, q>> \in g.influences}
GivenAll(g, r) == GivingAll!Fold(r, 0, Leaving(g, r), Descending(LowerRules(g, r)))
Emptied(g, r) == DeleteInEdges(GivenAll(g, r), r, "removedDependent")

LEMMA GraphDeleteRuleSteps ==
  \A g, r : GraphDeleteRule(g, r) = Finish(DeleteVertex(Emptied(g, r), r))
<1> TAKE g, r
<1>1. LowerRules(Leaving(g, r), r) = LowerRules(g, r)
  BY DEF LowerRules, Leaving, DeleteOutEdges, RemoveEdges
<1>2. {q \in g.rules : <<r, q>> \in g.influences} = LowerRules(g, r)
  BY DEF LowerRules
<1> QED BY <1>2, GivingAllFold, Zenon DEF GraphDeleteRule, Emptied, GivenAll, Leaving

LEMMA LeavingFacts ==
  ASSUME NEW g \in Graph, NEW r
  PROVE  /\ Kept(g, Leaving(g, r)) /\ Leaving(g, r).doubled = g.doubled
         /\ ToSet(Leaving(g, r).edges) = {e \in ToSet(g.edges) : e.src # r}
<1> DEFINE h == Leaving(g, r)
<1>1. /\ Kept(g, h) /\ h.doubled = g.doubled
      /\ ToSet(h.edges) = {g.edges[i] : i \in DOMAIN g.edges \ OutEdges(g, r)}
  BY RemoveEdgesFacts DEF Leaving, DeleteOutEdges
<1>2. {g.edges[i] : i \in DOMAIN g.edges \ OutEdges(g, r)} = {e \in ToSet(g.edges) : e.src # r}
  BY DEF OutEdges, ToSet
<1> QED BY <1>1, <1>2

LEMMA InEdgesGone ==
  ASSUME NEW g \in Graph, NEW r, NEW list \in {"removed", "removedDependent"}
  PROVE  LET h == DeleteInEdges(g, r, list)
         IN  /\ Kept(g, h) /\ h.doubled = g.doubled
             /\ ToSet(h.edges) = {e \in ToSet(g.edges) : e.dst # r}
<1> DEFINE h == DeleteInEdges(g, r, list)
<1>1. /\ Kept(g, h) /\ h.doubled = g.doubled
      /\ ToSet(h.edges) = {g.edges[i] : i \in DOMAIN g.edges \ InEdges(g, r)}
  BY RemoveEdgesFacts DEF DeleteInEdges
<1>2. {g.edges[i] : i \in DOMAIN g.edges \ InEdges(g, r)} = {e \in ToSet(g.edges) : e.dst # r}
  BY DEF InEdges, ToSet
<1> QED BY <1>1, <1>2

(* What the fold keeps, when the lower rules of Q have got back theirs.    *)
GivenOff(g, t, r, Q) ==
  /\ Tidy(t, g.rules) /\ t.rules = g.rules /\ t.links = g.links
  /\ t.doubled = g.doubled
  /\ t.influences = Pairs(g.rules) \ {<<r, x>> : x \in Q}
  /\ \A e \in ToSet(t.edges) : e.src # r

LEMMA GivenStep ==
  ASSUME NEW g, NEW r, NEW t, NEW Q, GivenOff(g, t, r, Q),
         NEW q \in g.rules, <<r, q>> \in Pairs(g.rules)
  PROVE  /\ GivenOff(g, GiveBack(t, r, q), r, Q \cup {q}) /\ CanGive(t, r, q)
         /\ Gave(t, GiveBack(t, r, q), r, q)
<1> DEFINE m == GiveBack(t, r, q)
<1>1. /\ r \in g.rules /\ Over(r, q) /\ Tidy(t, g.rules) /\ t.rules = g.rules
      /\ g.rules \subseteq TableRule
  BY PairsFacts DEF GivenOff, Tidy
<1>2. r # q
  BY <1>1, PairsFacts
<1>3. CanGive(t, r, q)
  BY <1>1, <1>2 DEF Tidy, CanGive, Kempt
<1>4. Gave(t, m, r, q)
  BY <1>3, GiveBackFacts
<1>5. Tidy(m, g.rules)
  BY <1>1, <1>2, GiveBackTidy
<1> HIDE DEF m
<1>6. /\ m.rules = t.rules /\ m.links = t.links /\ m.doubled = t.doubled
      /\ m.influences = t.influences \ {<<r, q>>}
      /\ \A e \in ToSet(m.edges) :
       \/ e \in ToSet(t.edges)
       \/ \E x \in ToSet(t.edges) : x.dst = q /\ e = EdgeOf(m, Way(x))
       \/ \E x \in ToSet(t.edges) : x.dst = r /\ e = EdgeOf(m, GivenWay(q, x))
  BY <1>4 DEF Gave
<1>7. \A x : EdgeOf(m, Way(x)).src = x.src /\ EdgeOf(m, GivenWay(q, x)).src = x.src
  BY DEF EdgeOf, Way, GivenWay
<1>8. \A e \in ToSet(m.edges) : e.src # r
  BY <1>6, <1>7 DEF GivenOff
<1>9. m.influences = Pairs(g.rules) \ {<<r, x>> : x \in Q \cup {q}}
  <2>1. {<<r, x>> : x \in Q \cup {q}} = {<<r, x>> : x \in Q} \cup {<<r, q>>}
    OBVIOUS
  <2> QED BY <1>6, <2>1 DEF GivenOff
<1>10. GivenOff(g, m, r, Q \cup {q})
  BY <1>5, <1>6, <1>8, <1>9 DEF GivenOff
<1> QED BY <1>3, <1>4, <1>10 DEF m

LEMMA LowerRulesFacts ==
  ASSUME NEW g, Settled(g), NEW r
  PROVE  /\ Descending(LowerRules(g, r)) \in Seq(LowerRules(g, r))
         /\ ToSet(Descending(LowerRules(g, r))) = LowerRules(g, r)
         /\ LowerRules(g, r) = {q \in g.rules : <<r, q>> \in Pairs(g.rules)}
<1>1. LowerRules(g, r) \in SUBSET g.rules /\ \A q \in LowerRules(g, r) : Switch[q] = Switch[r]
  BY PairsFacts DEF LowerRules, Settled, Over
<1>2. g.rules \in SUBSET TableRule /\ Distinct(g.rules)
  BY DEF Settled, Tidy
<1>3. LowerRules(g, r) = {q \in g.rules : <<r, q>> \in Pairs(g.rules)}
  BY DEF LowerRules, Settled
<1> QED BY <1>1, <1>2, <1>3, TableFacts

LEMMA LeavingOff ==
  ASSUME NEW g, Settled(g), NEW r
  PROVE  GivenOff(g, Leaving(g, r), r, {})
<1> DEFINE h == Leaving(g, r)
<1>1. g \in Graph /\ Tidy(g, g.rules) /\ g.influences = Pairs(g.rules)
  BY DEF Settled, Tidy
<1>2. /\ Kept(g, h) /\ h.doubled = g.doubled
      /\ ToSet(h.edges) = {e \in ToSet(g.edges) : e.src # r}
  BY <1>1, LeavingFacts
<1> HIDE DEF h
<1>3. Tidy(h, g.rules)
  BY <1>1, <1>2, SameTidy
<1>4. {<<r, x>> : x \in {}} = {}
  OBVIOUS
<1>5. GivenOff(g, h, r, {})
  BY <1>1, <1>2, <1>3, <1>4 DEF GivenOff, Kept
<1> QED BY <1>5 DEF h

LEMMA GivenAllFacts ==
  ASSUME NEW g, Settled(g), NEW r
  PROVE  GivenOff(g, GivenAll(g, r), r, LowerRules(g, r))
<1> DEFINE L == LowerRules(g, r)
           h == Leaving(g, r)
           Z == {z \in Seq(L) \X Graph : GivenOff(g, z[2], r, ToSet(z[1]))}
<1>1. GivenOff(g, h, r, {})
  BY LeavingOff
<1>2. <<<<>>, h>> \in Z
  <2>1. h \in Graph
    BY <1>1 DEF GivenOff, Tidy
  <2>2. <<>> \in Seq(L) /\ ToSet(<<>>) = {}
    BY EmptyElements
  <2> HIDE DEF h, L
  <2> QED BY <1>1, <2>1, <2>2
<1>3. ASSUME NEW t, NEW q \in Seq(L), NEW x \in L, <<q, t>> \in Z
      PROVE  <<Append(q, x), GiveBack(t, r, x)>> \in Z
  <2> DEFINE m == GiveBack(t, r, x)
  <2>1. GivenOff(g, t, r, ToSet(q))
    BY <1>3
  <2>2. Append(q, x) \in Seq(L) /\ ToSet(Append(q, x)) = ToSet(q) \cup {x}
    BY AppendedElements
  <2>4. x \in g.rules /\ <<r, x>> \in Pairs(g.rules)
    BY LowerRulesFacts
  <2>3. GivenOff(g, m, r, ToSet(q) \cup {x})
    BY <2>1, <2>4, GivenStep
  <2> HIDE DEF m, L
  <2>5. m \in Graph
    BY <2>3 DEF GivenOff, Tidy
  <2>6. <<Append(q, x), m>> \in Z
    BY <2>2, <2>3, <2>5
  <2> QED BY <2>6 DEF m
<1>4. Descending(L) \in Seq(L) /\ ToSet(Descending(L)) = L
  BY LowerRulesFacts
<1> DEFINE k == GivenAll(g, r)
<1>5. k = GivingAll!Fold(r, 0, h, Descending(L))
  BY DEF GivenAll
<1> HIDE DEF Z, L, h, k
<1>6. <<Descending(L), GivingAll!Fold(r, 0, h, Descending(L))>> \in Z
  BY <1>2, <1>3, <1>4, GivingAll!FoldSteps, NaturalInduction
        DEF GivingAll!Induction
<1>7. GivenOff(g, k, r, L)
  BY <1>4, <1>5, <1>6 DEF Z
<1> QED BY <1>7 DEF k, L

LEMMA DeleteVertexFacts ==
  ASSUME NEW g, NEW t, NEW r \in TableRule, GivenOff(g, t, r, LowerRules(g, r)),
         Settled(g), \A e \in ToSet(t.edges) : e.dst # r
  PROVE  LET h == DeleteVertex(t, r)
         IN  /\ Tidy(h, g.rules \ {r}) /\ h.rules = g.rules /\ h.links = g.links
             /\ h.doubled = g.doubled /\ h.edges = t.edges
             /\ h.influences = Pairs(g.rules \ {r})
             /\ \A v \in Special \cup (g.rules \ {r}) : h.domain[v] = t.domain[v]
<1> DEFINE D == [u \in DOMAIN t.domain \ {r} |-> t.domain[u]]
           I == {pair \in t.influences : r \notin {pair[1], pair[2]}}
           h == DeleteVertex(t, r)
           k == [t EXCEPT !.rules = t.rules, !.links = t.links, !.domain = D, !.influences = I]
<1>1. /\ t \in Graph /\ Distinct(t.rules) /\ t.rules = g.rules
      /\ g.rules \subseteq TableRule
      /\ DOMAIN t.domain = Special \cup g.rules
      /\ \A v \in Special : t.domain[v] = Match[v]
      /\ \A v \in g.rules : t.domain[v] = Left(t.influences, v)
      /\ r \notin Special
  BY SpecialFacts DEF GivenOff, Tidy
<1>2. t.rules \in SUBSET TableRule /\ t.links \in Links /\ t.domain \in Domains
      /\ t.influences \in SUBSET (TableRule \X TableRule)
  BY <1>1 DEF Graph
<1>3. D \in Domains
  <2>1. DOMAIN t.domain \subseteq Vertices /\ \A v \in DOMAIN t.domain : t.domain[v] \in Space
    BY <1>2, DomainsFacts
  <2>2. DOMAIN D \subseteq Vertices /\ \A v \in DOMAIN D : D[v] \in Space
    BY <2>1
  <2>3. D \in [DOMAIN D -> Space]
    BY <2>2
  <2> HIDE DEF D
  <2> QED BY <2>2, <2>3, DomainsFacts
<1>4. h = k
  BY <1>1 DEF DeleteVertex, Graph
<1>5. \A e \in ToSet(t.edges) : e.src \in DOMAIN D /\ e.dst \in DOMAIN D
  BY <1>1, GraphFacts DEF GivenOff
<1>6. k = Exchanged(t, t.rules, t.links, D, I)
  BY DEF Exchanged
<1>7. /\ DOMAIN D = Special \cup (g.rules \ {r})
      /\ \A v \in Special \cup (g.rules \ {r}) : D[v] = t.domain[v]
  BY <1>1
<1>8. I = Pairs(g.rules \ {r})
  <2>1. t.influences = Pairs(g.rules) \ {<<r, x>> : x \in LowerRules(g, r)}
    BY DEF GivenOff
  <2>2. I \subseteq Pairs(g.rules \ {r})
    BY <2>1 DEF Pairs
  <2>3. Pairs(g.rules \ {r}) \subseteq I
    BY <2>1 DEF Pairs
  <2> QED BY <2>2, <2>3
<1>9. I \in SUBSET (TableRule \X TableRule)
  BY <1>2
<1>10. \A v \in g.rules \ {r} : Uppers(I, v) = Uppers(t.influences, v)
  <2>1. \A v \in g.rules \ {r} : <<r, v>> \notin t.influences
    BY LowerRulesFacts DEF GivenOff
  <2> QED BY <2>1 DEF Uppers
<1> HIDE DEF h, k, D, I
<1>11. /\ h \in Graph
       /\ h.rules = t.rules /\ h.links = t.links /\ h.domain = D
       /\ h.influences = I /\ h.edges = t.edges /\ h.doubled = t.doubled
  BY <1>1, <1>2, <1>3, <1>4, <1>5, <1>6, <1>9, ExchangeFacts
<1>12. \A v \in g.rules \ {r} : Left(I, v) = Left(t.influences, v)
  BY <1>10 DEF Left
<1>13. Pairs(g.rules \ {r}) \subseteq Pairs(g.rules)
  BY DEF Pairs
<1>14. Tidy(h, g.rules \ {r})
  BY <1>1, <1>7, <1>8, <1>11, <1>12, <1>13 DEF Tidy
<1>15. h.rules = g.rules /\ h.links = g.links /\ h.doubled = g.doubled
  BY <1>11 DEF GivenOff
<1> QED BY <1>7, <1>8, <1>11, <1>14, <1>15 DEF h

LEMMA DeleteRuleFacts ==
  ASSUME NEW g, Settled(g), NEW r \in TableRule
  PROVE  LET k == DeleteVertex(Emptied(g, r), r)
             h == GraphDeleteRule(g, r)
         IN  /\ h = Finish(k)
             /\ GivenOff(g, Emptied(g, r), r, LowerRules(g, r))
             /\ \A e \in ToSet(Emptied(g, r).edges) : e.dst # r
             /\ Tidy(k, g.rules \ {r})
             /\ Tidy(h, g.rules \ {r}) /\ h.rules = g.rules /\ h.links = g.links
             /\ h.doubled = g.doubled /\ h.influences = Pairs(g.rules \ {r})
<1> DEFINE i == GivenAll(g, r)
           j == Emptied(g, r)
           k == DeleteVertex(j, r)
           h == GraphDeleteRule(g, r)
<1>1. h = Finish(k)
  BY GraphDeleteRuleSteps
<1>2. GivenOff(g, i, r, LowerRules(g, r))
  BY GivenAllFacts
<1>10. j = DeleteInEdges(i, r, "removedDependent")
  BY DEF Emptied
<1> HIDE DEF h, i, j
<1>3. i \in Graph
  BY <1>2 DEF GivenOff, Tidy
<1>4. /\ Kept(i, j) /\ j.doubled = i.doubled
      /\ ToSet(j.edges) = {e \in ToSet(i.edges) : e.dst # r}
  BY <1>3, <1>10, InEdgesGone
<1>5. Tidy(j, g.rules)
  BY <1>2, <1>4, SameTidy DEF GivenOff
<1>6. GivenOff(g, j, r, LowerRules(g, r)) /\ \A e \in ToSet(j.edges) : e.dst # r
  BY <1>2, <1>4, <1>5 DEF GivenOff, Kept
<1>7. /\ Tidy(k, g.rules \ {r}) /\ k.rules = g.rules /\ k.links = g.links
      /\ k.doubled = g.doubled
      /\ k.influences = Pairs(g.rules \ {r})
  BY <1>6, DeleteVertexFacts
<1> HIDE DEF k
<1>8. Kept(k, h) /\ h.doubled = k.doubled
  BY <1>1, <1>7, FinishFacts DEF Tidy
<1>9. Tidy(h, g.rules \ {r})
  BY <1>7, <1>8, SameTidy
<1> QED BY <1>1, <1>6, <1>7, <1>8, <1>9 DEF h, k, j, Kept

(***************************************************************************)
(* LinkDirected, one direction of a link that comes.                       *)
(***************************************************************************)
(* The ways over a link from port p to port q.                             *)
Over1(g, q, r) == {<<r, x, q>> : x \in ToSet(DstRules(g, q))}
LinkWays(g, p, q) == UNION {Over1(g, q, r) : r \in ToSet(SrcRules(g, p))}

Unplugged(g, p, q) == DeleteOutEdges(DeleteInEdges(g, Sink(p), "removed"), Source(q), "removed")

Linking == INSTANCE FoldFacts WITH Op <- LAMBDA q, o, k, r : AddEdges(k, r, DstRules(k, q), q)

LEMMA LinkingFold ==
  \A g, p, q : LinkDirected(g, p, q)
                 = Linking!Fold(q, 0, Unplugged(g, p, q), SrcRules(Unplugged(g, p, q), p))
BY Zenon DEF LinkDirected, Unplugged, Linking!Fold, FoldLeft,
             MapThenFoldSet, Linking!MapThenFoldSet, Max, Linking!Largest

LEMMA UnpluggedFacts ==
  ASSUME NEW g \in Graph, NEW p, NEW q
  PROVE  LET h == Unplugged(g, p, q)
         IN  /\ Kept(g, h) /\ h.doubled = g.doubled
             /\ ToSet(h.edges) = {e \in ToSet(g.edges) : e.dst # Sink(p) /\ e.src # Source(q)}
<1> DEFINE j == DeleteInEdges(g, Sink(p), "removed")
           h == Unplugged(g, p, q)
<1>1. /\ Kept(g, j) /\ j.doubled = g.doubled
      /\ ToSet(j.edges) = {e \in ToSet(g.edges) : e.dst # Sink(p)}
  BY InEdgesGone
<1>2. h = Leaving(j, Source(q))
  BY DEF Unplugged, Leaving
<1> HIDE DEF j, h
<1>3. /\ Kept(j, h) /\ h.doubled = j.doubled
      /\ ToSet(h.edges) = {e \in ToSet(j.edges) : e.src # Source(q)}
  BY <1>1, <1>2, LeavingFacts DEF Kept
<1>4. Kept(g, h)
  BY <1>1, <1>3, KeptFacts
<1> QED BY <1>1, <1>3, <1>4 DEF h

(* A rule of the tables is a vertex, and so is every special vertex.       *)
LEMMA SettledFacts ==
  ASSUME NEW g, Settled(g)
  PROVE  /\ g \in Graph /\ Distinct(g.rules) /\ g.rules \subseteq TableRule
         /\ DOMAIN g.domain = Special \cup g.rules
         /\ \A p \in Ports : Source(p) \in DOMAIN g.domain /\ Sink(p) \in DOMAIN g.domain
         /\ \A p \in Ports : /\ SrcRules(g, p) \in Seq(g.rules)
                             /\ DstRules(g, p) \in Seq(g.rules)
                             /\ DstRules(g, p) \in Seq(DOMAIN g.domain)
<1>1. /\ g \in Graph /\ Distinct(g.rules) /\ g.rules \subseteq TableRule
      /\ DOMAIN g.domain = Special \cup g.rules
  BY DEF Settled, Tidy
<1>2. \A p \in Ports : Source(p) \in Special /\ Sink(p) \in Special
  BY VertexFacts DEF Special
<1>3. ASSUME NEW p \in Ports
      PROVE  /\ SrcRules(g, p) \in Seq(g.rules)
             /\ DstRules(g, p) \in Seq(g.rules)
             /\ DstRules(g, p) \in Seq(DOMAIN g.domain)
  <2> DEFINE d == DstRules(g, p)
  <2>1. SrcRules(g, p) \in Seq(g.rules) /\ d \in Seq(g.rules)
    BY <1>1, SrcRulesFacts, DstRulesFacts
  <2>2. g.rules \subseteq DOMAIN g.domain
    BY <1>1
  <2> HIDE DEF d
  <2>3. d \in Seq(DOMAIN g.domain)
    BY <2>1, <2>2
  <2> QED BY <2>1, <2>3 DEF d
<1> QED BY <1>1, <1>2, <1>3

LEMMA SettledKept ==
  ASSUME NEW g, NEW h, Settled(g), Kept(g, h)
  PROVE  Settled(h)
BY SameTidy DEF Settled, Kept

LEMMA LinkDirectedFacts ==
  ASSUME NEW g, Settled(g), NEW p \in Ports, NEW q \in Ports
  PROVE  LET h == LinkDirected(g, p, q)
         IN  /\ Kept(g, h) /\ h.doubled = g.doubled
             /\ ToSet(h.edges) =
                  {e \in ToSet(g.edges) : e.dst # Sink(p) /\ e.src # Source(q)}
                    \cup Carrying(g, LinkWays(g, p, q))
<1> DEFINE j == Unplugged(g, p, q)
           h == LinkDirected(g, p, q)
           R == SrcRules(j, p)
           W(s) == UNION {Over1(j, q, r) : r \in ToSet(s)}
           Z == {z \in Seq(j.rules) \X Graph : Adds(j, z[2], W(z[1]))}
<1>1. /\ Kept(g, j) /\ j.doubled = g.doubled
      /\ ToSet(j.edges) = {e \in ToSet(g.edges) : e.dst # Sink(p) /\ e.src # Source(q)}
  BY SettledFacts, UnpluggedFacts
<1>2. h = Linking!Fold(q, 0, j, R)
  BY LinkingFold
<1> HIDE DEF h, j
<1>3. Settled(j) /\ j \in Graph
  BY <1>1, SettledKept DEF Kept
<1>4. R \in Seq(j.rules)
  BY <1>3, SettledFacts
<1> HIDE DEF R
<1>5. <<<<>>, j>> \in Z
  <2>1. W(<<>>) = {} /\ <<>> \in Seq(j.rules)
    BY EmptyElements
  <2>2. Adds(j, j, {})
    BY <1>3, AddsFacts
  <2> QED BY <1>3, <2>1, <2>2
<1>6. ASSUME NEW k, NEW s \in Seq(j.rules), NEW r \in j.rules, <<s, k>> \in Z
      PROVE  <<Append(s, r), AddEdges(k, r, DstRules(k, q), q)>> \in Z
  <2> DEFINE m == AddEdges(k, r, DstRules(k, q), q)
  <2>1. k \in Graph /\ Adds(j, k, W(s))
    BY <1>6
  <2>2. Kept(j, k) /\ Settled(k)
    BY <1>3, <2>1, SettledKept DEF Adds
  <2>3. DstRules(k, q) = DstRules(j, q)
    BY <2>2, SameWays
  <2>4. DstRules(k, q) \in Seq(DOMAIN k.domain) /\ r \in DOMAIN k.domain
    BY <2>2, SettledFacts DEF Kept
  <2>5. Adds(k, m, Over1(j, q, r))
    BY <2>1, <2>3, <2>4, AddEdgesAdds DEF Over1
  <2>6. Append(s, r) \in Seq(j.rules) /\ ToSet(Append(s, r)) = ToSet(s) \cup {r}
    BY AppendedElements
  <2>7. W(Append(s, r)) = W(s) \cup Over1(j, q, r)
    BY <2>6
  <2> HIDE DEF m, W
  <2>8. Adds(j, m, W(Append(s, r))) /\ m \in Graph
    BY <2>1, <2>5, <2>7, AddsFacts DEF Adds, Kept
  <2>9. <<Append(s, r), m>> \in Z
    BY <2>6, <2>8
  <2> QED BY <2>9 DEF m
<1> HIDE DEF Z
<1>7. <<R, Linking!Fold(q, 0, j, R)>> \in Z
  BY <1>4, <1>5, <1>6, Linking!FoldSteps, NaturalInduction
        DEF Linking!Induction
<1>8. Adds(j, h, W(R))
  BY <1>2, <1>7 DEF Z
<1>9. W(R) = LinkWays(g, p, q)
  BY <1>1, SameWays DEF R, LinkWays, Over1
<1>10. Carrying(j, W(R)) = Carrying(g, W(R))
  BY <1>1, SameWays
<1> HIDE DEF W
<1>11. Kept(j, h) /\ h.doubled = j.doubled
       /\ ToSet(h.edges) = ToSet(j.edges) \cup Carrying(j, W(R))
  BY <1>8 DEF Adds
<1>12. Kept(g, h)
  BY <1>1, <1>11, KeptFacts
<1>13. ToSet(h.edges) =
          {e \in ToSet(g.edges) : e.dst # Sink(p) /\ e.src # Source(q)}
                    \cup Carrying(g, LinkWays(g, p, q))
  BY <1>1, <1>9, <1>10, <1>11
<1> QED BY <1>1, <1>11, <1>12, <1>13 DEF h

(***************************************************************************)
(* UnlinkDirected, one direction of a link that goes.                      *)
(***************************************************************************)
(* The edges from r to the vertices of X have been deleted.                *)
Dropped(g, k, r, X) ==
  /\ Kept(g, k)
  /\ ToSet(k.edges) \subseteq ToSet(g.edges)
  /\ \A e \in ToSet(g.edges) : e.src # r \/ e.dst \notin X => e \in ToSet(k.edges)
  /\ ~k.doubled => \A e \in ToSet(k.edges) : e.src # r \/ e.dst \notin X

Dropping == INSTANCE FoldFacts WITH Op <- LAMBDA r, o, j, dst : DeleteEdge(j, r, dst)

LEMMA DroppedStep ==
  ASSUME NEW g, NEW k, NEW r \in Vertices, NEW X, Dropped(g, k, r, X), NEW x \in Vertices
  PROVE  Dropped(g, DeleteEdge(k, r, x), r, X \cup {x})
<1> DEFINE m == DeleteEdge(k, r, x)
<1>1. Kept(g, k) /\ k \in Graph
  BY DEF Dropped, Kept
<1>2. /\ Kept(k, m)
      /\ ToSet(m.edges) \subseteq ToSet(k.edges)
      /\ \A e \in ToSet(k.edges) : e.src # r \/ e.dst # x => e \in ToSet(m.edges)
      /\ ~m.doubled => \A e \in ToSet(m.edges) : e.src # r \/ e.dst # x
  BY <1>1, DeleteEdgeFacts
<1> HIDE DEF m
<1>3. Kept(g, m)
  BY <1>1, <1>2, KeptFacts
<1>4. ~m.doubled => ~k.doubled
  BY <1>2 DEF Kept
<1>5. ToSet(m.edges) \subseteq ToSet(g.edges)
  BY <1>2 DEF Dropped
<1>6. ASSUME NEW e \in ToSet(g.edges), e.src # r \/ e.dst \notin X \cup {x}
      PROVE  e \in ToSet(m.edges)
  <2>1. e \in ToSet(k.edges)
    BY <1>6 DEF Dropped
  <2> QED BY <1>2, <1>6, <2>1
<1>7. ASSUME ~m.doubled, NEW e \in ToSet(m.edges) PROVE e.src # r \/ e.dst \notin X \cup {x}
  <2>1. e.src # r \/ e.dst \notin X
    BY <1>2, <1>4, <1>7 DEF Dropped
  <2>2. e.src # r \/ e.dst # x
    BY <1>2, <1>7
  <2> QED BY <2>1, <2>2
<1>8. Dropped(g, m, r, X \cup {x})
  BY <1>3, <1>5, <1>6, <1>7 DEF Dropped
<1> QED BY <1>8 DEF m

LEMMA DropFacts ==
  ASSUME NEW g \in Graph, NEW r \in Vertices, NEW s \in Seq(Vertices)
  PROVE  Dropped(g, Dropping!Fold(r, 0, g, s), r, ToSet(s))
<1> DEFINE Z == {z \in Seq(Vertices) \X Graph : Dropped(g, z[2], r, ToSet(z[1]))}
<1>1. <<<<>>, g>> \in Z
  <2>1. Dropped(g, g, r, {})
    BY KeptFacts DEF Dropped
  <2>2. <<>> \in Seq(Vertices) /\ ToSet(<<>>) = {}
    BY EmptyElements
  <2> QED BY <2>1, <2>2
<1>2. ASSUME NEW k, NEW q \in Seq(Vertices), NEW x \in Vertices, <<q, k>> \in Z
      PROVE  <<Append(q, x), DeleteEdge(k, r, x)>> \in Z
  <2> DEFINE m == DeleteEdge(k, r, x)
  <2>1. Dropped(g, k, r, ToSet(q))
    BY <1>2
  <2>2. Append(q, x) \in Seq(Vertices) /\ ToSet(Append(q, x)) = ToSet(q) \cup {x}
    BY AppendedElements
  <2>3. Dropped(g, m, r, ToSet(q) \cup {x})
    BY <2>1, DroppedStep
  <2> HIDE DEF m
  <2>4. m \in Graph
    BY <2>3 DEF Dropped, Kept
  <2>5. <<Append(q, x), m>> \in Z
    BY <2>2, <2>3, <2>4
  <2> QED BY <2>5 DEF m
<1> HIDE DEF Z
<1>3. <<s, Dropping!Fold(r, 0, g, s)>> \in Z
  BY <1>1, <1>2, Dropping!FoldSteps, NaturalInduction
        DEF Dropping!Induction
<1> QED BY <1>3 DEF Z

----
(* The edges from the rules of R over a link have been deleted, and they   *)
(* have got edges to the sink of its port.                                 *)
SinkWays(p, R) == {<<r, Sink(p), p>> : r \in R}

Returned(g, k, p, D, R) ==
  /\ Kept(g, k)
  /\ ToSet(k.edges) \subseteq ToSet(g.edges) \cup Carrying(g, SinkWays(p, R))
  /\ Carrying(g, SinkWays(p, R)) \subseteq ToSet(k.edges)
  /\ \A e \in ToSet(g.edges) : e.src \notin R \/ e.dst \notin D => e \in ToSet(k.edges)
  /\ ~k.doubled => \A e \in ToSet(k.edges) : e.src \notin R \/ e.dst \notin D

Return(p, dsts, k, r) == AddEdge(Dropping!Fold(r, 0, k, dsts), r, Sink(p), p, "new")

Returning == INSTANCE FoldFacts WITH Op <- LAMBDA p, o, k, r : Return(p, o, k, r)

LEMMA ReturningFold ==
  \A p, dsts, g, s :
    FoldLeft(LAMBDA k, r :
               AddEdge(FoldLeft(LAMBDA j, dst : DeleteEdge(j, r, dst), k, dsts),
                          r, Sink(p), p, "new"), g, s) = Returning!Fold(p, dsts, g, s)
BY Zenon DEF Return, Dropping!Fold, Returning!Fold, FoldLeft,
             MapThenFoldSet, Dropping!MapThenFoldSet,
             Returning!MapThenFoldSet, Max, Dropping!Largest, Returning!Largest

LEMMA CarryingEnds ==
  ASSUME NEW g, NEW p, NEW R, NEW e \in Carrying(g, SinkWays(p, R))
  PROVE  e.src \in R /\ e.dst = Sink(p)
BY DEF Carrying, SinkWays, EdgeOf

LEMMA ReturnedStep ==
  ASSUME NEW g, NEW k, NEW p \in Ports, NEW dsts \in Seq(TableRule), NEW R,
         Returned(g, k, p, ToSet(dsts), R), Sink(p) \in DOMAIN g.domain,
         NEW r \in DOMAIN g.domain
  PROVE  Returned(g, Return(p, dsts, k, r), p, ToSet(dsts), R \cup {r})
<1> DEFINE D == ToSet(dsts)
           j == Dropping!Fold(r, 0, k, dsts)
           m == Return(p, dsts, k, r)
           w == <<r, Sink(p), p>>
<1>1. Kept(g, k) /\ k \in Graph /\ g.domain = k.domain
  BY DEF Returned, Kept
<1>2. dsts \in Seq(Vertices) /\ r \in Vertices /\ D \subseteq TableRule
  <2>1. TableRule \subseteq Vertices /\ DOMAIN k.domain \subseteq Vertices
    BY <1>1, VertexFacts, GraphFacts
  <2>2. D \subseteq TableRule
    BY DEF ToSet
  <2> QED BY <1>1, <2>1, <2>2
<1>3. Dropped(k, j, r, D)
  BY <1>1, <1>2, DropFacts
<1>4. m = AddEdge(j, r, Sink(p), p, "new")
  BY DEF Return
<1> HIDE DEF j, m
<1>5. Kept(k, j) /\ j \in Graph /\ Kept(g, j) /\ j.domain = g.domain
  BY <1>1, <1>3, KeptFacts DEF Dropped, Kept
<1>6. Adds(j, m, {w})
  BY <1>4, <1>5, AddEdgeAdds
<1>7. Kept(g, m) /\ m.doubled = j.doubled
  BY <1>5, <1>6, KeptFacts DEF Adds
<1> HIDE DEF w
<1> DEFINE U == {w}
<1>8. ToSet(m.edges) = ToSet(j.edges) \cup Carrying(g, U)
  <2>1. Carrying(j, U) = Carrying(g, U)
    BY <1>5, SameWays
  <2> QED BY <1>6, <2>1 DEF Adds
<1>9. SinkWays(p, R \cup {r}) = SinkWays(p, R) \cup U
  BY DEF SinkWays, w
<1>21. U = SinkWays(p, {r})
  BY DEF SinkWays, w
<1> HIDE DEF U, D
<1>10. Carrying(g, SinkWays(p, R \cup {r})) = Carrying(g, SinkWays(p, R)) \cup Carrying(g, U)
  <2> DEFINE A == SinkWays(p, R)
             B == SinkWays(p, R \cup {r})
  <2>1. B = A \cup U
    BY <1>9
  <2> HIDE DEF A, B
  <2>2. Carrying(g, B) = Carrying(g, A) \cup Carrying(g, U)
    BY <2>1, CarryingUnion
  <2> QED BY <2>2 DEF A, B
<1>11. \A e \in Carrying(g, SinkWays(p, R)) : e.src \in R /\ e.dst = Sink(p)
  BY CarryingEnds
<1>22. \A e \in Carrying(g, U) : e.src = r /\ e.dst = Sink(p)
  BY <1>21, CarryingEnds
<1>12. Sink(p) \notin D
  <2>1. Sink(p) \in Special
    BY VertexFacts DEF Special
  <2> QED BY <1>2, <2>1, SpecialFacts
<1>13. ToSet(m.edges) \subseteq ToSet(g.edges) \cup Carrying(g, SinkWays(p, R \cup {r}))
  BY <1>3, <1>8, <1>10 DEF Dropped, Returned, D
<1>14. Carrying(g, SinkWays(p, R \cup {r})) \subseteq ToSet(m.edges)
  BY <1>3, <1>8, <1>10, <1>11, <1>12 DEF Dropped, Returned, D
<1>15. ASSUME NEW e \in ToSet(g.edges), e.src \notin R \cup {r} \/ e.dst \notin D
       PROVE  e \in ToSet(m.edges)
  <2>1. e \in ToSet(k.edges)
    BY <1>15 DEF Returned, D
  <2>2. e \in ToSet(j.edges)
    BY <1>3, <1>15, <2>1 DEF Dropped
  <2> QED BY <1>8, <2>2
<1>16. ASSUME ~m.doubled, NEW e \in ToSet(m.edges)
       PROVE  e.src \notin R \cup {r} \/ e.dst \notin D
  <2>1. CASE e \in ToSet(j.edges)
    <3>1. ~j.doubled /\ ~k.doubled
      BY <1>5, <1>7, <1>16 DEF Kept
    <3>2. e \in ToSet(k.edges)
      BY <1>3, <2>1 DEF Dropped
    <3>3. e.src \notin R \/ e.dst \notin D
      BY <3>1, <3>2 DEF Returned, D
    <3>4. e.src # r \/ e.dst \notin D
      BY <1>3, <2>1, <3>1 DEF Dropped
    <3> QED BY <3>3, <3>4
  <2>2. CASE e \in Carrying(g, U)
    BY <1>12, <1>22, <2>2
  <2> QED BY <1>8, <1>16, <2>1, <2>2
<1>17. Returned(g, m, p, D, R \cup {r})
  BY <1>7, <1>13, <1>14, <1>15, <1>16 DEF Returned
<1> QED BY <1>17 DEF m, D

LEMMA ReturnedStart ==
  ASSUME NEW g \in Graph, NEW p, NEW D
  PROVE  Returned(g, g, p, D, {})
<1>1. SinkWays(p, {}) = {}
  BY DEF SinkWays
<1>2. Carrying(g, SinkWays(p, {})) = {}
  BY <1>1, CarryingNone
<1> QED BY <1>2, KeptFacts DEF Returned

LEMMA ReturnFacts ==
  ASSUME NEW g, Settled(g), NEW p \in Ports, NEW dsts \in Seq(TableRule)
  PROVE  Returned(g, Returning!Fold(p, dsts, g, SrcRules(g, p)), p, ToSet(dsts),
                  ToSet(SrcRules(g, p)))
<1> DEFINE D == ToSet(dsts)
           Z == {z \in Seq(g.rules) \X Graph : Returned(g, z[2], p, D, ToSet(z[1]))}
<1>0. g \in Graph /\ SrcRules(g, p) \in Seq(g.rules) /\ Sink(p) \in DOMAIN g.domain
      /\ g.rules \subseteq DOMAIN g.domain
  BY SettledFacts
<1>1. <<<<>>, g>> \in Z
  <2>1. Returned(g, g, p, D, {})
    BY <1>0, ReturnedStart
  <2>2. <<>> \in Seq(g.rules) /\ ToSet(<<>>) = {}
    BY EmptyElements
  <2> QED BY <1>0, <2>1, <2>2
<1>2. ASSUME NEW k, NEW q \in Seq(g.rules), NEW r \in g.rules, <<q, k>> \in Z
      PROVE  <<Append(q, r), Return(p, dsts, k, r)>> \in Z
  <2> DEFINE m == Return(p, dsts, k, r)
  <2>1. Returned(g, k, p, D, ToSet(q))
    BY <1>2
  <2>2. Append(q, r) \in Seq(g.rules) /\ ToSet(Append(q, r)) = ToSet(q) \cup {r}
    BY AppendedElements
  <2>3. Returned(g, m, p, D, ToSet(q) \cup {r})
    BY <1>0, <2>1, ReturnedStep
  <2> HIDE DEF m, D
  <2>4. m \in Graph
    BY <2>3 DEF Returned, Kept
  <2>5. <<Append(q, r), m>> \in Z
    BY <2>2, <2>3, <2>4
  <2> QED BY <2>5 DEF m
<1> HIDE DEF Z, D
<1>3. <<SrcRules(g, p), Returning!Fold(p, dsts, g, SrcRules(g, p))>> \in Z
  BY <1>0, <1>1, <1>2, Returning!FoldSteps, NaturalInduction
        DEF Returning!Induction
<1> QED BY <1>3 DEF Z, D

----
SourceWays(g, q) == {<<Source(q), x, NoPort>> : x \in ToSet(DstRules(g, q))}

(* What UnlinkDirected makes of the edges.                                 *)
Unlinks(g, h, p, q) ==
  LET R == ToSet(SrcRules(g, p))
      D == ToSet(DstRules(g, q))
      new == Carrying(g, SinkWays(p, R)) \cup Carrying(g, SourceWays(g, q))
  IN  /\ Kept(g, h)
      /\ ToSet(h.edges) \subseteq ToSet(g.edges) \cup new
      /\ new \subseteq ToSet(h.edges)
      /\ \A e \in ToSet(g.edges) : e.src \notin R \/ e.dst \notin D => e \in ToSet(h.edges)
      /\ ~h.doubled =>
           \A e \in ToSet(h.edges) : e \in new \/ e.src \notin R \/ e.dst \notin D

LEMMA UnlinkDirectedFacts ==
  ASSUME NEW g, Settled(g), NEW p \in Ports, NEW q \in Ports
  PROVE  Unlinks(g, UnlinkDirected(g, p, q), p, q)
<1> DEFINE dsts == DstRules(g, q)
           R == ToSet(SrcRules(g, p))
           D == ToSet(dsts)
           j == Returning!Fold(p, dsts, g, SrcRules(g, p))
           h == UnlinkDirected(g, p, q)
<1>1. g \in Graph /\ dsts \in Seq(TableRule) /\ dsts \in Seq(DOMAIN g.domain)
      /\ Source(q) \in DOMAIN g.domain
  <2>1. dsts \in Seq(g.rules) /\ g.rules \subseteq TableRule
    BY SettledFacts
  <2> HIDE DEF dsts
  <2>2. dsts \in Seq(TableRule)
    BY <2>1
  <2> QED BY <2>2, SettledFacts DEF dsts
<1>2. Returned(g, j, p, D, R)
  BY <1>1, ReturnFacts
<1>3. h = AddEdges(j, Source(q), dsts, NoPort)
  BY ReturningFold, Zenon DEF UnlinkDirected
<1> HIDE DEF h, j
<1>4. Kept(g, j) /\ j \in Graph /\ j.domain = g.domain
  BY <1>2 DEF Returned, Kept
<1>5. Adds(j, h, SourceWays(g, q))
  BY <1>1, <1>3, <1>4, AddEdgesAdds DEF SourceWays
<1>6. /\ Kept(j, h) /\ h.doubled = j.doubled
      /\ ToSet(h.edges) = ToSet(j.edges) \cup Carrying(g, SourceWays(g, q))
  <2>1. Carrying(j, SourceWays(g, q)) = Carrying(g, SourceWays(g, q))
    BY <1>4, SameWays
  <2> QED BY <1>5, <2>1 DEF Adds
<1>7. Kept(g, h)
  BY <1>4, <1>6, KeptFacts
<1> HIDE DEF D, R, dsts
<1>8. Unlinks(g, h, p, q)
  BY <1>2, <1>6, <1>7 DEF Unlinks, Returned, D, R, dsts
<1> QED BY <1>8 DEF h

(***************************************************************************)
(* Install and Uninstall: the tables of the network and the graph.         *)
(***************************************************************************)
LEMMA SetRulesFacts ==
  ASSUME NEW g, NEW V, Tidy(g, V), NEW R \in SUBSET TableRule, Distinct(R),
         g.influences \subseteq Pairs(R)
  PROVE  LET h == [g EXCEPT !.rules = R]
         IN  /\ Tidy(h, V) /\ h.rules = R /\ h.links = g.links
             /\ h.domain = g.domain
             /\ h.influences = g.influences /\ h.edges = g.edges
             /\ h.doubled = g.doubled
<1> DEFINE h == [g EXCEPT !.rules = R]
           k == [g EXCEPT !.rules = R, !.links = g.links, !.domain = g.domain,
                          !.influences = g.influences]
<1>1. g \in Graph /\ g.links \in Links /\ g.domain \in Domains
      /\ g.influences \in SUBSET (TableRule \X TableRule)
  BY DEF Tidy, Graph
<1>2. h = k
  BY <1>1 DEF Graph
<1>3. k = Exchanged(g, R, g.links, g.domain, g.influences)
  BY DEF Exchanged
<1>4. \A e \in ToSet(g.edges) : e.src \in DOMAIN g.domain /\ e.dst \in DOMAIN g.domain
  BY <1>1, GraphFacts
<1> HIDE DEF h, k
<1>5. /\ h \in Graph
      /\ h.rules = R /\ h.links = g.links /\ h.domain = g.domain
      /\ h.influences = g.influences /\ h.edges = g.edges
      /\ h.doubled = g.doubled
  BY <1>1, <1>2, <1>3, <1>4, ExchangeFacts
<1>6. Tidy(h, V)
  BY <1>5 DEF Tidy
<1> QED BY <1>5, <1>6 DEF h

LEMMA SetLinksFacts ==
  ASSUME NEW g, Settled(g), NEW L \in Links
  PROVE  LET h == [g EXCEPT !.links = L]
         IN  /\ Settled(h) /\ h.rules = g.rules /\ h.links = L
             /\ h.domain = g.domain
             /\ h.influences = g.influences /\ h.edges = g.edges
             /\ h.doubled = g.doubled
<1> DEFINE h == [g EXCEPT !.links = L]
           k == [g EXCEPT !.rules = g.rules, !.links = L, !.domain = g.domain,
                          !.influences = g.influences]
<1>1. g \in Graph /\ g.rules \in SUBSET TableRule /\ g.domain \in Domains
      /\ g.influences \in SUBSET (TableRule \X TableRule)
  BY DEF Settled, Tidy, Graph
<1>2. h = k
  BY <1>1 DEF Graph
<1>3. k = Exchanged(g, g.rules, L, g.domain, g.influences)
  BY DEF Exchanged
<1>4. \A e \in ToSet(g.edges) : e.src \in DOMAIN g.domain /\ e.dst \in DOMAIN g.domain
  BY <1>1, GraphFacts
<1> HIDE DEF h, k
<1>5. /\ h \in Graph
      /\ h.rules = g.rules /\ h.links = L /\ h.domain = g.domain
      /\ h.influences = g.influences /\ h.edges = g.edges
      /\ h.doubled = g.doubled
  BY <1>1, <1>2, <1>3, <1>4, ExchangeFacts
<1>6. Settled(h)
  BY <1>5 DEF Settled, Tidy
<1> QED BY <1>5, <1>6 DEF h

LEMMA PairsMonotone ==
  ASSUME NEW V, NEW R, V \subseteq R
  PROVE  Pairs(V) \subseteq Pairs(R)
BY DEF Pairs

(* A rule goes, and it leaves the network last.                            *)
LEMMA UninstallFacts ==
  ASSUME NEW g, Settled(g), NEW r \in TableRule
  PROVE  LET h == Uninstall(g, r)
         IN  /\ Settled(h) /\ h.rules = g.rules \ {r} /\ h.links = g.links
             /\ h.doubled = g.doubled
             /\ h.domain = GraphDeleteRule(g, r).domain
             /\ h.edges = GraphDeleteRule(g, r).edges
<1> DEFINE k == GraphDeleteRule(g, r)
           R == g.rules \ {r}
           h == [k EXCEPT !.rules = R]
<1>1. /\ Tidy(k, R) /\ k.rules = g.rules /\ k.links = g.links
      /\ k.doubled = g.doubled /\ k.influences = Pairs(R)
  BY DeleteRuleFacts
<1>2. Uninstall(g, r) = h
  <2>1. k.rules \ {r} = R
    BY <1>1
  <2> QED BY <2>1, Zenon DEF Uninstall
<1>3. R \in SUBSET TableRule /\ Distinct(R)
  BY SettledFacts DEF Distinct
<1> HIDE DEF k, R
<1>4. /\ Tidy(h, R) /\ h.rules = R /\ h.links = k.links /\ h.domain = k.domain
      /\ h.influences = k.influences /\ h.edges = k.edges
      /\ h.doubled = k.doubled
  BY <1>1, <1>3, SetRulesFacts
<1> HIDE DEF h
<1>5. Settled(h)
  BY <1>1, <1>4 DEF Settled
<1> QED BY <1>1, <1>2, <1>4, <1>5 DEF k, R

(* A rule comes: it enters the network first.                              *)
Entered(g, r) == [g EXCEPT !.rules = g.rules \cup {r}]

LEMMA EnteredFacts ==
  ASSUME NEW g, Settled(g), NEW r \in TableRule, r \notin g.rules,
         Distinct(g.rules \cup {r})
  PROVE  LET h == Entered(g, r)
             V == g.rules \cup {r}
         IN  /\ Tidy(h, V \ {r}) /\ h.rules = V /\ h.links = g.links
             /\ h.domain = g.domain
             /\ h.influences = Pairs(V \ {r}) /\ h.edges = g.edges
             /\ h.doubled = g.doubled
<1> DEFINE V == g.rules \cup {r}
           h == Entered(g, r)
<1>1. V \ {r} = g.rules /\ V \in SUBSET TableRule
  BY SettledFacts
<1>2. Tidy(g, g.rules) /\ g.influences = Pairs(g.rules)
  BY DEF Settled
<1>3. g.influences \subseteq Pairs(V)
  BY <1>2, PairsMonotone
<1>4. Distinct(V)
  OBVIOUS
<1> HIDE DEF V
<1>5. h = [g EXCEPT !.rules = V]
  BY DEF Entered, V
<1> HIDE DEF h
<1>6. /\ Tidy(h, g.rules) /\ h.rules = V /\ h.links = g.links
      /\ h.domain = g.domain
      /\ h.influences = g.influences /\ h.edges = g.edges
      /\ h.doubled = g.doubled
  BY <1>1, <1>2, <1>3, <1>4, <1>5, SetRulesFacts
<1> QED BY <1>1, <1>2, <1>6 DEF h, V

LEMMA InstallFacts ==
  ASSUME NEW g, Settled(g), NEW r \in TableRule, r \notin g.rules,
         Distinct(g.rules \cup {r}), Kind(r) # "miss"
  PROVE  LET h == Install(g, r)
         IN  /\ h = Finish(AddInEdges(RuleOut(Entered(g, r), r), r))
             /\ Settled(h) /\ h.rules = g.rules \cup {r} /\ h.links = g.links
             /\ h.doubled = g.doubled
<1> DEFINE V == g.rules \cup {r}
           k == Entered(g, r)
           h == Install(g, r)
<1>1. /\ Tidy(k, V \ {r}) /\ k.rules = V /\ k.links = g.links
      /\ k.influences = Pairs(V \ {r}) /\ k.doubled = g.doubled
  BY EnteredFacts
<1>2. h = GraphAddRule(k, r)
  BY DEF Install, Entered
<1>3. r \in V /\ V \subseteq TableRule
  BY SettledFacts
<1> HIDE DEF V, k, h
<1>4. /\ h = Finish(AddInEdges(RuleOut(k, r), r))
      /\ Settled(h) /\ h.rules = V /\ h.links = k.links /\ h.doubled = k.doubled
  BY <1>1, <1>2, <1>3, AddFlowFacts
<1> QED BY <1>1, <1>4 DEF V, k, h

(* get_rule finds the only rule that could have the place of the new one.  *)
LEMMA FlowPlace ==
  ASSUME NEW f \in Flows
  PROVE  /\ Flow(f) \in TableRule /\ Kind(Flow(f)) = "flow"
         /\ Switch[Flow(f)] = Attr[f].sw /\ Priority[Flow(f)] = Attr[f].priority
         /\ Match[Flow(f)] = Attr[f].match /\ Attr[f].priority \in Nat \ {0}
<1>1. Attr[f].priority \in Nat \ {0}
  BY NetworkShape
<1> QED BY <1>1, VertexFacts, MatchFacts DEF Switch, Priority

LEMMA PlaceFree ==
  ASSUME NEW R \in SUBSET TableRule, Distinct(R), NEW f \in Flows,
         \A r \in R : ~ /\ Switch[r] = Attr[f].sw /\ Priority[r] = Attr[f].priority
                        /\ Match[r] = Attr[f].match
  PROVE  Distinct(R \cup {Flow(f)})
<1>1. ASSUME NEW r \in R, Switch[r] = Attr[f].sw, Priority[r] = Attr[f].priority
      PROVE  FALSE
  <2>1. CASE Kind(r) = "miss"
    <3>1. Priority[r] = 0
      BY <2>1 DEF Priority
    <3> QED BY <1>1, <3>1, FlowPlace
  <2>2. CASE \E e \in Flows : r = Flow(e)
    <3>1. PICK e \in Flows : r = Flow(e)
      BY <2>2
    <3>2. Attr[e].sw = Attr[f].sw /\ Attr[e].priority = Attr[f].priority
      BY <1>1, <3>1, FlowPlace
    <3>3. Attr[e].match = Attr[f].match
      BY <3>2, NetworkShape
    <3> QED BY <1>1, <3>1, <3>3, FlowPlace
  <2> QED BY <2>1, <2>2, VertexFacts
<1>2. Switch[Flow(f)] = Attr[f].sw /\ Priority[Flow(f)] = Attr[f].priority
  BY FlowPlace
<1> QED BY <1>1, <1>2 DEF Distinct

----
(* The tasks.                                                              *)
LEMMA CurrentFields ==
  /\ Current.rules = rules /\ Current.links = links /\ Current.domain = domain
  /\ Current.influences = influences /\ Current.edges = edges
  /\ Current.diff = latestDiff /\ Current.lossy = lossy
  /\ Current.doubled = doubled
BY DEF Current

LEMMA NoDiffType == NoDiff \in EdgeDiff
BY DEF NoDiff, EdgeDiff

(* The step of an operation makes no difference between two of them.       *)
Rested(g) ==
  [rules |-> g.rules, links |-> g.links, domain |-> g.domain,
   influences |-> g.influences, edges |-> g.edges, diff |-> g.diff,
   step |-> NoDiff, lossy |-> g.lossy, doubled |-> g.doubled]

LEMMA RestedSettled ==
  ASSUME NEW g, Settled(g)
  PROVE  Settled(Rested(g))
<1> DEFINE h == Rested(g)
<1>1. g \in Graph
  BY DEF Settled, Tidy
<1>2. /\ h.rules = g.rules /\ h.links = g.links /\ h.domain = g.domain
      /\ h.influences = g.influences /\ h.edges = g.edges
  BY DEF Rested
<1>3. h \in Fields
  BY <1>1, NoDiffType DEF Rested, Graph, Fields
<1>4. \A i \in DOMAIN h.edges : h.edges[i].src \in DOMAIN h.domain /\ h.edges[i].dst \in DOMAIN h.domain
  BY <1>1, <1>2, GraphFacts
<1> HIDE DEF h
<1>5. h \in Graph
  BY <1>3, <1>4 DEF Graph, Fields
<1>6. Settled(h)
  BY <1>2, <1>5 DEF Settled, Tidy
<1> QED BY <1>6 DEF h

LEMMA BecomesFacts ==
  ASSUME NEW g, Becomes(g)
  PROVE  Current' = Rested(g)
BY DEF Becomes, Current, Rested

(***************************************************************************)
(* The tasks of the detector.                                              *)
(***************************************************************************)
LEMMA AddRuleSettled ==
  ASSUME Settled(Current), NEW f \in Flows, AddRule(f)
  PROVE  /\ Settled(Install(Current, Flow(f)))
         /\ Install(Current, Flow(f)).rules = rules \cup {Flow(f)}
         /\ Flow(f) \notin rules /\ Distinct(rules \cup {Flow(f)})
<1>1. Flow(f) \in TableRule /\ Kind(Flow(f)) # "miss" /\ Flow(f) \notin rules
  BY FlowPlace DEF AddRule, Fresh
<1>2. rules \in SUBSET TableRule /\ Distinct(rules)
  BY SettledFacts, CurrentFields
<1>3. \A r \in rules : ~ /\ Switch[r] = Attr[f].sw /\ Priority[r] = Attr[f].priority
                         /\ Match[r] = Attr[f].match
  BY CurrentFields DEF AddRule, Same, Table
<1>4. Distinct(rules \cup {Flow(f)})
  BY <1>2, <1>3, PlaceFree
<1> QED BY <1>1, <1>4, InstallFacts, CurrentFields

LEMMA ChangeRuleSettled ==
  ASSUME Settled(Current), NEW f \in Flows, Flow(f) \notin rules, NEW r \in Same(f)
  PROVE  LET k == Uninstall(Current, r)
         IN  /\ r \in rules /\ r \in TableRule /\ Priority[r] # 0
             /\ Settled(k) /\ k.rules = rules \ {r}
             /\ Flow(f) \notin k.rules /\ Distinct(k.rules \cup {Flow(f)})
             /\ Settled(Install(k, Flow(f)))
             /\ Install(k, Flow(f)).rules = (rules \ {r}) \cup {Flow(f)}
<1> DEFINE k == Uninstall(Current, r)
<1>1. /\ r \in rules /\ Switch[r] = Attr[f].sw /\ Priority[r] = Attr[f].priority
      /\ Match[r] = Attr[f].match
  BY CurrentFields DEF Same, Table
<1>2. rules \in SUBSET TableRule /\ Distinct(rules) /\ r \in TableRule
  BY <1>1, SettledFacts, CurrentFields
<1>3. Settled(k) /\ k.rules = rules \ {r}
  BY <1>2, UninstallFacts, CurrentFields
<1> HIDE DEF k
<1>4. Flow(f) \notin k.rules /\ Flow(f) \in TableRule /\ Kind(Flow(f)) # "miss"
  BY <1>3, FlowPlace
<1>5. Distinct(k.rules \cup {Flow(f)})
  <2>1. k.rules \in SUBSET TableRule /\ Distinct(k.rules)
    BY <1>3, SettledFacts
  <2>2. \A q \in k.rules : ~ /\ Switch[q] = Attr[f].sw /\ Priority[q] = Attr[f].priority
                             /\ Match[q] = Attr[f].match
    BY <1>1, <1>2, <1>3 DEF Distinct
  <2> QED BY <2>1, <2>2, PlaceFree
<1>6. Settled(Install(k, Flow(f))) /\ Install(k, Flow(f)).rules = (rules \ {r}) \cup {Flow(f)}
  BY <1>3, <1>4, <1>5, InstallFacts
<1>7. Priority[r] # 0
  BY <1>1, FlowPlace
<1> QED BY <1>1, <1>2, <1>3, <1>4, <1>5, <1>6, <1>7 DEF k

Uninstalling == INSTANCE FoldFacts WITH Op <- LAMBDA p, o, g, r : Uninstall(g, r)

LEMMA UninstallingFold ==
  \A g, s : FoldLeft(Uninstall, g, s) = Uninstalling!Fold(0, 0, g, s)
BY Zenon DEF Uninstalling!Fold, FoldLeft, MapThenFoldSet,
             Uninstalling!MapThenFoldSet, Max, Uninstalling!Largest

LEMMA WithinFacts ==
  ASSUME Settled(Current), NEW d \in Deletions
  PROVE  Descending(Within(d)) \in Seq(Within(d)) /\ Within(d) \subseteq rules
         /\ rules \subseteq TableRule
<1>1. rules \in SUBSET TableRule /\ Distinct(rules)
  BY SettledFacts, CurrentFields
<1>2. Within(d) \in SUBSET rules /\ \A r \in Within(d) : Switch[r] = d.sw
  BY CurrentFields DEF Within, Table
<1> QED BY <1>1, <1>2, TableFacts

LEMMA DeleteRulesSettled ==
  ASSUME Settled(Current), NEW d \in Deletions
  PROVE  Settled(FoldLeft(Uninstall, Current, Descending(Within(d))))
<1> DEFINE T == {g \in Graph : Settled(g)}
           s == Descending(Within(d))
<1>1. s \in Seq(Within(d)) /\ Within(d) \subseteq TableRule
  BY WithinFacts
<1>2. Current \in T
  BY SettledFacts
<1>3. ASSUME NEW g \in T, NEW r \in Within(d) PROVE Uninstall(g, r) \in T
  BY <1>1, UninstallFacts, SettledFacts
<1> HIDE DEF T, s
<1>4. Uninstalling!Fold(0, 0, Current, s) \in T
  BY <1>1, <1>2, <1>3, Uninstalling!FoldIn, NaturalInduction
        DEF Uninstalling!Induction
<1> QED BY <1>4, UninstallingFold DEF T, s

----
(* The state between the two directions of a link.                         *)
LEMMA AddLinkFacts ==
  ASSUME NEW g, Settled(g), NEW p \in Ports, NEW q \in Ports
  PROVE  LET h == LinkDirected(g, p, q)
             k == LinkDirected(h, q, p)
             m == GraphAddLink(g, p, q)
         IN  m = Finish(k) /\ Settled(h) /\ Settled(k) /\ Settled(m) /\ Kept(g, h) /\ Kept(h, k)
             /\ Kept(k, m) /\ m.doubled = g.doubled
<1> DEFINE h == LinkDirected(g, p, q)
           k == LinkDirected(h, q, p)
           m == GraphAddLink(g, p, q)
<1>1. m = Finish(k)
  BY DEF GraphAddLink
<1>2. Kept(g, h) /\ h.doubled = g.doubled
  BY LinkDirectedFacts
<1> HIDE DEF m, h
<1>3. Settled(h)
  BY <1>2, SettledKept
<1>4. Kept(h, k) /\ k.doubled = h.doubled
  BY <1>3, LinkDirectedFacts
<1> HIDE DEF k
<1>5. Settled(k) /\ k \in Graph
  BY <1>3, <1>4, SettledKept DEF Kept
<1>6. Kept(k, m) /\ m.doubled = k.doubled
  BY <1>1, <1>5, FinishFacts
<1>7. Settled(m)
  BY <1>5, <1>6, SettledKept
<1> QED BY <1>1, <1>2, <1>3, <1>4, <1>5, <1>6, <1>7 DEF m, h, k

LEMMA DeleteLinkFacts ==
  ASSUME NEW g, Settled(g), NEW p \in Ports, NEW q \in Ports
  PROVE  LET h == UnlinkDirected(g, p, q)
             k == UnlinkDirected(h, q, p)
             m == GraphDeleteLink(g, p, q)
         IN  m = Finish(k) /\ Settled(h) /\ Settled(k) /\ Settled(m) /\ Kept(g, h) /\ Kept(h, k)
             /\ Kept(k, m) /\ m.doubled = k.doubled
<1> DEFINE h == UnlinkDirected(g, p, q)
           k == UnlinkDirected(h, q, p)
           m == GraphDeleteLink(g, p, q)
<1>1. m = Finish(k)
  BY DEF GraphDeleteLink
<1>2. Kept(g, h)
  BY UnlinkDirectedFacts DEF Unlinks
<1> HIDE DEF m, h
<1>3. Settled(h)
  BY <1>2, SettledKept
<1>4. Kept(h, k)
  BY <1>3, UnlinkDirectedFacts DEF Unlinks
<1> HIDE DEF k
<1>5. Settled(k) /\ k \in Graph
  BY <1>3, <1>4, SettledKept DEF Kept
<1>6. Kept(k, m) /\ m.doubled = k.doubled
  BY <1>1, <1>5, FinishFacts
<1>7. Settled(m)
  BY <1>5, <1>6, SettledKept
<1> QED BY <1>1, <1>2, <1>3, <1>4, <1>5, <1>6, <1>7 DEF m, h, k

(* A port is plugged in, or both ends of a link are unplugged.             *)
Plugged(L, p, q) == [o \in DOMAIN L \cup {p, q} |->
                       IF o = p THEN q ELSE IF o = q THEN p ELSE L[o]]
Pulled(L, p, q) == [o \in DOMAIN L \ {p, q} |-> L[o]]

LEMMA PluggedFacts ==
  ASSUME NEW L \in Links, NEW p \in Ports, NEW q \in Ports
  PROVE  Plugged(L, p, q) \in Links /\ Pulled(L, p, q) \in Links
<1>1. DOMAIN L \subseteq Ports /\ \A o \in DOMAIN L : L[o] \in Ports
  <2>1. DOMAIN L \subseteq Ports /\ L \in [DOMAIN L -> Ports]
    BY LinksFacts
  <2> QED BY <2>1
<1> DEFINE M == Plugged(L, p, q)
           N == Pulled(L, p, q)
<1>2. DOMAIN M \subseteq Ports /\ M \in [DOMAIN M -> Ports]
  BY <1>1 DEF Plugged
<1>3. DOMAIN N \subseteq Ports /\ N \in [DOMAIN N -> Ports]
  BY <1>1 DEF Pulled
<1> HIDE DEF M, N
<1>4. M \in Links /\ N \in Links
  BY <1>2, <1>3, LinksFacts
<1> QED BY <1>4 DEF M, N

WithLinks(g, L) == [g EXCEPT !.links = L]

LEMMA AddLinkSettled ==
  ASSUME Settled(Current), NEW c \in Cables
  PROVE  LET g == WithLinks(Current, Plugged(links, c[1], c[2]))
         IN  /\ Settled(g) /\ Settled(GraphAddLink(g, c[1], c[2]))
             /\ AddLink(c[1], c[2]) => Becomes(GraphAddLink(g, c[1], c[2]))
<1> DEFINE L == Plugged(links, c[1], c[2])
           g == WithLinks(Current, L)
<1>1. c[1] \in Ports /\ c[2] \in Ports
  BY NetworkShape
<1>2. links \in Links
  BY SettledFacts, CurrentFields DEF Graph
<1>3. L \in Links
  BY <1>1, <1>2, PluggedFacts
<1>4. AddLink(c[1], c[2]) => Becomes(GraphAddLink(g, c[1], c[2]))
  BY CurrentFields, Zenon DEF AddLink, WithLinks, Plugged
<1> HIDE DEF L
<1>5. Settled(g)
  BY <1>3, SetLinksFacts DEF WithLinks
<1> HIDE DEF g
<1>6. Settled(GraphAddLink(g, c[1], c[2]))
  BY <1>1, <1>5, AddLinkFacts
<1> QED BY <1>4, <1>5, <1>6 DEF g, L

LEMMA DeleteLinkSettled ==
  ASSUME Settled(Current), NEW c \in Cables
  PROVE  LET g == WithLinks(Current, Pulled(links, c[1], c[2]))
         IN  /\ Settled(g) /\ Settled(GraphDeleteLink(g, c[1], c[2]))
             /\ DeleteLink(c[1], c[2]) => Becomes(GraphDeleteLink(g, c[1], c[2]))
<1> DEFINE L == Pulled(links, c[1], c[2])
           g == WithLinks(Current, L)
<1>1. c[1] \in Ports /\ c[2] \in Ports
  BY NetworkShape
<1>2. links \in Links
  BY SettledFacts, CurrentFields DEF Graph
<1>3. L \in Links
  BY <1>1, <1>2, PluggedFacts
<1>4. DeleteLink(c[1], c[2]) => Becomes(GraphDeleteLink(g, c[1], c[2]))
  BY CurrentFields, Zenon DEF DeleteLink, WithLinks, Pulled
<1> HIDE DEF L
<1>5. Settled(g)
  BY <1>3, SetLinksFacts DEF WithLinks
<1> HIDE DEF g
<1>6. Settled(GraphDeleteLink(g, c[1], c[2]))
  BY <1>1, <1>5, DeleteLinkFacts
<1> QED BY <1>4, <1>5, <1>6 DEF g, L

LEMMA TaskSettled ==
  ASSUME Settled(Current), Task
  PROVE  Settled(Current') /\ \E g : Settled(g) /\ Becomes(g)
<1> SUFFICES \E g : Settled(g) /\ Becomes(g)
  BY RestedSettled, BecomesFacts
<1>1. CASE \E f \in Flows : AddRule(f)
  BY <1>1, AddRuleSettled DEF AddRule
<1>2. CASE \E f \in Flows : ChangeRule(f)
  <2>1. PICK f \in Flows : ChangeRule(f)
    BY <1>2
  <2>2. PICK r \in Same(f) : Becomes(Install(Uninstall(Current, r), Flow(f)))
    BY <2>1 DEF ChangeRule
  <2>3. Flow(f) \notin rules
    BY <2>1 DEF ChangeRule, Fresh
  <2> QED BY <2>2, <2>3, ChangeRuleSettled
<1>3. CASE \E d \in Deletions : DeleteRules(d)
  BY <1>3, DeleteRulesSettled DEF DeleteRules
<1>4. CASE \E c \in Cables : AddLink(c[1], c[2])
  BY <1>4, AddLinkSettled
<1>5. CASE \E c \in Cables : DeleteLink(c[1], c[2])
  BY <1>5, DeleteLinkSettled
<1> QED BY <1>1, <1>2, <1>3, <1>4, <1>5 DEF Task

(***************************************************************************)
(* Start: the table misses of all switches.                                *)
(***************************************************************************)
Misses == {Miss(s) : s \in Switches}

Beginning ==
  [rules |-> Misses, links |-> <<>>, domain |-> [v \in Special |-> Match[v]],
   influences |-> {}, edges |-> <<>>, diff |-> NoDiff,
   step |-> NoDiff, lossy |-> FALSE, doubled |-> FALSE]

Starting(g, V) ==
  /\ Tidy(g, V) /\ g.rules = Misses /\ g.links = <<>> /\ g.influences = {}
  /\ g.doubled = FALSE

LEMMA MissFacts ==
  /\ Misses \in SUBSET TableRule /\ Distinct(Misses) /\ Pairs(Misses) = {}
  /\ \A r \in Misses : Kind(r) = "miss" /\ Uppers({}, r) = {} /\ Priority[r] = 0
  /\ SetToSeq(Misses) \in Seq(Misses) /\ ToSet(SetToSeq(Misses)) = Misses
<1>1. Misses \in SUBSET TableRule /\ \A r \in Misses : Kind(r) = "miss"
  BY VertexFacts DEF Misses
<1>2. \A r \in Misses : Priority[r] = 0
  BY <1>1 DEF Priority
<1>3. Distinct(Misses)
  <2>1. \A s \in Switches : Switch[Miss(s)] = s
    BY VertexFacts DEF Switch
  <2> QED BY <2>1 DEF Distinct, Misses
<1>4. Pairs(Misses) = {}
  BY <1>2 DEF Pairs, Over
<1>5. \A r : Uppers({}, r) = {}
  BY DEF Uppers
<1>6. IsFiniteSet(Misses)
  BY <1>1, RulesFinite, FS_Subset
<1>7. SetToSeq(Misses) \in Seq(Misses) /\ ToSet(SetToSeq(Misses)) = Misses
  BY <1>6, ListOfSet
<1> QED BY <1>1, <1>2, <1>3, <1>4, <1>5, <1>7

LEMMA NoLinks == <<>> \in Links /\ DOMAIN <<>> = {}
<1>1. DOMAIN <<>> = {}
  OBVIOUS
<1>2. <<>> \in [DOMAIN <<>> -> Ports]
  BY <1>1
<1> QED BY <1>1, <1>2, LinksFacts

LEMMA BeginningFacts == Starting(Beginning, {})
<1> DEFINE D == [v \in Special |-> Match[v]]
<1>1. D \in Domains
  <2>1. DOMAIN D \subseteq Vertices /\ \A v \in DOMAIN D : D[v] \in Space
    BY SpecialFacts, MatchFacts
  <2>2. D \in [DOMAIN D -> Space]
    BY <2>1
  <2> HIDE DEF D
  <2> QED BY <2>1, <2>2, DomainsFacts
<1>2. DOMAIN D = Special /\ \A v \in Special : D[v] = Match[v]
  OBVIOUS
<1> HIDE DEF D
<1>3. Beginning = [rules |-> Misses, links |-> <<>>, domain |-> D,
   influences |-> {}, edges |-> <<>>, diff |-> NoDiff,
   step |-> NoDiff, lossy |-> FALSE, doubled |-> FALSE]
  BY DEF Beginning, D
<1>4. Beginning \in Fields
  BY <1>1, <1>3, NoLinks, MissFacts, NoDiffType DEF Fields
<1>5. /\ Beginning.rules = Misses /\ Beginning.links = <<>>
      /\ Beginning.domain = D
      /\ Beginning.influences = {} /\ Beginning.edges = <<>>
      /\ Beginning.doubled = FALSE
  BY <1>3
<1>6. DOMAIN Beginning.edges = {}
  <2>1. DOMAIN <<>> = {}
    OBVIOUS
  <2> QED BY <1>5, <2>1
<1>7. Beginning \in Graph
  BY <1>4, <1>6 DEF Graph, Fields
<1>8. {} \subseteq Pairs(Misses) /\ Distinct(Misses) /\ Special \cup {} = Special
  BY MissFacts
<1>9. Tidy(Beginning, {})
  BY <1>2, <1>5, <1>7, <1>8 DEF Tidy
<1> QED BY <1>5, <1>9 DEF Starting

Beginnings == INSTANCE FoldFacts WITH Op <- LAMBDA p, o, g, r : GraphAddRule(g, r)

LEMMA BeginningsFold ==
  \A g, s : FoldLeft(GraphAddRule, g, s) = Beginnings!Fold(0, 0, g, s)
BY Zenon DEF Beginnings!Fold, FoldLeft, MapThenFoldSet,
             Beginnings!MapThenFoldSet, Max, Beginnings!Largest

LEMMA StartFold == Start = Beginnings!Fold(0, 0, Beginning, SetToSeq(Misses))
<1>1. Start = FoldLeft(GraphAddRule, Beginning, SetToSeq(Misses))
  BY Zenon DEF Start, Beginning, Misses, Special
<1> QED BY <1>1, BeginningsFold, Zenon

LEMMA StartingStep ==
  ASSUME NEW g, NEW V, Starting(g, V), NEW r \in Misses
  PROVE  LET k == AddMissEdges(RuleOut(g, r), r)
             h == GraphAddRule(g, r)
         IN  /\ Starting(h, V \cup {r})
             /\ h = Finish(k) /\ Adds(RuleOut(g, r), k, MissWays(r))
             /\ Adds(AddVertex(g, r), RuleOut(g, r), OutWays(AddVertex(g, r), r))
<1> DEFINE j == RuleOut(g, r)
           k == AddMissEdges(j, r)
           h == GraphAddRule(g, r)
<1>1. /\ Tidy(g, V) /\ r \in TableRule /\ Uppers(g.influences, r) = {}
      /\ Kind(r) = "miss"
      /\ DOMAIN g.links = {}
  BY MissFacts, NoLinks DEF Starting
<1>2. /\ h = Finish(k) /\ Adds(j, k, MissWays(r))
      /\ Tidy(h, V \cup {r}) /\ Alike(g, h) /\ h.doubled = g.doubled
  BY <1>1, AddMissFacts
<1>3. Adds(AddVertex(g, r), j, OutWays(AddVertex(g, r), r))
  BY <1>1, RuleOutFacts
<1> HIDE DEF j, k, h
<1>4. Starting(h, V \cup {r})
  BY <1>2 DEF Starting, Alike
<1> QED BY <1>2, <1>3, <1>4 DEF j, k, h

LEMMA StartingSettled ==
  ASSUME NEW g, Starting(g, Misses)
  PROVE  Settled(g)
BY MissFacts DEF Starting, Settled

LEMMA StartFacts == Starting(Start, Misses)
<1> DEFINE Z == {z \in Seq(Misses) \X Graph : Starting(z[2], ToSet(z[1]))}
           s == SetToSeq(Misses)
<1>1. <<<<>>, Beginning>> \in Z
  <2>1. Beginning \in Graph
    BY BeginningFacts DEF Starting, Tidy
  <2>2. <<>> \in Seq(Misses) /\ ToSet(<<>>) = {}
    BY EmptyElements
  <2> QED BY <2>1, <2>2, BeginningFacts
<1>2. ASSUME NEW g, NEW q \in Seq(Misses), NEW r \in Misses, <<q, g>> \in Z
      PROVE  <<Append(q, r), GraphAddRule(g, r)>> \in Z
  <2> DEFINE m == GraphAddRule(g, r)
  <2>1. Starting(g, ToSet(q))
    BY <1>2
  <2>2. Append(q, r) \in Seq(Misses) /\ ToSet(Append(q, r)) = ToSet(q) \cup {r}
    BY AppendedElements
  <2>3. Starting(m, ToSet(q) \cup {r})
    BY <2>1, StartingStep
  <2> HIDE DEF m
  <2>4. m \in Graph
    BY <2>3 DEF Starting, Tidy
  <2>5. <<Append(q, r), m>> \in Z
    BY <2>2, <2>3, <2>4
  <2> QED BY <2>5 DEF m
<1>3. s \in Seq(Misses) /\ ToSet(s) = Misses
  BY MissFacts
<1> HIDE DEF Z, s
<1>4. <<s, Beginnings!Fold(0, 0, Beginning, s)>> \in Z
  BY <1>1, <1>2, <1>3, Beginnings!FoldSteps, NaturalInduction
        DEF Beginnings!Induction
<1>5. Starting(Beginnings!Fold(0, 0, Beginning, s), Misses)
  BY <1>3, <1>4 DEF Z
<1> QED BY <1>5, StartFold DEF s

(***************************************************************************)
(* The trees: nodes stay well-typed.                                       *)
(***************************************************************************)
Node == [chain : Seq(Vertices) \ {<<>>}, space : Space]

LEMMA VerticesFinite == IsFiniteSet(Vertices)
<1> DEFINE A == {Sink(p) : p \in Ports}
           B == {Source(p) : p \in Ports}
           a == [p \in Ports |-> Sink(p)]
           b == [p \in Ports |-> Source(p)]
<1>1. a \in Surjection(Ports, A) /\ b \in Surjection(Ports, B)
  BY DEF Surjection
<1>2. IsFiniteSet(Ports)
  BY NetworkShape
<1> HIDE DEF a, b
<1>3. IsFiniteSet(A) /\ IsFiniteSet(B)
  BY <1>1, <1>2, FS_Surjection
<1>4. IsFiniteSet({Drop, Controller})
  <2>1. IsFiniteSet({}) /\ IsFiniteSet({} \cup {Drop}) /\ {} \cup {Drop} = {Drop}
    BY FS_EmptySet, FS_AddElement
  <2>2. IsFiniteSet({Drop} \cup {Controller}) /\ {Drop} \cup {Controller} = {Drop, Controller}
    BY <2>1, FS_AddElement
  <2> QED BY <2>2
<1> HIDE DEF A, B
<1>5. IsFiniteSet(A \cup {Drop, Controller})
  BY <1>3, <1>4, FS_Union
<1>6. IsFiniteSet((A \cup {Drop, Controller}) \cup TableRule)
  BY <1>5, RulesFinite, FS_Union
<1>7. IsFiniteSet(((A \cup {Drop, Controller}) \cup TableRule) \cup B)
  BY <1>3, <1>6, FS_Union
<1> QED BY <1>7 DEF Vertices, Outputs, A, B

LEMMA NodeFacts ==
  ASSUME NEW n \in Node
  PROVE  /\ n.chain \in Seq(Vertices) /\ n.space \in Space
         /\ Leaf(n) \in Vertices /\ ToSet(n.chain) \subseteq Vertices
<1>1. n.chain \in Seq(Vertices) /\ n.chain # <<>> /\ n.space \in Space
  BY DEF Node
<1>2. Len(n.chain) \in DOMAIN n.chain
  BY <1>1
<1> QED BY <1>1, <1>2 DEF Leaf, Last, ToSet

LEMMA ChildFacts ==
  ASSUME NEW n \in Node, NEW e \in Edge
  PROVE  Child(n, e) \in Node /\ ChildSpace(n, e) \in Space
<1>1. n.chain \in Seq(Vertices) /\ n.space \in Space /\ e.src \in Vertices /\ e.domain \in Space
  BY NodeFacts DEF Edge
<1>2. Append(n.chain, e.src) \in Seq(Vertices) /\ Append(n.chain, e.src) # <<>>
  BY <1>1
<1>3. ChildSpace(n, e) \in Space
  BY <1>1, SpaceFacts, MatchFacts DEF ChildSpace
<1> QED BY <1>2, <1>3 DEF Child, Node

LEMMA ChildrenFacts ==
  ASSUME NEW es \in Seq(Edge), NEW n \in Node
  PROVE  Children(es, n) \subseteq Node
<1> DEFINE I == {i \in DOMAIN es : es[i].dst = Leaf(n) /\ ~IsEmpty(ChildSpace(n, es[i]))}
           carrying == Chosen(es, I)
           first(i) == \A j \in 1..(i - 1) : carrying[j].src # carrying[i].src
<1>1. carrying \in Seq(Edge)
  BY ChosenFacts
<1>2. Children(es, n) = {Child(n, carrying[i]) : i \in {j \in DOMAIN carrying : first(j)}}
  BY Zenon DEF Children, Select
<1> HIDE DEF carrying
<1>3. \A i \in DOMAIN carrying : carrying[i] \in Edge
  BY <1>1
<1>4. \A i \in DOMAIN carrying : Child(n, carrying[i]) \in Node
  BY <1>3, ChildFacts
<1> QED BY <1>2, <1>4, Zenon

----
(* The function of the levels of a subtree.                                *)
Levels(f, es, root, n) ==
  f = [k \in 0 .. n |->
         IF k = 0 THEN {root} ELSE UNION {Children(es, node) : node \in f[k - 1]}]

LEMMA LevelsExist ==
  ASSUME NEW es, NEW root, NEW n \in Nat
  PROVE  \E f : Levels(f, es, root, n)
<1> DEFINE N == {m \in Nat : \E f : Levels(f, es, root, m)}
           below(l) == UNION {Children(es, node) : node \in l}
<1>1. 0 \in N
  <2>1. \A k \in 0 .. 0 : k = 0
    OBVIOUS
  <2>2. Levels([k \in 0 .. 0 |-> {root}], es, root, 0)
    BY <2>1 DEF Levels
  <2> QED BY <2>2
<1>2. ASSUME NEW m \in N PROVE m + 1 \in N
  <2>1. PICK f : Levels(f, es, root, m)
    OBVIOUS
  <2>2. /\ f = [k \in 0 .. m |-> f[k]]
        /\ \A k \in 0 .. m : f[k] = IF k = 0 THEN {root} ELSE below(f[k - 1])
    BY <2>1, Zenon DEF Levels
  <2> DEFINE h == [k \in 0 .. m + 1 |-> IF k = m + 1 THEN below(f[m]) ELSE f[k]]
  <2>3. m \in Nat
    OBVIOUS
  <2> HIDE DEF below
  <2>4. ASSUME NEW k \in 0 .. m + 1
        PROVE  h[k] = IF k = 0 THEN {root} ELSE below(h[k - 1])
    <3>1. CASE k = m + 1
      <4>1. k # 0 /\ k - 1 = m /\ m \in 0 .. m + 1 /\ m # m + 1 /\ m + 1 \in 0 .. m + 1
        BY <2>3, <3>1
      <4>2. h[m] = f[m] /\ h[m + 1] = below(f[m])
        BY <4>1
      <4> HIDE DEF h
      <4> QED BY <3>1, <4>1, <4>2
    <3>2. CASE k # m + 1
      <4>1. k \in 0 .. m /\ (k # 0 => k - 1 \in 0 .. m + 1 /\ k - 1 # m + 1)
        BY <2>3, <3>2
      <4>2. h[k] = f[k] /\ (k # 0 => h[k - 1] = f[k - 1])
        BY <3>2, <4>1
      <4> HIDE DEF h
      <4> QED BY <2>2, <4>1, <4>2
    <3> QED BY <3>1, <3>2
  <2>5. h = [k \in 0 .. m + 1 |-> h[k]]
    OBVIOUS
  <2> HIDE DEF h
  <2>6. Levels(h, es, root, m + 1)
    BY <2>4, <2>5, Zenon DEF Levels, below
  <2> QED BY <2>3, <2>6
<1>3. N = Nat
  <2>1. N \in SUBSET Nat
    OBVIOUS
  <2> HIDE DEF N
  <2> QED BY <1>1, <1>2, <2>1, Induction
<1> QED BY <1>3

LEMMA SubtreeFacts ==
  ASSUME NEW es \in Seq(Edge), NEW root \in Node
  PROVE  Subtree(es, root) \subseteq Node
<1> DEFINE n == Cardinality(Vertices)
           f == CHOOSE l : Levels(l, es, root, n)
           below(l) == UNION {Children(es, node) : node \in l}
<1>1. n \in Nat
  BY VerticesFinite, FS_CardinalityType
<1>2. Levels(f, es, root, n)
  BY <1>1, LevelsExist
<1>3. Subtree(es, root) = UNION {f[k] : k \in 0 .. n}
  BY Zenon DEF Subtree, Levels
<1> HIDE DEF f, n
<1>4. \A k \in 0 .. n : f[k] = IF k = 0 THEN {root} ELSE below(f[k - 1])
  BY <1>2, Zenon DEF Levels
<1>5. \A l : l \subseteq Node => below(l) \subseteq Node
  BY ChildrenFacts
<1> HIDE DEF below
<1> DEFINE N == {m \in Nat : m \in 0 .. n => f[m] \subseteq Node}
<1>6. 0 \in N
  BY <1>1, <1>4
<1>7. ASSUME NEW m \in N PROVE m + 1 \in N
  <2>1. m + 1 \in 0 .. n => m \in 0 .. n /\ m + 1 # 0 /\ (m + 1) - 1 = m
    BY <1>1
  <2>2. m + 1 \in 0 .. n => f[m + 1] = below(f[m])
    BY <1>4, <2>1
  <2> QED BY <1>5, <2>1, <2>2
<1>8. N = Nat
  <2>1. N \in SUBSET Nat
    OBVIOUS
  <2> HIDE DEF N
  <2> QED BY <1>6, <1>7, <2>1, Induction
<1>9. \A k \in 0 .. n : f[k] \subseteq Node
  <2>1. \A k \in 0 .. n : k \in Nat
    BY <1>1
  <2> QED BY <1>8, <2>1
<1> QED BY <1>3, <1>9

LEMMA AddSubtreesFacts ==
  ASSUME NEW es \in Seq(Edge), NEW t \in SUBSET Node, NEW e \in Edge
  PROVE  AddSubtrees(es, t, e) \in SUBSET Node
<1> DEFINE isNew == NodesOf(t, e.dst) = {} /\ e.dst \in Outputs
           root    == [chain |-> <<e.dst>>, space |-> Match[e.dst]]
           grown   == IF isNew THEN t \cup {root} ELSE t
           parents == {n \in NodesOf(grown, e.dst) :
                         /\ ~IsEmpty(ChildSpace(n, e))
                         /\ ~IsExistingChild(grown, n, e.src)}
<1>1. root \in Node
  <2>1. e.dst \in Vertices /\ Match[e.dst] \in Space
    BY MatchFacts DEF Edge
  <2>2. <<e.dst>> \in Seq(Vertices) /\ <<e.dst>> # <<>>
    BY <2>1
  <2> QED BY <2>1, <2>2 DEF Node
<1>2. AddSubtrees(es, t, e) = grown \cup UNION {Subtree(es, Child(n, e)) : n \in parents}
  BY Zenon DEF AddSubtrees
<1> HIDE DEF root
<1>3. grown \subseteq Node
  BY <1>1
<1>4. parents \subseteq Node
  BY <1>3 DEF NodesOf
<1> HIDE DEF grown, parents
<1>5. \A n \in parents : Subtree(es, Child(n, e)) \subseteq Node
  BY <1>4, ChildFacts, SubtreeFacts
<1> QED BY <1>2, <1>3, <1>5

Pruning == INSTANCE FoldFacts WITH Op <- LAMBDA p, o, u, e : DeleteSubtrees(u, e)
Changing == INSTANCE FoldFacts
  WITH Op <- LAMBDA es, o, u, e : AddSubtrees(es, DeleteSubtrees(u, e), e)
Growing == INSTANCE FoldFacts WITH Op <- LAMBDA es, o, u, e : AddSubtrees(es, u, e)

LEMMA UpdateEdgesFold ==
  \A es, t, diff :
    UpdateEdges(es, t, diff) =
      Growing!Fold(es, 0, Changing!Fold(es, 0, Pruning!Fold(0, 0, t, diff.removed),
                                        diff.changed), diff.new)
<1>1. \A t, s : FoldLeft(DeleteSubtrees, t, s) = Pruning!Fold(0, 0, t, s)
  BY Zenon DEF Pruning!Fold, FoldLeft, MapThenFoldSet,
             Pruning!MapThenFoldSet, Max, Pruning!Largest
<1>2. \A es, t, s : FoldLeft(LAMBDA u, e : AddSubtrees(es, DeleteSubtrees(u, e), e), t, s)
                      = Changing!Fold(es, 0, t, s)
  BY Zenon DEF Changing!Fold, FoldLeft, MapThenFoldSet,
             Changing!MapThenFoldSet, Max, Changing!Largest
<1>3. \A es, t, s : FoldLeft(LAMBDA u, e : AddSubtrees(es, u, e), t, s)
                      = Growing!Fold(es, 0, t, s)
  BY Zenon DEF Growing!Fold, FoldLeft, MapThenFoldSet,
             Growing!MapThenFoldSet, Max, Growing!Largest
<1> QED BY <1>1, <1>2, <1>3, Zenon DEF UpdateEdges

LEMMA DeleteSubtreesFacts ==
  ASSUME NEW t \in SUBSET Node, NEW e
  PROVE  DeleteSubtrees(t, e) \in SUBSET Node
BY DEF DeleteSubtrees

LEMMA UpdateEdgesFacts ==
  ASSUME NEW es \in Seq(Edge), NEW t \in SUBSET Node, NEW diff \in EdgeDiff
  PROVE  UpdateEdges(es, t, diff) \in SUBSET Node
<1> DEFINE a == Pruning!Fold(0, 0, t, diff.removed)
           b == Changing!Fold(es, 0, a, diff.changed)
           T == SUBSET Node
<1>0. /\ diff.removed \in Seq(Removal) /\ diff.changed \in Seq(Edge)
      /\ diff.new \in Seq(Edge)
  BY DEF EdgeDiff
<1>4. t \in T
  OBVIOUS
<1>5. /\ \A u \in T, e \in Removal : DeleteSubtrees(u, e) \in T
      /\ \A u \in T, e \in Edge : AddSubtrees(es, DeleteSubtrees(u, e), e) \in T
      /\ \A u \in T, e \in Edge : AddSubtrees(es, u, e) \in T
  BY DeleteSubtreesFacts, AddSubtreesFacts
<1> HIDE DEF T
<1>1. a \in T
  BY <1>0, <1>4, <1>5, Pruning!FoldIn, NaturalInduction
        DEF Pruning!Induction
<1> HIDE DEF a
<1>2. b \in T
  BY <1>0, <1>1, <1>5, Changing!FoldIn, NaturalInduction
        DEF Changing!Induction
<1> HIDE DEF b
<1>3. Growing!Fold(es, 0, b, diff.new) \in T
  BY <1>0, <1>2, <1>5, Growing!FoldIn, NaturalInduction
        DEF Growing!Induction
<1> QED BY <1>3, UpdateEdgesFold DEF a, b, T

(***************************************************************************)
(* The invariant of the types and its theorems.                            *)
(***************************************************************************)
TreesInv ==
  /\ Settled(Current)
  /\ trees \in SUBSET Node
  /\ tasks \in 0 .. MaxTasks

LEMMA InitFromFacts ==
  ASSUME NEW g, InitFrom(g), Settled(g)
  PROVE  /\ rules = g.rules /\ links = g.links /\ domain = g.domain
         /\ influences = g.influences /\ edges = g.edges /\ doubled = g.doubled
         /\ TreesInv
<1>1. g \in Graph /\ g.edges \in Seq(Edge) /\ g.diff \in EdgeDiff
  BY SettledFacts, GraphFacts
<1>2. trees \in SUBSET Node
  BY <1>1, UpdateEdgesFacts DEF InitFrom
<1>3. tasks \in 0 .. MaxTasks
  BY BoundOnTasks DEF InitFrom
<1>4. Settled(Current)
  <2> DEFINE h == [Rested(g) EXCEPT !.diff = NoDiff]
             k == Rested(g)
  <2>1. Settled(k) /\ k \in Graph
    BY RestedSettled DEF Settled, Tidy
  <2>2. Current = h
    BY DEF Current, InitFrom, Rested
  <2>3. k \in Fields /\ \A i \in DOMAIN k.edges :
                          k.edges[i].src \in DOMAIN k.domain /\ k.edges[i].dst \in DOMAIN k.domain
    BY <2>1 DEF Graph, Fields
  <2> HIDE DEF k
  <2>4. /\ h \in Fields /\ h.rules = k.rules /\ h.links = k.links
        /\ h.domain = k.domain
        /\ h.influences = k.influences /\ h.edges = k.edges
    BY <2>3, NoDiffType DEF Fields, k
  <2> HIDE DEF h
  <2>5. h \in Graph
    BY <2>3, <2>4 DEF Graph, Fields
  <2>6. Settled(h)
    BY <2>1, <2>4, <2>5 DEF Settled, Tidy
  <2> QED BY <2>2, <2>6
<1>5. /\ rules = g.rules /\ links = g.links /\ domain = g.domain
      /\ influences = g.influences /\ edges = g.edges /\ doubled = g.doubled
  BY DEF InitFrom
<1> QED BY <1>2, <1>3, <1>4, <1>5 DEF TreesInv

(* The graph after an instruction is prepared differs in its diff only.    *)
LEMMA PreparedFacts ==
  ASSUME Settled(Current), PrepareInstructions
  PROVE  Settled(Current')
<1>1. /\ rules' = rules /\ links' = links /\ domain' = domain
      /\ influences' = influences
      /\ edges' = edges /\ lossy' = lossy /\ doubled' = doubled
      /\ latestDiff' = NoDiff
  BY DEF PrepareInstructions
<1> DEFINE k == Current
           h == [k EXCEPT !.diff = NoDiff]
<1>2. Current' = h
  BY <1>1 DEF Current
<1>3. k \in Graph
  BY SettledFacts
<1>4. k \in Fields /\ \A i \in DOMAIN k.edges :
                        k.edges[i].src \in DOMAIN k.domain /\ k.edges[i].dst \in DOMAIN k.domain
  BY <1>3 DEF Graph, Fields
<1>5. Settled(k)
  OBVIOUS
<1> HIDE DEF k
<1>6. /\ h \in Fields /\ h.rules = k.rules /\ h.links = k.links
      /\ h.domain = k.domain
      /\ h.influences = k.influences /\ h.edges = k.edges
  BY <1>4, NoDiffType DEF Fields
<1> HIDE DEF h
<1>7. h \in Graph
  BY <1>4, <1>6 DEF Graph, Fields
<1>8. Settled(h)
  BY <1>5, <1>6, <1>7 DEF Settled, Tidy
<1> QED BY <1>2, <1>8

LEMMA TreesInvInit == Init => TreesInv
<1> SUFFICES ASSUME Init PROVE TreesInv
  OBVIOUS
<1>1. Settled(Start)
  BY StartFacts, StartingSettled
<1> QED BY <1>1, InitFromFacts DEF Init

LEMMA TreesInvStep == TreesInv /\ [Next]_vars => TreesInv'
<1> SUFFICES ASSUME TreesInv, [Next]_vars PROVE TreesInv'
  OBVIOUS
<1>1. Settled(Current) /\ trees \in SUBSET Node /\ tasks \in 0 .. MaxTasks /\ MaxTasks \in Nat
  BY BoundOnTasks DEF TreesInv
<1>2. CASE RunTask
  <2>1. Task /\ tasks' = tasks + 1 /\ tasks < MaxTasks /\ trees' = trees
    BY <1>2 DEF RunTask
  <2>2. Settled(Current')
    BY <1>1, <2>1, TaskSettled
  <2>3. tasks' \in 0 .. MaxTasks
    BY <1>1, <2>1
  <2> QED BY <1>1, <2>1, <2>2, <2>3 DEF TreesInv
<1>3. CASE PrepareInstructions
  <2>1. trees' = UpdateEdges(edges, trees, latestDiff) /\ tasks' = 0
    BY <1>3 DEF PrepareInstructions
  <2>2. edges \in Seq(Edge) /\ latestDiff \in EdgeDiff
    BY <1>1, SettledFacts, GraphFacts, CurrentFields
  <2>3. trees' \in SUBSET Node
    BY <1>1, <2>1, <2>2, UpdateEdgesFacts
  <2>4. Settled(Current')
    BY <1>1, <1>3, PreparedFacts
  <2>5. tasks' \in 0 .. MaxTasks
    BY <1>1, <2>1
  <2> QED BY <2>3, <2>4, <2>5 DEF TreesInv
<1>4. CASE UNCHANGED vars
  BY <1>1, <1>4 DEF vars, graphVars, TreesInv, Current
<1> QED BY <1>2, <1>3, <1>4 DEF Next

(* The invariant of the graph and the trees: between two tasks the graph   *)
(* is settled, its influences are the overlapping pairs of the rules that  *)
(* are in the tables, and the trees consist of nodes.                      *)
THEOREM TreesInvHolds == Spec => []TreesInv
BY TreesInvInit, TreesInvStep, PTL DEF Spec

LEMMA TreesInvTypes == TreesInv => TypeOK
<1> SUFFICES ASSUME TreesInv PROVE TypeOK
  OBVIOUS
<1> DEFINE g == Current
<1>1. g \in Graph /\ Settled(g) /\ g.rules \subseteq TableRule
      /\ DOMAIN g.domain = Special \cup g.rules
  BY SettledFacts DEF TreesInv
<1>2. \A v \in DOMAIN g.domain : g.domain[v] \in Space
  BY <1>1, GraphFacts
<1>3. g.influences \subseteq g.rules \X g.rules
  BY <1>1, PairsFacts DEF Settled
<1>4. g.lossy \in BOOLEAN /\ g.doubled \in BOOLEAN
  BY <1>1 DEF Graph
<1>5. \A n \in trees : n.space \in Space /\ ToSet(n.chain) \subseteq Vertices
  BY NodeFacts DEF TreesInv
<1>6. /\ g.rules = rules /\ g.domain = domain /\ g.influences = influences
      /\ g.lossy = lossy /\ g.doubled = doubled
  BY CurrentFields
<1> HIDE DEF g
<1>7. tasks \in 0 .. MaxTasks
  BY DEF TreesInv
<1>8. DOMAIN domain = Outputs \cup {Source(p) : p \in Ports} \cup rules
  BY <1>1, <1>6 DEF Special
<1> QED BY <1>1, <1>2, <1>3, <1>4, <1>5, <1>6, <1>7, <1>8 DEF TypeOK

(* Whatever tasks run in whatever order, exactly the ports and the rules   *)
(* that are in the tables have a domain, no influence is left of a rule    *)
(* that is gone, and the trees are made of vertices.                       *)
THEOREM TypesHold == Spec => []TypeOK
BY TreesInvHolds, TreesInvTypes, PTL

(* Every rule of the tables has as its domain what the rules above it      *)
(* leave: a header is in the domain if and only if the rule matches it and *)
(* no rule above it that it overlaps with does.                            *)
Untaken(v) ==
  {h \in Match[v].headers :
     \A q \in rules : Over(q, v) => h \notin Match[q].headers}
DomainsFollowTables ==
  \A v \in rules : domain[v] = [port |-> Match[v].port, headers |-> Untaken(v)]

LEMMA MeetHeaders ==
  ASSUME NEW q \in TableRule, NEW v \in TableRule, Overlap(q, v)
  PROVE  Meet(Match[q], Match[v]).headers = Match[q].headers \cap Match[v].headers
BY DEF Overlap, IsEmpty, Meet, EmptySpace

LEMMA LeftOfPairs ==
  ASSUME NEW R \in SUBSET TableRule, NEW v \in R
  PROVE  /\ Left(Pairs(R), v).port = Match[v].port
         /\ Left(Pairs(R), v) = [port |-> Match[v].port, headers |-> Left(Pairs(R), v).headers]
         /\ \A h : h \in Left(Pairs(R), v).headers
                    <=> h \in Match[v].headers /\ \A q \in R : Over(q, v) => h \notin Match[q].headers
<1>1. Uppers(Pairs(R), v) = {q \in R : Over(q, v)}
  BY PairsFacts DEF Uppers
<1>2. \A q \in R : Over(q, v) =>
         Meet(Match[q], Match[v]).headers = Match[q].headers \cap Match[v].headers
  BY MeetHeaders DEF Over
<1> DEFINE U == Uppers(Pairs(R), v)
<1>3. \A h : h \in Taken(U, v) <=> \E q \in U : h \in Meet(Match[q], Match[v]).headers
  BY Zenon DEF Taken
<1>4. \A h : h \in Taken(U, v) <=>
               h \in Match[v].headers /\ \E q \in R : Over(q, v) /\ h \in Match[q].headers
  BY <1>1, <1>2, <1>3
<1>5. /\ Left(Pairs(R), v).port = Match[v].port
      /\ Left(Pairs(R), v).headers = Match[v].headers \ Taken(U, v)
      /\ Left(Pairs(R), v) = [port |-> Match[v].port, headers |-> Left(Pairs(R), v).headers]
  BY DEF Left
<1> HIDE DEF U
<1> QED BY <1>4, <1>5

LEMMA SettledDomains ==
  ASSUME NEW g, Settled(g), NEW v \in g.rules
  PROVE  g.domain[v] = Left(Pairs(g.rules), v)
BY DEF Settled, Tidy

(* After every task, the domain of a rule is what it matches without what  *)
(* the rules above it in its table match, although addRule and deleteRule  *)
(* only ever add and take away a part of it.                               *)
THEOREM DomainsFollowTablesHolds == Spec => []DomainsFollowTables
<1>1. TreesInv => DomainsFollowTables
  <2> SUFFICES ASSUME TreesInv, NEW v \in rules
               PROVE  domain[v] = [port |-> Match[v].port, headers |-> Untaken(v)]
    BY DEF DomainsFollowTables
  <2>1. domain[v] = Left(Pairs(rules), v) /\ rules \in SUBSET TableRule
    BY SettledDomains, SettledFacts, CurrentFields DEF TreesInv
  <2>2. Left(Pairs(rules), v).headers = Untaken(v)
    BY <2>1, LeftOfPairs DEF Untaken
  <2> QED BY <2>1, <2>2, LeftOfPairs
<1> QED BY <1>1, TreesInvHolds, PTL

(***************************************************************************)
(* Arcs: the ways of packets by the tables and the links alone.  Sound and *)
(* Complete relate the edges of the graph to them.                         *)
(***************************************************************************)
(* The ways of packets by the tables with the rules V and the links L: from *)
(* the source of a port without a link to the rules of its switch, and     *)
(* from a rule to where its outputs lead.                                  *)
Leads(L, o) == Kind(o) = "sink" /\ o[2] \in DOMAIN L
Hits(V, L, o) == IF Leads(L, o) THEN {x \in V : Switch[x] = Home[L[o[2]]]} ELSE {o}
Via(L, o) == IF Leads(L, o) THEN L[o[2]]
             ELSE IF Kind(o) = "sink" THEN o[2] ELSE NoPort

FromSource(V, L, w) ==
  /\ w[2] \in V /\ w[3] = NoPort
  /\ \E p \in Ports \ DOMAIN L : w[1] = Source(p) /\ Switch[w[2]] = Home[p]
FromRule(V, L, w) ==
  /\ w[1] \in V
  /\ \E o \in ToSet(Actions[w[1]]) : w[2] \in Hits(V, L, o) /\ w[3] = Via(L, o)
Triples == Vertices \X Vertices \X (Ports \cup {NoPort})
Arcs(V, L) == {w \in Triples : FromSource(V, L, w) \/ FromRule(V, L, w)}

(* The headers that take a way, the edges for ways, and all of them.       *)
Passed(g, w) == Match[w[1]].headers \cap g.domain[w[2]].headers
Fine(g, e) == e.domain.port # NoPort /\ e.domain.headers \subseteq Passed(g, Way(e))
Has(E, w, h) == \E e \in E : Way(e) = w /\ h \in e.domain.headers
Sound(g, A) == \A e \in ToSet(g.edges) : Way(e) \in A /\ Fine(g, e)
Complete(g, A) == \A w \in A : \A h \in Passed(g, w) : Has(ToSet(g.edges), w, h)

LEMMA TripleFacts ==
  ASSUME NEW V, NEW L, NEW w \in Arcs(V, L)
  PROVE  /\ w = <<w[1], w[2], w[3]>>
         /\ w[1] \in Vertices /\ w[2] \in Vertices
         /\ w[3] \in Ports \cup {NoPort}
         /\ FromSource(V, L, w) \/ FromRule(V, L, w)
BY DEF Arcs, Triples

LEMMA PlainMatch ==
  ASSUME PlainNetwork, NEW r \in TableRule
  PROVE  Match[r].port = AnyPort
<1>1. CASE \E s \in Switches : r = Miss(s)
  BY <1>1, MatchFacts DEF SpaceAt
<1>2. CASE \E f \in Flows : r = Flow(f)
  BY <1>2, MatchFacts DEF PlainNetwork
<1> QED BY <1>1, <1>2, VertexFacts

LEMMA TidyPorts ==
  ASSUME PlainNetwork, NEW g, NEW V, Tidy(g, V)
  PROVE  /\ \A v \in V : g.domain[v].port = AnyPort /\ g.domain[v].headers \subseteq Match[v].headers
         /\ \A p \in Ports : g.domain[Sink(p)] = SpaceAt(p)
         /\ g.domain[Drop] = SpaceAt(AnyPort)
         /\ g.domain[Controller] = SpaceAt(AnyPort)
<1>1. /\ V \subseteq TableRule /\ \A v \in Special : g.domain[v] = Match[v]
      /\ \A v \in V : g.domain[v] = Left(g.influences, v)
  BY DEF Tidy
<1>2. ASSUME NEW v \in V
      PROVE  g.domain[v].port = AnyPort /\ g.domain[v].headers \subseteq Match[v].headers
  <2>1. v \in TableRule /\ g.domain[v] = Left(g.influences, v)
    BY <1>1
  <2>2. Match[v].port = AnyPort
    BY <2>1, PlainMatch
  <2>3. Left(g.influences, v).port = Match[v].port
    BY DEF Left
  <2>4. Left(g.influences, v).headers \subseteq Match[v].headers
    BY DEF Left
  <2> QED BY <2>1, <2>2, <2>3, <2>4
<1>3. \A p \in Ports : Sink(p) \in Special
  BY VertexFacts DEF Special
<1>4. Drop \in Special /\ Controller \in Special
  BY VertexFacts DEF Special
<1> QED BY <1>1, <1>2, <1>3, <1>4, MatchFacts

(* Where a way leads, by its first vertex.                                 *)
LEMMA SourceArc ==
  ASSUME NEW V, NEW L, NEW w \in Arcs(V, L), FromSource(V, L, w)
  PROVE  /\ \E p \in Ports \ DOMAIN L : w[1] = Source(p) /\ Switch[w[2]] = Home[p]
         /\ w[2] \in V /\ w[3] = NoPort
BY DEF FromSource

LEMMA HeadersIn ==
  ASSUME NEW v \in Vertices
  PROVE  Match[v].headers \subseteq Headers
BY MatchFacts DEF Space

(* The edge for a way carries what takes it.                               *)
LEMMA ArcEdge ==
  ASSUME PlainNetwork, NEW g, NEW V, Tidy(g, V), NEW R \in SUBSET V, NEW L \in Links,
         NEW w \in Arcs(R, L)
  PROVE  /\ w \in WaysOf(g) /\ w[2] \in Special \cup R
         /\ EdgeOf(g, w).domain.port # NoPort
         /\ EdgeOf(g, w).domain.headers = Passed(g, w)
<1>1. /\ w = <<w[1], w[2], w[3]>>
      /\ w[1] \in Vertices /\ w[2] \in Vertices /\ w[3] \in Ports \cup {NoPort}
      /\ FromSource(R, L, w) \/ FromRule(R, L, w)
  BY TripleFacts
<1>2. /\ V \subseteq TableRule /\ DOMAIN g.domain = Special \cup V
      /\ g \in Graph
  BY DEF Tidy
<1>3. /\ DOMAIN L \subseteq Ports /\ \A x \in DOMAIN L : L[x] \in Ports
  BY LinksFacts
<1> DEFINE s == Apply(w[3], Match[w[1]])
           d == g.domain[w[2]]
<1> HIDE DEF s, d
<1>4. EdgeOf(g, w).domain = Meet(s, d)
  BY DEF EdgeOf, Handed, s, d
<1>5. AnyPort # NoPort /\ \A p \in Ports : p # NoPort /\ p # AnyPort
  BY SpecialPorts
<1>6. \A p : SpaceAt(p).port = p /\ SpaceAt(p).headers = Headers
  BY DEF SpaceAt
<1>7. ASSUME s.port # NoPort, d.port \in {s.port, AnyPort},
             s.headers = Match[w[1]].headers
      PROVE  EdgeOf(g, w).domain.port # NoPort /\ EdgeOf(g, w).domain.headers = Passed(g, w)
  <2> DEFINE c == CommonPort(s.port, d.port)
  <2>1. c # NoPort
    BY <1>5, <1>7, SpecialPorts DEF CommonPort
  <2>2. Meet(s, d) = [port |-> c, headers |-> s.headers \cap d.headers]
    BY <2>1 DEF Meet
  <2> HIDE DEF c
  <2>3. EdgeOf(g, w).domain = [port |-> c, headers |-> s.headers \cap d.headers]
    BY <1>4, <2>2
  <2> QED BY <1>7, <2>1, <2>3 DEF Passed, d
<1>8. \A q \in Ports : Apply(q, Match[w[1]]).port = q
                       /\ Apply(q, Match[w[1]]).headers = Match[w[1]].headers
  <2>1. Match[w[1]] \in Space
    BY <1>1, MatchFacts
  <2> QED BY <1>5, <2>1 DEF Apply, Space
<1>9. Apply(NoPort, Match[w[1]]) = Match[w[1]]
  BY DEF Apply
<1>10. CASE FromSource(R, L, w)
  <2>1. PICK p \in Ports \ DOMAIN L : w[1] = Source(p) /\ w[2] \in R /\ w[3] = NoPort
    BY <1>10 DEF FromSource
  <2>2. w[1] \in Special
    BY <2>1 DEF Special
  <2>3. s = SpaceAt(p)
    BY <1>9, <2>1, MatchFacts DEF s
  <2>4. d.port = AnyPort
    BY <2>1, TidyPorts DEF d
  <2>5. Match[w[1]] = SpaceAt(p)
    BY <2>1, MatchFacts
  <2>6. p \in Ports /\ s.port = p /\ s.headers = Match[w[1]].headers
    BY <1>6, <2>1, <2>3, <2>5
  <2>7. EdgeOf(g, w).domain.port # NoPort /\ EdgeOf(g, w).domain.headers = Passed(g, w)
    BY <1>5, <1>7, <2>4, <2>6
  <2>8. w \in WaysOf(g)
    BY <1>1, <1>2, <2>1, <2>2 DEF WaysOf
  <2> QED BY <2>1, <2>7, <2>8
<1>11. CASE FromRule(R, L, w)
  <2>1. PICK o \in ToSet(Actions[w[1]]) : w[2] \in Hits(R, L, o) /\ w[3] = Via(L, o)
    BY <1>11 DEF FromRule
  <2>2. w[1] \in R /\ w[1] \in TableRule
    BY <1>2, <1>11 DEF FromRule
  <2>3. o \in Outputs
    BY <2>1, <2>2, RuleFacts DEF ToSet
  <2>4. Match[w[1]].port = AnyPort
    BY <2>2, PlainMatch
  <2>5. CASE Leads(L, o)
    <3>1. w[2] \in R /\ w[3] = L[o[2]] /\ w[3] \in Ports
      BY <1>3, <2>1, <2>5 DEF Hits, Via, Leads
    <3>2. d.port = AnyPort
      BY <3>1, TidyPorts DEF d
    <3>3. s.port = w[3] /\ s.headers = Match[w[1]].headers
      BY <1>8, <3>1 DEF s
    <3>4. EdgeOf(g, w).domain.port # NoPort /\ EdgeOf(g, w).domain.headers = Passed(g, w)
      BY <1>5, <1>7, <3>1, <3>2, <3>3
    <3>5. w \in WaysOf(g)
      BY <1>1, <1>2, <2>2, <3>1 DEF WaysOf
    <3> QED BY <3>1, <3>4, <3>5
  <2>6. CASE ~Leads(L, o)
    <3>1. w[2] = o /\ o \in Special
      BY <2>1, <2>3, <2>6 DEF Hits, Special
    <3>2. w \in WaysOf(g)
      BY <1>1, <1>2, <2>2, <3>1 DEF WaysOf
    <3>3. CASE Kind(o) = "sink"
      <4>1. PICK p \in Ports : o = Sink(p)
        BY <2>3, <3>3, VertexFacts
      <4>2. w[3] = p
        BY <2>1, <2>6, <3>3, <4>1, VertexFacts DEF Via
      <4>3. d.port = p
        BY <1>6, <3>1, <4>1, TidyPorts DEF d
      <4>4. s.port = p /\ s.headers = Match[w[1]].headers
        BY <1>8, <4>1, <4>2 DEF s
      <4>5. EdgeOf(g, w).domain.port # NoPort /\ EdgeOf(g, w).domain.headers = Passed(g, w)
        BY <1>5, <1>7, <4>1, <4>3, <4>4
      <4> QED BY <3>1, <3>2, <4>5
    <3>4. CASE Kind(o) # "sink"
      <4>1. o \in {Drop, Controller}
        BY <2>3, <3>4, VertexFacts DEF Outputs
      <4>2. w[3] = NoPort
        BY <2>1, <2>6, <3>4 DEF Via
      <4>3. d.port = AnyPort
        BY <1>6, <3>1, <4>1, TidyPorts DEF d
      <4>4. s = Match[w[1]]
        BY <1>9, <4>2 DEF s
      <4>5. s.port = AnyPort /\ s.headers = Match[w[1]].headers
        BY <2>4, <4>4
      <4>6. EdgeOf(g, w).domain.port # NoPort /\ EdgeOf(g, w).domain.headers = Passed(g, w)
        BY <1>5, <1>7, <4>3, <4>5
      <4> QED BY <3>1, <3>2, <4>6
    <3> QED BY <3>3, <3>4
  <2> QED BY <2>5, <2>6
<1> QED BY <1>1, <1>10, <1>11

(***************************************************************************)
(* What an operation that adds edges or ends makes of Sound and Complete;  *)
(* ways within plain networks.                                             *)
(***************************************************************************)
LEMMA CarryingArcs ==
  ASSUME PlainNetwork, NEW g, NEW V, Tidy(g, V), NEW R \in SUBSET V, NEW L \in Links,
         NEW W, W \subseteq Arcs(R, L)
  PROVE  /\ \A e \in Carrying(g, W) : Way(e) \in W /\ Fine(g, e)
         /\ \A w \in W : \A h \in Passed(g, w) : Has(Carrying(g, W), w, h)
<1>1. ASSUME NEW w \in W
      PROVE  /\ Way(EdgeOf(g, w)) = w /\ Fine(g, EdgeOf(g, w))
             /\ EdgeOf(g, w).domain.port # NoPort
             /\ EdgeOf(g, w).domain.headers = Passed(g, w)
  <2> DEFINE e == EdgeOf(g, w)
  <2>1. w \in Arcs(R, L) /\ g \in Graph
    BY DEF Tidy
  <2>2. w \in WaysOf(g) /\ e.domain.port # NoPort /\ e.domain.headers = Passed(g, w)
    BY <2>1, ArcEdge
  <2>3. e.src = w[1] /\ e.dst = w[2] /\ e.transfer = w[3]
    BY <2>1, <2>2, EdgeOfFacts
  <2>4. w = <<w[1], w[2], w[3]>>
    BY <2>1, TripleFacts
  <2> HIDE DEF e
  <2>5. Way(e) = w
    BY <2>3, <2>4 DEF Way
  <2>6. Fine(g, e)
    BY <2>2, <2>5 DEF Fine
  <2> QED BY <2>2, <2>5, <2>6 DEF e
<1>2. ASSUME NEW e \in Carrying(g, W)
      PROVE  Way(e) \in W /\ Fine(g, e)
  <2>1. PICK w \in W : e = EdgeOf(g, w)
    BY DEF Carrying
  <2> QED BY <1>1, <2>1
<1>3. ASSUME NEW w \in W, NEW h \in Passed(g, w)
      PROVE  Has(Carrying(g, W), w, h)
  <2> DEFINE e == EdgeOf(g, w)
  <2>1. ~IsEmpty(e.domain) /\ h \in e.domain.headers /\ Way(e) = w
    BY <1>1 DEF IsEmpty
  <2>2. e \in Carrying(g, W)
    BY <2>1 DEF Carrying
  <2> HIDE DEF e
  <2> QED BY <2>1, <2>2 DEF Has
<1> QED BY <1>2, <1>3

LEMMA SamePassed ==
  ASSUME NEW g, NEW h, h.domain = g.domain
  PROVE  /\ \A w : Passed(h, w) = Passed(g, w)
         /\ \A e : Fine(h, e) <=> Fine(g, e)
BY DEF Passed, Fine

LEMMA AddsFollows ==
  ASSUME PlainNetwork, NEW g, NEW V, Tidy(g, V), NEW R \in SUBSET V, NEW L \in Links,
         NEW W, W \subseteq Arcs(R, L), NEW h, Adds(g, h, W),
         NEW A, Sound(g, A), Complete(g, A)
  PROVE  Sound(h, A \cup W) /\ Complete(h, A \cup W)
<1>1. /\ h.domain = g.domain
      /\ ToSet(h.edges) = ToSet(g.edges) \cup Carrying(g, W)
  BY DEF Adds, Kept
<1>2. /\ \A e \in Carrying(g, W) : Way(e) \in W /\ Fine(g, e)
      /\ \A w \in W : \A x \in Passed(g, w) : Has(Carrying(g, W), w, x)
  BY CarryingArcs
<1>3. /\ \A w : Passed(h, w) = Passed(g, w)
      /\ \A e : Fine(h, e) <=> Fine(g, e)
  BY <1>1, SamePassed
<1>4. Sound(h, A \cup W)
  BY <1>1, <1>2, <1>3 DEF Sound
<1>5. ASSUME NEW w \in A \cup W, NEW x \in Passed(h, w)
      PROVE  Has(ToSet(h.edges), w, x)
  <2>1. x \in Passed(g, w)
    BY <1>3
  <2>2. Has(ToSet(g.edges), w, x) \/ Has(Carrying(g, W), w, x)
    BY <1>2, <2>1 DEF Complete
  <2> QED BY <1>1, <2>2 DEF Has
<1> QED BY <1>4, <1>5 DEF Complete

LEMMA FinishFollows ==
  ASSUME NEW g \in Graph, NEW A, Sound(g, A), Complete(g, A)
  PROVE  Sound(Finish(g), A) /\ Complete(Finish(g), A)
<1> DEFINE h == Finish(g)
<1>1. /\ h.domain = g.domain
      /\ ToSet(h.edges) = {e \in ToSet(g.edges) : ~IsEmpty(e.domain)}
  BY FinishFacts DEF Kept
<1> HIDE DEF h
<1>3. /\ \A w : Passed(h, w) = Passed(g, w)
      /\ \A e : Fine(h, e) <=> Fine(g, e)
  BY <1>1, SamePassed
<1>4. Sound(h, A)
  BY <1>1, <1>3 DEF Sound
<1>5. ASSUME NEW w \in A, NEW x \in Passed(h, w)
      PROVE  Has(ToSet(h.edges), w, x)
  <2>1. Has(ToSet(g.edges), w, x)
    BY <1>3 DEF Complete
  <2>2. PICK e \in ToSet(g.edges) : Way(e) = w /\ x \in e.domain.headers
    BY <2>1 DEF Has
  <2>3. ~IsEmpty(e.domain)
    BY <2>2 DEF Sound, Fine, IsEmpty
  <2> QED BY <1>1, <2>2, <2>3 DEF Has
<1> QED BY <1>4, <1>5 DEF h, Complete

LEMMA SameFollows ==
  ASSUME NEW g, NEW h, h.domain = g.domain, h.edges = g.edges,
         NEW A, Sound(g, A), Complete(g, A)
  PROVE  Sound(h, A) /\ Complete(h, A)
BY SamePassed DEF Sound, Complete

----
(* Links along the cables of the network.                                  *)
Wired(L) == L \in Links /\ \A p \in DOMAIN L : Cabled(p, L[p])

LEMMA SinkHome ==
  ASSUME NEW r \in TableRule, NEW p \in Ports, Sink(p) \in ToSet(Actions[r])
  PROVE  /\ Switch[r] = Home[p]
         /\ \E f \in Flows : r = Flow(f) /\ ToSet(Actions[r]) = ToSet(Attr[f].out)
<1>1. PICK i \in DOMAIN Actions[r] : Actions[r][i] = Sink(p)
  BY DEF ToSet
<1>2. Sink(p) # Drop /\ Kind(Sink(p)) = "sink" /\ Sink(p)[2] = p
  BY DEF Sink, Drop, Kind
<1>3. Actions[r] # <<Drop>>
  BY <1>1, <1>2
<1>4. PICK f \in Flows : r = Flow(f)
  BY <1>3, VertexFacts DEF Actions
<1>5. Actions[r] = Attr[f].out /\ Switch[r] = Attr[f].sw
  BY <1>3, <1>4, VertexFacts DEF Actions, Switch
<1>6. i \in DOMAIN Attr[f].out /\ Attr[f].out[i] = Sink(p)
  BY <1>1, <1>5
<1>7. \A j \in DOMAIN Attr[f].out :
        Kind(Attr[f].out[j]) = "sink" => Home[Attr[f].out[j][2]] = Attr[f].sw
  BY NetworkShape
<1> QED BY <1>2, <1>4, <1>5, <1>6, <1>7

LEMMA LedTo ==
  ASSUME NEW V \in SUBSET TableRule, NEW L \in Links, NEW w, FromRule(V, L, w), w[2] \in TableRule
  PROVE  \E p \in DOMAIN L : /\ p \in Ports /\ L[p] \in Ports
                             /\ Sink(p) \in ToSet(Actions[w[1]]) /\ w[3] = L[p]
                             /\ Switch[w[2]] = Home[L[p]] /\ w[2] \in V
<1>1. PICK o \in ToSet(Actions[w[1]]) : w[2] \in Hits(V, L, o) /\ w[3] = Via(L, o)
  BY DEF FromRule
<1>2. w[1] \in TableRule
  BY DEF FromRule
<1>3. o \in Outputs
  BY <1>1, <1>2, RuleFacts DEF ToSet
<1>4. o \notin TableRule
  BY <1>3, SpecialFacts DEF Special
<1>5. Leads(L, o)
  BY <1>1, <1>4 DEF Hits
<1>6. PICK p \in Ports : o = Sink(p)
  BY <1>3, <1>5, VertexFacts DEF Leads
<1>7. o[2] = p /\ p \in DOMAIN L /\ L[p] \in Ports
  BY <1>5, <1>6, VertexFacts, LinksFacts DEF Leads
<1> QED BY <1>1, <1>5, <1>6, <1>7 DEF Hits, Via

LEMMA NotLed ==
  ASSUME NEW V \in SUBSET TableRule, NEW L, NEW w, FromRule(V, L, w), w[2] \notin TableRule
  PROVE  w[2] \in ToSet(Actions[w[1]]) /\ ~Leads(L, w[2]) /\ w[3] = Via(L, w[2])
BY DEF FromRule, Hits

LEMMA Exchange ==
  ASSUME NEW V \in SUBSET TableRule, NEW L \in Links, NEW w \in Arcs(V, L), w[2] \in V,
         NEW x \in V, Switch[x] = Switch[w[2]]
  PROVE  <<w[1], x, w[3]>> \in Arcs(V, L)
<1> DEFINE y == <<w[1], x, w[3]>>
<1>1. y \in Triples /\ y[1] = w[1] /\ y[2] = x /\ y[3] = w[3]
  BY TripleFacts, VertexFacts DEF Triples
<1> HIDE DEF y
<1>2. CASE FromSource(V, L, w)
  <2>1. FromSource(V, L, y)
    BY <1>1, <1>2 DEF FromSource
  <2> QED BY <1>1, <2>1 DEF Arcs, y
<1>3. CASE FromRule(V, L, w)
  <2>1. PICK p \in DOMAIN L : /\ p \in Ports /\ L[p] \in Ports
                             /\ Sink(p) \in ToSet(Actions[w[1]]) /\ w[3] = L[p]
                             /\ Switch[w[2]] = Home[L[p]] /\ w[2] \in V
    BY <1>3, LedTo
  <2>2. Leads(L, Sink(p)) /\ Sink(p)[2] = p
    BY <2>1, VertexFacts DEF Leads
  <2>3. x \in Hits(V, L, Sink(p)) /\ w[3] = Via(L, Sink(p))
    BY <2>1, <2>2 DEF Hits, Via
  <2>4. FromRule(V, L, y)
    BY <1>1, <1>3, <2>1, <2>3 DEF FromRule
  <2> QED BY <1>1, <2>4 DEF Arcs, y
<1> QED BY <1>2, <1>3, TripleFacts

(* No link leads from a switch to itself.                                  *)
LEMMA OffSwitch ==
  ASSUME PlainNetwork, NEW V \in SUBSET TableRule, NEW L, Wired(L), NEW w \in Arcs(V, L),
         w[1] \in V, w[2] \in V
  PROVE  Switch[w[1]] # Switch[w[2]]
<1>1. ~FromSource(V, L, w)
  <2>1. w[1] \in TableRule
    OBVIOUS
  <2>2. \A p \in Ports : Source(p) \notin TableRule
    BY SpecialFacts DEF Special
  <2> QED BY <2>1, <2>2 DEF FromSource
<1>2. FromRule(V, L, w) /\ L \in Links
  BY <1>1, TripleFacts DEF Wired
<1>3. PICK p \in DOMAIN L : /\ p \in Ports /\ L[p] \in Ports
                            /\ Sink(p) \in ToSet(Actions[w[1]]) /\ w[3] = L[p]
                            /\ Switch[w[2]] = Home[L[p]] /\ w[2] \in V
  BY <1>2, LedTo
<1>4. Switch[w[1]] = Home[p]
  BY <1>3, SinkHome
<1>5. Cabled(p, L[p])
  BY <1>3 DEF Wired
<1> QED BY <1>3, <1>4, <1>5 DEF PlainNetwork

(* The ends of a way tell the way.                                         *)
LEMMA OneWay ==
  ASSUME PlainNetwork, NEW V \in SUBSET TableRule, NEW L, Wired(L), NEW w \in Arcs(V, L),
         NEW y \in Arcs(V, L), w[1] = y[1], w[2] = y[2]
  PROVE  w = y
<1>1. \A p \in Ports : Source(p) \notin TableRule
  BY SpecialFacts DEF Special
<1>2. CASE FromSource(V, L, w)
  <2>1. w[1] \notin V /\ w[3] = NoPort
    BY <1>1, <1>2 DEF FromSource
  <2>2. FromSource(V, L, y)
    BY <2>1, TripleFacts DEF FromRule
  <2>3. w[3] = y[3]
    BY <2>1, <2>2 DEF FromSource
  <2> QED BY <2>3, TripleFacts
<1>3. CASE ~FromSource(V, L, w)
  <2>1. FromRule(V, L, w) /\ L \in Links
    BY <1>3, TripleFacts DEF Wired
  <2>2. y[1] \in V
    BY <2>1 DEF FromRule
  <2>3. FromRule(V, L, y)
    BY <1>1, <2>2, TripleFacts DEF FromSource
  <2>4. CASE w[2] \in TableRule
    <3>1. PICK p \in DOMAIN L : /\ p \in Ports /\ L[p] \in Ports
                                /\ Sink(p) \in ToSet(Actions[w[1]])
                                /\ w[3] = L[p]
                                /\ Switch[w[2]] = Home[L[p]] /\ w[2] \in V
      BY <2>1, <2>4, LedTo
    <3>2. PICK q \in DOMAIN L : /\ q \in Ports /\ L[q] \in Ports
                                /\ Sink(q) \in ToSet(Actions[y[1]])
                                /\ y[3] = L[q]
                                /\ Switch[y[2]] = Home[L[q]] /\ y[2] \in V
      BY <2>1, <2>3, <2>4, LedTo
    <3>3. PICK f \in Flows : ToSet(Actions[w[1]]) = ToSet(Attr[f].out)
      BY <2>2, <3>1, SinkHome
    <3>4. /\ {Sink(p), Sink(q)} \subseteq ToSet(Attr[f].out)
          /\ Cabled(p, L[p]) /\ Cabled(q, L[q]) /\ Home[L[p]] = Home[L[q]]
      BY <3>1, <3>2, <3>3 DEF Wired
    <3>5. p = q
      BY <3>1, <3>2, <3>4 DEF PlainNetwork
    <3> QED BY <3>1, <3>2, <3>5, TripleFacts
  <2>5. CASE w[2] \notin TableRule
    <3>1. w[3] = Via(L, w[2]) /\ y[3] = Via(L, y[2])
      BY <2>1, <2>3, <2>5, NotLed
    <3> QED BY <3>1, TripleFacts
  <2> QED BY <2>4, <2>5
<1> QED BY <1>2, <1>3

(***************************************************************************)
(* The edges of a new rule are its arcs.                                   *)
(***************************************************************************)
LEMMA ReceiversHit ==
  ASSUME PlainNetwork, NEW g \in Graph, Distinct(g.rules), NEW o \in Outputs
  PROVE  /\ ToSet(Receivers(g, o)) = Hits(g.rules, g.links, o)
         /\ TransferTo(g, o) = Via(g.links, o)
         /\ Hits(g.rules, g.links, o) \subseteq Vertices
<1>1. Linked(g, o) <=> Leads(g.links, o)
  BY DEF Linked, Leads
<1>2. TransferTo(g, o) = Via(g.links, o)
  BY <1>1 DEF TransferTo, Via
<1>3. g.rules \subseteq TableRule /\ TableRule \subseteq Vertices /\ o \in Vertices
  BY GraphFacts, VertexFacts
<1>4. Hits(g.rules, g.links, o) \subseteq Vertices
  BY <1>3 DEF Hits
<1>5. CASE Linked(g, o)
  <2>1. Receivers(g, o) = DstRules(g, g.links[o[2]])
    BY <1>5 DEF Receivers
  <2>2. \A p : ToSet(DstRules(g, p)) = {r \in g.rules : Switch[r] = Home[p]
                                          /\ Match[r].port \in {p, AnyPort}}
    BY DstRulesFacts
  <2>3. \A r \in g.rules : Match[r].port = AnyPort
    BY <1>3, PlainMatch
  <2> QED BY <1>1, <1>2, <1>4, <1>5, <2>1, <2>2, <2>3 DEF Hits
<1>6. CASE ~Linked(g, o)
  <2>1. Receivers(g, o) = <<o>>
    BY <1>6 DEF Receivers
  <2>2. ToSet(<<o>>) = {o}
    BY DEF ToSet
  <2> QED BY <1>1, <1>2, <1>4, <1>6, <2>1, <2>2 DEF Hits
<1> QED BY <1>5, <1>6

LEMMA OutWaysArcs ==
  ASSUME PlainNetwork, NEW g \in Graph, Distinct(g.rules), NEW r \in g.rules
  PROVE  OutWays(g, r) = {w \in Arcs(g.rules, g.links) : w[1] = r}
<1>1. r \in TableRule /\ r \in Vertices
  BY GraphFacts, VertexFacts
<1>2. \A o \in ToSet(Actions[r]) : o \in Outputs
  BY <1>1, RuleFacts DEF ToSet
<1>3. \A o \in ToSet(Actions[r]) :
        /\ ToSet(Receivers(g, o)) = Hits(g.rules, g.links, o)
        /\ TransferTo(g, o) = Via(g.links, o)
        /\ Hits(g.rules, g.links, o) \subseteq Vertices
        /\ TransferTo(g, o) \in Ports \cup {NoPort}
  BY <1>2, ReceiversHit, TransferFacts
<1>4. ASSUME NEW w \in OutWays(g, r)
      PROVE  w \in Arcs(g.rules, g.links) /\ w[1] = r
  <2>1. PICK o \in ToSet(Actions[r]) : w \in Onwards(g, r, o)
    BY DEF OutWays
  <2>2. PICK x \in ToSet(Receivers(g, o)) : w = <<r, x, TransferTo(g, o)>>
    BY <2>1 DEF Onwards
  <2>3. w[1] = r /\ w[2] = x /\ w[3] = Via(g.links, o)
    BY <1>3, <2>2
  <2>4. x \in Hits(g.rules, g.links, o) /\ x \in Vertices
    BY <1>3, <2>2
  <2>5. w \in Triples
    BY <1>1, <1>3, <2>2, <2>4 DEF Triples
  <2>6. FromRule(g.rules, g.links, w)
    BY <2>3, <2>4 DEF FromRule
  <2> QED BY <2>3, <2>5, <2>6 DEF Arcs
<1>5. ASSUME NEW w \in Arcs(g.rules, g.links), w[1] = r
      PROVE  w \in OutWays(g, r)
  <2>1. \A p \in Ports : Source(p) \notin TableRule
    BY SpecialFacts DEF Special
  <2>2. FromRule(g.rules, g.links, w)
    BY <1>1, <1>5, <2>1, TripleFacts DEF FromSource
  <2>3. PICK o \in ToSet(Actions[r]) : w[2] \in Hits(g.rules, g.links, o) /\ w[3] = Via(g.links, o)
    BY <1>5, <2>2 DEF FromRule
  <2>4. w = <<r, w[2], TransferTo(g, o)>> /\ w[2] \in ToSet(Receivers(g, o))
    BY <1>3, <1>5, <2>3, TripleFacts
  <2>5. w \in Onwards(g, r, o)
    BY <2>4 DEF Onwards
  <2> QED BY <2>5 DEF OutWays
<1> QED BY <1>4, <1>5

(* Rules without a port overlap where they match a header in common.       *)
LEMMA PlainMeet ==
  ASSUME PlainNetwork, NEW q \in TableRule, NEW r \in TableRule
  PROVE  /\ Meet(Match[q], Match[r]).headers = Match[q].headers \cap Match[r].headers
         /\ Overlap(q, r) <=> Match[q].headers \cap Match[r].headers # {}
<1>1. Match[q].port = AnyPort /\ Match[r].port = AnyPort /\ AnyPort # NoPort
  BY PlainMatch, SpecialPorts
<1>2. CommonPort(Match[q].port, Match[r].port) = AnyPort
  BY <1>1 DEF CommonPort
<1>3. Meet(Match[q], Match[r]) = [port |-> AnyPort,
                                  headers |-> Match[q].headers \cap Match[r].headers]
  BY <1>1, <1>2 DEF Meet
<1> QED BY <1>1, <1>3 DEF Overlap, IsEmpty

LEMMA PlainLeft ==
  ASSUME PlainNetwork, NEW v \in TableRule, NEW I
  PROVE  \A h : h \in Left(I, v).headers
                  <=> h \in Match[v].headers /\ \A u \in Uppers(I, v) : h \notin Match[u].headers
<1>1. \A u \in Uppers(I, v) :
        Meet(Match[u], Match[v]).headers = Match[u].headers \cap Match[v].headers
  BY PlainMeet DEF Uppers
<1>2. Left(I, v).headers = Match[v].headers \ Taken(Uppers(I, v), v)
  BY DEF Left
<1>3. \A h : h \in Taken(Uppers(I, v), v)
               <=> \E u \in Uppers(I, v) : h \in Meet(Match[u], Match[v]).headers
  BY DEF Taken
<1> QED BY <1>1, <1>2, <1>3

LEMMA PlainOver ==
  ASSUME PlainNetwork, NEW u \in TableRule, NEW r \in TableRule, NEW q \in TableRule,
         Over(u, r), Over(r, q), NEW h, h \in Match[u].headers, h \in Match[q].headers
  PROVE  Over(u, q)
<1>1. Priority[u] \in Nat /\ Priority[r] \in Nat /\ Priority[q] \in Nat
  BY RuleFacts
<1>2. Overlap(u, q)
  BY PlainMeet
<1> QED BY <1>1, <1>2 DEF Over

(***************************************************************************)
(* AddInEdges, one lower rule after the other: the edges to the new rule   *)
(* come to have what is taken so far.                                      *)
(***************************************************************************)
(* The rules below r get it as a partner one by one: what an edge to r     *)
(* lacks is still left to a rule whose turn is to come.                    *)
Others(V, L, r) == {w \in Arcs(V, L) : w[2] # r}
Waits(g, t, V, r, Q) ==
  \A w \in Arcs(V, g.links) : w[2] = r =>
    \A h \in Passed(t, w) :
      \/ Has(ToSet(t.edges), w, h)
      \/ \E x \in Lowers(g, r) \ Q : h \in t.domain[x].headers
Joining(g, t, V, r, Q) ==
  /\ TakenFrom(g, t, V, r, Q)
  /\ Sound(t, Arcs(V, g.links)) /\ Complete(t, Others(V, g.links, r))
  /\ Waits(g, t, V, r, Q)

LEMMA Highest ==
  ASSUME NEW X \in SUBSET TableRule, X # {}, NEW n \in Nat, \A x \in X : Priority[x] < n
  PROVE  \E x \in X : \A y \in X : Priority[y] <= Priority[x]
<1> DEFINE I == {n - Priority[x] : x \in X}
<1>1. \A x \in X : Priority[x] \in Nat
  BY RuleFacts
<1>2. I \in SUBSET Nat /\ I # {}
  BY <1>1
<1>3. PICK m \in I : \A k \in I : m <= k
  BY <1>2, LeastElement
<1>4. PICK x \in X : m = n - Priority[x]
  BY <1>3
<1>5. ASSUME NEW y \in X PROVE Priority[y] <= Priority[x]
  <2>1. m <= n - Priority[y]
    BY <1>3
  <2> QED BY <1>1, <1>4, <2>1
<1> QED BY <1>5

LEMMA SharedUpper ==
  ASSUME PlainNetwork, NEW g, NEW V, g.rules = V, NEW r \in V, NEW t, NEW Q,
         TakenFrom(g, t, V, r, Q), NEW q \in Lowers(g, r),
         NEW h, h \in Match[r].headers, h \in t.domain[q].headers
  PROVE  h \in t.domain[r].headers
<1> DEFINE I == t.influences
<1>1. q \in V /\ Over(r, q) /\ V \subseteq TableRule
  <2>1. q \in V /\ Over(r, q)
    BY TakenStep
  <2> QED BY <2>1 DEF TakenFrom, Tidy
<1>2. t.domain[q] = Left(I, q) /\ t.domain[r] = Left(I, r)
  BY <1>1 DEF TakenFrom, Tidy
<1>3. /\ h \in Match[q].headers
      /\ \A u \in Uppers(I, q) : h \notin Match[u].headers
  BY <1>1, <1>2, PlainLeft
<1>4. ASSUME NEW u \in Uppers(I, r), h \in Match[u].headers
      PROVE  FALSE
  <2>1. <<u, r>> \in Pairs(V) /\ u \in TableRule
    BY DEF Uppers, TakenFrom, Tidy
  <2>2. u \in V /\ Over(u, r)
    BY <2>1, PairsFacts
  <2>3. Over(u, q)
    BY <1>1, <1>3, <1>4, <2>2, PlainOver
  <2>4. u # r /\ q # r
    BY <1>1, <2>2, PairsFacts
  <2>5. <<u, q>> \in Pairs(V \ {r})
    BY <1>1, <2>2, <2>3, <2>4, PairsFacts
  <2>6. <<u, q>> \in I
    BY <2>5 DEF TakenFrom, OntoRule
  <2> QED BY <1>3, <1>4, <2>1, <2>6 DEF Uppers
<1>5. h \in Left(I, r).headers
  BY <1>1, <1>4, PlainLeft
<1> QED BY <1>2, <1>5

LEMMA TookDomain ==
  ASSUME PlainNetwork, NEW t, NEW V, Tidy(t, V), NEW r \in V, NEW q \in V,
         NEW k, Took(t, k, r, q)
  PROVE  /\ \A v \in DOMAIN t.domain \ {q} : k.domain[v] = t.domain[v]
         /\ \A h : h \in k.domain[q].headers
                     <=> h \in t.domain[q].headers /\ h \notin Match[r].headers
<1>1. V \subseteq TableRule /\ V \subseteq DOMAIN t.domain /\ t.domain[q] = Left(t.influences, q)
  BY DEF Tidy
<1>2. /\ k.influences = t.influences \cup {<<r, q>>}
      /\ k.domain = [t.domain EXCEPT ![q] = Left(k.influences, q)]
  BY DEF Took
<1>3. k.domain[q] = Left(k.influences, q)
      /\ \A v \in DOMAIN t.domain \ {q} : k.domain[v] = t.domain[v]
  BY <1>1, <1>2
<1>4. Uppers(k.influences, q) = Uppers(t.influences, q) \cup {r}
  BY <1>1, <1>2 DEF Uppers
<1>5. \A h : h \in Left(k.influences, q).headers
               <=> h \in Left(t.influences, q).headers /\ h \notin Match[r].headers
  BY <1>1, <1>4, PlainLeft
<1> QED BY <1>1, <1>3, <1>5

LEMMA JoinStep ==
  ASSUME PlainNetwork, NEW g, NEW V, g.rules = V, Wired(g.links), NEW r \in V, NEW t, NEW Q,
         Joining(g, t, V, r, Q), NEW q \in Lowers(g, r)
  PROVE  Joining(g, TakeFrom(t, r, q), V, r, Q \cup {q})
<1> DEFINE k == TakeFrom(t, r, q)
           A == Arcs(V, g.links)
           S == SharedEdges(t, r, q)
<1>1. TakenFrom(g, t, V, r, Q) /\ Sound(t, A) /\ Complete(t, Others(V, g.links, r))
      /\ Waits(g, t, V, r, Q)
  BY DEF Joining
<1>2. TakenFrom(g, k, V, r, Q \cup {q}) /\ q \in V /\ Over(r, q)
  BY <1>1, TakenStep
<1>3. /\ t \in Graph /\ V \subseteq TableRule /\ Tidy(t, V) /\ t.rules = V
      /\ Tidy(k, V)
      /\ Distinct(t.rules) /\ t.influences \subseteq Pairs(t.rules)
      /\ V \subseteq DOMAIN t.domain /\ DOMAIN t.domain = Special \cup V
      /\ g.links \in Links /\ V \in SUBSET V
  BY <1>1, <1>2 DEF TakenFrom, Tidy, Wired
<1>4. Took(t, k, r, q)
  <2>1. CanTake(t, r, q)
    BY <1>2, <1>3 DEF CanTake, Kempt
  <2> QED BY <2>1, TakeFromFacts
<1>5. ToSet(k.edges) = (ToSet(t.edges) \ S) \cup {EdgeOf(k, Way(e)) : e \in S}
                         \cup Carrying(k, {NewWay(r, e) : e \in S})
  BY <1>4 DEF Took, EdgesShared
<1>6. r # q /\ Switch[r] = Switch[q]
  BY <1>2, <1>3, PairsFacts DEF Over
<1> HIDE DEF k, A
<1>7. /\ \A v \in DOMAIN t.domain \ {q} : k.domain[v] = t.domain[v]
      /\ \A h : h \in k.domain[q].headers
                  <=> h \in t.domain[q].headers /\ h \notin Match[r].headers
  BY <1>2, <1>3, <1>4, TookDomain
<1>8. \A w \in A : w[2] \in DOMAIN t.domain
  <2> SUFFICES ASSUME NEW w \in A PROVE w[2] \in DOMAIN t.domain
    OBVIOUS
  <2>1. w[2] \in Special \cup V
    BY <1>3, ArcEdge DEF A
  <2> QED BY <1>3, <2>1
<1>9. \A w \in A : Passed(k, w) \subseteq Passed(t, w) /\ (w[2] # q => Passed(k, w) = Passed(t, w))
  BY <1>7, <1>8 DEF Passed
<1>10. t.domain[r].port = AnyPort
  BY <1>3, TidyPorts
<1>11. \A e \in ToSet(t.edges) : Way(e) \in A /\ Fine(t, e)
  BY <1>1 DEF Sound, A
<1>12. \A e : Way(e)[1] = e.src /\ Way(e)[2] = e.dst /\ Way(e)[3] = e.transfer
  BY DEF Way
<1>13. ASSUME NEW e \in ToSet(t.edges), e.dst = q, NEW h \in e.domain.headers, h \in t.domain[r].headers
       PROVE  e \in S
  <2>1. e.domain.port # NoPort
    BY <1>11 DEF Fine
  <2>2. e.domain \in Space /\ t.domain[r] \in Space
    BY <1>3, GraphFacts DEF Edge
  <2>3. CommonPort(e.domain.port, AnyPort) = e.domain.port
    BY SpecialPorts DEF CommonPort
  <2>4. Meet(e.domain, t.domain[r]) =
          [port |-> e.domain.port, headers |-> e.domain.headers \cap t.domain[r].headers]
    BY <1>10, <2>1, <2>3 DEF Meet
  <2>5. ~IsEmpty(Meet(e.domain, t.domain[r]))
    BY <1>13, <2>1, <2>4 DEF IsEmpty
  <2> QED BY <1>13, <2>5 DEF SharedEdges, Shared
<1>14. S \subseteq ToSet(t.edges) /\ \A e \in S : e.dst = q
  BY DEF SharedEdges, Shared
<1> DEFINE W == {NewWay(r, e) : e \in S}
           U == {Way(e) : e \in S}
<1>15. W \subseteq A
  <2> SUFFICES ASSUME NEW e \in S PROVE NewWay(r, e) \in A
    OBVIOUS
  <2>1. Way(e) \in A /\ Way(e)[2] = q
    BY <1>11, <1>12, <1>14
  <2>2. <<Way(e)[1], r, Way(e)[3]>> \in A
    BY <1>2, <1>3, <1>6, <2>1, Exchange DEF A
  <2> QED BY <1>12, <2>2 DEF NewWay
<1>16. U \subseteq A
  BY <1>11, <1>14
<1> HIDE DEF S
<1>17. /\ \A e \in Carrying(k, W) : Way(e) \in W /\ Fine(k, e)
       /\ \A w \in W : \A h \in Passed(k, w) : Has(Carrying(k, W), w, h)
  <2> HIDE DEF W
  <2> QED BY <1>3, <1>15, CarryingArcs DEF A
<1>18. \A e \in S : /\ Way(EdgeOf(k, Way(e))) = Way(e) /\ Fine(k, EdgeOf(k, Way(e)))
                    /\ EdgeOf(k, Way(e)).domain.headers = Passed(k, Way(e))
  <2> SUFFICES ASSUME NEW e \in S
               PROVE  /\ Way(EdgeOf(k, Way(e))) = Way(e)
                      /\ Fine(k, EdgeOf(k, Way(e)))
                      /\ EdgeOf(k, Way(e)).domain.headers = Passed(k, Way(e))
    OBVIOUS
  <2> DEFINE w == Way(e)
             x == EdgeOf(k, w)
  <2>1. w \in A
    BY <1>11, <1>14
  <2>2. x.domain.port # NoPort /\ x.domain.headers = Passed(k, w)
    BY <1>3, <2>1, ArcEdge DEF A
  <2>3. Way(x) = w
    BY DEF EdgeOf, Way
  <2> QED BY <2>2, <2>3 DEF Fine
<1> HIDE DEF W
<1>19. Sound(k, A)
  <2> SUFFICES ASSUME NEW e \in ToSet(k.edges) PROVE Way(e) \in A /\ Fine(k, e)
    BY DEF Sound
  <2>1. CASE e \in Carrying(k, W)
    BY <1>15, <1>17, <2>1
  <2>2. CASE \E x \in S : e = EdgeOf(k, Way(x))
    BY <1>11, <1>14, <1>18, <2>2
  <2>3. CASE e \in ToSet(t.edges) \ S
    <3>1. Way(e) \in A /\ e.domain.port # NoPort /\ e.domain.headers \subseteq Passed(t, Way(e))
      BY <1>11, <2>3 DEF Fine
    <3>2. CASE e.dst # q
      BY <1>9, <1>12, <3>1, <3>2 DEF Fine
    <3>3. CASE e.dst = q
      <4>1. ASSUME NEW h \in e.domain.headers, h \in Match[r].headers
            PROVE  FALSE
        <5>1. h \in t.domain[q].headers
          BY <1>12, <3>1, <3>3 DEF Passed
        <5>2. h \in t.domain[r].headers
          BY <1>1, <4>1, <5>1, SharedUpper
        <5> QED BY <1>13, <2>3, <3>3, <5>2
      <4>2. e.domain.headers \subseteq Passed(k, Way(e))
        BY <1>7, <1>12, <3>1, <3>3, <4>1 DEF Passed
      <4> QED BY <3>1, <4>2 DEF Fine
    <3> QED BY <3>2, <3>3
  <2> QED BY <1>5, <2>1, <2>2, <2>3 DEF W
<1>20. Complete(k, Others(V, g.links, r))
  <2> SUFFICES ASSUME NEW w \in Others(V, g.links, r), NEW h \in Passed(k, w)
               PROVE  Has(ToSet(k.edges), w, h)
    BY DEF Complete
  <2>1. w \in A /\ h \in Passed(t, w)
    BY <1>9 DEF Others, A
  <2>2. Has(ToSet(t.edges), w, h)
    BY <1>1, <2>1 DEF Complete
  <2>3. PICK e \in ToSet(t.edges) : Way(e) = w /\ h \in e.domain.headers
    BY <2>2 DEF Has
  <2>4. CASE e \in S
    <3> DEFINE x == EdgeOf(k, Way(e))
    <3>1. Way(x) = w /\ h \in x.domain.headers
      BY <1>18, <2>3, <2>4
    <3>2. x \in ToSet(k.edges)
      BY <1>5, <2>4
    <3> HIDE DEF x
    <3> QED BY <3>1, <3>2 DEF Has
  <2>5. CASE e \notin S
    <3>1. e \in ToSet(k.edges)
      BY <1>5, <2>5
    <3> QED BY <2>3, <3>1 DEF Has
  <2> QED BY <2>4, <2>5
<1>21. Waits(g, k, V, r, Q \cup {q})
  <2> SUFFICES ASSUME NEW w \in A, w[2] = r, NEW h \in Passed(k, w)
               PROVE  \/ Has(ToSet(k.edges), w, h)
                      \/ \E x \in Lowers(g, r) \ (Q \cup {q}) : h \in k.domain[x].headers
    BY DEF Waits, A
  <2>1. h \in Passed(t, w)
    BY <1>9
  <2>2. \/ Has(ToSet(t.edges), w, h)
        \/ \E x \in Lowers(g, r) \ Q : h \in t.domain[x].headers
    BY <1>1, <2>1 DEF Waits, A
  <2>3. CASE Has(ToSet(t.edges), w, h)
    <3>1. PICK e \in ToSet(t.edges) : Way(e) = w /\ h \in e.domain.headers
      BY <2>3 DEF Has
    <3>2. e \notin S
      BY <1>6, <1>12, <1>14, <3>1
    <3>3. e \in ToSet(k.edges)
      BY <1>5, <3>2
    <3> QED BY <3>1, <3>3 DEF Has
  <2>4. CASE \E x \in Lowers(g, r) \ Q : h \in t.domain[x].headers
    <3>1. PICK x \in Lowers(g, r) \ Q : h \in t.domain[x].headers
      BY <2>4
    <3>2. CASE x # q
      <4>1. x \in V
        BY DEF Lowers, Below, Table
      <4>2. k.domain[x] = t.domain[x]
        BY <1>3, <1>7, <3>2, <4>1
      <4> QED BY <3>1, <3>2, <4>2
    <3>3. CASE x = q
      <4> DEFINE y == <<w[1], q, w[3]>>
      <4>1. y \in A
        BY <1>2, <1>3, <1>6, Exchange DEF A
      <4>2. y \in Others(V, g.links, r)
        BY <1>6, <4>1 DEF Others, A
      <4>3. h \in Passed(t, y)
        BY <2>1, <3>1, <3>3 DEF Passed
      <4>4. Has(ToSet(t.edges), y, h)
        BY <1>1, <4>2, <4>3 DEF Complete
      <4>5. PICK e \in ToSet(t.edges) : Way(e) = y /\ h \in e.domain.headers
        BY <4>4 DEF Has
      <4>6. e.dst = q /\ e.src = w[1] /\ e.transfer = w[3]
        BY <1>12, <4>5
      <4>7. h \in t.domain[r].headers
        BY <2>1 DEF Passed
      <4>8. e \in S
        BY <1>13, <4>5, <4>6, <4>7
      <4>9. NewWay(r, e) = w
        BY <4>6, TripleFacts DEF NewWay, A
      <4>10. w \in W
        BY <4>8, <4>9 DEF W
      <4>11. Has(Carrying(k, W), w, h)
        BY <1>17, <4>10
      <4> QED BY <1>5, <4>11 DEF Has, W
    <3> QED BY <3>2, <3>3
  <2> QED BY <2>2, <2>3, <2>4
<1>22. Joining(g, k, V, r, Q \cup {q})
  BY <1>2, <1>19, <1>20, <1>21 DEF Joining, A
<1> QED BY <1>22 DEF k

(***************************************************************************)
(* AddInEdges as a whole.                                                  *)
(***************************************************************************)
LEMMA JoinStart ==
  ASSUME PlainNetwork, NEW g, NEW V, Tidy(g, V), g.rules = V, NEW r \in V,
         g.influences = Pairs(V \ {r}), Misses \subseteq V, r \notin Misses, Wired(g.links),
         Sound(g, Others(V, g.links, r)), Complete(g, Others(V, g.links, r))
  PROVE  Joining(g, InStart(g, r), V, r, {})
<1> DEFINE h == InStart(g, r)
           A == Arcs(V, g.links)
           B == Others(V, g.links, r)
<1>1. /\ TakenFrom(g, h, V, r, {}) /\ h.edges = g.edges
      /\ \A v \in V \ {r} : h.domain[v] = g.domain[v]
  BY InStartFacts
<1> HIDE DEF h
<1>2. /\ V \subseteq TableRule /\ Distinct(V) /\ Tidy(h, V) /\ g.links \in Links
      /\ V \in SUBSET V
      /\ \A v \in Special : h.domain[v] = g.domain[v]
      /\ \A v \in V : h.domain[v] = Left(h.influences, v)
  BY <1>1 DEF TakenFrom, Tidy, Wired
<1>3. \A w \in B : Passed(h, w) = Passed(g, w)
  <2> SUFFICES ASSUME NEW w \in B PROVE Passed(h, w) = Passed(g, w)
    OBVIOUS
  <2>1. w[2] \in Special \cup V
    BY <1>2, ArcEdge DEF Others
  <2>2. w[2] # r
    BY DEF Others
  <2>3. h.domain[w[2]] = g.domain[w[2]]
    BY <1>1, <1>2, <2>1, <2>2
  <2> QED BY <2>3 DEF Passed
<1>4. Sound(h, A)
  <2> SUFFICES ASSUME NEW e \in ToSet(h.edges) PROVE Way(e) \in A /\ Fine(h, e)
    BY DEF Sound
  <2>1. Way(e) \in B /\ Fine(g, e)
    BY <1>1 DEF Sound
  <2> QED BY <1>3, <2>1 DEF Others, Fine
<1>5. Complete(h, B)
  BY <1>1, <1>3 DEF Complete
<1>6. Waits(g, h, V, r, {})
  <2> SUFFICES ASSUME NEW w \in A, w[2] = r, NEW x \in Passed(h, w)
               PROVE  \E q \in Lowers(g, r) : x \in h.domain[q].headers
    BY DEF Waits
  <2> DEFINE X == {q \in V : /\ Switch[q] = Switch[r] /\ Priority[q] < Priority[r]
                             /\ x \in Match[q].headers}
             I == h.influences
  <2>1. x \in Left(I, r).headers
    BY <1>2 DEF Passed
  <2>2. /\ x \in Match[r].headers
        /\ \A u \in Uppers(I, r) : x \notin Match[u].headers
    BY <1>2, <2>1, PlainLeft
  <2>3. X # {}
    <3> DEFINE m == Miss(Switch[r])
    <3>1. Switch[r] \in Switches /\ Priority[r] \in Nat /\ r \in Vertices
      BY <1>2, RuleFacts, VertexFacts
    <3>2. m \in V /\ m \in Misses
      BY <3>1 DEF Misses
    <3>3. Switch[m] = Switch[r]
      BY <1>2, <3>1, <3>2, VertexFacts DEF Switch
    <3>4. Priority[m] = 0
      BY <3>2, MissFacts
    <3>5. Priority[r] # 0
      <4>1. PICK f \in Flows : r = Flow(f)
        BY <1>2, VertexFacts DEF Misses
      <4> QED BY <4>1, FlowPlace
    <3>6. Match[m].headers = Headers
      BY <3>1, MatchFacts DEF SpaceAt
    <3>7. x \in Headers
      BY <2>2, <3>1, HeadersIn
    <3>8. Priority[m] < Priority[r]
      BY <3>1, <3>4, <3>5
    <3>9. m \in X
      BY <3>2, <3>3, <3>6, <3>7, <3>8
    <3> QED BY <3>9
  <2>4. Priority[r] \in Nat /\ X \in SUBSET TableRule /\ \A q \in X : Priority[q] < Priority[r]
    BY <1>2, RuleFacts
  <2>5. PICK q \in X : \A y \in X : Priority[y] <= Priority[q]
    <3> HIDE DEF X
    <3> QED BY <2>3, <2>4, Highest
  <2>6. q \in Lowers(g, r) /\ q # r
    <3>1. Overlap(q, r)
      BY <1>2, <2>2, PlainMeet
    <3> QED BY <2>4, <3>1 DEF Lowers, Below, Table
  <2>7. ASSUME NEW u \in Uppers(I, q), x \in Match[u].headers
        PROVE  FALSE
    <3>1. I = OntoRule(V, r)
      <4>1. {<<r, y>> : y \in {}} = {}
        OBVIOUS
      <4> QED BY <1>1, <4>1 DEF TakenFrom
    <3>2. <<u, q>> \in OntoRule(V, r) /\ u \in TableRule
      BY <3>1 DEF Uppers
    <3>3. <<u, q>> \in Pairs(V \ {r})
      BY <2>6, <3>2 DEF OntoRule
    <3>4. u \in V /\ u # r /\ Over(u, q)
      BY <3>3, PairsFacts
    <3>5. Switch[u] = Switch[r] /\ Priority[u] > Priority[q]
      BY <3>4 DEF Over
    <3>6. Priority[u] \in Nat /\ Priority[q] \in Nat
      BY <3>2, <2>4, RuleFacts
    <3>7. ~(Priority[u] < Priority[r])
      <4>1. Priority[u] < Priority[r] => u \in X
        BY <2>7, <3>4, <3>5
      <4> HIDE DEF X
      <4> QED BY <2>5, <3>5, <3>6, <4>1
    <3>8. Priority[u] # Priority[r]
      BY <1>2, <3>4, <3>5 DEF Distinct
    <3>9. Priority[u] > Priority[r]
      <4> HIDE DEF X
      <4> QED BY <2>4, <3>6, <3>7, <3>8
    <3>10. Over(u, r)
      BY <1>2, <2>2, <2>7, <3>2, <3>5, <3>9, PlainMeet DEF Over
    <3>11. <<u, r>> \in I
      BY <3>1, <3>4, <3>10, PairsFacts DEF OntoRule
    <3> QED BY <2>2, <2>7, <3>2, <3>11 DEF Uppers
  <2>8. x \in Left(I, q).headers
    BY <1>2, <2>7, PlainLeft
  <2> QED BY <1>2, <2>6, <2>8
<1>7. Joining(g, h, V, r, {})
  BY <1>1, <1>4, <1>5, <1>6 DEF Joining
<1> QED BY <1>7 DEF h

LEMMA AddInFollows ==
  ASSUME PlainNetwork, NEW g, NEW V, Tidy(g, V), g.rules = V, NEW r \in V,
         g.influences = Pairs(V \ {r}), Misses \subseteq V, r \notin Misses, Wired(g.links),
         Sound(g, Others(V, g.links, r)), Complete(g, Others(V, g.links, r))
  PROVE  /\ Sound(AddInEdges(g, r), Arcs(V, g.links))
         /\ Complete(AddInEdges(g, r), Arcs(V, g.links))
<1> DEFINE L == Lowers(g, r)
           h == InStart(g, r)
           k == AddInEdges(g, r)
           Z == {z \in Seq(L) \X Graph : Joining(g, z[2], V, r, ToSet(z[1]))}
<1>1. Joining(g, h, V, r, {})
  BY JoinStart
<1>2. <<<<>>, h>> \in Z
  <2>1. h \in Graph
    BY <1>1 DEF Joining, TakenFrom, Tidy
  <2>2. <<>> \in Seq(L) /\ ToSet(<<>>) = {}
    BY EmptyElements
  <2> HIDE DEF h, L
  <2> QED BY <1>1, <2>1, <2>2
<1>3. ASSUME NEW t, NEW q \in Seq(L), NEW x \in L, <<q, t>> \in Z
      PROVE  <<Append(q, x), TakeFrom(t, r, x)>> \in Z
  <2> DEFINE m == TakeFrom(t, r, x)
  <2>1. Joining(g, t, V, r, ToSet(q))
    BY <1>3
  <2>2. Append(q, x) \in Seq(L) /\ ToSet(Append(q, x)) = ToSet(q) \cup {x}
    BY AppendedElements
  <2>3. Joining(g, m, V, r, ToSet(q) \cup {x})
    BY <2>1, JoinStep
  <2> HIDE DEF m, L
  <2>4. m \in Graph
    BY <2>3 DEF Joining, TakenFrom, Tidy
  <2>5. <<Append(q, x), m>> \in Z
    BY <2>2, <2>3, <2>4
  <2> QED BY <2>5 DEF m
<1>4. Descending(L) \in Seq(L) /\ ToSet(Descending(L)) = L
  BY LowersFacts
<1>5. k = TakingAll!Fold(r, 0, h, Descending(L))
  BY AddInEdgesFold
<1> HIDE DEF Z, L, h, k
<1>6. <<Descending(L), TakingAll!Fold(r, 0, h, Descending(L))>> \in Z
  BY <1>2, <1>3, <1>4, TakingAll!FoldSteps, NaturalInduction
        DEF TakingAll!Induction
<1>7. Joining(g, k, V, r, L)
  BY <1>4, <1>5, <1>6 DEF Z
<1>8. Complete(k, Arcs(V, g.links))
  <2> SUFFICES ASSUME NEW w \in Arcs(V, g.links), NEW x \in Passed(k, w)
               PROVE  Has(ToSet(k.edges), w, x)
    BY DEF Complete
  <2>1. CASE w[2] = r
    BY <1>7, <2>1 DEF Joining, Waits, L
  <2>2. CASE w[2] # r
    BY <1>7, <2>2 DEF Joining, Complete, Others
  <2> QED BY <2>1, <2>2
<1> QED BY <1>7, <1>8 DEF Joining, k

(***************************************************************************)
(* A rule comes.                                                           *)
(***************************************************************************)
LEMMA ArcsWithout ==
  ASSUME NEW V \in SUBSET TableRule, NEW r \in TableRule, NEW L
  PROVE  Arcs(V \ {r}, L) = {w \in Arcs(V, L) : w[1] # r /\ w[2] # r}
<1>1. \A p \in Ports : Source(p) # r
  <2> SUFFICES ASSUME NEW p \in Ports, Source(p) = r PROVE FALSE
    OBVIOUS
  <2>1. r \in Special
    BY DEF Special
  <2> QED BY <2>1, SpecialFacts
<1>2. \A v \in V : \A o \in ToSet(Actions[v]) : o # r
  <2> SUFFICES ASSUME NEW v \in V, NEW o \in ToSet(Actions[v]) PROVE o # r
    OBVIOUS
  <2>1. o \in Outputs
    BY RuleFacts DEF ToSet
  <2> QED BY <2>1, SpecialFacts DEF Special
<1>3. \A w : FromSource(V \ {r}, L, w) <=> FromSource(V, L, w) /\ w[1] # r /\ w[2] # r
  BY <1>1 DEF FromSource
<1>4. \A w : FromRule(V \ {r}, L, w) <=> FromRule(V, L, w) /\ w[1] # r /\ w[2] # r
  <2> SUFFICES ASSUME NEW w
               PROVE  FromRule(V \ {r}, L, w) <=> FromRule(V, L, w) /\ w[1] # r /\ w[2] # r
    OBVIOUS
  <2>1. \A o \in ToSet(Actions[w[1]]) : w[1] \in V =>
          (w[2] \in Hits(V \ {r}, L, o) <=> w[2] \in Hits(V, L, o) /\ w[2] # r)
    BY <1>2 DEF Hits
  <2> QED BY <2>1 DEF FromRule
<1> QED BY <1>3, <1>4 DEF Arcs

LEMMA OthersArcs ==
  ASSUME PlainNetwork, NEW V \in SUBSET TableRule, NEW r \in V, NEW L, Wired(L)
  PROVE  Arcs(V \ {r}, L) \cup {w \in Arcs(V, L) : w[1] = r} = Others(V, L, r)
<1>1. \A w \in Arcs(V, L) : w[1] = r => w[2] # r
  BY OffSwitch
<1>2. Arcs(V \ {r}, L) = {w \in Arcs(V, L) : w[1] # r /\ w[2] # r}
  BY ArcsWithout
<1> QED BY <1>1, <1>2 DEF Others

(* Domains that differ at none of the ends of ways.                        *)
LEMMA SameEnds ==
  ASSUME NEW g, NEW h, h.edges = g.edges, NEW A, Sound(g, A), Complete(g, A),
         \A w \in A : h.domain[w[2]] = g.domain[w[2]]
  PROVE  Sound(h, A) /\ Complete(h, A)
<1>1. \A w \in A : Passed(h, w) = Passed(g, w)
  BY DEF Passed
<1>2. Sound(h, A)
  BY <1>1 DEF Sound, Fine
<1>3. Complete(h, A)
  BY <1>1 DEF Complete
<1> QED BY <1>2, <1>3

LEMMA InstallFollows ==
  ASSUME PlainNetwork, NEW g, Settled(g), NEW r \in TableRule, r \notin g.rules,
         Distinct(g.rules \cup {r}), Kind(r) # "miss", Misses \subseteq g.rules, Wired(g.links),
         Sound(g, Arcs(g.rules, g.links)), Complete(g, Arcs(g.rules, g.links))
  PROVE  /\ Sound(Install(g, r), Arcs(g.rules \cup {r}, g.links))
         /\ Complete(Install(g, r), Arcs(g.rules \cup {r}, g.links))
<1> DEFINE V == g.rules \cup {r}
           L == g.links
           e == Entered(g, r)
           a == AddVertex(e, r)
           j == RuleOut(e, r)
           k == AddInEdges(j, r)
           B == Others(V, L, r)
           C == Arcs(V \ {r}, L)
           O == {w \in Arcs(V, L) : w[1] = r}
<1>1. /\ V \ {r} = g.rules /\ r \in V /\ V \subseteq TableRule
      /\ V \in SUBSET V /\ Tidy(g, g.rules)
  BY SettledFacts DEF Settled
<1>2. /\ Tidy(e, V \ {r}) /\ e.rules = V /\ e.links = L /\ e.domain = g.domain
      /\ e.influences = Pairs(V \ {r}) /\ e.edges = g.edges
      /\ e.doubled = g.doubled
  BY EnteredFacts
<1>3. Install(g, r) = Finish(k)
  BY InstallFacts
<1> HIDE DEF V, e
<1>4. Uppers(e.influences, r) = {}
  BY <1>2, NoUppers
<1>5. /\ Tidy(a, (V \ {r}) \cup {r}) /\ Alike(e, a) /\ a.edges = e.edges
      /\ \A v \in Special \cup (V \ {r}) : a.domain[v] = e.domain[v]
  BY <1>2, <1>4, AddVertexFacts
<1>6. (V \ {r}) \cup {r} = V
  BY <1>1
<1>7. /\ Adds(a, j, OutWays(a, r)) /\ Tidy(j, V) /\ Alike(e, j)
  <2>1. e.rules \subseteq (V \ {r}) \cup {r}
    BY <1>2, <1>6
  <2>2. /\ Adds(a, j, OutWays(a, r)) /\ Tidy(j, (V \ {r}) \cup {r})
        /\ Alike(e, j)
    BY <1>2, <1>4, <2>1, RuleOutFacts
  <2> QED BY <1>6, <2>2
<1> HIDE DEF a, j
<1>8. Tidy(a, V) /\ a.rules = V /\ a.links = L /\ a \in Graph /\ Distinct(a.rules)
  BY <1>2, <1>5, <1>6 DEF Alike, Tidy
<1>9. OutWays(a, r) = O
  BY <1>1, <1>8, OutWaysArcs
<1>10. \A w \in C : w[2] \in Special \cup (V \ {r})
  <2> SUFFICES ASSUME NEW w \in C PROVE w[2] \in Special \cup (V \ {r})
    OBVIOUS
  <2>1. L \in Links /\ V \ {r} \in SUBSET g.rules
    BY <1>1 DEF Wired
  <2> QED BY <1>1, <2>1, ArcEdge
<1>11. Sound(a, C) /\ Complete(a, C)
  <2>1. Sound(g, C) /\ Complete(g, C)
    BY <1>1
  <2>2. \A w \in C : a.domain[w[2]] = g.domain[w[2]]
    BY <1>2, <1>5, <1>10
  <2>3. a.edges = g.edges
    BY <1>2, <1>5
  <2> HIDE DEF C
  <2> QED BY <2>1, <2>2, <2>3, SameEnds
<1>12. Sound(j, C \cup O) /\ Complete(j, C \cup O)
  <2>1. O \subseteq Arcs(V, L) /\ L \in Links
    BY DEF Wired
  <2>2. Adds(a, j, O)
    BY <1>7, <1>9
  <2> HIDE DEF C, O
  <2> QED BY <1>1, <1>8, <1>11, <2>1, <2>2, AddsFollows
<1>13. C \cup O = B
  BY <1>1, OthersArcs
<1>14. j.rules = V /\ j.links = L /\ j.influences = Pairs(V \ {r})
  BY <1>2, <1>7 DEF Alike
<1>15. Misses \subseteq V /\ r \notin Misses
  BY <1>1, MissFacts DEF V
<1>16. Sound(k, Arcs(V, L)) /\ Complete(k, Arcs(V, L)) /\ k \in Graph
  <2>1. Sound(j, B) /\ Complete(j, B)
    BY <1>12, <1>13
  <2>2. Tidy(k, V)
    BY <1>1, <1>7, <1>14, AddInTidy
  <2>3. Sound(k, Arcs(V, j.links)) /\ Complete(k, Arcs(V, j.links))
    BY <1>1, <1>7, <1>14, <1>15, <2>1, AddInFollows
  <2> QED BY <1>14, <2>2, <2>3 DEF Tidy
<1> HIDE DEF k
<1>17. Sound(Finish(k), Arcs(V, L)) /\ Complete(Finish(k), Arcs(V, L))
  BY <1>16, FinishFollows
<1> QED BY <1>3, <1>17 DEF V

(***************************************************************************)
(* GiveBack, one lower rule after the other: the edges to the rule that    *)
(* goes, and what is returned so far.                                      *)
(***************************************************************************)
(* The rules below r get back what they had to leave to it.                *)
From(V, L, r) == {w \in Arcs(V, L) : w[1] # r}
Giving(g, t, r, Q) ==
  /\ GivenOff(g, t, r, Q)
  /\ Sound(t, From(g.rules, g.links, r))
  /\ Complete(t, From(g.rules, g.links, r))

LEMMA GaveDomain ==
  ASSUME PlainNetwork, NEW t, NEW V, Tidy(t, V), NEW r \in TableRule, NEW q \in V,
         NEW k, Gave(t, k, r, q)
  PROVE  /\ \A v \in DOMAIN t.domain \ {q} : k.domain[v] = t.domain[v]
         /\ \A h : h \in t.domain[q].headers => h \in k.domain[q].headers
         /\ \A h : h \in k.domain[q].headers /\ h \notin t.domain[q].headers
                     => h \in Match[r].headers
<1>1. V \subseteq TableRule /\ V \subseteq DOMAIN t.domain /\ t.domain[q] = Left(t.influences, q)
  BY DEF Tidy
<1>2. /\ k.influences = t.influences \ {<<r, q>>}
      /\ k.domain = [t.domain EXCEPT ![q] = Left(k.influences, q)]
  BY DEF Gave
<1>3. k.domain[q] = Left(k.influences, q)
      /\ \A v \in DOMAIN t.domain \ {q} : k.domain[v] = t.domain[v]
  BY <1>1, <1>2
<1>4. Uppers(k.influences, q) = Uppers(t.influences, q) \ {r}
  BY <1>1, <1>2 DEF Uppers
<1>5. /\ \A h : h \in Left(k.influences, q).headers
             <=> h \in Match[q].headers /\ \A u \in Uppers(k.influences, q) : h \notin Match[u].headers
      /\ \A h : h \in Left(t.influences, q).headers
             <=> h \in Match[q].headers /\ \A u \in Uppers(t.influences, q) : h \notin Match[u].headers
  BY <1>1, PlainLeft
<1> QED BY <1>1, <1>3, <1>4, <1>5

LEMMA ReturnedUpper ==
  ASSUME PlainNetwork, NEW g, NEW r, NEW t, NEW Q, GivenOff(g, t, r, Q),
         NEW q \in g.rules, <<r, q>> \in Pairs(g.rules), NEW k, Gave(t, k, r, q), Tidy(k, g.rules),
         NEW h, h \in Match[r].headers, h \in k.domain[q].headers
  PROVE  h \in t.domain[r].headers
<1> DEFINE V == g.rules
<1>1. r \in V /\ Over(r, q) /\ V \subseteq TableRule /\ Tidy(t, V)
  BY PairsFacts DEF GivenOff, Tidy
<1>2. k.domain[q] = Left(k.influences, q) /\ t.domain[r] = Left(t.influences, r)
      /\ t.influences \subseteq Pairs(t.rules) /\ t.rules = V
  BY <1>1 DEF Tidy, GivenOff
<1>3. /\ h \in Match[q].headers
      /\ \A u \in Uppers(k.influences, q) : h \notin Match[u].headers
  BY <1>1, <1>2, PlainLeft
<1>4. ASSUME NEW u \in Uppers(t.influences, r), h \in Match[u].headers
      PROVE  FALSE
  <2>1. <<u, r>> \in Pairs(V) /\ u \in TableRule
    BY <1>2 DEF Uppers
  <2>2. u \in V /\ Over(u, r)
    BY <2>1, PairsFacts
  <2>3. Over(u, q)
    BY <1>1, <1>3, <1>4, <2>2, PlainOver
  <2>4. u # r
    BY <1>1, <2>2, PairsFacts
  <2>5. <<u, q>> \in Pairs(V)
    BY <2>2, <2>3, PairsFacts
  <2>6. <<u, q>> \in t.influences
    BY <2>4, <2>5 DEF GivenOff
  <2>7. <<u, q>> \in k.influences
    BY <2>4, <2>6 DEF Gave
  <2> QED BY <1>3, <1>4, <2>1, <2>7 DEF Uppers
<1>5. h \in Left(t.influences, r).headers
  BY <1>1, <1>4, PlainLeft
<1> QED BY <1>2, <1>5

LEMMA GivingStep ==
  ASSUME PlainNetwork, NEW g, Wired(g.links), NEW r \in TableRule, NEW t, NEW Q, Giving(g, t, r, Q),
         NEW q \in g.rules, <<r, q>> \in Pairs(g.rules)
  PROVE  Giving(g, GiveBack(t, r, q), r, Q \cup {q})
<1> DEFINE k == GiveBack(t, r, q)
           V == g.rules
           A == From(g.rules, g.links, r)
<1>1. GivenOff(g, t, r, Q) /\ Sound(t, A) /\ Complete(t, A)
  BY DEF Giving
<1>2. GivenOff(g, k, r, Q \cup {q}) /\ Gave(t, k, r, q)
  BY <1>1, GivenStep
<1> HIDE DEF k
<1>3. /\ t \in Graph /\ V \subseteq TableRule /\ Tidy(t, V) /\ Tidy(k, V)
      /\ V \in SUBSET V /\ DOMAIN t.domain = Special \cup V /\ g.links \in Links
  BY <1>1, <1>2 DEF GivenOff, Tidy, Wired
<1>4. r \in V /\ Switch[r] = Switch[q] /\ r # q
  BY <1>3, PairsFacts DEF Over
<1>5. /\ \A v \in DOMAIN t.domain \ {q} : k.domain[v] = t.domain[v]
      /\ \A h : h \in t.domain[q].headers => h \in k.domain[q].headers
      /\ \A h : h \in k.domain[q].headers /\ h \notin t.domain[q].headers
                  => h \in Match[r].headers
  BY <1>2, <1>3, GaveDomain
<1>6. /\ \A e \in ToSet(k.edges) :
           \/ e \in ToSet(t.edges)
           \/ \E x \in ToSet(t.edges) : x.dst = q /\ e = EdgeOf(k, Way(x))
           \/ \E x \in ToSet(t.edges) : x.dst = r /\ e = EdgeOf(k, GivenWay(q, x))
      /\ \A e \in ToSet(t.edges) :
           \/ e \in ToSet(k.edges)
           \/ e.dst = q /\ EdgeOf(k, Way(e)) \in ToSet(k.edges)
      /\ \A e \in ToSet(t.edges) : e.dst = r => Given(k, k, q, e)
  BY <1>2 DEF Gave
<1>7. \A w \in A : w \in Arcs(V, g.links) /\ w[1] # r
  BY DEF From
<1>8. \A w \in A : w[2] \in DOMAIN t.domain
  <2> SUFFICES ASSUME NEW w \in A PROVE w[2] \in DOMAIN t.domain
    OBVIOUS
  <2>1. w[2] \in Special \cup V
    BY <1>3, <1>7, ArcEdge
  <2> QED BY <1>3, <2>1
<1>9. \A w \in A : /\ Passed(t, w) \subseteq Passed(k, w)
                   /\ (w[2] # q => Passed(k, w) = Passed(t, w))
  BY <1>5, <1>8 DEF Passed
<1>10. \A e \in ToSet(t.edges) : Way(e) \in A /\ Fine(t, e)
  BY <1>1 DEF Sound
<1>11. \A e : Way(e)[1] = e.src /\ Way(e)[2] = e.dst /\ Way(e)[3] = e.transfer
  BY DEF Way
<1>12. \A w \in A : /\ Way(EdgeOf(k, w)) = w /\ Fine(k, EdgeOf(k, w))
                    /\ EdgeOf(k, w).domain.port # NoPort
                    /\ EdgeOf(k, w).domain.headers = Passed(k, w)
  <2> SUFFICES ASSUME NEW w \in A
               PROVE  /\ Way(EdgeOf(k, w)) = w /\ Fine(k, EdgeOf(k, w))
                      /\ EdgeOf(k, w).domain.port # NoPort
                      /\ EdgeOf(k, w).domain.headers = Passed(k, w)
    OBVIOUS
  <2> DEFINE x == EdgeOf(k, w)
  <2>1. x.domain.port # NoPort /\ x.domain.headers = Passed(k, w)
    BY <1>3, <1>7, ArcEdge
  <2>2. Way(x) = w
    BY <1>7, TripleFacts DEF EdgeOf, Way
  <2> QED BY <2>1, <2>2 DEF Fine
<1> HIDE DEF A
<1>13. \A e \in ToSet(t.edges) : e.dst = r => GivenWay(q, e) \in A
  <2> SUFFICES ASSUME NEW e \in ToSet(t.edges), e.dst = r PROVE GivenWay(q, e) \in A
    OBVIOUS
  <2>1. Way(e) \in Arcs(V, g.links) /\ Way(e)[1] # r /\ Way(e)[2] = r
    BY <1>7, <1>10, <1>11
  <2>2. <<Way(e)[1], q, Way(e)[3]>> \in Arcs(V, g.links)
    BY <1>3, <1>4, <2>1, Exchange
  <2>3. GivenWay(q, e) \in Arcs(V, g.links) /\ GivenWay(q, e)[1] = e.src
    BY <1>11, <2>2 DEF GivenWay
  <2> QED BY <1>11, <2>1, <2>3 DEF A, From
<1>14. Sound(k, A)
  <2> SUFFICES ASSUME NEW e \in ToSet(k.edges) PROVE Way(e) \in A /\ Fine(k, e)
    BY DEF Sound
  <2>1. CASE e \in ToSet(t.edges)
    BY <1>9, <1>10, <2>1 DEF Fine
  <2>2. CASE \E x \in ToSet(t.edges) : x.dst = q /\ e = EdgeOf(k, Way(x))
    BY <1>10, <1>12, <2>2
  <2>3. CASE \E x \in ToSet(t.edges) : x.dst = r /\ e = EdgeOf(k, GivenWay(q, x))
    BY <1>12, <1>13, <2>3
  <2> QED BY <1>6, <2>1, <2>2, <2>3
<1>15. Complete(k, A)
  <2> SUFFICES ASSUME NEW w \in A, NEW h \in Passed(k, w)
               PROVE  Has(ToSet(k.edges), w, h)
    BY DEF Complete
  <2>1. CASE h \in Passed(t, w)
    <3>1. Has(ToSet(t.edges), w, h)
      BY <1>1, <2>1 DEF Complete
    <3>2. PICK e \in ToSet(t.edges) : Way(e) = w /\ h \in e.domain.headers
      BY <3>1 DEF Has
    <3>3. CASE e \in ToSet(k.edges)
      BY <3>2, <3>3 DEF Has
    <3>4. CASE EdgeOf(k, Way(e)) \in ToSet(k.edges)
      <4> DEFINE x == EdgeOf(k, w)
      <4>1. x \in ToSet(k.edges) /\ Way(x) = w /\ h \in x.domain.headers
        BY <1>12, <3>2, <3>4
      <4> HIDE DEF x
      <4> QED BY <4>1 DEF Has
    <3> QED BY <1>6, <3>3, <3>4
  <2>2. CASE h \notin Passed(t, w)
    <3>1. w[2] = q
      BY <1>9, <2>2
    <3>2. h \in Match[w[1]].headers /\ h \in k.domain[q].headers /\ h \notin t.domain[q].headers
      BY <2>2, <3>1 DEF Passed
    <3>3. h \in Match[r].headers
      BY <1>5, <3>2
    <3>4. h \in t.domain[r].headers
      BY <1>1, <1>2, <1>3, <3>2, <3>3, ReturnedUpper
    <3> DEFINE y == <<w[1], r, w[3]>>
    <3>5. y \in A
      <4>1. y \in Arcs(V, g.links)
        BY <1>3, <1>4, <1>7, <3>1, Exchange
      <4> QED BY <1>7, <4>1 DEF A, From
    <3>6. h \in Passed(t, y)
      BY <3>2, <3>4 DEF Passed
    <3>7. Has(ToSet(t.edges), y, h)
      BY <1>1, <3>5, <3>6 DEF Complete
    <3>8. PICK e \in ToSet(t.edges) : Way(e) = y /\ h \in e.domain.headers
      BY <3>7 DEF Has
    <3>9. e.dst = r /\ e.src = w[1] /\ e.transfer = w[3]
      BY <1>11, <3>8
    <3>10. GivenWay(q, e) = w
      BY <1>7, <3>1, <3>9, TripleFacts DEF GivenWay
    <3>11. ~IsEmpty(EdgeOf(k, w).domain)
      BY <1>12 DEF IsEmpty
    <3>12. Given(k, k, q, e)
      BY <1>6, <3>9
    <3>13. PICK x \in ToSet(k.edges) : x.src = e.src /\ x.dst = q /\ x = EdgeOf(k, Way(x))
      BY <3>10, <3>11, <3>12 DEF Given
    <3>14. Way(x) \in A
      BY <1>14, <3>13 DEF Sound
    <3>15. Way(x) = w
      <4>1. /\ Way(x) \in Arcs(V, g.links) /\ w \in Arcs(V, g.links)
            /\ Way(x)[1] = w[1] /\ Way(x)[2] = w[2]
        BY <1>7, <1>11, <3>1, <3>9, <3>13, <3>14
      <4> QED BY <1>3, <4>1, OneWay
    <3>16. h \in x.domain.headers
      BY <1>12, <3>13, <3>15
    <3> QED BY <3>15, <3>16 DEF Has
  <2> QED BY <2>1, <2>2
<1>16. Giving(g, k, r, Q \cup {q})
  BY <1>2, <1>14, <1>15 DEF Giving, A
<1> QED BY <1>16 DEF k

(***************************************************************************)
(* A rule goes.                                                            *)
(***************************************************************************)
LEMMA GivingStart ==
  ASSUME NEW g, Settled(g), NEW r \in TableRule,
         Sound(g, Arcs(g.rules, g.links)), Complete(g, Arcs(g.rules, g.links))
  PROVE  Giving(g, Leaving(g, r), r, {})
<1> DEFINE h == Leaving(g, r)
           A == From(g.rules, g.links, r)
<1>1. GivenOff(g, h, r, {})
  BY LeavingOff
<1>2. /\ h.domain = g.domain
      /\ ToSet(h.edges) = {e \in ToSet(g.edges) : e.src # r}
  BY SettledFacts, LeavingFacts DEF Kept
<1> HIDE DEF h
<1>3. \A e : Way(e)[1] = e.src
  BY DEF Way
<1>4. (\A w : Passed(h, w) = Passed(g, w)) /\ \A e : Fine(h, e) <=> Fine(g, e)
  BY <1>2, SamePassed
<1>5. Sound(h, A)
  BY <1>2, <1>3, <1>4 DEF Sound, From
<1>6. ASSUME NEW w \in A, NEW x \in Passed(h, w)
      PROVE  Has(ToSet(h.edges), w, x)
  <2>1. w \in Arcs(g.rules, g.links) /\ w[1] # r /\ x \in Passed(g, w)
    BY <1>4 DEF From
  <2>2. Has(ToSet(g.edges), w, x)
    BY <2>1 DEF Complete
  <2> QED BY <1>2, <1>3, <2>1, <2>2 DEF Has
<1>7. Complete(h, A)
  BY <1>6 DEF Complete
<1> QED BY <1>1, <1>5, <1>7 DEF h, Giving

LEMMA GivenAllFollows ==
  ASSUME PlainNetwork, NEW g, Settled(g), NEW r \in TableRule, Wired(g.links),
         Sound(g, Arcs(g.rules, g.links)), Complete(g, Arcs(g.rules, g.links))
  PROVE  Giving(g, GivenAll(g, r), r, LowerRules(g, r))
<1> DEFINE S == LowerRules(g, r)
           h == Leaving(g, r)
           Z == {z \in Seq(S) \X Graph : Giving(g, z[2], r, ToSet(z[1]))}
<1>1. /\ Descending(S) \in Seq(S) /\ ToSet(Descending(S)) = S
      /\ \A q \in S : q \in g.rules /\ <<r, q>> \in Pairs(g.rules)
  BY LowerRulesFacts
<1>2. Giving(g, h, r, {})
  BY GivingStart
<1> HIDE DEF h, S
<1>3. <<<<>>, h>> \in Z
  <2>1. h \in Graph
    BY <1>2 DEF Giving, GivenOff, Tidy
  <2>2. <<>> \in Seq(S) /\ ToSet(<<>>) = {}
    BY EmptyElements
  <2> QED BY <1>2, <2>1, <2>2
<1>4. ASSUME NEW t, NEW q \in Seq(S), NEW x \in S, <<q, t>> \in Z
      PROVE  <<Append(q, x), GiveBack(t, r, x)>> \in Z
  <2> DEFINE m == GiveBack(t, r, x)
  <2>1. Giving(g, t, r, ToSet(q))
    BY <1>4
  <2>2. Append(q, x) \in Seq(S) /\ ToSet(Append(q, x)) = ToSet(q) \cup {x}
    BY AppendedElements
  <2>3. x \in g.rules /\ <<r, x>> \in Pairs(g.rules)
    BY <1>1
  <2>4. Giving(g, m, r, ToSet(q) \cup {x})
    BY <2>1, <2>3, GivingStep
  <2> HIDE DEF m
  <2>5. m \in Graph
    BY <2>4 DEF Giving, GivenOff, Tidy
  <2>6. <<Append(q, x), m>> \in Z
    BY <2>2, <2>4, <2>5
  <2> QED BY <2>6 DEF m
<1> HIDE DEF Z
<1>5. <<Descending(S), GivingAll!Fold(r, 0, h, Descending(S))>> \in Z
  BY <1>1, <1>3, <1>4, GivingAll!FoldSteps, NaturalInduction
        DEF GivingAll!Induction
<1>6. Giving(g, GivingAll!Fold(r, 0, h, Descending(S)), r, S)
  BY <1>1, <1>5 DEF Z
<1> QED BY <1>6 DEF GivenAll, h, S

LEMMA UninstallFollows ==
  ASSUME PlainNetwork, NEW g, Settled(g), NEW r \in TableRule, Wired(g.links),
         Sound(g, Arcs(g.rules, g.links)), Complete(g, Arcs(g.rules, g.links))
  PROVE  /\ Sound(Uninstall(g, r), Arcs(g.rules \ {r}, g.links))
         /\ Complete(Uninstall(g, r), Arcs(g.rules \ {r}, g.links))
<1> DEFINE V == g.rules
           L == g.links
           i == GivenAll(g, r)
           j == Emptied(g, r)
           k == DeleteVertex(j, r)
           h == GraphDeleteRule(g, r)
           u == Uninstall(g, r)
           C == Arcs(V \ {r}, L)
<1>1. Giving(g, i, r, LowerRules(g, r))
  BY GivenAllFollows
<1>2. j = DeleteInEdges(i, r, "removedDependent")
  BY DEF Emptied
<1>3. /\ h = Finish(k) /\ Tidy(k, V \ {r})
      /\ GivenOff(g, j, r, LowerRules(g, r))
      /\ \A e \in ToSet(j.edges) : e.dst # r
  BY DeleteRuleFacts
<1>4. /\ k.edges = j.edges
      /\ \A v \in Special \cup (V \ {r}) : k.domain[v] = j.domain[v]
  BY <1>3, DeleteVertexFacts
<1>5. u.domain = h.domain /\ u.edges = h.edges
  BY UninstallFacts
<1> HIDE DEF i, j, h, u
<1>6. i \in Graph /\ Sound(i, From(V, L, r)) /\ Complete(i, From(V, L, r))
  BY <1>1 DEF Giving, GivenOff, Tidy
<1>7. j.domain = i.domain /\ ToSet(j.edges) = {e \in ToSet(i.edges) : e.dst # r}
  BY <1>2, <1>6, InEdgesGone DEF Kept
<1>8. V \in SUBSET TableRule
  BY SettledFacts
<1>9. C = {w \in From(V, L, r) : w[2] # r}
  <2>1. C = {w \in Arcs(V, L) : w[1] # r /\ w[2] # r}
    BY <1>8, ArcsWithout
  <2> QED BY <2>1 DEF From
<1>10. (\A w : Passed(j, w) = Passed(i, w)) /\ \A e : Fine(j, e) <=> Fine(i, e)
  BY <1>7, SamePassed
<1>11. \A e : Way(e)[2] = e.dst
  BY DEF Way
<1> HIDE DEF C
<1>12. Sound(j, C)
  BY <1>6, <1>7, <1>9, <1>10, <1>11 DEF Sound
<1>13. Complete(j, C)
  <2> SUFFICES ASSUME NEW w \in C, NEW x \in Passed(j, w)
               PROVE  Has(ToSet(j.edges), w, x)
    BY DEF Complete
  <2>1. w \in From(V, L, r) /\ w[2] # r /\ x \in Passed(i, w)
    BY <1>9, <1>10
  <2>2. Has(ToSet(i.edges), w, x)
    BY <1>6, <2>1 DEF Complete
  <2> QED BY <1>7, <1>11, <2>1, <2>2 DEF Has
<1>14. \A w \in C : k.domain[w[2]] = j.domain[w[2]]
  <2> SUFFICES ASSUME NEW w \in C PROVE k.domain[w[2]] = j.domain[w[2]]
    OBVIOUS
  <2>1. w[2] \in Special \cup (V \ {r})
    <3>1. w \in Arcs(V \ {r}, L) /\ L \in Links /\ V \ {r} \in SUBSET (V \ {r})
      BY DEF C, Wired
    <3> HIDE DEF k
    <3> QED BY <1>3, <3>1, ArcEdge
  <2> QED BY <1>4, <2>1
<1> HIDE DEF k
<1>15. Sound(k, C) /\ Complete(k, C)
  BY <1>4, <1>12, <1>13, <1>14, SameEnds
<1>16. Sound(h, C) /\ Complete(h, C)
  BY <1>3, <1>15, FinishFollows DEF Tidy
<1>17. Sound(u, C) /\ Complete(u, C)
  BY <1>5, <1>16, SameFollows
<1> QED BY <1>17 DEF u, C

(***************************************************************************)
(* One direction of a link: the ways over it, and those that take their    *)
(* place without it.                                                       *)
(***************************************************************************)
(* The rules that send to a port, and those that are behind it; the ways   *)
(* over a link, and those that take their place without it.                *)
Outs(V, p) == {r \in V : Sink(p) \in ToSet(Actions[r])}
Ins(V, q) == {x \in V : Switch[x] = Home[q]}
Bridge(V, p, q) == {w \in Triples : w[1] \in Outs(V, p) /\ w[2] \in Ins(V, q) /\ w[3] = q}
Banks(V, p, q) ==
  {w \in Triples : \/ w[1] \in Outs(V, p) /\ w[2] = Sink(p) /\ w[3] = p
                   \/ w[1] = Source(q) /\ w[2] \in Ins(V, q) /\ w[3] = NoPort}

LEMMA PlainRules ==
  ASSUME PlainNetwork, NEW g, Settled(g), NEW p \in Ports
  PROVE  /\ ToSet(SrcRules(g, p)) = Outs(g.rules, p)
         /\ ToSet(DstRules(g, p)) = Ins(g.rules, p)
<1>1. g \in Graph /\ Distinct(g.rules) /\ g.rules \subseteq TableRule
  BY SettledFacts
<1>2. \A r \in g.rules : Match[r].port = AnyPort
  BY <1>1, PlainMatch
<1>3. ToSet(DstRules(g, p)) = {r \in g.rules : Switch[r] = Home[p]
                                                /\ Match[r].port \in {p, AnyPort}}
  BY <1>1, DstRulesFacts
<1>4. ToSet(SrcRules(g, p)) = {r \in g.rules : Sink(p) \in ToSet(Actions[r])}
  BY <1>1, SrcRulesFacts
<1> QED BY <1>2, <1>3, <1>4 DEF Outs, Ins

LEMMA BridgeWays ==
  ASSUME PlainNetwork, NEW g, Settled(g), NEW p \in Ports, NEW q \in Ports
  PROVE  LinkWays(g, p, q) = Bridge(g.rules, p, q)
<1> DEFINE R == Outs(g.rules, p)
           D == Ins(g.rules, q)
<1>1. ToSet(SrcRules(g, p)) = R /\ ToSet(DstRules(g, q)) = D
  BY PlainRules
<1>2. R \subseteq Vertices /\ D \subseteq Vertices
  BY SettledFacts, VertexFacts DEF Outs, Ins
<1> HIDE DEF R, D
<1>3. \A w : w \in LinkWays(g, p, q) <=> \E r \in R : \E x \in D : w = <<r, x, q>>
  BY <1>1 DEF LinkWays, Over1
<1>4. \A w : w \in Bridge(g.rules, p, q) <=> \E r \in R : \E x \in D : w = <<r, x, q>>
  BY <1>2 DEF Bridge, Triples, R, D
<1> QED BY <1>3, <1>4

LEMMA BankWays ==
  ASSUME PlainNetwork, NEW g, Settled(g), NEW p \in Ports, NEW q \in Ports
  PROVE  SinkWays(p, ToSet(SrcRules(g, p))) \cup SourceWays(g, q) = Banks(g.rules, p, q)
<1> DEFINE R == Outs(g.rules, p)
           D == Ins(g.rules, q)
<1>1. ToSet(SrcRules(g, p)) = R /\ ToSet(DstRules(g, q)) = D
  BY PlainRules
<1>2. /\ R \subseteq Vertices /\ D \subseteq Vertices
      /\ Sink(p) \in Vertices /\ Source(q) \in Vertices
  BY SettledFacts, VertexFacts DEF Outs, Ins
<1> HIDE DEF R, D
<1>3. \A w : w \in SinkWays(p, ToSet(SrcRules(g, p))) <=> \E r \in R : w = <<r, Sink(p), p>>
  BY <1>1 DEF SinkWays
<1>4. \A w : w \in SourceWays(g, q) <=> \E x \in D : w = <<Source(q), x, NoPort>>
  BY <1>1 DEF SourceWays
<1>5. \A w : w \in Triples /\ w[1] \in R /\ w[2] = Sink(p) /\ w[3] = p
               <=> \E r \in R : w = <<r, Sink(p), p>>
  BY <1>2 DEF Triples
<1>6. \A w : w \in Triples /\ w[1] = Source(q) /\ w[2] \in D /\ w[3] = NoPort
               <=> \E x \in D : w = <<Source(q), x, NoPort>>
  BY <1>2 DEF Triples
<1> QED BY <1>3, <1>4, <1>5, <1>6 DEF Banks, R, D

LEMMA LinkFollows ==
  ASSUME PlainNetwork, NEW g, Settled(g), g.links \in Links, NEW p \in Ports, NEW q \in Ports,
         Bridge(g.rules, p, q) \subseteq Arcs(g.rules, g.links),
         NEW A, Sound(g, A), Complete(g, A)
  PROVE  LET h == LinkDirected(g, p, q)
             B == {w \in A : w[2] # Sink(p) /\ w[1] # Source(q)} \cup Bridge(g.rules, p, q)
         IN  Sound(h, B) /\ Complete(h, B)
<1> DEFINE h == LinkDirected(g, p, q)
           W == Bridge(g.rules, p, q)
           B == {w \in A : w[2] # Sink(p) /\ w[1] # Source(q)} \cup W
<1>1. /\ Kept(g, h)
      /\ ToSet(h.edges) =
                  {e \in ToSet(g.edges) : e.dst # Sink(p) /\ e.src # Source(q)}
                    \cup Carrying(g, W)
  BY LinkDirectedFacts, BridgeWays
<1> HIDE DEF h, W
<1>2. (\A w : Passed(h, w) = Passed(g, w)) /\ \A e : Fine(h, e) <=> Fine(g, e)
  BY <1>1, SamePassed DEF Kept
<1>3. \A e : Way(e)[1] = e.src /\ Way(e)[2] = e.dst
  BY DEF Way
<1>4. /\ \A e \in Carrying(g, W) : Way(e) \in W /\ Fine(g, e)
      /\ \A w \in W : \A x \in Passed(g, w) : Has(Carrying(g, W), w, x)
  <2>1. Tidy(g, g.rules) /\ g.rules \in SUBSET g.rules /\ W \subseteq Arcs(g.rules, g.links)
    BY DEF Settled, W
  <2> QED BY <2>1, CarryingArcs
<1>5. Sound(h, B)
  BY <1>1, <1>2, <1>3, <1>4 DEF Sound
<1>6. ASSUME NEW w \in B, NEW x \in Passed(h, w)
      PROVE  Has(ToSet(h.edges), w, x)
  <2>1. x \in Passed(g, w)
    BY <1>2
  <2>2. CASE w \in W
    <3>1. Has(Carrying(g, W), w, x)
      BY <1>4, <2>1, <2>2
    <3> QED BY <1>1, <3>1 DEF Has
  <2>3. CASE w \in A /\ w[2] # Sink(p) /\ w[1] # Source(q)
    <3>1. Has(ToSet(g.edges), w, x)
      BY <2>1, <2>3 DEF Complete
    <3> QED BY <1>1, <1>3, <2>3, <3>1 DEF Has
  <2> QED BY <2>2, <2>3
<1>7. Complete(h, B)
  BY <1>6 DEF Complete
<1> QED BY <1>5, <1>7 DEF h, W

LEMMA UnlinkFollows ==
  ASSUME PlainNetwork, NEW g, Settled(g), g.links \in Links, NEW p \in Ports, NEW q \in Ports,
         Banks(g.rules, p, q) \subseteq Arcs(g.rules, g.links),
         NEW A, Sound(g, A), Complete(g, A), ~UnlinkDirected(g, p, q).doubled
  PROVE  LET h == UnlinkDirected(g, p, q)
             B == {w \in A : ~ (w[1] \in Outs(g.rules, p) /\ w[2] \in Ins(g.rules, q))}
                    \cup Banks(g.rules, p, q)
         IN  Sound(h, B) /\ Complete(h, B)
<1> DEFINE h == UnlinkDirected(g, p, q)
           W == Banks(g.rules, p, q)
           R == Outs(g.rules, p)
           D == Ins(g.rules, q)
           B == {w \in A : ~ (w[1] \in R /\ w[2] \in D)} \cup W
<1>1. /\ Kept(g, h)
      /\ ToSet(h.edges) \subseteq ToSet(g.edges) \cup Carrying(g, W)
      /\ Carrying(g, W) \subseteq ToSet(h.edges)
      /\ \A e \in ToSet(g.edges) : e.src \notin R \/ e.dst \notin D => e \in ToSet(h.edges)
      /\ \A e \in ToSet(h.edges) : e \in Carrying(g, W) \/ e.src \notin R \/ e.dst \notin D
  <2>1. Unlinks(g, h, p, q)
    BY UnlinkDirectedFacts
  <2>2. ToSet(SrcRules(g, p)) = R /\ ToSet(DstRules(g, q)) = D
    BY PlainRules
  <2>3. Carrying(g, SinkWays(p, R)) \cup Carrying(g, SourceWays(g, q)) = Carrying(g, W)
    BY <2>2, BankWays, CarryingUnion
  <2> HIDE DEF h, W, R, D
  <2> QED BY <2>1, <2>2, <2>3 DEF Unlinks, h
<1> HIDE DEF h, W, R, D
<1>2. (\A w : Passed(h, w) = Passed(g, w)) /\ \A e : Fine(h, e) <=> Fine(g, e)
  BY <1>1, SamePassed DEF Kept
<1>3. \A e : Way(e)[1] = e.src /\ Way(e)[2] = e.dst
  BY DEF Way
<1>4. /\ \A e \in Carrying(g, W) : Way(e) \in W /\ Fine(g, e)
      /\ \A w \in W : \A x \in Passed(g, w) : Has(Carrying(g, W), w, x)
  <2>1. Tidy(g, g.rules) /\ g.rules \in SUBSET g.rules /\ W \subseteq Arcs(g.rules, g.links)
    BY DEF Settled, W
  <2> QED BY <2>1, CarryingArcs
<1>5. Sound(h, B)
  BY <1>1, <1>2, <1>3, <1>4 DEF Sound
<1>6. ASSUME NEW w \in B, NEW x \in Passed(h, w)
      PROVE  Has(ToSet(h.edges), w, x)
  <2>1. x \in Passed(g, w)
    BY <1>2
  <2>2. CASE w \in W
    <3>1. Has(Carrying(g, W), w, x)
      BY <1>4, <2>1, <2>2
    <3> QED BY <1>1, <3>1 DEF Has
  <2>3. CASE w \in A /\ ~ (w[1] \in R /\ w[2] \in D)
    <3>1. Has(ToSet(g.edges), w, x)
      BY <2>1, <2>3 DEF Complete
    <3>2. PICK e \in ToSet(g.edges) : Way(e) = w /\ x \in e.domain.headers
      BY <3>1 DEF Has
    <3>3. e \in ToSet(h.edges)
      BY <1>1, <1>3, <2>3, <3>2
    <3> QED BY <3>2, <3>3 DEF Has
  <2> QED BY <2>2, <2>3
<1>7. Complete(h, B)
  BY <1>6 DEF Complete
<1> QED BY <1>5, <1>7 DEF h, W, R, D

(***************************************************************************)
(* The arcs with a link and without it.                                    *)
(***************************************************************************)
(* M is L with a link between p and q.                                     *)
Joins(M, L, p, q) ==
  /\ L \in Links /\ M \in Links /\ p \in Ports /\ q \in Ports /\ p # q
  /\ p \notin DOMAIN L /\ q \notin DOMAIN L
  /\ DOMAIN M = DOMAIN L \cup {p, q}
  /\ M[p] = q /\ M[q] = p /\ \A o \in DOMAIN L : M[o] = L[o]

(* Where the outputs lead then.                                            *)
JoinedHits(V, M, L, p, q) ==
  /\ Hits(V, M, Sink(p)) = Ins(V, q) /\ Via(M, Sink(p)) = q
  /\ Hits(V, M, Sink(q)) = Ins(V, p) /\ Via(M, Sink(q)) = p
  /\ Hits(V, L, Sink(p)) = {Sink(p)} /\ Via(L, Sink(p)) = p
  /\ Hits(V, L, Sink(q)) = {Sink(q)} /\ Via(L, Sink(q)) = q
  /\ \A o \in Outputs \ {Sink(p), Sink(q)} :
       Hits(V, M, o) = Hits(V, L, o) /\ Via(M, o) = Via(L, o)

LEMMA JoinsFacts ==
  ASSUME NEW V, NEW M, NEW L, NEW p, NEW q, Joins(M, L, p, q)
  PROVE  JoinedHits(V, M, L, p, q)
<1>1. /\ Kind(Sink(p)) = "sink" /\ Sink(p)[2] = p
      /\ Kind(Sink(q)) = "sink" /\ Sink(q)[2] = q
  BY VertexFacts DEF Joins
<1>2. /\ Leads(M, Sink(p)) /\ Leads(M, Sink(q))
      /\ ~Leads(L, Sink(p)) /\ ~Leads(L, Sink(q))
  BY <1>1 DEF Joins, Leads
<1>3. ASSUME NEW o \in Outputs \ {Sink(p), Sink(q)}
      PROVE  (Leads(M, o) <=> Leads(L, o)) /\ (Leads(L, o) => M[o[2]] = L[o[2]])
  <2>1. CASE Kind(o) = "sink"
    <3>1. PICK x \in Ports : o = Sink(x)
      BY <2>1, VertexFacts
    <3>2. o[2] = x /\ x # p /\ x # q
      BY <3>1, VertexFacts
    <3> QED BY <2>1, <3>2 DEF Leads, Joins
  <2>2. CASE Kind(o) # "sink"
    BY <2>2 DEF Leads
  <2> QED BY <2>1, <2>2
<1>4. \A o \in Outputs \ {Sink(p), Sink(q)} :
        Hits(V, M, o) = Hits(V, L, o) /\ Via(M, o) = Via(L, o)
  BY <1>3 DEF Hits, Via
<1>5. M[p] = q /\ M[q] = p
  BY DEF Joins
<1> QED BY <1>1, <1>2, <1>4, <1>5 DEF Hits, Via, Ins, JoinedHits

(* From a rule by an output other than to p and q.                         *)
Elsewhere(V, L, p, q, w) ==
  /\ w[1] \in V
  /\ \E o \in ToSet(Actions[w[1]]) \ {Sink(p), Sink(q)} :
       w[2] \in Hits(V, L, o) /\ w[3] = Via(L, o)

(* What both have in common.                                               *)
LEMMA CommonArcs ==
  ASSUME NEW V \in SUBSET TableRule, NEW M, NEW L, NEW p, NEW q, Joins(M, L, p, q), NEW w \in Triples
  PROVE  /\ FromSource(V, L, w) <=> \/ FromSource(V, M, w)
                                    \/ w[1] \in {Source(p), Source(q)} /\ FromSource(V, L, w)
         /\ FromSource(V, M, w) => w[1] \notin {Source(p), Source(q)}
         /\ FromSource(V, M, w) \/ FromSource(V, L, w) => w[1] \notin V /\ w[2] \in V
         /\ FromRule(V, M, w) <=>
              \/ w \in Bridge(V, p, q) \/ w \in Bridge(V, q, p)
              \/ Elsewhere(V, L, p, q, w)
         /\ FromRule(V, L, w) <=>
              \/ w[1] \in Outs(V, p) /\ w[2] = Sink(p) /\ w[3] = p
              \/ w[1] \in Outs(V, q) /\ w[2] = Sink(q) /\ w[3] = q
              \/ Elsewhere(V, L, p, q, w)
<1>1. \A x \in Ports : Source(x) \notin V /\ Source(x)[2] = x
  <2> SUFFICES ASSUME NEW x \in Ports PROVE Source(x) \notin V /\ Source(x)[2] = x
    OBVIOUS
  <2>1. Source(x) \in Special
    BY DEF Special
  <2> QED BY <2>1, SpecialFacts, VertexFacts
<1>2. /\ DOMAIN M = DOMAIN L \cup {p, q} /\ p \in Ports /\ q \in Ports
      /\ p \notin DOMAIN L /\ q \notin DOMAIN L
  BY DEF Joins
<1>3. \A x, y \in Ports : Source(x) = Source(y) => x = y
  BY <1>1
<1>4. FromSource(V, M, w) => FromSource(V, L, w)
  BY <1>2 DEF FromSource
<1>5. FromSource(V, M, w) => w[1] \notin {Source(p), Source(q)}
  BY <1>2, <1>3 DEF FromSource
<1>6. FromSource(V, L, w) /\ w[1] \notin {Source(p), Source(q)} => FromSource(V, M, w)
  BY <1>2 DEF FromSource
<1>7. FromSource(V, M, w) \/ FromSource(V, L, w) => w[1] \notin V /\ w[2] \in V
  BY <1>1 DEF FromSource
<1>8. \A o \in ToSet(Actions[w[1]]) : w[1] \in V => o \in Outputs
  BY RuleFacts DEF ToSet
<1>9. JoinedHits(V, M, L, p, q)
  BY JoinsFacts
<1> DEFINE S == ToSet(Actions[w[1]])
           Rest == Elsewhere(V, L, p, q, w)
<1>15. Rest <=> \E o \in S \ {Sink(p), Sink(q)} :
                   w[1] \in V /\ w[2] \in Hits(V, L, o) /\ w[3] = Via(L, o)
  BY Zenon DEF Elsewhere
<1> HIDE DEF S, Rest
<1>10. FromRule(V, M, w) <=>
              \/ w[1] \in V /\ Sink(p) \in S /\ w[2] \in Ins(V, q) /\ w[3] = q
              \/ w[1] \in V /\ Sink(q) \in S /\ w[2] \in Ins(V, p) /\ w[3] = p
              \/ Rest
  BY <1>8, <1>9, <1>15 DEF FromRule, JoinedHits, S
<1>11. FromRule(V, L, w) <=>
              \/ w[1] \in V /\ Sink(p) \in S /\ w[2] = Sink(p) /\ w[3] = p
              \/ w[1] \in V /\ Sink(q) \in S /\ w[2] = Sink(q) /\ w[3] = q
              \/ Rest
  BY <1>8, <1>9, <1>15 DEF FromRule, JoinedHits, S
<1>12. FromRule(V, M, w) <=> w \in Bridge(V, p, q) \/ w \in Bridge(V, q, p) \/ Rest
  BY <1>10 DEF Bridge, Outs, S
<1>13. FromRule(V, L, w) <=>
              \/ w[1] \in Outs(V, p) /\ w[2] = Sink(p) /\ w[3] = p
              \/ w[1] \in Outs(V, q) /\ w[2] = Sink(q) /\ w[3] = q
              \/ Rest
  BY <1>11 DEF Outs, S
<1>14. FromSource(V, L, w) <=> \/ FromSource(V, M, w)
                               \/ w[1] \in {Source(p), Source(q)} /\ FromSource(V, L, w)
  BY <1>4, <1>6
<1> QED BY <1>5, <1>7, <1>12, <1>13, <1>14 DEF Rest

LEMMA LinkedArcs ==
  ASSUME NEW V \in SUBSET TableRule, NEW M, NEW L, NEW p, NEW q, Joins(M, L, p, q)
  PROVE  LET B == {w \in Arcs(V, L) : w[2] # Sink(p) /\ w[1] # Source(q)} \cup Bridge(V, p, q)
         IN  /\ Bridge(V, p, q) \subseteq Arcs(V, M)
             /\ Bridge(V, q, p) \subseteq Arcs(V, M)
             /\ {w \in B : w[2] # Sink(q) /\ w[1] # Source(p)} \cup Bridge(V, q, p) = Arcs(V, M)
<1> DEFINE B == {w \in Arcs(V, L) : w[2] # Sink(p) /\ w[1] # Source(q)} \cup Bridge(V, p, q)
           C == {w \in B : w[2] # Sink(q) /\ w[1] # Source(p)} \cup Bridge(V, q, p)
<1>1. p \in Ports /\ q \in Ports /\ \A x \in Ports : Source(x) \notin V /\ Sink(x) \notin V
  <2>1. \A x \in Ports : Source(x) \in Special /\ Sink(x) \in Special
    BY VertexFacts DEF Special
  <2>2. \A v \in V : v \notin Special
    BY SpecialFacts
  <2> QED BY <2>1, <2>2 DEF Joins
<1>2. Bridge(V, p, q) \subseteq Triples /\ Bridge(V, q, p) \subseteq Triples
  BY DEF Bridge
<1>3. Bridge(V, p, q) \subseteq Arcs(V, M) /\ Bridge(V, q, p) \subseteq Arcs(V, M)
  <2> SUFFICES ASSUME NEW w, w \in Bridge(V, p, q) \/ w \in Bridge(V, q, p)
               PROVE  w \in Arcs(V, M)
    OBVIOUS
  <2>1. w \in Triples
    BY <1>2
  <2>2. FromRule(V, M, w)
    BY <2>1, CommonArcs
  <2> QED BY <2>1, <2>2 DEF Arcs
<1>4. \A w \in Bridge(V, p, q) \cup Bridge(V, q, p) : w[1] \in V /\ w[2] \in V
  BY DEF Bridge, Outs, Ins
<1>5. ASSUME NEW w \in Arcs(V, M)
      PROVE  w \in C
  <2>1. w \in Triples
    BY DEF Arcs
  <2>2. CASE FromSource(V, M, w)
    <3>1. w[1] \notin {Source(p), Source(q)} /\ w[2] \in V /\ FromSource(V, L, w)
      BY <2>1, <2>2, CommonArcs
    <3> QED BY <1>1, <2>1, <3>1 DEF Arcs
  <2>3. CASE w \in Bridge(V, p, q) \cup Bridge(V, q, p)
    BY <1>1, <1>4, <2>3
  <2>4. CASE Elsewhere(V, L, p, q, w)
    <3>1. FromRule(V, L, w) /\ w[1] \in V
      <4>1. FromRule(V, L, w)
        BY <2>1, <2>4, CommonArcs
      <4> QED BY <2>4, <4>1 DEF Elsewhere
    <3>2. w[2] \notin {Sink(p), Sink(q)}
      BY <1>1, <2>4 DEF Hits, Elsewhere
    <3> QED BY <1>1, <2>1, <3>1, <3>2 DEF Arcs
  <2> QED BY <2>1, <2>2, <2>3, <2>4, CommonArcs DEF Arcs
<1>6. ASSUME NEW w \in C
      PROVE  w \in Arcs(V, M)
  <2>1. CASE w \in Bridge(V, p, q) \cup Bridge(V, q, p)
    BY <1>3, <2>1
  <2>2. CASE w \in Arcs(V, L) /\ w[2] \notin {Sink(p), Sink(q)} /\ w[1] \notin {Source(p), Source(q)}
    <3>1. w \in Triples
      BY <2>2 DEF Arcs
    <3>2. FromSource(V, L, w) => FromSource(V, M, w)
      BY <2>2, <3>1, CommonArcs
    <3>3. FromRule(V, L, w) => FromRule(V, M, w)
      BY <2>2, <3>1, CommonArcs
    <3> QED BY <2>2, <3>1, <3>2, <3>3 DEF Arcs
  <2> QED BY <2>1, <2>2
<1>7. C = Arcs(V, M)
  BY <1>5, <1>6
<1> QED BY <1>3, <1>7

LEMMA UnlinkedArcs ==
  ASSUME PlainNetwork, NEW V \in SUBSET TableRule, NEW M, NEW L, NEW p, NEW q, Joins(M, L, p, q),
         Wired(M)
  PROVE  LET B == {w \in Arcs(V, M) : ~ (w[1] \in Outs(V, p) /\ w[2] \in Ins(V, q))}
                    \cup Banks(V, p, q)
         IN  /\ Banks(V, p, q) \subseteq Arcs(V, L)
             /\ Banks(V, q, p) \subseteq Arcs(V, L)
             /\ {w \in B : ~ (w[1] \in Outs(V, q) /\ w[2] \in Ins(V, p))}
                  \cup Banks(V, q, p) = Arcs(V, L)
<1> DEFINE B == {w \in Arcs(V, M) : ~ (w[1] \in Outs(V, p) /\ w[2] \in Ins(V, q))}
                    \cup Banks(V, p, q)
           C == {w \in B : ~ (w[1] \in Outs(V, q) /\ w[2] \in Ins(V, p))} \cup Banks(V, q, p)
<1>1. p \in Ports /\ q \in Ports /\ \A x \in Ports : Source(x) \notin V /\ Sink(x) \notin V
  <2>1. \A x \in Ports : Source(x) \in Special /\ Sink(x) \in Special
    BY VertexFacts DEF Special
  <2>2. \A v \in V : v \notin Special
    BY SpecialFacts
  <2> QED BY <2>1, <2>2 DEF Joins
<1>2. \A x, y \in Ports : Banks(V, x, y) \subseteq Triples
  BY DEF Banks
<1>3. \A x : Outs(V, x) \subseteq V /\ Ins(V, x) \subseteq V
  BY DEF Outs, Ins
<1>4. \A w \in Banks(V, p, q) \cup Banks(V, q, p) : w[1] \notin V \/ w[2] \notin V
  BY <1>1 DEF Banks
<1>5. \A w \in Triples : w[1] = Source(p) /\ w[2] \in Ins(V, p) /\ w[3] = NoPort => FromSource(V, L, w)
  BY DEF FromSource, Ins, Joins
<1>6. \A w \in Triples : w[1] = Source(q) /\ w[2] \in Ins(V, q) /\ w[3] = NoPort => FromSource(V, L, w)
  BY DEF FromSource, Ins, Joins
<1>7. Banks(V, p, q) \subseteq Arcs(V, L)
  <2> SUFFICES ASSUME NEW w \in Banks(V, p, q) PROVE w \in Arcs(V, L)
    OBVIOUS
  <2>1. w \in Triples
    BY DEF Banks
  <2>2. CASE w[1] \in Outs(V, p) /\ w[2] = Sink(p) /\ w[3] = p
    BY <2>1, <2>2, CommonArcs DEF Arcs
  <2>3. CASE w[1] = Source(q) /\ w[2] \in Ins(V, q) /\ w[3] = NoPort
    BY <1>6, <2>1, <2>3 DEF Arcs
  <2> QED BY <2>2, <2>3 DEF Banks
<1>8. Banks(V, q, p) \subseteq Arcs(V, L)
  <2> SUFFICES ASSUME NEW w \in Banks(V, q, p) PROVE w \in Arcs(V, L)
    OBVIOUS
  <2>1. w \in Triples
    BY DEF Banks
  <2>2. CASE w[1] \in Outs(V, q) /\ w[2] = Sink(q) /\ w[3] = q
    BY <2>1, <2>2, CommonArcs DEF Arcs
  <2>3. CASE w[1] = Source(p) /\ w[2] \in Ins(V, p) /\ w[3] = NoPort
    BY <1>5, <2>1, <2>3 DEF Arcs
  <2> QED BY <2>2, <2>3 DEF Banks
<1>9. ASSUME NEW w \in Arcs(V, L)
      PROVE  w \in C
  <2>1. w \in Triples
    BY DEF Arcs
  <2>2. CASE FromSource(V, L, w) /\ w[1] \in {Source(p), Source(q)}
    <3>1. w[2] \in V /\ w[3] = NoPort /\ Switch[w[2]] = Home[w[1][2]]
      BY <2>2, VertexFacts DEF FromSource
    <3>2. Source(p)[2] = p /\ Source(q)[2] = q
      BY <1>1, VertexFacts
    <3>3. w \in Banks(V, p, q) \/ w \in Banks(V, q, p)
      BY <2>1, <2>2, <3>1, <3>2 DEF Banks, Ins
    <3> QED BY <1>1, <1>3, <2>2, <3>3
  <2>3. CASE FromSource(V, M, w)
    <3>1. w[1] \notin V
      BY <2>1, <2>3, CommonArcs
    <3> QED BY <1>3, <2>1, <2>3, <3>1 DEF Arcs
  <2>4. CASE w[1] \in Outs(V, p) /\ w[2] = Sink(p) /\ w[3] = p
    <3>1. w \in Banks(V, p, q)
      BY <2>1, <2>4 DEF Banks
    <3> QED BY <1>1, <1>3, <2>4, <3>1
  <2>5. CASE w[1] \in Outs(V, q) /\ w[2] = Sink(q) /\ w[3] = q
    <3>1. w \in Banks(V, q, p)
      BY <2>1, <2>5 DEF Banks
    <3> QED BY <3>1
  <2>6. CASE Elsewhere(V, L, p, q, w)
    <3>1. FromRule(V, M, w) /\ w[1] \in V /\ w[1] \in TableRule
      <4>1. FromRule(V, M, w)
        BY <2>1, <2>6, CommonArcs
      <4> QED BY <2>6, <4>1 DEF Elsewhere
    <3>2. PICK o \in ToSet(Actions[w[1]]) \ {Sink(p), Sink(q)} :
                   w[2] \in Hits(V, L, o) /\ w[3] = Via(L, o)
      BY <2>6 DEF Elsewhere
    <3>3. o \in Outputs
      BY <3>1, RuleFacts DEF ToSet
    <3>4. ASSUME w[2] \in V
          PROVE  \E x \in DOMAIN L : /\ o = Sink(x) /\ x \in Ports
                                     /\ Switch[w[2]] = Home[L[x]]
      <4>1. o \notin V
        BY <3>3, SpecialFacts DEF Special
      <4>2. Leads(L, o) /\ Switch[w[2]] = Home[L[o[2]]]
        BY <3>2, <3>4, <4>1 DEF Hits
      <4>3. PICK x \in Ports : o = Sink(x)
        BY <3>3, <4>2, VertexFacts DEF Leads
      <4>4. o[2] = x
        BY <4>3, VertexFacts
      <4> QED BY <4>2, <4>3, <4>4 DEF Leads
    <3>5. ASSUME NEW y \in {p, q}, w[1] \in Outs(V, y), w[2] \in Ins(V, M[y])
          PROVE  FALSE
      <4>1. w[2] \in V /\ Switch[w[2]] = Home[M[y]] /\ Sink(y) \in ToSet(Actions[w[1]])
        BY <3>5 DEF Ins, Outs
      <4>2. PICK x \in DOMAIN L : o = Sink(x) /\ x \in Ports /\ Switch[w[2]] = Home[L[x]]
        BY <3>4, <4>1
      <4>3. y \in Ports /\ y \in DOMAIN M /\ M[y] \in Ports /\ x \in DOMAIN M /\ M[x] = L[x]
            /\ M[x] \in Ports
        BY <4>2, LinksFacts DEF Joins
      <4>4. Cabled(y, M[y]) /\ Cabled(x, M[x]) /\ Home[M[y]] = Home[M[x]]
        BY <4>1, <4>2, <4>3 DEF Wired
      <4>5. PICK f \in Flows : ToSet(Actions[w[1]]) = ToSet(Attr[f].out)
        BY <3>1, <4>1, <4>3, SinkHome
      <4>6. {Sink(y), Sink(x)} \subseteq ToSet(Attr[f].out)
        BY <3>2, <4>1, <4>2, <4>5
      <4>7. x = y
        BY <4>2, <4>3, <4>4, <4>6 DEF PlainNetwork
      <4> QED BY <3>2, <4>2, <4>7
    <3>6. /\ ~ (w[1] \in Outs(V, p) /\ w[2] \in Ins(V, q))
          /\ ~ (w[1] \in Outs(V, q) /\ w[2] \in Ins(V, p))
      BY <3>5 DEF Joins
    <3> QED BY <2>1, <3>1, <3>6 DEF Arcs
  <2>7. FromSource(V, L, w) \/ FromRule(V, L, w)
    BY DEF Arcs
  <2>8. FromSource(V, L, w) =>
          FromSource(V, M, w) \/ w[1] \in {Source(p), Source(q)}
    BY <2>1, CommonArcs
  <2>9. FromRule(V, L, w) =>
          \/ w[1] \in Outs(V, p) /\ w[2] = Sink(p) /\ w[3] = p
          \/ w[1] \in Outs(V, q) /\ w[2] = Sink(q) /\ w[3] = q
          \/ Elsewhere(V, L, p, q, w)
    BY <2>1, CommonArcs
  <2> QED BY <2>2, <2>3, <2>4, <2>5, <2>6, <2>7, <2>8, <2>9
<1>10. ASSUME NEW w \in C
       PROVE  w \in Arcs(V, L)
  <2>1. CASE w \in Banks(V, p, q) \cup Banks(V, q, p)
    BY <1>7, <1>8, <2>1
  <2>2. CASE /\ w \in Arcs(V, M)
             /\ ~ (w[1] \in Outs(V, p) /\ w[2] \in Ins(V, q))
             /\ ~ (w[1] \in Outs(V, q) /\ w[2] \in Ins(V, p))
    <3>1. w \in Triples
      BY <2>2 DEF Arcs
    <3>2. FromSource(V, M, w) => FromSource(V, L, w)
      BY <3>1, CommonArcs
    <3>3. w \notin Bridge(V, p, q) /\ w \notin Bridge(V, q, p)
      BY <2>2 DEF Bridge
    <3>4. FromRule(V, M, w) => FromRule(V, L, w)
      BY <3>1, <3>3, CommonArcs
    <3> QED BY <2>2, <3>1, <3>2, <3>4 DEF Arcs
  <2> QED BY <2>1, <2>2
<1>11. C = Arcs(V, L)
  BY <1>9, <1>10
<1> QED BY <1>7, <1>8, <1>11

(***************************************************************************)
(* A link comes or goes, in both directions.                               *)
(***************************************************************************)
(* The edges of the graph carry what the tables of its network do.         *)
Follows(g) ==
  Sound(g, Arcs(g.rules, g.links)) /\ Complete(g, Arcs(g.rules, g.links))

LEMMA AddLinkFollows ==
  ASSUME PlainNetwork, NEW g, Settled(g), NEW L, NEW p, NEW q, Joins(g.links, L, p, q),
         Sound(g, Arcs(g.rules, L)), Complete(g, Arcs(g.rules, L))
  PROVE  Follows(GraphAddLink(g, p, q))
<1> DEFINE V == g.rules
           M == g.links
           h == LinkDirected(g, p, q)
           k == LinkDirected(h, q, p)
           m == GraphAddLink(g, p, q)
           A == Arcs(V, L)
           B == {w \in A : w[2] # Sink(p) /\ w[1] # Source(q)} \cup Bridge(V, p, q)
           C == {w \in B : w[2] # Sink(q) /\ w[1] # Source(p)} \cup Bridge(V, q, p)
<1>1. p \in Ports /\ q \in Ports /\ M \in Links /\ V \in SUBSET TableRule
  BY SettledFacts DEF Joins
<1>2. m = Finish(k) /\ Settled(h) /\ Settled(k) /\ Settled(m) /\ Kept(g, h) /\ Kept(h, k)
      /\ Kept(k, m)
  BY <1>1, AddLinkFacts
<1>3. /\ Bridge(V, p, q) \subseteq Arcs(V, M)
      /\ Bridge(V, q, p) \subseteq Arcs(V, M)
      /\ C = Arcs(V, M)
  BY <1>1, LinkedArcs
<1>4. Sound(h, B) /\ Complete(h, B)
  BY <1>1, <1>3, LinkFollows
<1>5. h.rules = V /\ h.links = M
  BY <1>2 DEF Kept
<1> HIDE DEF h, A, B
<1>6. Sound(k, C) /\ Complete(k, C)
  <2>1. h.links \in Links /\ Bridge(h.rules, q, p) \subseteq Arcs(h.rules, h.links)
    BY <1>1, <1>3, <1>5
  <2>2. /\ Sound(k, {w \in B : w[2] # Sink(q) /\ w[1] # Source(p)} \cup Bridge(h.rules, q, p))
        /\ Complete(k, {w \in B : w[2] # Sink(q) /\ w[1] # Source(p)} \cup Bridge(h.rules, q, p))
    BY <1>1, <1>2, <1>4, <2>1, LinkFollows
  <2> QED BY <1>5, <2>2
<1> HIDE DEF k, C, m
<1>7. k.rules = V /\ k.links = M /\ m.rules = V /\ m.links = M /\ k \in Graph
  BY <1>2, <1>5 DEF Kept
<1>8. Sound(k, Arcs(V, M)) /\ Complete(k, Arcs(V, M))
  BY <1>3, <1>6
<1>9. Sound(m, Arcs(V, M)) /\ Complete(m, Arcs(V, M))
  BY <1>2, <1>7, <1>8, FinishFollows
<1> QED BY <1>7, <1>9 DEF Follows, m

LEMMA DeleteLinkFollows ==
  ASSUME PlainNetwork, NEW g, Settled(g), NEW M, NEW p, NEW q, Joins(M, g.links, p, q),
         Wired(M), Sound(g, Arcs(g.rules, M)), Complete(g, Arcs(g.rules, M)),
         ~GraphDeleteLink(g, p, q).doubled
  PROVE  Follows(GraphDeleteLink(g, p, q))
<1> DEFINE V == g.rules
           L == g.links
           h == UnlinkDirected(g, p, q)
           k == UnlinkDirected(h, q, p)
           m == GraphDeleteLink(g, p, q)
           A == Arcs(V, M)
           B == {w \in A : ~ (w[1] \in Outs(V, p) /\ w[2] \in Ins(V, q))} \cup Banks(V, p, q)
           C == {w \in B : ~ (w[1] \in Outs(V, q) /\ w[2] \in Ins(V, p))} \cup Banks(V, q, p)
<1>1. p \in Ports /\ q \in Ports /\ L \in Links /\ V \in SUBSET TableRule
  BY SettledFacts DEF Joins
<1>2. m = Finish(k) /\ Settled(h) /\ Settled(k) /\ Settled(m) /\ Kept(g, h) /\ Kept(h, k)
      /\ Kept(k, m) /\ m.doubled = k.doubled
  BY <1>1, DeleteLinkFacts
<1>3. /\ Banks(V, p, q) \subseteq Arcs(V, L)
      /\ Banks(V, q, p) \subseteq Arcs(V, L)
      /\ C = Arcs(V, L)
  BY <1>1, UnlinkedArcs
<1>4. ~k.doubled /\ ~h.doubled
  BY <1>2 DEF Kept
<1>5. Sound(h, B) /\ Complete(h, B)
  BY <1>1, <1>3, <1>4, UnlinkFollows
<1>6. h.rules = V /\ h.links = L
  BY <1>2 DEF Kept
<1> HIDE DEF h, A, B
<1>7. Sound(k, C) /\ Complete(k, C)
  <2>1. h.links \in Links /\ Banks(h.rules, q, p) \subseteq Arcs(h.rules, h.links)
    BY <1>1, <1>3, <1>6
  <2> DEFINE D == {w \in B : ~ (w[1] \in Outs(h.rules, q) /\ w[2] \in Ins(h.rules, p))}
                    \cup Banks(h.rules, q, p)
  <2>2. Sound(k, D) /\ Complete(k, D)
    BY <1>1, <1>2, <1>4, <1>5, <2>1, UnlinkFollows
  <2> QED BY <1>6, <2>2
<1> HIDE DEF k, C, m
<1>8. k.rules = V /\ k.links = L /\ m.rules = V /\ m.links = L /\ k \in Graph
  BY <1>2, <1>6 DEF Kept
<1>9. Sound(k, Arcs(V, L)) /\ Complete(k, Arcs(V, L))
  BY <1>3, <1>7
<1>10. Sound(m, Arcs(V, L)) /\ Complete(m, Arcs(V, L))
  BY <1>2, <1>8, <1>9, FinishFollows
<1> QED BY <1>8, <1>10 DEF Follows, m

----
(* What holds of the graph between two tasks.                              *)
Faithful(g) ==
  /\ Settled(g) /\ Misses \subseteq g.rules /\ Wired(g.links)
  /\ ~g.doubled => Follows(g)

LEMMA InstallFaithful ==
  ASSUME PlainNetwork, NEW g, Faithful(g), NEW r \in TableRule, r \notin g.rules,
         Distinct(g.rules \cup {r}), Kind(r) # "miss"
  PROVE  Faithful(Install(g, r))
<1> DEFINE h == Install(g, r)
<1>1. /\ Settled(g) /\ Misses \subseteq g.rules /\ Wired(g.links)
      /\ (~g.doubled => Follows(g))
  BY DEF Faithful
<1>2. Settled(h) /\ h.rules = g.rules \cup {r} /\ h.links = g.links /\ h.doubled = g.doubled
  BY <1>1, InstallFacts
<1>3. ASSUME ~g.doubled
      PROVE  Sound(h, Arcs(g.rules \cup {r}, g.links)) /\ Complete(h, Arcs(g.rules \cup {r}, g.links))
  BY <1>1, <1>3, InstallFollows DEF Follows
<1> HIDE DEF h
<1>4. ~h.doubled => Follows(h)
  BY <1>2, <1>3 DEF Follows
<1> QED BY <1>1, <1>2, <1>4 DEF Faithful, h

LEMMA UninstallFaithful ==
  ASSUME PlainNetwork, NEW g, Faithful(g), NEW r \in TableRule \ Misses
  PROVE  Faithful(Uninstall(g, r))
<1> DEFINE h == Uninstall(g, r)
<1>1. /\ Settled(g) /\ Misses \subseteq g.rules /\ Wired(g.links)
      /\ (~g.doubled => Follows(g))
  BY DEF Faithful
<1>2. Settled(h) /\ h.rules = g.rules \ {r} /\ h.links = g.links /\ h.doubled = g.doubled
  BY <1>1, UninstallFacts
<1>3. ASSUME ~g.doubled
      PROVE  Sound(h, Arcs(g.rules \ {r}, g.links)) /\ Complete(h, Arcs(g.rules \ {r}, g.links))
  BY <1>1, <1>3, UninstallFollows DEF Follows
<1> HIDE DEF h
<1>4. ~h.doubled => Follows(h)
  BY <1>2, <1>3 DEF Follows
<1> QED BY <1>1, <1>2, <1>4 DEF Faithful, h

LEMMA RestedFaithful ==
  ASSUME NEW g, Faithful(g), NEW h, Settled(h), h.rules = g.rules, h.links = g.links,
         h.domain = g.domain, h.edges = g.edges, h.doubled = g.doubled
  PROVE  Faithful(h)
<1>1. ASSUME Follows(g) PROVE Follows(h)
  BY <1>1, SameFollows DEF Follows
<1> QED BY <1>1 DEF Faithful

(***************************************************************************)
(* The edges after the start.                                              *)
(***************************************************************************)
(* Without links a way leads from a source to a rule, or from a rule to    *)
(* one of its outputs.                                                     *)
LEMMA Linkless ==
  ASSUME NEW V \in SUBSET TableRule, NEW w \in Triples
  PROVE  w \in Arcs(V, <<>>) <=>
           \/ /\ w[2] \in V /\ w[3] = NoPort
              /\ \E p \in Ports : w[1] = Source(p) /\ Switch[w[2]] = Home[p]
           \/ w[1] \in V /\ w[2] \in ToSet(Actions[w[1]]) /\ w[3] = Via(<<>>, w[2])
<1>1. DOMAIN <<>> = {}
  BY NoLinks
<1>2. \A o : ~Leads(<<>>, o) /\ Hits(V, <<>>, o) = {o}
  BY <1>1 DEF Leads, Hits
<1>3. FromRule(V, <<>>, w) <=>
        w[1] \in V /\ w[2] \in ToSet(Actions[w[1]]) /\ w[3] = Via(<<>>, w[2])
  BY <1>2 DEF FromRule
<1>4. FromSource(V, <<>>, w) <=>
        /\ w[2] \in V /\ w[3] = NoPort
        /\ \E p \in Ports : w[1] = Source(p) /\ Switch[w[2]] = Home[p]
  BY <1>1 DEF FromSource
<1> QED BY <1>3, <1>4 DEF Arcs

LEMMA StartArcs ==
  ASSUME NEW V \in SUBSET Misses, NEW r \in Misses
  PROVE  LET O == {w \in Arcs(Misses, <<>>) : w[1] = r}
             U == V \cup {r}
         IN  /\ O \subseteq Arcs(U, <<>>) /\ MissWays(r) \subseteq Arcs(U, <<>>)
             /\ (Arcs(V, <<>>) \cup O) \cup MissWays(r) = Arcs(U, <<>>)
<1> DEFINE O == {w \in Arcs(Misses, <<>>) : w[1] = r}
           U == V \cup {r}
<1>1. U \in SUBSET TableRule /\ V \in SUBSET TableRule /\ Misses \in SUBSET TableRule
      /\ V \subseteq U /\ r \in U /\ U \subseteq V \cup {r} /\ r \in TableRule
  BY MissFacts
<1>2. \A p \in Ports : Source(p) \notin TableRule
  BY SpecialFacts DEF Special
<1>3. Arcs(V, <<>>) \subseteq Triples /\ O \subseteq Triples /\ Arcs(U, <<>>) \subseteq Triples
  BY DEF Arcs
<1>4. \A w : w \in MissWays(r) <=>
               /\ w \in Triples /\ w[2] = r /\ w[3] = NoPort
               /\ \E p \in Ports : w[1] = Source(p) /\ Switch[r] = Home[p]
  <2>1. \A p \in Ports : <<Source(p), r, NoPort>> \in Triples
    BY <1>1, VertexFacts DEF Triples
  <2>2. \A w \in Triples : w = <<w[1], w[2], w[3]>>
    BY DEF Triples
  <2> QED BY <2>1, <2>2 DEF MissWays
<1>5. \A w \in Triples : w \in O <=>
        w[1] = r /\ w[2] \in ToSet(Actions[r]) /\ w[3] = Via(<<>>, w[2])
  BY <1>1, <1>2, Linkless
<1> HIDE DEF O, U
<1>6. \A w \in Triples : w \in Arcs(U, <<>>) <=>
           \/ /\ w[2] \in U /\ w[3] = NoPort
              /\ \E p \in Ports : w[1] = Source(p) /\ Switch[w[2]] = Home[p]
           \/ w[1] \in U /\ w[2] \in ToSet(Actions[w[1]]) /\ w[3] = Via(<<>>, w[2])
  BY <1>1, Linkless
<1>7. \A w \in Triples : w \in Arcs(V, <<>>) <=>
           \/ /\ w[2] \in V /\ w[3] = NoPort
              /\ \E p \in Ports : w[1] = Source(p) /\ Switch[w[2]] = Home[p]
           \/ w[1] \in V /\ w[2] \in ToSet(Actions[w[1]]) /\ w[3] = Via(<<>>, w[2])
  BY <1>1, Linkless
<1>8. \A w \in Triples :
        w \in (Arcs(V, <<>>) \cup O) \cup MissWays(r) <=> w \in Arcs(U, <<>>)
  BY <1>1, <1>4, <1>5, <1>6, <1>7
<1>9. (Arcs(V, <<>>) \cup O) \cup MissWays(r) = Arcs(U, <<>>)
  <2>1. MissWays(r) \subseteq Triples
    BY <1>4
  <2> QED BY <1>3, <1>8, <2>1
<1> QED BY <1>9 DEF O, U

StartFollows(g, V) ==
  Starting(g, V) /\ Sound(g, Arcs(V, <<>>)) /\ Complete(g, Arcs(V, <<>>))

LEMMA BeginningFollows == StartFollows(Beginning, {})
<1>1. Beginning.edges = <<>> /\ ToSet(<<>>) = {}
  BY EmptyElements DEF Beginning
<1>2. Arcs({}, <<>>) = {}
  BY DEF Arcs, FromSource, FromRule
<1>3. Sound(Beginning, Arcs({}, <<>>)) /\ Complete(Beginning, Arcs({}, <<>>))
  BY <1>1, <1>2 DEF Sound, Complete
<1> QED BY <1>3, BeginningFacts DEF StartFollows

LEMMA StartFollowsStep ==
  ASSUME PlainNetwork, NEW g, NEW V \in SUBSET Misses, StartFollows(g, V), NEW r \in Misses
  PROVE  StartFollows(GraphAddRule(g, r), V \cup {r})
<1> DEFINE a == AddVertex(g, r)
           j == RuleOut(g, r)
           k == AddMissEdges(j, r)
           h == GraphAddRule(g, r)
           U == V \cup {r}
           O == {w \in Arcs(Misses, <<>>) : w[1] = r}
           A == Arcs(V, <<>>)
<1>1. Starting(g, V) /\ Sound(g, A) /\ Complete(g, A)
  BY DEF StartFollows
<1>2. /\ Starting(h, U) /\ h = Finish(k)
      /\ Adds(j, k, MissWays(r)) /\ Adds(a, j, OutWays(a, r))
  BY <1>1, StartingStep
<1>3. /\ Tidy(g, V) /\ r \in TableRule /\ Uppers(g.influences, r) = {}
      /\ g.rules = Misses /\ g.links = <<>> /\ U \subseteq TableRule
      /\ U \in SUBSET U
  BY <1>1, MissFacts DEF Starting
<1>4. /\ Tidy(a, U) /\ a.edges = g.edges /\ a.rules = Misses /\ a.links = <<>>
      /\ \A v \in Special \cup V : a.domain[v] = g.domain[v]
  <2>1. /\ Tidy(a, U) /\ Alike(g, a) /\ a.edges = g.edges
        /\ \A v \in Special \cup V : a.domain[v] = g.domain[v]
    <3>1. Tidy(g, V) /\ r \in TableRule /\ Uppers(g.influences, r) = {}
      BY <1>3
    <3> QED BY ONLY <3>1, AddVertexFacts
  <2> QED BY <1>3, <2>1 DEF Alike
<1> HIDE DEF a
<1>5. a \in Graph /\ Distinct(a.rules)
  BY <1>4 DEF Tidy
<1>6. OutWays(a, r) = O
  BY <1>4, <1>5, OutWaysArcs
<1>7. O \subseteq Arcs(U, <<>>) /\ MissWays(r) \subseteq Arcs(U, <<>>)
      /\ (A \cup O) \cup MissWays(r) = Arcs(U, <<>>)
  BY StartArcs
<1>8. <<>> \in Links
  BY NoLinks
<1>9. Sound(a, A) /\ Complete(a, A)
  <2>1. \A w \in A : w[2] \in Special \cup V
    BY <1>3, <1>8, ArcEdge
  <2>2. \A w \in A : a.domain[w[2]] = g.domain[w[2]]
    BY <1>4, <2>1
  <2>3. a.edges = g.edges /\ Sound(g, A) /\ Complete(g, A)
    BY <1>1, <1>4
  <2> HIDE DEF A, U
  <2> QED BY <2>2, <2>3, SameEnds
<1> HIDE DEF A, O, U, j
<1>10. Sound(j, A \cup O) /\ Complete(j, A \cup O)
  BY <1>2, <1>3, <1>4, <1>6, <1>7, <1>8, <1>9, AddsFollows
<1>11. Tidy(j, U)
  BY <1>2, <1>4, SameTidy DEF Adds
<1> HIDE DEF k
<1>12. /\ Sound(k, (A \cup O) \cup MissWays(r))
       /\ Complete(k, (A \cup O) \cup MissWays(r))
  <2> DEFINE B == A \cup O
  <2>1. Sound(j, B) /\ Complete(j, B)
    BY <1>10
  <2> HIDE DEF B
  <2>2. Sound(k, B \cup MissWays(r)) /\ Complete(k, B \cup MissWays(r))
    BY <1>2, <1>3, <1>7, <1>8, <1>11, <2>1, AddsFollows
  <2> QED BY <2>2 DEF B
<1>13. k \in Graph
  BY <1>2 DEF Adds, Kept
<1>14. Sound(h, Arcs(U, <<>>)) /\ Complete(h, Arcs(U, <<>>))
  BY <1>2, <1>7, <1>12, <1>13, FinishFollows
<1> QED BY <1>2, <1>14 DEF StartFollows, U

LEMMA StartFaithful ==
  ASSUME PlainNetwork
  PROVE  StartFollows(Start, Misses)
<1> DEFINE Z == {z \in Seq(Misses) \X Graph : StartFollows(z[2], ToSet(z[1]))}
           s == SetToSeq(Misses)
<1>1. <<<<>>, Beginning>> \in Z
  <2>1. Beginning \in Graph
    BY BeginningFacts DEF Starting, Tidy
  <2>2. <<>> \in Seq(Misses) /\ ToSet(<<>>) = {}
    BY EmptyElements
  <2> QED BY <2>1, <2>2, BeginningFollows
<1>2. ASSUME NEW g, NEW q \in Seq(Misses), NEW r \in Misses, <<q, g>> \in Z
      PROVE  <<Append(q, r), GraphAddRule(g, r)>> \in Z
  <2> DEFINE m == GraphAddRule(g, r)
             V == ToSet(q)
  <2>1. StartFollows(g, V)
    BY <1>2
  <2>6. V \in SUBSET Misses
    BY DEF ToSet
  <2>2. Append(q, r) \in Seq(Misses) /\ ToSet(Append(q, r)) = V \cup {r}
    BY AppendedElements
  <2> HIDE DEF V
  <2>3. StartFollows(m, V \cup {r})
    BY <2>1, <2>6, StartFollowsStep
  <2> HIDE DEF m
  <2>4. m \in Graph
    BY <2>3 DEF StartFollows, Starting, Tidy
  <2>5. <<Append(q, r), m>> \in Z
    BY <2>2, <2>3, <2>4
  <2> QED BY <2>5 DEF m
<1>3. s \in Seq(Misses) /\ ToSet(s) = Misses
  BY MissFacts
<1> HIDE DEF Z, s
<1>4. <<s, Beginnings!Fold(0, 0, Beginning, s)>> \in Z
  BY <1>1, <1>2, <1>3, Beginnings!FoldSteps, NaturalInduction
        DEF Beginnings!Induction
<1>5. StartFollows(Beginnings!Fold(0, 0, Beginning, s), Misses)
  BY <1>3, <1>4 DEF Z
<1> QED BY <1>5, StartFold DEF s

(***************************************************************************)
(* The tasks of the detector in a plain network.                           *)
(***************************************************************************)
LEMMA PluggedJoins ==
  ASSUME PlainNetwork, NEW L, Wired(L), NEW p, NEW q, <<p, q>> \in Cables,
         {p, q} \cap DOMAIN L = {}, p # q
  PROVE  Joins(Plugged(L, p, q), L, p, q) /\ Wired(Plugged(L, p, q))
<1> DEFINE M == Plugged(L, p, q)
<1>1. L \in Links /\ p \in Ports /\ q \in Ports /\ p \notin DOMAIN L /\ q \notin DOMAIN L
  BY NetworkShape DEF Wired
<1>2. M \in Links
  BY <1>1, PluggedFacts
<1>3. /\ DOMAIN M = DOMAIN L \cup {p, q} /\ M[p] = q /\ M[q] = p
      /\ \A o \in DOMAIN L : M[o] = L[o]
  BY <1>1 DEF Plugged
<1> HIDE DEF M
<1>4. Joins(M, L, p, q)
  BY <1>1, <1>2, <1>3 DEF Joins
<1>5. Cabled(p, q) /\ Cabled(q, p)
  BY DEF Cabled
<1>6. Wired(M)
  BY <1>2, <1>3, <1>5 DEF Wired
<1> QED BY <1>4, <1>6 DEF M

LEMMA PulledJoins ==
  ASSUME PlainNetwork, NEW L, Wired(L), NEW p, NEW q, <<p, q>> \in Cables,
         {p, q} \subseteq DOMAIN L
  PROVE  Joins(L, Pulled(L, p, q), p, q) /\ Wired(Pulled(L, p, q))
<1> DEFINE N == Pulled(L, p, q)
<1>1. L \in Links /\ p \in Ports /\ q \in Ports /\ p \in DOMAIN L /\ q \in DOMAIN L
  BY NetworkShape DEF Wired
<1>2. N \in Links
  BY <1>1, PluggedFacts
<1>3. /\ DOMAIN N = DOMAIN L \ {p, q} /\ \A o \in DOMAIN N : L[o] = N[o]
  BY <1>1 DEF Pulled
<1>4. Cabled(p, q) /\ Cabled(q, p)
  BY DEF Cabled
<1>5. p # q
  BY <1>1, <1>4 DEF PlainNetwork
<1>6. L[p] \in Ports /\ L[q] \in Ports
  BY <1>1, LinksFacts
<1>7. Cabled(p, L[p]) /\ Cabled(q, L[q])
  BY <1>1 DEF Wired
<1>8. L[p] = q /\ L[q] = p
  BY <1>1, <1>4, <1>6, <1>7 DEF PlainNetwork
<1> HIDE DEF N
<1>9. DOMAIN L = DOMAIN N \cup {p, q} /\ p \notin DOMAIN N /\ q \notin DOMAIN N
  BY <1>1, <1>3
<1>10. Joins(L, N, p, q)
  BY <1>1, <1>2, <1>3, <1>5, <1>8, <1>9 DEF Joins
<1>11. Wired(N)
  BY <1>2, <1>3 DEF Wired
<1> QED BY <1>10, <1>11 DEF N

LEMMA AddRuleFaithful ==
  ASSUME PlainNetwork, Faithful(Current), NEW f \in Flows, AddRule(f)
  PROVE  Faithful(Install(Current, Flow(f)))
<1>1. Flow(f) \notin rules /\ Distinct(rules \cup {Flow(f)})
  BY AddRuleSettled DEF Faithful
<1>2. Flow(f) \in TableRule /\ Kind(Flow(f)) # "miss"
  BY FlowPlace
<1> QED BY <1>1, <1>2, InstallFaithful, CurrentFields

LEMMA ChangeRuleFaithful ==
  ASSUME PlainNetwork, Faithful(Current), NEW f \in Flows, Flow(f) \notin rules,
         NEW r \in Same(f)
  PROVE  Faithful(Install(Uninstall(Current, r), Flow(f)))
<1> DEFINE k == Uninstall(Current, r)
<1>1. /\ r \in TableRule /\ Priority[r] # 0
      /\ Flow(f) \notin k.rules /\ Distinct(k.rules \cup {Flow(f)})
  BY ChangeRuleSettled DEF Faithful
<1>2. r \notin Misses
  BY <1>1, MissFacts
<1>3. Faithful(k)
  BY <1>1, <1>2, UninstallFaithful
<1>4. Flow(f) \in TableRule /\ Kind(Flow(f)) # "miss"
  BY FlowPlace
<1> HIDE DEF k
<1>5. Faithful(Install(k, Flow(f)))
  BY <1>1, <1>3, <1>4, InstallFaithful
<1> QED BY <1>5 DEF k

LEMMA WithinNoMiss ==
  ASSUME PlainNetwork, Settled(Current), NEW d \in Deletions
  PROVE  Within(d) \subseteq TableRule \ Misses
<1>1. Within(d) \subseteq TableRule
  BY WithinFacts
<1>2. ASSUME NEW s \in Switches, Miss(s) \in Within(d)
      PROVE  FALSE
  <2>1. Match[Miss(s)].headers = Headers
    BY MatchFacts DEF SpaceAt
  <2>2. Headers \subseteq d.match.headers
    BY <1>2, <2>1 DEF Within
  <2>3. d.match \in Space
    BY NetworkShape
  <2>4. d.match.headers \subseteq Headers
    BY <2>3 DEF Space
  <2>5. d.match.headers = Headers
    BY <2>2, <2>4
  <2> QED BY <2>5 DEF PlainNetwork
<1> QED BY <1>1, <1>2 DEF Misses

LEMMA DeleteRulesFaithful ==
  ASSUME PlainNetwork, Faithful(Current), NEW d \in Deletions
  PROVE  Faithful(FoldLeft(Uninstall, Current, Descending(Within(d))))
<1> DEFINE T == {g \in Graph : Faithful(g)}
           s == Descending(Within(d))
<1>1. s \in Seq(Within(d)) /\ Within(d) \subseteq TableRule \ Misses
  BY WithinFacts, WithinNoMiss DEF Faithful
<1>2. Current \in T
  BY SettledFacts DEF Faithful
<1>3. ASSUME NEW g \in T, NEW r \in Within(d) PROVE Uninstall(g, r) \in T
  <2>1. Faithful(Uninstall(g, r))
    BY <1>1, UninstallFaithful
  <2> QED BY <2>1, SettledFacts DEF Faithful
<1> HIDE DEF T, s
<1>4. Uninstalling!Fold(0, 0, Current, s) \in T
  BY <1>1, <1>2, <1>3, Uninstalling!FoldIn, NaturalInduction
        DEF Uninstalling!Induction
<1> QED BY <1>4, UninstallingFold DEF T, s

LEMMA AddLinkFaithful ==
  ASSUME PlainNetwork, Faithful(Current), NEW c \in Cables, AddLink(c[1], c[2])
  PROVE  Faithful(GraphAddLink(WithLinks(Current, Plugged(links, c[1], c[2])), c[1], c[2]))
<1> DEFINE p == c[1]
           q == c[2]
           M == Plugged(links, p, q)
           g == WithLinks(Current, M)
           m == GraphAddLink(g, p, q)
<1>1. p \in Ports /\ q \in Ports /\ <<p, q>> \in Cables
  <2>1. c \in Ports \X Ports
    BY NetworkShape
  <2>2. c[1] \in Ports /\ c[2] \in Ports /\ c = <<c[1], c[2]>>
    BY <2>1
  <2> QED BY <2>2
<1>2. {p, q} \cap DOMAIN links = {} /\ p # q
  BY DEF AddLink
<1>3. /\ Settled(Current) /\ Misses \subseteq rules /\ Wired(links)
      /\ (~doubled => Follows(Current))
  BY CurrentFields DEF Faithful
<1> HIDE DEF p, q
<1>4. Joins(M, links, p, q) /\ Wired(M)
  BY <1>1, <1>2, <1>3, PluggedJoins
<1>5. M \in Links
  BY <1>4 DEF Wired
<1> HIDE DEF M
<1>6. /\ Settled(g) /\ g.rules = rules /\ g.links = M /\ g.domain = domain
      /\ g.edges = edges /\ g.doubled = doubled
  BY <1>3, <1>5, SetLinksFacts, CurrentFields DEF WithLinks
<1> HIDE DEF g
<1>7. Settled(m) /\ m.rules = rules /\ m.links = M /\ m.doubled = doubled
  <2> DEFINE h == LinkDirected(g, p, q)
             k == LinkDirected(h, q, p)
  <2>1. Settled(m) /\ Kept(g, h) /\ Kept(h, k) /\ Kept(k, m) /\ m.doubled = g.doubled
    BY <1>1, <1>6, AddLinkFacts
  <2> HIDE DEF h, k, m
  <2> QED BY <1>6, <2>1 DEF Kept
<1>8. ASSUME ~doubled PROVE Follows(m)
  <2>1. Sound(Current, Arcs(rules, links)) /\ Complete(Current, Arcs(rules, links))
    BY <1>3, <1>8, CurrentFields DEF Follows
  <2>2. Sound(g, Arcs(g.rules, links)) /\ Complete(g, Arcs(g.rules, links))
    BY <1>6, <2>1, SameFollows, CurrentFields
  <2> QED BY <1>4, <1>6, <2>2, AddLinkFollows
<1> HIDE DEF m
<1>9. Faithful(m)
  BY <1>3, <1>4, <1>7, <1>8 DEF Faithful
<1> QED BY <1>9 DEF m, g, M, p, q

LEMMA DeleteLinkFaithful ==
  ASSUME PlainNetwork, Faithful(Current), NEW c \in Cables, DeleteLink(c[1], c[2])
  PROVE  Faithful(GraphDeleteLink(WithLinks(Current, Pulled(links, c[1], c[2])), c[1], c[2]))
<1> DEFINE p == c[1]
           q == c[2]
           L == Pulled(links, p, q)
           g == WithLinks(Current, L)
           m == GraphDeleteLink(g, p, q)
<1>1. p \in Ports /\ q \in Ports /\ <<p, q>> \in Cables
  <2>1. c \in Ports \X Ports
    BY NetworkShape
  <2>2. c[1] \in Ports /\ c[2] \in Ports /\ c = <<c[1], c[2]>>
    BY <2>1
  <2> QED BY <2>2
<1>2. {p, q} \subseteq DOMAIN links
  BY DEF DeleteLink
<1>3. /\ Settled(Current) /\ Misses \subseteq rules /\ Wired(links)
      /\ (~doubled => Follows(Current))
  BY CurrentFields DEF Faithful
<1> HIDE DEF p, q
<1>4. Joins(links, L, p, q) /\ Wired(L)
  BY <1>1, <1>2, <1>3, PulledJoins
<1>5. L \in Links
  BY <1>4 DEF Wired
<1> HIDE DEF L
<1>6. /\ Settled(g) /\ g.rules = rules /\ g.links = L /\ g.domain = domain
      /\ g.edges = edges /\ g.doubled = doubled
  BY <1>3, <1>5, SetLinksFacts, CurrentFields DEF WithLinks
<1> HIDE DEF g
<1>7. Settled(m) /\ m.rules = rules /\ m.links = L /\ (doubled => m.doubled)
  <2> DEFINE h == UnlinkDirected(g, p, q)
             k == UnlinkDirected(h, q, p)
  <2>1. Settled(m) /\ Kept(g, h) /\ Kept(h, k) /\ Kept(k, m)
    BY <1>1, <1>6, DeleteLinkFacts
  <2> HIDE DEF h, k, m
  <2> QED BY <1>6, <2>1 DEF Kept
<1>8. ASSUME ~m.doubled PROVE Follows(m)
  <2>1. Sound(Current, Arcs(rules, links)) /\ Complete(Current, Arcs(rules, links))
    BY <1>3, <1>7, <1>8, CurrentFields DEF Follows
  <2>2. Sound(g, Arcs(g.rules, links)) /\ Complete(g, Arcs(g.rules, links))
    BY <1>6, <2>1, SameFollows, CurrentFields
  <2> QED BY <1>3, <1>4, <1>6, <1>8, <2>2, DeleteLinkFollows
<1> HIDE DEF m
<1>9. Faithful(m)
  BY <1>3, <1>4, <1>7, <1>8 DEF Faithful
<1> QED BY <1>9 DEF m, g, L, p, q

LEMMA TaskFaithful ==
  ASSUME PlainNetwork, Faithful(Current), Task
  PROVE  Faithful(Current')
<1>1. Settled(Current)
  BY DEF Faithful
<1>2. \E g : Faithful(g) /\ Becomes(g)
  <2>1. CASE \E f \in Flows : AddRule(f)
    BY <2>1, AddRuleFaithful DEF AddRule
  <2>2. CASE \E f \in Flows : ChangeRule(f)
    <3>1. PICK f \in Flows : ChangeRule(f)
      BY <2>2
    <3>2. PICK r \in Same(f) : Becomes(Install(Uninstall(Current, r), Flow(f)))
      BY <3>1 DEF ChangeRule
    <3>3. Flow(f) \notin rules
      BY <3>1 DEF ChangeRule, Fresh
    <3> QED BY <3>2, <3>3, ChangeRuleFaithful
  <2>3. CASE \E d \in Deletions : DeleteRules(d)
    BY <2>3, DeleteRulesFaithful DEF DeleteRules
  <2>4. CASE \E c \in Cables : AddLink(c[1], c[2])
    BY <1>1, <2>4, AddLinkSettled, AddLinkFaithful
  <2>5. CASE \E c \in Cables : DeleteLink(c[1], c[2])
    BY <1>1, <2>5, DeleteLinkSettled, DeleteLinkFaithful
  <2> QED BY <2>1, <2>2, <2>3, <2>4, <2>5 DEF Task
<1>3. PICK g : Faithful(g) /\ Becomes(g)
  BY <1>2
<1>4. Settled(Rested(g)) /\ Current' = Rested(g)
  BY <1>3, RestedSettled, BecomesFacts DEF Faithful
<1>5. Faithful(Rested(g))
  <2> DEFINE h == Rested(g)
  <2>1. h.rules = g.rules /\ h.links = g.links /\ h.domain = g.domain
        /\ h.edges = g.edges /\ h.doubled = g.doubled
    BY DEF Rested
  <2> HIDE DEF h
  <2> QED BY <1>3, <1>4, <2>1, RestedFaithful DEF h
<1> QED BY <1>4, <1>5

(***************************************************************************)
(* EdgesFollowTables: the invariant and the theorem.                       *)
(***************************************************************************)
EdgesInv == Faithful(Current)

LEMMA EdgesInvInit == PlainNetwork /\ Init => EdgesInv
<1> SUFFICES ASSUME PlainNetwork, Init PROVE EdgesInv
  OBVIOUS
<1>1. /\ Starting(Start, Misses) /\ Sound(Start, Arcs(Misses, <<>>))
      /\ Complete(Start, Arcs(Misses, <<>>))
  BY StartFaithful DEF StartFollows
<1>2. Settled(Start) /\ Start.rules = Misses /\ Start.links = <<>>
  BY <1>1, StartingSettled DEF Starting
<1>3. Wired(<<>>)
  BY NoLinks DEF Wired
<1>4. Faithful(Start)
  BY <1>1, <1>2, <1>3 DEF Faithful, Follows
<1>5. /\ rules = Start.rules /\ links = Start.links /\ domain = Start.domain
      /\ edges = Start.edges /\ doubled = Start.doubled /\ TreesInv
  BY <1>2, InitFromFacts DEF Init
<1>6. Settled(Current)
  BY <1>5 DEF TreesInv
<1> QED BY <1>4, <1>5, <1>6, CurrentFields, RestedFaithful DEF EdgesInv

LEMMA EdgesInvStep == PlainNetwork /\ EdgesInv /\ [Next]_vars => EdgesInv'
<1> SUFFICES ASSUME PlainNetwork, EdgesInv, [Next]_vars PROVE EdgesInv'
  OBVIOUS
<1>1. Faithful(Current) /\ Settled(Current)
  BY DEF EdgesInv, Faithful
<1>2. CASE RunTask
  <2>1. Task
    BY <1>2 DEF RunTask
  <2>2. Faithful(Current')
    BY <1>1, <2>1, TaskFaithful
  <2> QED BY <2>2 DEF EdgesInv
<1>3. CASE PrepareInstructions
  <2> DEFINE g == Current
  <2>1. Settled(Current')
    BY <1>1, <1>3, PreparedFacts
  <2>2. /\ rules' = rules /\ links' = links /\ domain' = domain
        /\ edges' = edges /\ doubled' = doubled
    BY <1>3 DEF PrepareInstructions
  <2>3. PICK h : h = Current'
    OBVIOUS
  <2>4. /\ h.rules = g.rules /\ h.links = g.links /\ h.domain = g.domain
        /\ h.edges = g.edges /\ h.doubled = g.doubled
    BY <2>2, <2>3 DEF Current
  <2>5. Faithful(g) /\ Settled(h)
    BY <1>1, <2>1, <2>3
  <2> HIDE DEF g
  <2>6. Faithful(h)
    BY <2>4, <2>5, RestedFaithful
  <2> QED BY <2>3, <2>6 DEF EdgesInv
<1>4. CASE UNCHANGED vars
  BY <1>1, <1>4 DEF vars, graphVars, EdgesInv, Current
<1> QED BY <1>2, <1>3, <1>4 DEF Next

----
(* The rule that takes a packet is the one whose domain it is in.          *)
LEMMA TakerFacts ==
  ASSUME PlainNetwork, Settled(Current), NEW p \in Ports, NEW h \in Headers, NEW x
  PROVE  x \in Taker(p, h) <=>
           x \in rules /\ Switch[x] = Home[p] /\ h \in domain[x].headers
<1>1. rules \in SUBSET TableRule /\ \A s : Table(Current, s) = {r \in rules : Switch[r] = s}
  BY SettledFacts, CurrentFields DEF Table
<1>2. \A r \in rules : Match[r].port = AnyPort /\ Priority[r] \in Nat
  BY <1>1, PlainMatch, RuleFacts
<1>3. \A r \in rules : Matches(r, p, h) <=> h \in Match[r].headers
  BY <1>2 DEF Matches
<1>4. ASSUME NEW r \in rules
      PROVE  h \in domain[r].headers <=>
               /\ h \in Match[r].headers
               /\ \A q \in rules : Over(q, r) => h \notin Match[q].headers
  BY <1>1, SettledDomains, LeftOfPairs, CurrentFields
<1>5. ASSUME NEW r \in rules, h \in Match[r].headers, NEW q \in rules, h \in Match[q].headers
      PROVE  Over(q, r) <=> Switch[q] = Switch[r] /\ ~ (Priority[q] <= Priority[r])
  <2>1. Overlap(q, r)
    BY <1>1, <1>5, PlainMeet
  <2> QED BY <1>2, <2>1 DEF Over
<1>6. x \in Taker(p, h) <=>
        /\ x \in rules /\ Switch[x] = Home[p] /\ h \in Match[x].headers
        /\ \A q \in rules : Switch[q] = Home[p] /\ h \in Match[q].headers
                              => Priority[q] <= Priority[x]
  BY <1>1, <1>3 DEF Taker
<1>7. ASSUME x \in rules, Switch[x] = Home[p], h \in Match[x].headers
      PROVE  (\A q \in rules : Switch[q] = Home[p] /\ h \in Match[q].headers
                                  => Priority[q] <= Priority[x])
             <=> \A q \in rules : Over(q, x) => h \notin Match[q].headers
  BY <1>5, <1>7 DEF Over
<1> QED BY <1>4, <1>6, <1>7

LEMMA OnwardSource ==
  ASSUME NEW p \in Ports, NEW h
  PROVE  Onward(Source(p), h) = IF p \notin DOMAIN links THEN Taker(p, h) ELSE {}
<1>1. Kind(Source(p)) = "source" /\ Source(p)[2] = p
  BY VertexFacts
<1>2. Source(p) \notin TableRule
  BY SpecialFacts DEF Special
<1> QED BY <1>1, <1>2 DEF Onward

LEMMA OnwardRule ==
  ASSUME NEW v \in TableRule, NEW h, NEW x
  PROVE  x \in Onward(v, h) <=>
           /\ h \in Match[v].headers
           /\ \E o \in ToSet(Actions[v]) :
                IF Leads(links, o) THEN x \in Taker(links[o[2]], h) ELSE x = o
<1>1. Kind(v) # "source"
  BY VertexFacts
<1>2. \A o : Linked(Current, o) <=> Leads(links, o)
  BY CurrentFields DEF Linked, Leads
<1>3. h \in Match[v].headers =>
        Onward(v, h) = UNION {IF Linked(Current, o) THEN Taker(links[o[2]], h) ELSE {o} :
                                o \in ToSet(Actions[v])}
  BY <1>1 DEF Onward
<1>4. h \notin Match[v].headers => Onward(v, h) = {}
  BY <1>1 DEF Onward
<1> QED BY <1>2, <1>3, <1>4

LEMMA OnwardOutput ==
  ASSUME NEW o \in Outputs, NEW h
  PROVE  Onward(o, h) = {}
<1>1. Kind(o) # "source"
  BY VertexFacts
<1>2. o \notin TableRule
  BY SpecialFacts DEF Special
<1> QED BY <1>1, <1>2 DEF Onward

LEMMA OutputHeaders ==
  ASSUME PlainNetwork, Settled(Current), NEW o \in Outputs
  PROVE  domain[o].headers = Headers
<1>1. \/ o = Drop \/ o = Controller \/ \E p \in Ports : o = Sink(p)
  BY DEF Outputs
<1>2. Tidy(Current, rules)
  BY CurrentFields DEF Settled
<1>3. \A p : SpaceAt(p).headers = Headers
  BY DEF SpaceAt
<1> QED BY <1>1, <1>2, <1>3, TidyPorts, CurrentFields

LEMMA ArcOnward ==
  ASSUME PlainNetwork, Settled(Current), NEW w \in Arcs(rules, links), NEW h \in Passed(Current, w)
  PROVE  h \in Headers /\ w[1] \in DOMAIN domain /\ w[2] \in Onward(w[1], h)
<1>1. /\ w[1] \in Vertices
      /\ FromSource(rules, links, w) \/ FromRule(rules, links, w)
  BY TripleFacts
<1>2. h \in Match[w[1]].headers /\ h \in domain[w[2]].headers
  BY CurrentFields DEF Passed
<1>3. h \in Headers
  <2>1. w[1] \in Vertices
    BY TripleFacts
  <2> QED BY <1>2, <2>1, HeadersIn
<1>4. /\ rules \in SUBSET TableRule /\ DOMAIN domain = Special \cup rules
      /\ DOMAIN links \subseteq Ports
      /\ \A p \in DOMAIN links : links[p] \in Ports
  BY SettledFacts, GraphFacts, CurrentFields
<1>5. CASE FromSource(rules, links, w)
  <2>1. PICK p \in Ports \ DOMAIN links : w[1] = Source(p) /\ Switch[w[2]] = Home[p]
    BY <1>5 DEF FromSource
  <2>2. w[2] \in rules
    BY <1>5 DEF FromSource
  <2>3. w[2] \in Taker(p, h)
    BY <1>2, <1>3, <2>1, <2>2, TakerFacts
  <2>4. w[2] \in Onward(w[1], h)
    BY <2>1, <2>3, OnwardSource
  <2> QED BY <1>3, <1>4, <2>1, <2>4 DEF Special
<1>6. CASE FromRule(rules, links, w)
  <2>1. PICK o \in ToSet(Actions[w[1]]) : w[2] \in Hits(rules, links, o)
    BY <1>6 DEF FromRule
  <2>2. w[1] \in rules /\ w[1] \in TableRule
    BY <1>4, <1>6 DEF FromRule
  <2>3. IF Leads(links, o) THEN w[2] \in Taker(links[o[2]], h) ELSE w[2] = o
    <3>1. CASE Leads(links, o)
      <4>1. w[2] \in rules /\ Switch[w[2]] = Home[links[o[2]]] /\ links[o[2]] \in Ports
        BY <1>4, <2>1, <3>1 DEF Hits, Leads
      <4> QED BY <1>2, <1>3, <3>1, <4>1, TakerFacts
    <3>2. CASE ~Leads(links, o)
      BY <2>1, <3>2 DEF Hits
    <3> QED BY <3>1, <3>2
  <2>4. w[2] \in Onward(w[1], h)
    BY <1>2, <2>1, <2>2, <2>3, OnwardRule
  <2> QED BY <1>3, <1>4, <2>2, <2>4
<1> QED BY <1>1, <1>5, <1>6

LEMMA OnwardArc ==
  ASSUME PlainNetwork, Settled(Current), NEW v \in DOMAIN domain, NEW h \in Headers,
         NEW x \in Onward(v, h)
  PROVE  \E w \in Arcs(rules, links) : w[1] = v /\ w[2] = x /\ h \in Passed(Current, w)
<1>1. /\ rules \in SUBSET TableRule /\ DOMAIN domain = Special \cup rules
      /\ DOMAIN links \subseteq Ports
      /\ \A p \in DOMAIN links : links[p] \in Ports
  BY SettledFacts, GraphFacts, CurrentFields
<1>2. v \in rules \/ v \in Outputs \/ \E p \in Ports : v = Source(p)
  BY <1>1 DEF Special
<1>3. v \notin Outputs
  BY OnwardOutput
<1>4. CASE \E p \in Ports : v = Source(p)
  <2>1. PICK p \in Ports : v = Source(p)
    BY <1>4
  <2>2. p \notin DOMAIN links /\ x \in Taker(p, h)
    BY <2>1, OnwardSource
  <2>3. x \in rules /\ Switch[x] = Home[p] /\ h \in domain[x].headers
    BY <2>2, TakerFacts
  <2> DEFINE w == <<v, x, NoPort>>
  <2>4. w \in Triples /\ w[1] = v /\ w[2] = x /\ w[3] = NoPort
    BY <1>1, <2>1, <2>3, VertexFacts DEF Triples
  <2> HIDE DEF w
  <2>5. FromSource(rules, links, w)
    <3>1. p \in Ports \ DOMAIN links /\ w[1] = Source(p) /\ Switch[w[2]] = Home[p]
      BY <2>1, <2>2, <2>3, <2>4
    <3>2. w[2] \in rules /\ w[3] = NoPort
      BY <2>3, <2>4
    <3>3. \E y \in Ports \ DOMAIN links : w[1] = Source(y) /\ Switch[w[2]] = Home[y]
      BY ONLY <3>1
    <3> QED BY ONLY <3>2, <3>3 DEF FromSource
  <2>6. Match[v].headers = Headers
    <3>1. Match[v] = SpaceAt(p)
      BY <2>1, MatchFacts
    <3> QED BY <3>1 DEF SpaceAt
  <2>7. h \in Passed(Current, w)
    BY <2>3, <2>4, <2>6, CurrentFields DEF Passed
  <2> QED BY <2>4, <2>5, <2>7 DEF Arcs
<1>5. CASE v \in rules
  <2>1. v \in TableRule /\ h \in Match[v].headers
    BY <1>1, <1>5, OnwardRule
  <2>2. PICK o \in ToSet(Actions[v]) :
                IF Leads(links, o) THEN x \in Taker(links[o[2]], h) ELSE x = o
    BY <2>1, OnwardRule
  <2>3. o \in Outputs
    BY <2>1, RuleFacts DEF ToSet
  <2>4. /\ x \in Hits(rules, links, o) /\ x \in Vertices
        /\ h \in domain[x].headers /\ Via(links, o) \in Ports \cup {NoPort}
    <3>1. CASE Leads(links, o)
      <4>1. links[o[2]] \in Ports
        BY <1>1, <3>1 DEF Leads
      <4>2. x \in rules /\ Switch[x] = Home[links[o[2]]] /\ h \in domain[x].headers
        BY <2>2, <3>1, <4>1, TakerFacts
      <4>3. x \in Vertices
        BY <1>1, <4>2, VertexFacts
      <4> QED BY <3>1, <4>1, <4>2, <4>3 DEF Hits, Via
    <3>2. CASE ~Leads(links, o)
      <4>1. x = o /\ domain[o].headers = Headers
        BY <2>2, <2>3, <3>2, OutputHeaders
      <4>2. Kind(o) = "sink" => o[2] \in Ports
        BY <2>3, VertexFacts
      <4>3. o \in Vertices
        BY <2>3, VertexFacts
      <4> QED BY <3>2, <4>1, <4>2, <4>3 DEF Hits, Via
    <3> QED BY <3>1, <3>2
  <2> DEFINE w == <<v, x, Via(links, o)>>
  <2>5. w \in Triples /\ w[1] = v /\ w[2] = x /\ w[3] = Via(links, o)
    BY <2>1, <2>4, VertexFacts DEF Triples
  <2> HIDE DEF w
  <2>6. FromRule(rules, links, w)
    BY <1>5, <2>2, <2>4, <2>5 DEF FromRule
  <2>7. h \in Passed(Current, w)
    BY <2>1, <2>4, <2>5, CurrentFields DEF Passed
  <2> QED BY <2>5, <2>6, <2>7 DEF Arcs
<1> QED BY <1>2, <1>3, <1>4, <1>5

LEMMA EdgesInvFollows ==
  ASSUME PlainNetwork, EdgesInv
  PROVE  EdgesFollowTables
<1> SUFFICES ASSUME ~doubled PROVE Carried = HandedOn
  BY DEF EdgesFollowTables
<1>1. /\ Settled(Current) /\ Sound(Current, Arcs(rules, links))
      /\ Complete(Current, Arcs(rules, links))
  BY CurrentFields DEF EdgesInv, Faithful, Follows
<1>2. \A t : t \in Carried <=> \E e \in ToSet(edges) : \E h \in e.domain.headers :
                                  t = <<e.src, h, e.dst>>
  BY DEF Carried
<1>3. \A t : t \in HandedOn <=> \E v \in DOMAIN domain : \E h \in Headers :
                                  \E x \in Onward(v, h) : t = <<v, h, x>>
  <2> DEFINE S(v, h) == {<<v, h, x>> : x \in Onward(v, h)}
  <2>1. \A v, h, t : t \in S(v, h) <=> \E x \in Onward(v, h) : t = <<v, h, x>>
    OBVIOUS
  <2>2. HandedOn = UNION {S(v, h) : v \in DOMAIN domain, h \in Headers}
    BY DEF HandedOn
  <2> HIDE DEF S
  <2>3. \A t : t \in HandedOn <=> \E v \in DOMAIN domain : \E h \in Headers : t \in S(v, h)
    BY <2>2
  <2> QED BY <2>1, <2>3
<1>4. ASSUME NEW e \in ToSet(edges), NEW h \in e.domain.headers
      PROVE  /\ e.src \in DOMAIN domain /\ h \in Headers
             /\ e.dst \in Onward(e.src, h)
  <2>1. Way(e) \in Arcs(rules, links) /\ h \in Passed(Current, Way(e))
    BY <1>1, CurrentFields DEF Sound, Fine
  <2>2. Way(e)[1] = e.src /\ Way(e)[2] = e.dst
    BY DEF Way
  <2> QED BY <1>1, <2>1, <2>2, ArcOnward
<1>5. ASSUME NEW v \in DOMAIN domain, NEW h \in Headers, NEW x \in Onward(v, h)
      PROVE  \E e \in ToSet(edges) : e.src = v /\ e.dst = x /\ h \in e.domain.headers
  <2>1. PICK w \in Arcs(rules, links) : w[1] = v /\ w[2] = x /\ h \in Passed(Current, w)
    BY <1>1, OnwardArc
  <2>2. PICK e \in ToSet(edges) : Way(e) = w /\ h \in e.domain.headers
    BY <1>1, <2>1, CurrentFields DEF Complete, Has
  <2>3. e.src = v /\ e.dst = x
    BY <2>1, <2>2 DEF Way
  <2> QED BY <2>2, <2>3
<1>6. ASSUME NEW t \in Carried PROVE t \in HandedOn
  <2>1. PICK e \in ToSet(edges) : \E h \in e.domain.headers : t = <<e.src, h, e.dst>>
    BY <1>2
  <2>2. PICK h \in e.domain.headers : t = <<e.src, h, e.dst>>
    BY <2>1
  <2> QED BY <1>3, <1>4, <2>2
<1>7. ASSUME NEW t \in HandedOn PROVE t \in Carried
  <2>1. PICK v \in DOMAIN domain : \E h \in Headers : \E x \in Onward(v, h) : t = <<v, h, x>>
    BY <1>3
  <2>2. PICK h \in Headers : \E x \in Onward(v, h) : t = <<v, h, x>>
    BY <2>1
  <2>3. PICK x \in Onward(v, h) : t = <<v, h, x>>
    BY <2>2
  <2>4. PICK e \in ToSet(edges) : e.src = v /\ e.dst = x /\ h \in e.domain.headers
    BY <1>5
  <2> QED BY <1>2, <2>3, <2>4
<1> QED BY <1>6, <1>7

(* In a plain network, whatever rules and links came and went in whatever  *)
(* order, the edges carry what the tables do.                              *)
THEOREM EdgesFollowTablesHolds == PlainNetwork /\ Spec => []EdgesFollowTables
<1> SUFFICES ASSUME PlainNetwork PROVE Spec => []EdgesFollowTables
  OBVIOUS
<1>1. Init => EdgesInv
  BY EdgesInvInit
<1>2. EdgesInv /\ [Next]_vars => EdgesInv'
  BY EdgesInvStep
<1>3. EdgesInv => EdgesFollowTables
  BY EdgesInvFollows
<1> QED BY <1>1, <1>2, <1>3, PTL DEF Spec
====
