------------------------------ MODULE PathTrees ------------------------------
(***************************************************************************)
(* The trees of the flow predictor: every sink is the root of a tree, and  *)
(* a child is a rule that hands packets to its parent.  A node stands for  *)
(* the packets that take the way from it to the root, and a node at a      *)
(* source for a whole path, whose packets an interceptor will count.       *)
(* When an instruction is prepared the trees follow the diff of the epoch. *)
(*                                                                         *)
(* A node is its chain, the rules from the root to it, and its space: a    *)
(* parent has one child for a rule.  Counters, versions and paths are the  *)
(* subject of FlowPredictor and StatsTimeline.                             *)
(***************************************************************************)
EXTENDS DependencyGraph

CONSTANT MaxTasks  (* bound on the tasks of an epoch                       *)

ASSUME BoundOnTasks == MaxTasks \in Nat

VARIABLES
  trees,  (* the nodes of all trees                                        *)
  tasks   (* how many tasks the detector has run in this epoch             *)

vars == <<graphVars, trees, tasks>>

Leaf(node) == Last(node.chain)
NodesOf(t, v) == {n \in t : Leaf(n) = v}

(* add_child_node: the packets of the edge and of the parent, as they were *)
(* before the source rule sent them.                                       *)
ChildSpace(parent, e) ==
  Meet(InverseSpace(Meet(e.domain, parent.space)), Match[e.src])
Child(parent, e) ==
  [chain |-> Append(parent.chain, e.src), space |-> ChildSpace(parent, e)]

IsExistingChild(t, parent, src) ==
  \E n \in t : n.chain = Append(parent.chain, src)

(* add_subtree: the nodes below a new one, from the edges of the graph.  Of *)
(* several edges from one source the first that carries a packet counts.   *)
Children(es, node) ==
  LET carrying == Select(es, LAMBDA e : /\ e.dst = Leaf(node)
                                        /\ ~IsEmpty(ChildSpace(node, e)))
      first(i) == \A j \in 1..(i - 1) : carrying[j].src # carrying[i].src
  IN  {Child(node, carrying[i]) : i \in {j \in DOMAIN carrying : first(j)}}

Subtree(es, root) ==
  LET Level[n \in 0..Cardinality(Vertices)] ==
        IF n = 0 THEN {root}
        ELSE UNION {Children(es, node) : node \in Level[n - 1]}
  IN  UNION {Level[n] : n \in 0..Cardinality(Vertices)}

AddSubtrees(es, t, e) ==
  LET isNew   == NodesOf(t, e.dst) = {} /\ e.dst \in Outputs
      root    == [chain |-> <<e.dst>>, space |-> Match[e.dst]]
      grown   == IF isNew THEN t \cup {root} ELSE t
      parents == {n \in NodesOf(grown, e.dst) :
                    /\ ~IsEmpty(ChildSpace(n, e))
                    /\ ~IsExistingChild(grown, n, e.src)}
  IN  grown \cup UNION {Subtree(es, Child(n, e)) : n \in parents}

(* delete_subtrees: the nodes of the source below a node of the            *)
(* destination, and what hangs on them.                                    *)
Uses(n, e) == \E i \in 1..(Len(n.chain) - 1) :
                n.chain[i] = e.dst /\ n.chain[i + 1] = e.src
DeleteSubtrees(t, e) == {n \in t : ~Uses(n, e)}

(* Variant: the removed edges come last.                                   *)
UpdateEdgesFirst(es, t, diff) ==
  LET changed == FoldLeft(LAMBDA u, e : AddSubtrees(es, DeleteSubtrees(u, e), e),
                          t, diff.changed)
      grown   == FoldLeft(LAMBDA u, e : AddSubtrees(es, u, e), changed, diff.new)
  IN  FoldLeft(DeleteSubtrees, grown, diff.removed)

(* FlowPredictor::updateEdges                                              *)
UpdateEdges(es, t, diff) ==
  LET pruned  == FoldLeft(DeleteSubtrees, t, diff.removed)
      changed == FoldLeft(LAMBDA u, e : AddSubtrees(es, DeleteSubtrees(u, e), e),
                          pruned, diff.changed)
  IN  FoldLeft(LAMBDA u, e : AddSubtrees(es, u, e), changed, diff.new)

InitFrom(g) ==
  /\ rules = g.rules
  /\ links = g.links
  /\ domain = g.domain
  /\ influences = g.influences
  /\ edges = g.edges
  /\ latestDiff = NoDiff
  /\ lossy = g.lossy
  /\ doubled = g.doubled
  /\ trees = UpdateEdges(g.edges, {}, g.diff)
  /\ tasks = 0

Init == InitFrom(Start)

(* A rule that a node stands for cannot be forgotten.                      *)
Forgotten(v) == \A n \in trees : ~Contains(n.chain, v)

RunTask ==
  /\ tasks < MaxTasks
  /\ tasks' = tasks + 1
  /\ Task
  /\ \A v \in rules' \ rules : Forgotten(v)
  /\ UNCHANGED trees

(* Detector::prepareInstructions                                           *)
PrepareInstructions ==
  /\ tasks > 0
  /\ tasks' = 0
  /\ trees' = UpdateEdges(edges, trees, latestDiff)
  /\ latestDiff' = NoDiff
  /\ UNCHANGED <<rules, links, domain, influences, edges, lossy, doubled>>

Next == RunTask \/ PrepareInstructions

Spec == Init /\ [][Next]_vars
(***************************************************************************)
(* What the switches do, by their tables alone.                            *)
(***************************************************************************)
Matches(r, p, h) == Match[r].port \in {p, AnyPort} /\ h \in Match[r].headers

(* The rule that a packet with header h is matched by at port p.           *)
Taker(p, h) ==
  {r \in Table(Current, Home[p]) :
     /\ Matches(r, p, h)
     /\ \A q \in Table(Current, Home[p]) :
          Matches(q, p, h) => Priority[q] <= Priority[r]}

(* The vertices a packet with header h goes to from a vertex.              *)
Onward(v, h) ==
  CASE Kind(v) = "source" /\ v[2] \notin DOMAIN links -> Taker(v[2], h)
    [] v \in TableRule /\ h \in Match[v].headers ->
         UNION {IF Linked(Current, o) THEN Taker(links[o[2]], h) ELSE {o} :
                  o \in ToSet(Actions[v])}
    [] OTHER -> {}

(* The ways that packets with header h take from a source to a sink.       *)
Ways(p, h) ==
  LET Step[n \in 0..Cardinality(Vertices)] ==
        IF n = 0 THEN {<<Source(p)>>}
        ELSE UNION {{<<v>> \o way : v \in Onward(way[1], h)} : way \in Step[n - 1]}
  IN  {way \in UNION {Step[n] : n \in 0..Cardinality(Vertices)} :
         way[1] \in Outputs}

ForwardingPaths ==
  UNION {{[chain |-> way, header |-> h] : way \in Ways(p, h)} :
           p \in Ports \ DOMAIN links, h \in Headers}

(* What the interceptors of the trees will count.                          *)
PredictedPaths ==
  UNION {{[chain |-> n.chain, header |-> h] : h \in n.space.headers} :
           n \in {m \in trees : Kind(Leaf(m)) = "source"}}

----
(* The types of the variables; the vertices of the graph are the sinks,    *)
(* the sources and the rules in the tables.                                *)
TypeOK ==
  /\ rules \subseteq TableRule
  /\ DOMAIN domain = Outputs \cup {Source(p) : p \in Ports} \cup rules
  /\ \A v \in DOMAIN domain : domain[v] \in Space
  /\ influences \subseteq rules \X rules
  /\ lossy \in BOOLEAN /\ doubled \in BOOLEAN
  /\ tasks \in 0..MaxTasks
  /\ \A n \in trees : n.space \in Space /\ ToSet(n.chain) \subseteq Vertices

(* Whatever rules and links came and went in whatever order, the edges of  *)
(* the dependency graph carry what the tables do: a packet is handed by    *)
(* one vertex to another if and only if the first outputs it towards the   *)
(* second and nothing above the second takes it.  The source of a port     *)
(* with a link hands on nothing, and no edge starts at what is gone.  This *)
(* is so until deleteEdge meets an edge that is there twice: it deletes    *)
(* one, and the other goes on carrying packets over a link that is gone.   *)
Carried == UNION {{<<e.src, h, e.dst>> : h \in e.domain.headers} : e \in ToSet(edges)}
HandedOn == UNION {{<<v, h, w>> : w \in Onward(v, h)} :
                     v \in DOMAIN domain, h \in Headers}
EdgesFollowTables == ~doubled => Carried = HandedOn

(* The paths that the interceptors will count are, after an instruction    *)
(* was prepared, exactly the ways of the packets through the tables, as    *)
(* long as no sum of edge diffs has lost something and deleteEdge has left *)
(* no edge behind.                                                         *)
PathsFollowTables ==
  tasks = 0 /\ ~lossy /\ ~doubled => PredictedPaths = ForwardingPaths

(* Bringing the trees up to date from the diff gives the same trees as     *)
(* building them anew from the edges of the graph would, as long as no sum *)
(* of edge diffs has lost something: an edge that deleteEdge has left      *)
(* behind is still in the graph, but recorded as removed.                  *)
Roots == {n \in trees : Len(n.chain) = 1}
TreesOfGraph ==
  tasks = 0 /\ ~lossy /\ ~doubled =>
    trees = UNION {Subtree(edges, root) : root \in Roots}
====
