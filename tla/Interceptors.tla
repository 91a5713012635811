----------------------------- MODULE Interceptors -----------------------------
(***************************************************************************)
(* The interceptors of one switch.  A path of the flow predictor begins at *)
(* the source of a port; its interceptor, a rule in the first table of the *)
(* switch, is to count the packets of the path before the controller's own *)
(* rules see them.  An interceptor matches the mask of the domain of its   *)
(* path, without the differences: what they take away must be caught by    *)
(* another interceptor of higher priority.                                 *)
(*                                                                         *)
(* The rules of the controller come and go (as in DependencyGraph, of which *)
(* this is the part for one table, with header spaces as the code has      *)
(* them), once an epoch the predictor creates and deletes the interceptors *)
(* of the paths, and the main loop carries the instructions to the switch. *)
(* The rules of the table lead to the sinks of the switch, so that a path  *)
(* is a port, a rule and a sink.                                           *)
(***************************************************************************)
EXTENDS OpenFlowMatches, EdgeDiffs

CONSTANTS
  Ports,     (* the ports of the switch                                    *)
  NoPort,    (* SpecialPort::NONE                                          *)
  Flows,     (* the rules the controller may install                       *)
  Attr,      (* their priority, match and outputs                          *)
  MaxTasks,  (* bound on the tasks of an epoch                             *)
  MaxQueue,  (* bound on the instructions that wait                        *)
  MaxPaths   (* bound on the paths that are ever created                   *)

ASSUME DistinctPriorities ==
  \A f, g \in Flows :
    Attr[f].priority \in Nat \ {0} /\ (f # g => Attr[f].priority # Attr[g].priority)

Miss == "miss"
Rules == Flows \cup {Miss}
Source(p) == <<"source", p>>
Rule(r) == <<"rule", r>>
Sink(o) == <<"sink", o>>

AnyMatch == [port |-> AnyPort, type |-> AnyValue, proto |-> AnyValue,
             address |-> AnyAddress]
OFMatch == [r \in Rules |-> IF r = Miss THEN AnyMatch ELSE Attr[r].match]
Priority == [r \in Rules |-> IF r = Miss THEN 0 ELSE Attr[r].priority]
MissOutputs == <<"drop">>
Outputs == [r \in Rules |-> IF r = Miss THEN MissOutputs ELSE Attr[r].out]

VARIABLES
  rules,       (* Network: the rules of the table, in the order they came  *)
  domain,      (* the header space of the vertex of a rule                 *)
  influences,  (* <<upper, lower>>, in the order they were found           *)
  edges,       (* the edges from the sources and to the sinks              *)
  latestDiff,  (* what happened to the edges in this epoch                 *)
  seen,        (* history: the rules that have been in the table           *)
  tasks,       (* how many tasks the detector has run in this epoch        *)
  nodes,       (* PathScan: <<rule, sink>> for every node below a sink     *)
  paths,       (* PathScan and interceptor_map_: the paths and the         *)
               (* priorities of their interceptors                         *)
  lastPath,    (* last_path_id_                                            *)
  queue,       (* the instructions that wait for the main loop             *)
  installed    (* the interceptors in the switch                           *)

graphVars == <<rules, domain, influences, edges, latestDiff, seen>>
vars == <<graphVars, tasks, nodes, paths, lastPath, queue, installed>>

(***************************************************************************)
(* Network spaces: a port and a header space.                              *)
(***************************************************************************)
Space(p, s) == [port |-> p, headers |-> s]
Nothing(n) == n.port = NoPort \/ IsEmpty(n.headers)

(* Looking whether a space is empty compacts it.                           *)
Looked(n) == Space(n.port, Compacted(n.headers))

Meet(m, n) ==
  LET p == CASE m.port = AnyPort           -> n.port
             [] n.port \in {AnyPort, m.port} -> m.port
             [] OTHER                      -> NoPort
  IN  IF p = NoPort THEN Space(NoPort, EmptySpace)
      ELSE Space(p, And(m.headers, n.headers))

(* Rule::domain                                                            *)
MatchOf == [r \in Rules |-> Space(OFMatch[r].port, <<Element(GetMatch(OFMatch[r]))>>)]
SourceSpace(p) == Space(p, WholeSpace)

(* Variant: a rule for one port takes nothing from the others.             *)
TakeAtPort(s, upper, r) ==
  IF MatchOf[upper].port = MatchOf[r].port
  THEN Minus(s, Meet(MatchOf[upper], MatchOf[r]).headers) ELSE s

(* operator-= in update_domain, which does not look at the ports.          *)
TakeUpper(s, upper, r) == Minus(s, Meet(MatchOf[upper], MatchOf[r]).headers)

(***************************************************************************)
(* The graph, as in DependencyGraph: g is a record of the variables and of *)
(* step, the diff of one operation.                                        *)
(***************************************************************************)
Current ==
  [rules |-> rules, domain |-> domain, influences |-> influences, edges |-> edges,
   diff |-> latestDiff, step |-> NoDiff]

Becomes(g) ==
  /\ rules' = g.rules
  /\ domain' = g.domain
  /\ influences' = g.influences
  /\ edges' = g.edges
  /\ latestDiff' = g.diff

Descending(R) == SetToSortSeq(R, LAMBDA q, r : Priority[q] > Priority[r])
Overlap(q, r) == ~Nothing(Meet(MatchOf[q], MatchOf[r]))

Handed(g, src, r) == Looked(Meet(SourceSpace(src[2]), Space(MatchOf[r].port, g.domain[r])))

AddEdge(g, src, r, list) ==
  LET e == [src |-> src, dst |-> Rule(r), domain |-> Handed(g, src, r)]
  IN  IF Nothing(e.domain) THEN g
      ELSE [g EXCEPT !.edges = Append(@, e), !.step[list] = Append(@, e)]

(* An edge that becomes empty keeps its domain until it is cleared at the  *)
(* end of the operation.                                                   *)
UpdateEdge(g, i) ==
  LET old   == g.edges[i]
      space == Handed(g, old.src, old.dst[2])
      e     == [old EXCEPT !.domain = space]
  IN  IF Nothing(space)
      THEN [g EXCEPT !.edges = ReplaceAt(@, i, [old EXCEPT !.domain.port = NoPort])]
      ELSE [g EXCEPT !.edges = ReplaceAt(@, i, e), !.step.changed = Append(@, e)]

Ends(es) == [i \in DOMAIN es |-> [src |-> es[i].src, dst |-> es[i].dst]]

RemoveEdges(g, Is(_), list) ==
  [g EXCEPT !.edges = SelectSeq(@, LAMBDA e : ~Is(e)),
            !.step[list] = @ \o Ends(SelectSeq(g.edges, Is))]

Indices(g, Is(_)) ==
  SelectSeq([i \in DOMAIN g.edges |-> i], LAMBDA i : Is(g.edges[i]))

(* popEdgeDiff and the sum of the diffs                                    *)
Finish(g) ==
  LET h    == RemoveEdges(g, LAMBDA e : Nothing(e.domain), "removed")
  IN  [h EXCEPT !.diff = Sum(Cancelled(h.diff, h.step)), !.step = NoDiff]

(* update_domain: the rules above in the order of their influences.        *)
UpdateDomain(g, r) ==
  LET upper == SelectSeq(g.influences, LAMBDA pair : pair[2] = r)
      left  == FoldLeft(LAMBDA s, pair : TakeUpper(s, pair[1], r), MatchOf[r].headers, upper)
  IN  [g EXCEPT !.domain = (r :> left) @@ @]

TakeFrom(g, r, lower) ==
  LET h == UpdateDomain([g EXCEPT !.influences = Append(@, <<r, lower>>)], lower)
      shared == Indices(h, LAMBDA e :
                  /\ e.dst = Rule(lower)
                  /\ ~Nothing(Meet(e.domain, Space(MatchOf[r].port, h.domain[r]))))
  IN  FoldLeft(LAMBDA k, i : UpdateEdge(AddEdge(k, k.edges[i].src, r, "newDependent"), i),
               h, shared)

AddOutEdge(r, g, o) ==
  LET e == [src |-> Rule(r), dst |-> Sink(o), domain |-> MatchOf[r]]
  IN  [g EXCEPT !.edges = Append(@, e), !.step.new = Append(@, e)]

AddInEdges(g, r) ==
  LET others == {q \in ToSet(g.rules) \ {r} : Overlap(q, r)}
      upper  == Descending({q \in others : Priority[q] > Priority[r]})
      lower  == Descending({q \in others : Priority[q] < Priority[r]})
      h      == UpdateDomain([g EXCEPT !.influences =
                  @ \o [i \in DOMAIN upper |-> <<upper[i], r>>]], r)
  IN  FoldLeft(LAMBDA k, q : TakeFrom(k, r, q), h, lower)

(* DependencyGraph::addRule                                                *)
GraphAddRule(g, r) ==
  LET h == [g EXCEPT !.rules = Append(@, r), !.domain = (r :> MatchOf[r].headers) @@ @]
  IN  Finish(AddInEdges(FoldLeft(LAMBDA k, o : AddOutEdge(r, k, o), h, Outputs[r]), r))

GiveBack(g, r, lower) ==
  LET h == UpdateDomain([g EXCEPT !.influences =
                           SelectSeq(@, LAMBDA pair : pair # <<r, lower>>)], lower)
  IN  FoldLeft(LAMBDA k, i :
                 LET found == Indices(k, LAMBDA e : /\ e.src = k.edges[i].src
                                                    /\ e.dst = Rule(lower))
                 IN  IF found # <<>> THEN UpdateEdge(k, found[1])
                     ELSE AddEdge(k, k.edges[i].src, lower, "new"),
               h, Indices(h, LAMBDA e : e.dst = Rule(r)))

(* DependencyGraph::deleteRule                                             *)
GraphDeleteRule(g, r) ==
  LET h     == RemoveEdges(g, LAMBDA e : e.src = Rule(r), "removed")
      lower == SelectSeq(g.influences, LAMBDA pair : pair[1] = r)
      k     == RemoveEdges(FoldLeft(LAMBDA j, pair : GiveBack(j, r, pair[2]), h, lower),
                           LAMBDA e : e.dst = Rule(r), "removedDependent")
  IN  Finish([k EXCEPT !.rules = SelectSeq(@, LAMBDA q : q # r),
                       !.domain = [q \in DOMAIN @ \ {r} |-> @[q]],
                       !.influences = SelectSeq(@, LAMBDA pair : r \notin {pair[1], pair[2]})])

(***************************************************************************)
(* The predictor: t is a record of nodes, paths, lastPath and of add and   *)
(* delete, the InterceptorDiff.                                            *)
(***************************************************************************)
(* new_interceptor and getFlowMod: the cookie is the number of the path.   *)
(* The interceptor leads to the second table, as they all do.              *)
FlowModOf(path) ==
  [cookie |-> path.id, priority |-> path.priority,
   match |-> GetOFMatch(path.domain.port, path.domain.headers[1].mask)]

(* domain_above_mask, for the differences of one interceptor               *)
LiesInDiff(s, other) ==
  \E e \in ToSet(other.domain.headers) : \E d \in ToSet(e.diff) :
    \E f \in ToSet(s) : IsSub(d, f.mask)

(* Variant: an interceptor has the same priority as the one it cuts.       *)
SamePriority(others, s) ==
  Max({1} \cup {o.priority : o \in {q \in others : LiesInDiff(s, q)}})

(* get_priority: above every interceptor from whose mask the domain is     *)
(* taken.                                                                  *)
GetPriority(others, s) ==
  Max({1} \cup {o.priority + 1 : o \in {q \in others : LiesInDiff(s, q)}})

(* Variant: the deletion is sent as well.                                  *)
AddAnyDeletion(t, mod) == [t EXCEPT !.delete = Append(@, mod.cookie)]

(* InterceptorDiff::operator+= for one rule that goes: one that was to be  *)
(* added is not, and nothing is deleted.                                   *)
AddToDelete(t, mod) ==
  IF Contains(t.add, mod) THEN [t EXCEPT !.add = SelectSeq(@, LAMBDA m : m # mod)]
  ELSE [t EXCEPT !.delete = Append(@, mod.cookie)]

CreateInterceptor(t, p, node, space) ==
  LET path == [id |-> t.lastPath, port |-> p, node |-> node, domain |-> space,
               priority |-> GetPriority(t.paths, space.headers)]
  IN  [t EXCEPT !.paths = @ \cup {path}, !.lastPath = @ + 1,
                !.add = Append(@, FlowModOf(path))]

DeleteInterceptor(t, path) == [AddToDelete(t, FlowModOf(path)) EXCEPT !.paths = @ \ {path}]

(* add_child_node for a source, below the node of a rule, whose domain is  *)
(* all that the rule matches; and add_domain_path.                         *)
PathSpace(p, e) ==
  Looked(Meet([Meet(e.domain, MatchOf[e.dst[2]]) EXCEPT !.port = AnyPort], SourceSpace(p)))

AddPath(e, t, node) ==
  LET p == e.src[2]
      space == PathSpace(p, e)
  IN  IF Nothing(space) \/ \E q \in t.paths : q.port = p /\ q.node = node
      THEN t ELSE CreateInterceptor(t, p, node, space)

(* add_subtrees: a new node of a rule gets its paths from the edges of the *)
(* graph, a new edge to a rule the paths that it leads to.                 *)
AddSubtrees(es, t, e) ==
  LET node == <<e.src[2], e.dst[2]>>
  IN  CASE e.dst[1] = "sink" /\ node \notin t.nodes ->
             FoldLeft(LAMBDA u, f : AddPath(f, u, node), [t EXCEPT !.nodes = @ \cup {node}],
                      SelectSeq(es, LAMBDA f : f.dst = e.src))
        [] e.dst[1] = "rule" ->
             FoldLeft(LAMBDA u, o : AddPath(e, u, <<e.dst[2], o>>), t,
                      SelectSeq(Outputs[e.dst[2]], LAMBDA o : <<e.dst[2], o>> \in t.nodes))
        [] OTHER -> t

(* delete_subtrees: the node of a rule goes with the paths below it, or a  *)
(* source loses the paths that begin with the edge.                        *)
DeletePaths(t, Is(_)) ==
  FoldLeft(DeleteInterceptor, t,
           SetToSortSeq({q \in t.paths : Is(q)}, LAMBDA q, r : q.id < r.id))
(* Variant: only the node itself goes.                                     *)
DeleteNode(t, e) ==
  LET node == <<e.src[2], e.dst[2]>>
  IN  IF e.dst[1] = "sink" THEN [t EXCEPT !.nodes = @ \ {node}]
      ELSE DeletePaths(t, LAMBDA q : Source(q.port) = e.src /\ Rule(q.node[1]) = e.dst)

DeleteSubtrees(t, e) ==
  LET node == <<e.src[2], e.dst[2]>>
  IN  IF e.dst[1] = "sink"
      THEN [DeletePaths(t, LAMBDA q : q.node = node) EXCEPT !.nodes = @ \ {node}]
      ELSE DeletePaths(t, LAMBDA q : Source(q.port) = e.src /\ Rule(q.node[1]) = e.dst)

(* FlowPredictor::updateEdges                                              *)
UpdateEdges(es, t, diff) ==
  LET pruned  == FoldLeft(DeleteSubtrees, t, diff.removed)
      changed == FoldLeft(LAMBDA u, e : AddSubtrees(es, DeleteSubtrees(u, e), e),
                          pruned, diff.changed)
  IN  FoldLeft(LAMBDA u, e : AddSubtrees(es, u, e), changed, diff.new)

----
Start ==
  LET es == SetToSeq({[src |-> Source(p), dst |-> Rule(Miss), domain |-> SourceSpace(p)] :
                        p \in Ports})
      out == [src |-> Rule(Miss), dst |-> Sink(MissOutputs[1]), domain |-> MatchOf[Miss]]
  IN  [rules |-> <<Miss>>, domain |-> Miss :> WholeSpace, influences |-> <<>>,
       edges |-> <<out>> \o es,
       diff |-> [NoDiff EXCEPT !.new = <<out>>, !.newDependent = es],
       step |-> NoDiff]

Init ==
  /\ rules = Start.rules /\ domain = Start.domain /\ influences = Start.influences
  /\ edges = Start.edges /\ latestDiff = Start.diff /\ seen = {Miss}
  /\ tasks = 1
  /\ nodes = {} /\ paths = {} /\ lastPath = 1
  /\ queue = <<>> /\ installed = {}

(* A flow is the name of one rule after the other; a new one gets it when  *)
(* nothing of the old one is left.                                         *)
InDiff(r) ==
  \E list \in DOMAIN latestDiff : \E i \in DOMAIN latestDiff[list] :
    Rule(r) \in {latestDiff[list][i].src, latestDiff[list][i].dst}

(* Detector::addRule and deleteRule                                        *)
AddRule(f) ==
  /\ tasks < MaxTasks
  /\ ~Contains(rules, f) /\ ~InDiff(f) /\ \A node \in nodes : node[1] # f
  /\ Becomes(GraphAddRule(Current, f))
  /\ seen' = seen \cup {f}
  /\ tasks' = tasks + 1
  /\ UNCHANGED <<nodes, paths, lastPath, queue, installed>>

DeleteRule(f) ==
  /\ tasks < MaxTasks
  /\ Contains(rules, f)
  /\ Becomes(GraphDeleteRule(Current, f))
  /\ tasks' = tasks + 1
  /\ UNCHANGED <<seen, nodes, paths, lastPath, queue, installed>>

(* Detector::prepareInstructions and getInstruction                        *)
PrepareInstructions ==
  LET t == UpdateEdges(edges, [nodes |-> nodes, paths |-> paths, lastPath |-> lastPath,
                               add |-> <<>>, delete |-> <<>>], latestDiff)
  IN  /\ tasks > 0
      /\ Len(queue) < MaxQueue
      /\ t.lastPath <= MaxPaths + 1
      /\ nodes' = t.nodes /\ paths' = t.paths /\ lastPath' = t.lastPath
      /\ queue' = Append(queue, [add |-> t.add, delete |-> t.delete])
      /\ latestDiff' = NoDiff
      /\ tasks' = 0
      /\ UNCHANGED <<rules, domain, influences, edges, seen, installed>>

(* What the switch does with a rule that it is sent: one with the same     *)
(* priority and match makes room for it.                                   *)
Overwrite(table, mod) ==
  {m \in table : m.priority # mod.priority \/ m.match # mod.match} \cup {mod}

(* handle_detector_instruction: the deletions by cookie, then the rules.   *)
Carried(table, instruction) ==
  FoldLeft(Overwrite, {m \in table : ~Contains(instruction.delete, m.cookie)},
           instruction.add)

HandleInstruction ==
  /\ queue # <<>>
  /\ installed' = Carried(installed, Head(queue))
  /\ queue' = Tail(queue)
  /\ UNCHANGED <<graphVars, tasks, nodes, paths, lastPath>>

Next ==
  \/ \E f \in Flows : AddRule(f)
  \/ \E f \in Flows : DeleteRule(f)
  \/ PrepareInstructions
  \/ HandleInstruction

Spec == Init /\ [][Next]_vars

----
(* Types.  The domain of a path is one element, of which the mask becomes  *)
(* the match of the interceptor.                                           *)
Ids == 1..MaxPaths
FlowMod(m) == m.cookie \in Ids /\ m.priority \in Nat \ {0} /\ m.match.port \in Ports

TypeOK ==
  /\ ToSet(rules) = DOMAIN domain /\ ToSet(rules) \subseteq Rules
  /\ \A pair \in ToSet(influences) : Priority[pair[1]] > Priority[pair[2]]
  /\ tasks \in 0..MaxTasks /\ ToSet(rules) \subseteq seen /\ seen \subseteq Rules
  /\ lastPath \in 1..MaxPaths + 1
  /\ \A q \in paths :
       /\ q.port \in Ports /\ q.node \in nodes /\ q.domain.port = q.port
       /\ Len(q.domain.headers) = 1 /\ q.domain.headers[1].mask \in Vector
       /\ FlowMod(FlowModOf(q))
  /\ Len(queue) <= MaxQueue
  /\ \A i \in DOMAIN queue : /\ \A m \in ToSet(queue[i].add) : FlowMod(m)
                              /\ ToSet(queue[i].delete) \subseteq Ids
  /\ \A m \in installed : FlowMod(m)

----
(* The rule that takes a packet at a port, the rules that the graph hands  *)
(* it to, and the interceptors of the highest priority that match it.      *)
Taker(p, packet) ==
  CHOOSE r \in ToSet(rules) :
    /\ Matches(OFMatch[r], p, packet)
    /\ \A q \in ToSet(rules) : Matches(OFMatch[q], p, packet) => Priority[q] <= Priority[r]

HeaderOf(packet) ==
  [i \in Bits |->
     IF i \in TypeBits
     THEN CHOOSE b \in {0, 1} : {b} = NumberBit(TypeNumber(packet.type), i - 1)
     ELSE IF packet.type # "ipv4" THEN 0
     ELSE IF i \in ProtoBits THEN ProtoNumber(packet.proto) ELSE packet.address[i]]

In(a, h) == \A i \in Bits : h[i] \in a[i]
Holds(s, h) ==
  \E i \in DOMAIN s : In(s[i].mask, h) /\ \A j \in DOMAIN s[i].diff : ~In(s[i].diff[j], h)

HandedTo(p, packet) ==
  {e.dst[2] : e \in {f \in ToSet(edges) :
     f.src = Source(p) /\ Holds(f.domain.headers, HeaderOf(packet))}}

Counting(p, packet) ==
  {m \in installed :
     /\ Matches(m.match, p, packet)
     /\ \A n \in installed : Matches(n.match, p, packet) => n.priority <= m.priority}

PathsOf(p, r) == {q \in paths : q.port = p /\ q.node[1] = r}

(* The switch gets what the predictor believes it has: when all that waits *)
(* has been carried out, every interceptor is that of a path, and a path   *)
(* whose interceptor is missing lost it to a younger one of the same match *)
(* and priority.                                                           *)
Active == {FlowModOf(q) : q \in paths}
SwitchFollows ==
  LET final == FoldLeft(Carried, installed, queue)
  IN  /\ final \subseteq Active
      /\ \A m \in Active \ final : \E n \in final :
           n.cookie > m.cookie /\ n.match = m.match /\ n.priority = m.priority

(* The edges hand a packet from a port to the rule that takes it in the    *)
(* switch, and to no other, unless there is or was a rule for another port *)
(* that would take it.                                                     *)
EdgesTakeRight ==
  \A p \in Ports : \A packet \in Packets :
    (\A r \in seen, o \in Ports \ {p} :
       Matches(OFMatch[r], o, packet) => Matches(OFMatch[r], p, packet))
      => HandedTo(p, packet) = {Taker(p, packet)}

(* A packet is counted by the path it takes when all is carried out, if    *)
(* the edges are right about it, its protocol is one that comes back from  *)
(* a header, the rule that takes it has one output and lies within or      *)
(* around every rule it has met, and the paths of the rules that match the *)
(* packet were created from the lowest to the highest.                     *)
Settled == tasks = 0 /\ queue = <<>>
Tellable(packet) == packet.type = "ipv4" => packet.proto \in {"tcp", "udp"}

Mask(r) == GetMatch(OFMatch[r])
Nested(q) ==
  \A r \in seen : \/ Disjoint(Mask(q), Mask(r))
                  \/ IsSub(Mask(q), Mask(r)) \/ IsSub(Mask(r), Mask(q))
Ascending(p, packet) ==
  \A m, n \in {q \in paths : q.port = p /\ Matches(OFMatch[q.node[1]], p, packet)} :
    Priority[m.node[1]] > Priority[n.node[1]] => m.id > n.id

CountedByOwnPath ==
  Settled => \A p \in Ports : \A packet \in Packets :
    LET taker == Taker(p, packet)
    IN  /\ HandedTo(p, packet) = {taker}
        /\ Tellable(packet) /\ Len(Outputs[taker]) = 1
        /\ Nested(taker) /\ Ascending(p, packet)
        => Counting(p, packet) = {FlowModOf(q) : q \in PathsOf(p, taker)}
====
