--------------------------- MODULE DependencyGraph ---------------------------
(***************************************************************************)
(* The dependency graph of the detector: which rule hands packets to which *)
(* rule, and which.  A vertex is a rule of a front table, the source or    *)
(* the sink of a port, or one of the two special sinks; its domain is what *)
(* the rules above it leave to it.  An edge carries the packets that its   *)
(* source sends and its destination takes.                                 *)
(*                                                                         *)
(* A task of the detector (add, change or delete a rule, add or delete a   *)
(* link) changes the network and the graph and adds to latestDiff, from    *)
(* which the flow predictor brings its trees up to date once an epoch.     *)
(* Further tables, groups, rewriting and multi-links are left out.         *)
(***************************************************************************)
EXTENDS NetworkSpaces, EdgeDiffs

CONSTANTS
  Switches,
  Home,      (* the switch of a port                                       *)
  Flows,     (* the rules a controller may install in a front table        *)
  Attr,      (* their switch, priority, match and outputs                  *)
  Cables,    (* the pairs of ports a link may connect                      *)
  Deletions  (* the matches of DELETE messages, with their switch          *)

Source(p) == <<"source", p>>
Sink(p) == <<"sink", p>>
Miss(s) == <<"miss", s>>
Flow(f) == <<"flow", f>>
Drop == <<"drop">>
Controller == <<"controller">>

Kind(v) == v[1]
Outputs == {Sink(p) : p \in Ports} \cup {Drop, Controller}
TableRule == {Miss(s) : s \in Switches} \cup {Flow(f) : f \in Flows}
Vertices == Outputs \cup TableRule \cup {Source(p) : p \in Ports}

(* A rule is added where it belongs, and two rules of one table with the   *)
(* same priority have the same match.                                      *)
ASSUME NetworkShape ==
  /\ IsFiniteSet(Ports) /\ IsFiniteSet(Switches) /\ IsFiniteSet(Flows)
  /\ Home \in [Ports -> Switches]
  /\ Attr \in [Flows -> [sw : Switches, priority : Nat \ {0}, match : Space,
                         out : Seq(Outputs)]]
  /\ \A f \in Flows : \A i \in DOMAIN Attr[f].out :
       LET o == Attr[f].out[i]
       IN  Kind(o) = "sink" => Home[o[2]] = Attr[f].sw
  /\ \A f, g \in Flows :
       Attr[f].sw = Attr[g].sw /\ Attr[f].priority = Attr[g].priority
         => Attr[f].match = Attr[g].match
  /\ Cables \subseteq Ports \X Ports
  /\ Deletions \subseteq [sw : Switches, match : Space]

(* A network in which the graph can follow the tables, as long as nothing  *)
(* is doubled.  A rule that matches a port takes headers from the rules    *)
(* below it at every port; a DELETE of all headers removes the table miss; *)
(* a link within a switch leads to rules whose domains are not computed    *)
(* yet; deleteLink erases both ends whatever they are linked to; and edges *)
(* over two links from one rule to one switch are taken for each other.    *)
Cabled(p, q) == <<p, q>> \in Cables \/ <<q, p>> \in Cables
PlainNetwork ==
  /\ \A f \in Flows : Attr[f].match.port = AnyPort
  /\ \A d \in Deletions : d.match.headers # Headers
  /\ \A p, q \in Ports : Cabled(p, q) => Home[p] # Home[q]
  /\ \A p, q, x \in Ports : Cabled(p, q) /\ Cabled(p, x) => q = x
  /\ \A f \in Flows : \A p, q, x, y \in Ports :
       /\ {Sink(p), Sink(x)} \subseteq ToSet(Attr[f].out)
       /\ Cabled(p, q) /\ Cabled(x, y) /\ Home[q] = Home[y]
       => p = x

Switch == [r \in TableRule |-> IF Kind(r) = "miss" THEN r[2] ELSE Attr[r[2]].sw]
Priority == [r \in TableRule |-> IF Kind(r) = "miss" THEN 0 ELSE Attr[r[2]].priority]

(* Rule::domain: all that a rule matches.                                  *)
Match == [v \in Vertices |->
  CASE Kind(v) = "flow"               -> Attr[v[2]].match
    [] Kind(v) \in {"source", "sink"} -> SpaceAt(v[2])
    [] OTHER                          -> SpaceAt(AnyPort)]

(* An empty list of actions is read as a drop, as is a table miss.         *)
Actions == [r \in TableRule |->
  IF Kind(r) = "miss" \/ Attr[r[2]].out = <<>> THEN <<Drop>>
  ELSE Attr[r[2]].out]

VARIABLES
  rules,       (* Network: the rules in the tables                         *)
  links,       (* Network: topology_, from a port to the port it is        *)
               (* connected to                                             *)
  domain,      (* the domain of every vertex of the graph                  *)
  influences,  (* influence graph: <<upper, lower>>, two overlapping rules *)
  edges,       (* the edges in the order of their creation                 *)
  latestDiff,  (* what happened to the edges in this epoch                 *)
  lossy,       (* history: a sum of two diffs has lost something so far    *)
  doubled      (* history: deleteEdge has met an edge that was there twice *)

graphVars == <<rules, links, domain, influences, edges, latestDiff, lossy, doubled>>

(***************************************************************************)
(* A task works on g, a record of the variables and of step, the diff that *)
(* the edge installer collects in one operation on the graph.              *)
(***************************************************************************)
Current ==
  [rules |-> rules, links |-> links, domain |-> domain,
   influences |-> influences, edges |-> edges, diff |-> latestDiff,
   step |-> NoDiff, lossy |-> lossy, doubled |-> doubled]

Becomes(g) ==
  /\ rules' = g.rules
  /\ links' = g.links
  /\ domain' = g.domain
  /\ influences' = g.influences
  /\ edges' = g.edges
  /\ latestDiff' = g.diff
  /\ lossy' = g.lossy
  /\ doubled' = g.doubled

Descending(R) ==
  CHOOSE s \in SetToSeqs(R) :
    \A i, j \in DOMAIN s : i < j => Priority[s[i]] > Priority[s[j]]
Table(g, s) == {r \in g.rules : Switch[r] = s}
Overlap(q, r) == ~IsEmpty(Meet(Match[q], Match[r]))
Above(g, r) == {q \in Table(g, Switch[r]) : Priority[q] > Priority[r]}
Below(g, r) == {q \in Table(g, Switch[r]) : Priority[q] < Priority[r]}

(* Port::srcRules and dstRules, which the network keeps with the tables.   *)
SrcRules(g, p) ==
  Descending({r \in g.rules : \E i \in DOMAIN Actions[r] : Actions[r][i] = Sink(p)})
DstRules(g, p) ==
  Descending({r \in Table(g, Home[p]) : Match[r].port \in {p, AnyPort}})

(* What a source hands to a destination through a transfer.                *)
Handed(g, src, dst, transfer) ==
  Meet(Apply(transfer, Match[src]), g.domain[dst])

AddEdge(g, src, dst, transfer, list) ==
  LET e == [src |-> src, dst |-> dst, transfer |-> transfer,
            domain |-> Handed(g, src, dst, transfer)]
  IN  IF IsEmpty(e.domain) THEN g
      ELSE [g EXCEPT !.edges = Append(@, e), !.step[list] = Append(@, e)]

AddEdges(g, src, dsts, transfer) ==
  FoldLeft(LAMBDA h, dst : AddEdge(h, src, dst, transfer, "new"), g, dsts)

(* An edge that has become empty stays until the end of the operation.     *)
UpdateEdge(g, i) ==
  LET old == g.edges[i]
      e   == [old EXCEPT !.domain = Handed(g, old.src, old.dst, old.transfer)]
  IN  [g EXCEPT !.edges[i] = e,
                !.step.changed = IF IsEmpty(e.domain) THEN @ ELSE Append(@, e)]

Ends(es) == [i \in DOMAIN es |-> [src |-> es[i].src, dst |-> es[i].dst]]

OutEdges(g, v) == {i \in DOMAIN g.edges : g.edges[i].src = v}
InEdges(g, v) == {i \in DOMAIN g.edges : g.edges[i].dst = v}
EmptyEdges(g) == {i \in DOMAIN g.edges : IsEmpty(g.edges[i].domain)}
InOrder(g, I) == Chosen([i \in DOMAIN g.edges |-> i], I)

RemoveEdges(g, I, list) ==
  [g EXCEPT !.edges = Chosen(@, DOMAIN @ \ I),
            !.step[list] = @ \o Ends(Chosen(g.edges, I))]

DeleteOutEdges(g, v, list) == RemoveEdges(g, OutEdges(g, v), list)
DeleteInEdges(g, v, list) == RemoveEdges(g, InEdges(g, v), list)

(* The sum of the diff of the epoch and of an operation.                   *)
AddToDiff(g, left, sum) ==
  [g EXCEPT !.diff = sum, !.step = NoDiff,
            !.lossy = @ \/ LosesRemoval(g.diff, g.step) \/ LosesChange(left, sum)]
AddLeft(g, left) == AddToDiff(g, left, Sum(left))
AddStep(g) == AddLeft(g, Cancelled(g.diff, g.step))

(* popEdgeDiff of the installer, which clears the empty edges first.       *)
Finish(g) == AddStep(RemoveEdges(g, EmptyEdges(g), "removed"))

(* update_domain: the domain less what the rules above take.               *)
UpdateDomain(g, r) ==
  LET upper == Descending({q \in g.rules : <<q, r>> \in g.influences})
  IN  [g EXCEPT !.domain[r] =
         FoldLeft(LAMBDA d, q : Minus(d, Meet(Match[q], Match[r])),
                  Match[r], upper)]

----
AddVertex(g, v) ==
  [g EXCEPT !.domain = [u \in DOMAIN @ \cup {v} |-> IF u = v THEN Match[v] ELSE @[u]]]

(* Variant: the vertex stays in the graph.                                 *)
KeepVertex(g, v) ==
  [g EXCEPT !.influences = {pair \in @ : v \notin {pair[1], pair[2]}}]

DeleteVertex(g, v) ==
  [g EXCEPT !.domain = [u \in DOMAIN @ \ {v} |-> @[u]],
            !.influences = {pair \in @ : v \notin {pair[1], pair[2]}}]

(* The rules that an output leads to, and the transfer to them.            *)
Linked(g, o) == Kind(o) = "sink" /\ o[2] \in DOMAIN g.links
Receivers(g, o) == IF Linked(g, o) THEN DstRules(g, g.links[o[2]]) ELSE <<o>>
TransferTo(g, o) ==
  IF Linked(g, o) THEN g.links[o[2]]
  ELSE IF Kind(o) = "sink" THEN o[2] ELSE NoPort

AddOutEdges(g, r) ==
  FoldLeft(LAMBDA h, o : AddEdges(h, r, Receivers(h, o), TransferTo(h, o)),
           g, Actions[r])

(* The new rule r takes from a lower rule what the two have in common, and *)
(* with it the part of the edges to that rule.                             *)
TakeFrom(g, r, lower) ==
  LET h      == UpdateDomain([g EXCEPT !.influences = @ \cup {<<r, lower>>}],
                             lower)
      shared == {i \in InEdges(h, lower) :
                   ~IsEmpty(Meet(h.edges[i].domain, h.domain[r]))}
  IN  FoldLeft(LAMBDA k, i :
                 UpdateEdge(AddEdge(k, k.edges[i].src, r, k.edges[i].transfer,
                                    "newDependent"), i),
               h, InOrder(h, shared))

AddInEdges(g, r) ==
  LET upper == {q \in Above(g, r) : Overlap(q, r)}
      lower == {q \in Below(g, r) : Overlap(q, r)}
      h     == UpdateDomain([g EXCEPT !.influences =
                               @ \cup {<<q, r>> : q \in upper}], r)
  IN  FoldLeft(LAMBDA k, q : TakeFrom(k, r, q), h, Descending(lower))

(* A table miss gets its edges from the sources of the ports.              *)
AddMissEdges(g, miss) ==
  FoldLeft(LAMBDA h, p : AddEdge(h, Source(p), miss, NoPort, "newDependent"),
           g, SetToSeq({p \in Ports : Home[p] = Switch[miss]}))

(* DependencyGraph::addRule                                                *)
GraphAddRule(g, r) ==
  LET h == AddOutEdges(AddVertex(g, r), r)
  IN  Finish(IF Kind(r) = "miss" THEN AddMissEdges(h, r) ELSE AddInEdges(h, r))

(* Variant: the lower rule keeps the domain it had.                        *)
GiveNothingBack(g, r, lower) ==
  [g EXCEPT !.influences = @ \ {<<r, lower>>}]

(* The rule r goes: a lower rule gets back what the two have in common.    *)
GiveBack(g, r, lower) ==
  LET h == UpdateDomain([g EXCEPT !.influences = @ \ {<<r, lower>>}], lower)
  IN  FoldLeft(LAMBDA k, i :
                 LET src   == k.edges[i].src
                     found == OutEdges(k, src) \cap InEdges(k, lower)
                 IN  IF found # {} THEN UpdateEdge(k, Min(found))
                     ELSE AddEdge(k, src, lower, k.edges[i].transfer, "new"),
               h, InOrder(h, InEdges(h, r)))

(* DependencyGraph::deleteRule for a rule of a table.  The code visits the *)
(* lower rules in the order in which their influences were found, which a  *)
(* set does not keep; here they come by priority.  Each gets back what the *)
(* influences that are left allow, and its own edges, so that the order    *)
(* shows only in the order of the entries of the diff.  Interceptors has   *)
(* the influences, and with them the lower rules, in the code's order.     *)
GraphDeleteRule(g, r) ==
  LET h == DeleteOutEdges(g, r, "removed")
      lower == {q \in g.rules : <<r, q>> \in g.influences}
      k == FoldLeft(LAMBDA j, q : GiveBack(j, r, q), h, Descending(lower))
  IN  Finish(DeleteVertex(DeleteInEdges(k, r, "removedDependent"), r))

(* Variant: the source of the port at the other end keeps its edges.       *)
LinkOneEnd(g, p, q) ==
  FoldLeft(LAMBDA k, r : AddEdges(k, r, DstRules(k, q), q),
           DeleteInEdges(g, Sink(p), "removed"), SrcRules(g, p))

(* DependencyGraph::addLink, from port p to port q.                        *)
LinkDirected(g, p, q) ==
  LET h == DeleteOutEdges(DeleteInEdges(g, Sink(p), "removed"),
                          Source(q), "removed")
  IN  FoldLeft(LAMBDA k, r : AddEdges(k, r, DstRules(k, q), q),
               h, SrcRules(h, p))

GraphAddLink(g, p, q) == Finish(LinkDirected(LinkDirected(g, p, q), q, p))

(* deleteEdge: recorded in any case, and one of the edges deleted, even if *)
(* TakeFrom has added the same edge for several lower rules.               *)
DeleteEdge(g, src, dst) ==
  LET found == OutEdges(g, src) \cap InEdges(g, dst)
  IN  [g EXCEPT
         !.step.removed = Append(@, [src |-> src, dst |-> dst]),
         !.edges = IF found = {} THEN @ ELSE RemoveAt(@, Min(found)),
         !.doubled = @ \/ \E i, j \in found : i # j]

UnlinkDirected(g, p, q) ==
  LET dsts == DstRules(g, q)
      h    == FoldLeft(
                LAMBDA k, r :
                  AddEdge(FoldLeft(LAMBDA j, dst : DeleteEdge(j, r, dst), k, dsts),
                          r, Sink(p), p, "new"),
                g, SrcRules(g, p))
  IN  AddEdges(h, Source(q), dsts, NoPort)

GraphDeleteLink(g, p, q) == Finish(UnlinkDirected(UnlinkDirected(g, p, q), q, p))

(***************************************************************************)
(* The tasks of the detector.                                              *)
(***************************************************************************)
(* A rule object gets a number that is never used again; the name of a     *)
(* flow stands for a new rule only when nothing refers to the old one.     *)
InDiff(v) ==
  \E list \in DOMAIN latestDiff : \E i \in DOMAIN latestDiff[list] :
    v \in {latestDiff[list][i].src, latestDiff[list][i].dst}
Fresh(f) == Flow(f) \notin rules /\ ~InDiff(Flow(f))

(* get_rule: the rule with the priority and the match of f.                *)
Same(f) == {r \in Table(Current, Attr[f].sw) :
              Priority[r] = Attr[f].priority /\ Match[r] = Attr[f].match}

Install(g, r) == GraphAddRule([g EXCEPT !.rules = @ \cup {r}], r)
Uninstall(g, r) ==
  LET h == GraphDeleteRule(g, r) IN [h EXCEPT !.rules = @ \ {r}]

(* Detector::addRule: a rule that is there already is not touched.         *)
AddRule(f) ==
  /\ Fresh(f)
  /\ Same(f) = {}
  /\ Becomes(Install(Current, Flow(f)))

(* Detector::changeRule: one rule goes, and another takes its place.       *)
ChangeRule(f) ==
  /\ Fresh(f)
  /\ \E r \in Same(f) : Becomes(Install(Uninstall(Current, r), Flow(f)))

(* Detector::deleteRule: all the rules of the table within the match.      *)
Within(d) == {r \in Table(Current, d.sw) :
                /\ Match[r].port = d.match.port
                /\ Match[r].headers \subseteq d.match.headers}
DeleteRules(d) ==
  /\ Within(d) # {}
  /\ Becomes(FoldLeft(Uninstall, Current, Descending(Within(d))))

(* Detector::addLink: the network refuses a port that is in use.           *)
AddLink(p, q) ==
  /\ {p, q} \cap DOMAIN links = {}
  /\ p # q
  /\ Becomes(GraphAddLink(
       [Current EXCEPT !.links = [o \in DOMAIN @ \cup {p, q} |->
                                    IF o = p THEN q ELSE IF o = q THEN p ELSE @[o]]],
       p, q))

(* Detector::deleteLink: the network asks only that both ports are in use. *)
DeleteLink(p, q) ==
  /\ {p, q} \subseteq DOMAIN links
  /\ Becomes(GraphDeleteLink(
       [Current EXCEPT !.links = [o \in DOMAIN @ \ {p, q} |-> @[o]]], p, q))

(* The network once its switches are connected: Detector::addSwitch has    *)
(* added the sources, the sinks and the table misses, and no link is known.*)
Start ==
  LET special == (Outputs \cup {Source(p) : p \in Ports})
      empty   == [rules |-> {Miss(s) : s \in Switches}, links |-> <<>>,
                  domain |-> [v \in special |-> Match[v]],
                  influences |-> {}, edges |-> <<>>, diff |-> NoDiff,
                  step |-> NoDiff, lossy |-> FALSE, doubled |-> FALSE]
  IN  FoldLeft(GraphAddRule, empty, SetToSeq({Miss(s) : s \in Switches}))

Task ==
  \/ \E f \in Flows : AddRule(f)
  \/ \E f \in Flows : ChangeRule(f)
  \/ \E d \in Deletions : DeleteRules(d)
  \/ \E c \in Cables : AddLink(c[1], c[2])
  \/ \E c \in Cables : DeleteLink(c[1], c[2])
====
