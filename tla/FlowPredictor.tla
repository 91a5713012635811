--------------------------- MODULE FlowPredictor ---------------------------
(***************************************************************************)
(* The flow predictor on top of its timeline: the trees of nodes in        *)
(* PathScan, whose leaves with a source rule start the domain paths.       *)
(*                                                                         *)
(* A node that the edge diff deletes becomes an old version.  It stays     *)
(* until the last statistics of a path through it have been processed:     *)
(* that marks it, and the next instruction erases what is marked.  All     *)
(* references between nodes, paths and rules are plain iterators, so what  *)
(* is used after it was erased is undefined.  The model stops there.       *)
(***************************************************************************)
EXTENDS StatsTimeline

CONSTANTS
  Nodes,        (* nodes, each created at most once; Paths are the leaves  *)
                (* with a source rule                                      *)
  Sinks,        (* the roots of the trees                                  *)
  Parent,       (* the parent of every other node                          *)
  Rules,
  RuleOf,       (* the rule of a node                                      *)
  RuleOfQuery   (* the rule a query asks for                               *)

ASSUME NodesAssumption ==
  /\ Paths \subseteq Nodes \ Sinks
  /\ Sinks \subseteq Nodes
  /\ Parent \in [Nodes \ Sinks -> Nodes \ Paths]
  /\ RuleOf \in [Nodes -> Rules]
  /\ RuleOfQuery \in [Queries -> Rules]

VARIABLES
  current,   (* nodes of the current version                               *)
  old,       (* nodes that were deleted and not erased                     *)
  marked,    (* old nodes that the next instruction erases                 *)
  erased,    (* nodes that are gone                                        *)
  mapped,    (* rules that have a rule mapping                             *)
  fault      (* "none" until something is used that does not exist         *)

(* History: a bucket was sent while an older one was not answered.         *)
VARIABLE piled

nodeVars == <<current, old, marked, erased, mapped>>
allVars == <<vars, nodeVars, fault, piled>>

Running == fault = "none"

(* Sets of nodes that hold the parent of each of them.                     *)
Rooted == {S \in SUBSET Nodes : \A n \in S \ Sinks : Parent[n] \in S}

(* A node and those on the way from it to its sink: what no rooted set     *)
(* with the node does without.                                             *)
Chain == [n \in Nodes |-> {m \in Nodes : \A S \in Rooted : n \in S => m \in S}]

Crossing(rule) == {p \in live : \E n \in Chain[p] : RuleOf[n] = rule}

FlowInit ==
  /\ Init
  /\ current = {}
  /\ old = {}
  /\ marked = {}
  /\ erased = {}
  /\ mapped = {}
  /\ fault = "none"
  /\ piled = FALSE

Fail(reason) ==
  /\ fault' = reason
  /\ UNCHANGED <<vars, nodeVars, piled>>
----
(* The nodes of the rule are looked up through its mapping, which a rule   *)
(* has only while nodes of it exist: not before the next instruction after *)
(* it was added, and never when no path crosses it.                        *)
Query(q) ==
  /\ Running
  /\ q \notin Asked
  /\ IF RuleOfQuery[q] \in mapped
     THEN /\ PredictFlow(q, Crossing(RuleOfQuery[q]))
          /\ UNCHANGED <<nodeVars, fault, piled>>
     ELSE Fail("query")
(***************************************************************************)
(* Preparing an instruction.                                               *)
(***************************************************************************)

(* Nodes come with their parents and go with their children.  What comes   *)
(* and goes in one edge diff is left behind as old, without a request.     *)
LegalDiff(created, deleted) ==
  /\ created \cap (current \cup old \cup erased) = {}
  /\ deleted \subseteq (current \cup created) \ Sinks
  /\ \A n \in created \ Sinks : Parent[n] \in current \cup created
  /\ \A n \in current \cup created : Chain[n] \cap deleted # {} => n \in deleted

(* Variant: without asking whether the mapping is empty.                   *)
EmptiedAnyway(kept) == {RuleOf[n] : n \in marked}

(* Erasing the last node of a rule drops the mapping of the rule, which is *)
(* looked up again for the next node.                                      *)
Emptied(kept) == {RuleOf[n] : n \in marked} \ {RuleOf[n] : n \in kept}

MissesMapping(kept, rules) ==
  \/ \E n \in marked : RuleOf[n] \notin rules
  \/ \E n, m \in marked :
       n # m /\ RuleOf[n] = RuleOf[m] /\ RuleOf[n] \in Emptied(kept)

(* Variant: the deleted nodes stay in the lists of their rules.            *)
UpdateFinalTimes(deleted, kept) ==
  /\ current' = kept \cup deleted
  /\ old' = (old \cup deleted) \ marked

UpdateEdges(deleted, kept) ==
  /\ current' = kept
  /\ old' = (old \cup deleted) \ marked

(* Variant: a mapping goes with the last current node.                     *)
ClearUnused(kept, rules) ==
  /\ erased' = erased \cup marked
  /\ marked' = {}
  /\ mapped' = {RuleOf[n] : n \in kept}

ClearDeletedNodes(kept, rules) ==
  /\ erased' = erased \cup marked
  /\ marked' = {}
  /\ mapped' = rules \ Emptied(kept)

PrepareWith(created, deleted) ==
  LET kept == (current \cup created) \ deleted
      rules == mapped \cup {RuleOf[n] : n \in created}
  IN /\ Running
     /\ LegalDiff(created, deleted)
     /\ IF MissesMapping(kept, rules)
        THEN Fail("clearing")
        ELSE /\ PrepareInstructions(deleted \cap live, (created \ deleted) \cap Paths)
             /\ UpdateEdges(deleted, kept)
             /\ ClearDeletedNodes(kept, rules)
             /\ piled' = (piled \/ Len(timeline') > 1)
             /\ UNCHANGED fault
(***************************************************************************)
(* Processing the statistics of a bucket: every node on the way of every   *)
(* path of the bucket gets the traffic added, and its rule as well.        *)
(***************************************************************************)
Touched(bucket) == UNION {Chain[r.path] : r \in ToSet(bucket.requests)}

(* Variant: whatever its final time.                                       *)
MarkAll(nodes) == marked' = marked \cup nodes

MarkOld(nodes) == marked' = marked \cup (nodes \cap old)

(* The answer completes the oldest bucket.                                 *)
Completes(r) == IsFull(Head(Received(r)))

AnswerWith(r) ==
  LET nodes == Touched(Head(timeline))
      predicted == {RuleOfQuery[a.query] : a \in {a \in awaiting : a.time = r.time}}
      needed == {RuleOf[n] : n \in nodes} \cup predicted
  IN /\ Running
     /\ r \in network
     /\ FirstOfItsSwitch(r)
     /\ IF Completes(r) /\ nodes \cap erased # {}
        THEN Fail("dangling")
        ELSE IF Completes(r) /\ ~(needed \subseteq mapped)
        THEN Fail("unmapped")
        ELSE /\ AddRuleStats(r)
             /\ MarkOld(IF Completes(r) THEN nodes ELSE {})
             /\ UNCHANGED <<current, old, erased, mapped, fault, piled>>
----
FlowNext ==
  \/ \E q \in Queries : Query(q)
  \/ \E created, deleted \in SUBSET Nodes : PrepareWith(created, deleted)
  \/ \E r \in network : AnswerWith(r)

FlowSpec == FlowInit /\ [][FlowNext]_allVars
----
(* The nodes and the timeline agree on the paths there are. *)
FlowTypeOK ==
  /\ live = current \cap Paths
  /\ marked \subseteq old
  /\ current \cap old = {}
  /\ (current \cup old) \cap erased = {}
  /\ (current \cup old \cup erased) \subseteq Nodes
  /\ mapped \subseteq Rules
  /\ fault \in {"none", "query", "clearing", "unmapped", "dangling"}
  /\ piled \in BOOLEAN

(* No node is erased that a request still needs, as long as the answers of *)
(* an epoch come before the next requests are sent.                        *)
NodesKept ==
  ~piled => \A i \in DOMAIN timeline : Touched(timeline[i]) \cap erased = {}

(* Neither does a node lose the mapping of its rule, if it is the only one *)
(* its rule ever has.                                                      *)
OnlyNode(n) == \A m \in Nodes : RuleOf[m] = RuleOf[n] => m = n

MappingsKept ==
  ~piled => \A i \in DOMAIN timeline : \A n \in Touched(timeline[i]) :
    OnlyNode(n) => RuleOf[n] \in mapped

(* What it takes to use something that does not exist, by what uses it.  A *)
(* query: that it is for a rule without a mapping.  Clearing the nodes     *)
(* that are marked: several nodes of one rule.  The answer that completes  *)
(* a bucket reaches an erased node only when requests of two epochs were   *)
(* on their way, and misses a mapping only then, or for a prediction that  *)
(* outlives the mapping of its rule, or with several nodes of one rule.    *)
FaultsExplained ==
  /\ fault = "query" => \E q \in Queries \ Asked : RuleOfQuery[q] \notin mapped
  /\ fault = "clearing" => \E n \in marked : ~OnlyNode(n)
  /\ fault = "dangling" => piled
  /\ fault = "unmapped" /\ ~piled =>
       \/ \E a \in awaiting : RuleOfQuery[a.query] \notin mapped
       \/ \E n \in old : ~OnlyNode(n)
====
