----------------------------- MODULE MCPathTrees -----------------------------
(***************************************************************************)
(* Two switches, s with the ports p1 and p2 and t with p3 and p4, and a    *)
(* link from p2 to p3 that comes and goes.                                 *)
(***************************************************************************)
EXTENDS PathTrees

CONSTANTS s, t, p1, p2, p3, p4, a, b, c

MCHome == [p \in {p1, p2, p3, p4} |-> IF p \in {p1, p2} THEN s ELSE t]

Rule(sw, priority, headers, out) ==
  [sw |-> sw, priority |-> priority,
   match |-> [port |-> AnyPort, headers |-> headers], out |-> out]

MCAttr ==
  "low" :> Rule(s, 1, {a}, <<Sink(p2)>>) @@
  "high" :> Rule(s, 2, {a, b}, <<Sink(p2)>>) @@
  "ask" :> Rule(s, 1, {a}, <<Sink(p2), Controller>>) @@
  "far" :> Rule(t, 1, {a}, <<Sink(p4)>>) @@
  "near" :> Rule(t, 2, {a, b}, <<Sink(p4)>>)

MCCables == {<<p2, p3>>}
MCDeletions == {[sw |-> s, match |-> [port |-> AnyPort, headers |-> {a}]],
                [sw |-> s, match |-> [port |-> AnyPort, headers |-> {a, b}]]}

(* The network of the run is one that EdgesFollowTables is proved for.     *)
ASSUME Plain == PlainNetwork
====
