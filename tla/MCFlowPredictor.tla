-------------------------- MODULE MCFlowPredictor --------------------------
(* One tree with the sink k1: the flow node f1 with the sources a1 and c1  *)
(* below it, and the source a2 directly below the sink.  The rule A has    *)
(* the nodes a1 and a2, every other rule has one node.                     *)
EXTENDS FlowPredictor, TLC

CONSTANTS a1, a2, c1, f1, k1, A, C, F, K, s1, q1, q2

AllNodes == {a1, a2, c1, f1, k1}
SourceNodes == {a1, a2, c1}
SinkNodes == {k1}
Tree == a1 :> f1 @@ a2 :> k1 @@ c1 :> f1 @@ f1 :> k1
AllRules == {A, C, F, K}
RuleMap == a1 :> A @@ a2 :> A @@ c1 :> C @@ f1 :> F @@ k1 :> K
OneSwitch == [p \in SourceNodes |-> s1]
TwoQueries == {q1, q2}
Asks == q1 :> F @@ q2 :> A
====
