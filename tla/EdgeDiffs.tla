------------------------------ MODULE EdgeDiffs ------------------------------
(***************************************************************************)
(* EdgeDiff: what happened to the edges of the dependency graph since the  *)
(* flow predictor last looked.  An entry is a Dependency, a copy of the    *)
(* ends, the transfer and the domain that an edge had; two entries are     *)
(* equal when they have the same ends.                                     *)
(***************************************************************************)
EXTENDS Naturals, Sequences, SequencesExt

(* SelectSeq, with the indices of the elements in a set.                   *)
Chosen(s, I) ==
  LET upTo[n \in 0..Len(s)] ==
        IF n = 0 THEN <<>>
        ELSE IF n \in I THEN Append(upTo[n - 1], s[n]) ELSE upTo[n - 1]
  IN  upTo[Len(s)]
Select(s, Is(_)) == Chosen(s, {i \in DOMAIN s : Is(s[i])})

NoDiff == [new |-> <<>>, newDependent |-> <<>>, changed |-> <<>>,
           removed |-> <<>>, removedDependent |-> <<>>]

SameEdge(e, f) == e.src = f.src /\ e.dst = f.dst

(* Delete the entries of mine that have an equal one in theirs, and with   *)
(* each of them the first equal entry of theirs.                           *)
Cross(both, e) ==
  IF \E i \in DOMAIN both.theirs : SameEdge(e, both.theirs[i])
  THEN [both EXCEPT !.theirs = RemoveFirstMatch(@, LAMBDA f : SameEdge(e, f))]
  ELSE [both EXCEPT !.mine = Append(@, e)]

DeleteIntersection(mine, theirs) ==
  FoldLeft(Cross, [mine |-> <<>>, theirs |-> theirs], mine)

(* What a removal cancels, in the order of the calls.                      *)
Cancellations == <<<<"new", "removed">>, <<"new", "removedDependent">>,
                   <<"newDependent", "removed">>,
                   <<"newDependent", "removedDependent">>,
                   <<"changed", "removed">>, <<"changed", "removedDependent">>>>

Cancel(both, c) ==
  LET rest == DeleteIntersection(both.old[c[1]], both.new[c[2]])
  IN  [old |-> [both.old EXCEPT ![c[1]] = rest.mine],
       new |-> [both.new EXCEPT ![c[2]] = rest.theirs]]

Cancelled(old, new) == FoldLeft(Cancel, [old |-> old, new |-> new], Cancellations)

(* move_intersection looks at the first entry of the destination only.     *)
MoveIntersection(mine, theirs) ==
  Select(mine, LAMBDA e : theirs = <<>> \/ ~SameEdge(e, theirs[1]))

(* A new edge is implicitly dependent if it leads to the source of a new   *)
(* edge that is recorded already.  (The code's partition may reorder.)     *)
Incident(e, f) == e.dst = f.src
IsDependent(e, edges) == \E i \in DOMAIN edges : Incident(e, edges[i])

Joined(old, new, independent, dependent) ==
  LET allNew == old.new \o independent
      allDep == old.newDependent \o new.newDependent \o dependent
  IN  [new |-> allNew,
       newDependent |-> allDep,
       changed |-> MoveIntersection(
                     MoveIntersection(old.changed \o new.changed, allNew), allDep),
       removed |-> old.removed \o new.removed,
       removedDependent |-> old.removedDependent \o new.removedDependent]

(* operator+=, for what the cancellations have left.                       *)
Sum(left) ==
  Joined(left.old, left.new,
         Select(left.new.new, LAMBDA e : ~IsDependent(e, left.old.new)),
         Select(left.new.new, LAMBDA e : IsDependent(e, left.old.new)))

(* A sum loses something in two ways: an entry of changed uses up the      *)
(* removal of its edge, and the change of an edge that is the first of new *)
(* goes, while the entry in new keeps the domain from before the change.   *)
LosesRemoval(old, new) ==
  \E list \in {"removed", "removedDependent"} :
    \E i \in DOMAIN new[list], j \in DOMAIN old.changed :
      SameEdge(new[list][i], old.changed[j])

LosesChange(left, sum) ==
  /\ sum.new # <<>>
  /\ \E e \in ToSet(left.old.changed \o left.new.changed) : SameEdge(e, sum.new[1])
====
