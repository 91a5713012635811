-------------------------- MODULE HeaderSpaceCalls --------------------------
(***************************************************************************)
(* A header space and the calls on it, in any order: the operators of the  *)
(* class, and the steps by which a path of the flow predictor is followed  *)
(* back from its sink (add_child_node).  What a call should do is said by  *)
(* the sets of headers, which the code does not have.                      *)
(***************************************************************************)
EXTENDS HeaderSpaces

CONSTANTS
  Operands,     (* the spaces that the other side of an operator may be    *)
  Changers,     (* header changers                                         *)
  Hops,         (* rules that hand packets on: what they match, how they   *)
                (* change it, and the domain of the vertex they lead to    *)
  MaxElements,  (* bound on the elements of the space                      *)
  MaxDiffs      (* bound on the differences of an element                  *)

ASSUME CallsAreTyped ==
  /\ Operands \subseteq HeaderSpace
  /\ \A c \in Changers : IsChanger(c)
  /\ \A hop \in Hops :
       /\ hop.match \in Vector /\ IsChanger(hop.changer)
       /\ hop.dst \in HeaderSpace /\ Len(hop.dst) = 1

VARIABLE space

Small(s) == Len(s) <= MaxElements /\ \A i \in DOMAIN s : Len(s[i].diff) <= MaxDiffs

Becomes(s) == Small(s) /\ space' = s

(* The domain of the edge of a hop, which addEdge compacts by looking      *)
(* whether it is empty.                                                    *)
EdgeDomain(hop) ==
  Compacted(And(ApplyChanger(hop.changer, <<Element(hop.match)>>), hop.dst))

(* add_child_node: what of the packets of a path the rule before it sends. *)
BackThrough(s, hop) ==
  And(InvertChanger(hop.changer, And(EdgeDomain(hop), s)), <<Element(hop.match)>>)

Init == space \in {EmptySpace, WholeSpace}

Add(t) == Becomes(Plus(space, t))
Intersect(t) == Becomes(And(space, t))
Subtract(t) == Becomes(Minus(space, t))
Complement == Becomes(Cmpl(space))
LookEmpty == Becomes(Compacted(space))
Difference == Becomes(ComputeDifference(space))
Apply(c) == Becomes(ApplyChanger(c, space))
Invert(c) == Becomes(InvertChanger(c, space))
FollowBack(hop) == Becomes(Compacted(BackThrough(space, hop)))

Next ==
  \/ \E t \in Operands : Add(t)
  \/ \E t \in Operands : Intersect(t)
  \/ \E t \in Operands : Subtract(t)
  \/ Complement
  \/ LookEmpty
  \/ Difference
  \/ \E c \in Changers : Apply(c)
  \/ \E c \in Changers : Invert(c)
  \/ \E hop \in Hops : FollowBack(hop)

Spec == Init /\ [][Next]_space

----
(* No vector of a space has a bit without a value, whatever is called.     *)
TypeOK == space \in HeaderSpace

(* Compaction finds the larger of two masks and does not look at what is   *)
(* taken from it, so that a space of several elements with differences can *)
(* lose headers; a space of one element, or without differences, cannot.   *)
Plain(s) == Len(s) <= 1 \/ ~HasDiffs(s)

(* The loop of hs_cmpl forgets a list that covers everything before its    *)
(* end.                                                                    *)
CoversEarly(s) == \E k \in 1..(Len(s) - 1) : HeadersIn(SubSeq(s, 1, k)) = Header

(* hs_cmpl compacts first, and has two more faults: a space that           *)
(* compaction empties has an empty complement, and so has an element of    *)
(* x's with differences.                                                   *)
Complementable(s) ==
  LET t == Compact(s)
  IN  /\ HeadersIn(t) = HeadersIn(s)
      /\ s # <<>> => t # <<>>
      /\ \A i \in DOMAIN t : t[i].mask = Whole => t[i].diff = <<>>
      /\ ~CoversEarly(t)

SubtractExact(s, t) == ~HasDiffs(t) \/ (~HasDiffs(s) /\ Complementable(t))

Separable(s) ==
  /\ Plain(s)
  /\ \A e \in ToSet(Compacted(s)) :
       ~CoversEarly([k \in DOMAIN e.diff |-> Element(e.diff[k])])

(* The operators compute the sum, the common part, the difference and the  *)
(* complement of the headers, also when differences, which are only noted, *)
(* have piled up over many calls, and compaction changes no headers; but   *)
(* for the faults above.  Compaction never adds a header.                  *)
AlgebraExact ==
  /\ \A t \in Operands :
       /\ HeadersIn(Plus(space, t)) = HeadersIn(space) \cup HeadersIn(t)
       /\ HeadersIn(And(space, t)) = HeadersIn(space) \cap HeadersIn(t)
       /\ SubtractExact(space, t) =>
            HeadersIn(Minus(space, t)) = HeadersIn(space) \ HeadersIn(t)
  /\ Complementable(space) => HeadersIn(Cmpl(space)) = Header \ HeadersIn(space)
  /\ HeadersIn(Compacted(space)) \subseteq HeadersIn(space)
  /\ Plain(space) => HeadersIn(Compacted(space)) = HeadersIn(space)
  /\ Separable(space) => HeadersIn(ComputeDifference(space)) = HeadersIn(space)

(* Differences lie in their element until compaction cuts the element.     *)
Tight(s) == \A e \in ToSet(s) : \A d \in ToSet(e.diff) : IsSub(e.mask, d)

(* Rewriting keeps every header that a packet of the space can have        *)
(* afterwards, if no difference reaches out of its element, and without    *)
(* differences it adds none.                                               *)
RewritingKeeps ==
  \A c \in Changers :
    LET images == {Changed(c, h) : h \in HeadersIn(space)}
        after  == HeadersIn(ApplyChanger(c, space))
    IN  /\ Tight(space) => images \subseteq after
        /\ ~HasDiffs(space) => images = after

(* A path followed back by one hop stands for exactly the headers that the *)
(* rule matches and that, changed, arrive in what the path stands for.     *)
PathDomainExact ==
  \A hop \in Hops : Len(space) = 1 =>
    HeadersIn(Compacted(BackThrough(space, hop))) =
      {h \in Headers(hop.match) :
         Changed(hop.changer, h) \in HeadersIn(space) \cap HeadersIn(hop.dst)}

(* The comparisons <=, >= and ==, made of a difference that must come out  *)
(* empty, agree with the headers where the difference is exact.            *)
ComparisonsExact ==
  \A t \in Operands :
    /\ ~HasDiffs(t) /\ Separable(Minus(space, t)) =>
         (IsWithin(space, t) <=> HeadersIn(space) \subseteq HeadersIn(t))
    /\ SubtractExact(t, space) /\ Separable(Minus(t, space)) =>
         (IsWithin(t, space) <=> HeadersIn(t) \subseteq HeadersIn(space))
====
