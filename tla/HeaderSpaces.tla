---------------------------- MODULE HeaderSpaces ----------------------------
(***************************************************************************)
(* Header spaces (hs.c and HeaderSpace.cpp): a list of elements, each a    *)
(* wildcard vector, its mask, and the list of the vectors taken from it,   *)
(* its differences.  The operations keep differences as long as they can,  *)
(* and the order of both lists decides what compaction finds.              *)
(***************************************************************************)
EXTENDS TernaryVectors, Sequences, SequencesExt

Element(a) == [mask |-> a, diff |-> <<>>]

Elements == [mask : Vector, diff : Seq(Vector)]
HeaderSpace == Seq(Elements)

EmptySpace == <<>>
WholeSpace == <<Element(Whole)>>

(* The headers of a space, which the code never computes.                  *)
HeadersOf(e) == Headers(e.mask) \ UNION {Headers(d) : d \in ToSet(e.diff)}
HeadersIn(s) == UNION {HeadersOf(e) : e \in ToSet(s)}

(* hs_count_diff # 0                                                       *)
HasDiffs(s) == \E i \in DOMAIN s : s[i].diff # <<>>

(* vec_elem_free: the last takes the place of the one that goes.           *)
Drop(v, i) == [k \in 1..(Len(v) - 1) |-> IF k = i THEN Last(v) ELSE v[k]]

(* Variant: what the element does not have is noted as well.               *)
WithinAny(a, ds) == [k \in DOMAIN ds |-> Isect(a, ds[k])]

(* Variant: the differences are not cut down to the element.               *)
Uncut(a, ds) ==
  FlattenSeq([k \in DOMAIN ds |-> IF Disjoint(a, ds[k]) THEN <<>> ELSE <<ds[k]>>])

(* vec_diff: the vectors of ds within a.                                   *)
Within(a, ds) ==
  FlattenSeq([k \in DOMAIN ds |->
    IF Disjoint(a, ds[k]) THEN <<>> ELSE <<Isect(a, ds[k])>>])

(* vec_isect_a: every element of one with every element of the other.      *)
Common(e, f) ==
  LET a == Isect(e.mask, f.mask)
  IN  IF HasZ(a) THEN <<>>
      ELSE <<[mask |-> a, diff |-> Within(a, e.diff) \o Within(a, f.diff)]>>

And(s, t) ==
  FlattenSeq([i \in DOMAIN s |-> FlattenSeq([j \in DOMAIN t |-> Common(s[i], t[j])])])

(* vec_sum                                                                 *)
Plus(s, t) == s \o t

(* hs_diff: note in every element what the vector a takes from it.         *)
TakeVector(s, a) ==
  [i \in DOMAIN s |-> [s[i] EXCEPT !.diff = @ \o Within(s[i].mask, <<a>>)]]

(***************************************************************************)
(* The loops of the library take out elements of the list they run over.   *)
(* Each is a number of rounds, and a round does nothing when the loop has  *)
(* come to the end of the list; l is the list with the indices of the loop.*)
(***************************************************************************)
Rounds(Round(_), l, n) ==
  LET after[k \in 0..n] == IF k = 0 THEN l ELSE Round(after[k - 1]) IN after[n]

(* vec_compact with array_combine, for no mask: of two vectors of which    *)
(* one lies in the other the larger stays.  keys are the vectors, l.v      *)
(* their indices as the list holds them now.  For every i, which goes on   *)
(* or finds the list shorter, there are fewer rounds than keys, and one    *)
(* that ends with it.                                                      *)
SweepRound(keys, l) ==
  IF l.i > Len(l.v) THEN l
  ELSE IF l.j > Len(l.v) THEN [l EXCEPT !.i = @ + 1, !.j = l.i + 2]
  ELSE IF IsSub(keys[l.v[l.i]], keys[l.v[l.j]]) THEN [l EXCEPT !.v = Drop(@, l.j)]
  ELSE IF IsSub(keys[l.v[l.j]], keys[l.v[l.i]])
    THEN [l EXCEPT !.v = Drop(@, l.i), !.j = l.i + 1]
  ELSE [l EXCEPT !.j = @ + 1]

Largest(keys) ==
  Rounds(LAMBDA l : SweepRound(keys, l),
         [v |-> [k \in DOMAIN keys |-> k], i |-> 1, j |-> 2],
         Len(keys) * Len(keys)).v

CompactVectors(ds) ==
  LET v == Largest(ds) IN [k \in DOMAIN v |-> ds[v[k]]]
CompactElements(s) ==
  LET v == Largest([k \in DOMAIN s |-> s[k].mask]) IN [k \in DOMAIN v |-> s[v[k]]]

(* The differences of an element: one that covers it frees the element,    *)
(* one that leaves a vector is taken off at once.                          *)
TakeOffRound(l) ==
  IF l.freed \/ l.j > Len(l.e.diff) THEN l
  ELSE LET d == l.e.diff[l.j]
           n == Cardinality(Excess(d, l.e.mask))
       IN  IF n = 0 THEN [l EXCEPT !.freed = TRUE]
           ELSE IF n = 1
             THEN [l EXCEPT !.e = [mask |-> OneBitSubtract(d, @.mask),
                                   diff |-> Drop(@.diff, l.j)]]
           ELSE [l EXCEPT !.j = @ + 1]

TakeOff(e) ==
  LET l == Rounds(TakeOffRound, [e |-> e, j |-> 1, freed |-> FALSE], Len(e.diff))
  IN  IF l.freed THEN <<>> ELSE <<l.e>>

TakeOffAllRound(l) ==
  IF l.i > Len(l.s) THEN l
  ELSE LET e    == l.s[l.i]
           rest == TakeOff([e EXCEPT !.diff = CompactVectors(@)])
       IN  IF rest = <<>> THEN [l EXCEPT !.s = Drop(@, l.i)]
           ELSE [l EXCEPT !.s[l.i] = rest[1], !.i = @ + 1]

TakeOffAll(s) == Rounds(TakeOffAllRound, [s |-> s, i |-> 1], Len(s)).s

(* hs_compact                                                              *)
Compact(s) == CompactElements(TakeOffAll(s))

(* HeaderSpace::empty, which compacts a space with differences in place.   *)
Compacted(s) == IF HasDiffs(s) THEN Compact(s) ELSE s
IsEmpty(s) == Compacted(s) = <<>>

(***************************************************************************)
(* Complement and difference                                               *)
(***************************************************************************)
(* array_cmpl looks at the bits of a word from the last on (of the first   *)
(* four bits, which share a byte).                                         *)
CmplVectors(a) ==
  FlattenSeq([k \in Bits |-> LET i == Width + 1 - k
                             IN  IF i \in Fixed(a) THEN <<Element(Flipped(a, i))>>
                                 ELSE <<>>])

(* Variant: the difference of an element does not come back.               *)
CmplMask(e) == CmplVectors(e.mask)

(* What an element leaves out: all around its mask, and its differences.   *)
CmplElement(e) ==
  CmplVectors(e.mask) \o [k \in DOMAIN e.diff |-> Element(e.diff[k])]

(* The loop of hs_cmpl: an element of x's ends it, whatever it leaves out, *)
(* and an element that finds the list empty starts it anew.                *)
CmplList(s) ==
  IF \E i \in DOMAIN s : s[i].mask = Whole THEN <<>>
  ELSE FoldLeft(LAMBDA acc, e : IF acc = <<>> THEN CmplElement(e)
                                ELSE And(acc, CmplElement(e)),
                <<>>, s)

(* hs_cmpl; the list of the differences of one element is not compacted,   *)
(* since it has no differences itself.                                     *)
Cmpl(s) == IF s = <<>> THEN WholeSpace ELSE CmplList(Compact(s))
CmplOfVectors(ds) ==
  IF ds = <<>> THEN WholeSpace ELSE CmplList([k \in DOMAIN ds |-> Element(ds[k])])

(* operator-=: what has no differences is only noted, and hs_minus takes   *)
(* the complement of the rest.                                             *)
Minus(s, t) ==
  IF HasDiffs(t) THEN Compact(And(s, Cmpl(t)))
  ELSE FoldLeft(LAMBDA acc, e : TakeVector(acc, e.mask), s, t)

(* computeDifference and hs_comp_diff: every element without its           *)
(* differences.                                                            *)
ComputeDifference(s) ==
  LET t == Compacted(s)
  IN  FlattenSeq([i \in DOMAIN t |->
        Compact(And(<<Element(t[i].mask)>>, CmplOfVectors(t[i].diff)))])

(* operator<= and ==                                                       *)
NothingLeft(s) == IsEmpty(ComputeDifference(s))
IsWithin(s, t) == NothingLeft(Minus(s, t))
IsEqual(s, t) == IsWithin(s, t) /\ IsWithin(t, s)

----
(* hs_rewrite: a difference stays if it has as many x's in the bits that   *)
(* are set as the mask of its element.                                     *)
KeepRound(n, mask, l) ==
  IF l.j > Len(l.ds) THEN l
  ELSE IF XCount(l.ds[l.j], mask) = n THEN [l EXCEPT !.j = @ + 1]
  ELSE [l EXCEPT !.ds = Drop(@, l.j)]

KeepDiffs(ds, n, mask) ==
  Rounds(LAMBDA l : KeepRound(n, mask, l), [ds |-> ds, j |-> 1], Len(ds)).ds

(* Variant: every difference stays.                                        *)
RewriteAllDiffs(e, mask, rewrite) ==
  [mask |-> Rewrite(e.mask, mask, rewrite),
   diff |-> [k \in DOMAIN e.diff |-> Rewrite(e.diff[k], mask, rewrite)]]

RewriteElement(e, mask, rewrite) ==
  LET kept == KeepDiffs(e.diff, XCount(e.mask, mask), mask)
  IN  [mask |-> Rewrite(e.mask, mask, rewrite),
       diff |-> [k \in DOMAIN kept |-> Rewrite(kept[k], mask, rewrite)]]

RewriteSpace(s, mask, rewrite) ==
  [i \in DOMAIN s |-> RewriteElement(s[i], mask, rewrite)]

(* HeaderChanger::apply and inverse                                        *)
ApplyChanger(c, s) == IF c.identity THEN s ELSE RewriteSpace(s, c.mask, c.rewrite)
InvertChanger(c, s) == IF c.identity THEN s ELSE RewriteSpace(s, c.mask, c.inverse)
====
