------------------------- MODULE HeaderSpaceProofs -------------------------
(***************************************************************************)
(* What the operations on wildcard vectors (TernaryVectors) and on header  *)
(* spaces (HeaderSpaces) do to the headers that they stand for, for        *)
(* headers of any width and spaces of any size; and that the properties of *)
(* HeaderSpaceCalls hold whatever is called on a space.                    *)
(***************************************************************************)
EXTENDS HeaderSpaceCalls, FiniteSetTheorems, SequenceFacts

LEMMA BitValues ==
  ASSUME NEW a \in Vector, NEW i \in Bits
  PROVE  a[i] \in {Zero, One, X} /\ a[i] # {} /\ a[i] \subseteq {0, 1}
BY DEF Vector, Zero, One, X

(* A vector without z stands for some header, and one can be chosen that   *)
(* has a given value in a given bit.                                       *)
LEMMA SomeHeader ==
  ASSUME NEW a, a \in [Bits -> SUBSET {0, 1}], ~HasZ(a),
         NEW i \in Bits, NEW v \in a[i]
  PROVE  \E h \in Headers(a) : h[i] = v
<1> DEFINE h == [j \in Bits |-> IF j = i THEN v ELSE CHOOSE w \in a[j] : TRUE]
<1>1. ASSUME NEW j \in Bits PROVE h[j] \in a[j]
  BY <1>1 DEF HasZ
<1>2. h \in Header
  BY <1>1 DEF Header
<1>3. h \in Headers(a) /\ h[i] = v
  BY <1>1, <1>2 DEF Headers
<1> QED BY <1>3

(* array_isect: the intersection of two vectors stands for what the        *)
(* vectors have in common.                                                 *)
THEOREM IsectExact ==
  ASSUME NEW a \in Vector, NEW b \in Vector
  PROVE  Headers(Isect(a, b)) = Headers(a) \cap Headers(b)
BY DEF Headers, Isect

(* array_isect_a: NULL stands for no header at all, and nothing else does. *)
THEOREM DisjointExact ==
  ASSUME NEW a \in Vector, NEW b \in Vector
  PROVE  Disjoint(a, b) <=> Headers(a) \cap Headers(b) = {}
<1>1. ASSUME Disjoint(a, b) PROVE Headers(a) \cap Headers(b) = {}
  BY <1>1 DEF Disjoint, HasZ, Isect, Headers
<1>2. ASSUME ~Disjoint(a, b) PROVE Headers(a) \cap Headers(b) # {}
  <2>1. Isect(a, b) \in [Bits -> SUBSET {0, 1}]
    BY BitValues DEF Isect
  <2>2. 1 \in Bits
    BY WidthAssumption DEF Bits
  <2>3. PICK v \in Isect(a, b)[1] : TRUE
    BY <1>2, <2>2 DEF Disjoint, HasZ
  <2>4. PICK h \in Headers(Isect(a, b)) : TRUE
    BY <1>2, <2>1, <2>2, <2>3, SomeHeader DEF Disjoint
  <2> QED BY <2>4, IsectExact
<1> QED BY <1>1, <1>2

(* array_is_sub: the comparison of the bits compares the headers.          *)
THEOREM IsSubExact ==
  ASSUME NEW a \in Vector, NEW b \in Vector
  PROVE  IsSub(a, b) <=> Headers(b) \subseteq Headers(a)
<1>1. ASSUME IsSub(a, b) PROVE Headers(b) \subseteq Headers(a)
  BY <1>1 DEF IsSub, Headers
<1>2. ASSUME Headers(b) \subseteq Headers(a) PROVE IsSub(a, b)
  <2> SUFFICES ASSUME NEW i \in Bits, NEW v \in b[i] PROVE v \in a[i]
    BY DEF IsSub
  <2>1. b \in [Bits -> SUBSET {0, 1}] /\ ~HasZ(b)
    BY BitValues DEF HasZ, Vector, Zero, One, X
  <2>2. PICK h \in Headers(b) : h[i] = v
    BY <2>1, SomeHeader
  <2> QED BY <1>2, <2>2 DEF Headers
<1> QED BY <1>1, <1>2

(* array_cmpl: the vectors it returns stand together for what the vector   *)
(* leaves out.                                                             *)
THEOREM ComplementExact ==
  ASSUME NEW a \in Vector
  PROVE  UNION {Headers(Flipped(a, i)) : i \in Fixed(a)} = Header \ Headers(a)
<1>1. ASSUME NEW h \in Header, NEW i \in Fixed(a)
      PROVE  h \in Headers(Flipped(a, i)) <=> h[i] \notin a[i]
  <2>1. i \in Bits /\ h[i] \in {0, 1}
    BY <1>1 DEF Fixed, Header
  <2>2. \A j \in Bits : Flipped(a, i)[j] = IF j = i THEN X \ a[i] ELSE X
    BY DEF Flipped, Whole
  <2> QED BY <1>1, <2>1, <2>2 DEF Headers, Header, X
<1>2. ASSUME NEW h \in Header, NEW i \in Bits, h[i] \notin a[i]
      PROVE  i \in Fixed(a)
  BY <1>2 DEF Fixed, Header, X
<1>3. \A i : Headers(Flipped(a, i)) \subseteq Header
  BY DEF Headers
<1>4. ASSUME NEW h \in Header
      PROVE  h \in UNION {Headers(Flipped(a, i)) : i \in Fixed(a)}
               <=> h \notin Headers(a)
  <2>1. h \notin Headers(a) <=> \E i \in Bits : h[i] \notin a[i]
    BY <1>4 DEF Headers
  <2>2. Fixed(a) \subseteq Bits
    BY DEF Fixed
  <2> QED BY <1>1, <1>2, <1>4, <2>1, <2>2
<1> QED BY <1>3, <1>4 DEF Headers
----
LEMMA FiniteExcess ==
  ASSUME NEW a, NEW b
  PROVE  IsFiniteSet(Excess(a, b))
<1>1. IsFiniteSet(Bits) /\ IsFiniteSet({0, 1})
  <2>1. IsFiniteSet(1..Width)
    <3>1. 1 \in Int /\ Width \in Int
      BY WidthAssumption
    <3> QED BY <3>1, FS_Interval, Zenon
  <2>2. IsFiniteSet({0, 1})
    <3>1. {0, 1} = 0..1 /\ 0 \in Int /\ 1 \in Int
      OBVIOUS
    <3>2. IsFiniteSet(0..1)
      BY <3>1, FS_Interval, Zenon
    <3> QED BY <3>1, <3>2
  <2> QED BY <2>1, <2>2 DEF Bits
<1>2. IsFiniteSet(Bits \X {0, 1})
  BY <1>1, FS_Product
<1> QED BY <1>2, FS_Subset DEF Excess

(* array_one_bit_subtract: a count of 0 says that the other vector covers  *)
(* this one, so that its element may go.                                   *)
THEOREM CoveredExact ==
  ASSUME NEW a \in Vector, NEW b \in Vector
  PROVE  Cardinality(Excess(a, b)) = 0 <=> Headers(b) \subseteq Headers(a)
<1>1. Cardinality(Excess(a, b)) = 0 <=> Excess(a, b) = {}
  BY FiniteExcess, FS_EmptySet
<1>2. Excess(a, b) = {} <=> IsSub(a, b)
  <2>1. \A i \in Bits : b[i] \subseteq {0, 1}
    BY BitValues
  <2>2. ASSUME Excess(a, b) = {}, NEW i \in Bits, NEW v \in b[i] PROVE v \in a[i]
    <3>1. v \in {0, 1}
      BY <2>1, <2>2
    <3>2. <<i, v>> \notin Excess(a, b)
      BY <2>2
    <3> QED BY <2>2, <3>1, <3>2 DEF Excess
  <2>3. ASSUME IsSub(a, b), NEW f \in Excess(a, b) PROVE FALSE
    BY <2>3 DEF Excess, IsSub
  <2> QED BY <2>2, <2>3 DEF IsSub
<1> QED BY <1>1, <1>2, IsSubExact

(* array_one_bit_subtract: with a count of 1 what it makes of the vector   *)
(* stands for exactly the headers that the other vector leaves of it, and  *)
(* it is a vector without z.                                               *)
THEOREM OneBitSubtractExact ==
  ASSUME NEW a \in Vector, NEW b \in Vector, Cardinality(Excess(a, b)) = 1
  PROVE  /\ OneBitSubtract(a, b) \in Vector
         /\ Headers(OneBitSubtract(a, b)) = Headers(b) \ Headers(a)
<1>1. PICK f : Excess(a, b) = {f}
  BY FiniteExcess, FS_Singleton
<1> DEFINE i == f[1]
           v == f[2]
           c == OneBitSubtract(a, b)
<1>2. /\ i \in Bits /\ v \in {0, 1} /\ v \in b[i] \ a[i] /\ f = <<i, v>>
  BY <1>1 DEF Excess
<1>3. ASSUME NEW j \in Bits, NEW w \in b[j] \ a[j] PROVE j = i /\ w = v
  <2>1. w \in {0, 1}
    BY <1>3, BitValues
  <2>2. <<j, w>> \in Excess(a, b)
    BY <1>3, <2>1 DEF Excess
  <2> QED BY <1>1, <1>2, <2>2
<1>4. \A j \in Bits : j # i => b[j] \subseteq a[j]
  BY <1>3
<1>5. b[i] \ a[i] = {v}
  BY <1>2, <1>3
<1>6. ASSUME NEW j \in Bits PROVE c[j] = IF j = i THEN {v} ELSE b[j]
  <2>1. (\E w \in {0, 1} : <<j, w>> \in Excess(a, b)) <=> j = i
    BY <1>1, <1>2
  <2> QED BY <1>5, <2>1 DEF OneBitSubtract
<1>7. c \in Vector
  <2>1. \A j \in Bits : c[j] \in {Zero, One, X}
    BY <1>2, <1>6, BitValues DEF Zero, One
  <2>2. c = [j \in Bits |-> c[j]]
    BY DEF OneBitSubtract
  <2> QED BY <2>1, <2>2 DEF Vector
<1>8. ASSUME NEW h \in Header
      PROVE  h \in Headers(c) <=> h \in Headers(b) /\ h \notin Headers(a)
  <2>1. CASE h \in Headers(b)
    <3>1. \A j \in Bits : h[j] \in b[j]
      BY <2>1 DEF Headers
    <3>2. h \in Headers(a) <=> h[i] \in a[i]
      BY <1>2, <1>4, <1>8, <3>1 DEF Headers
    <3>3. h \in Headers(c) <=> h[i] = v
      BY <1>2, <1>6, <1>8, <3>1 DEF Headers
    <3> QED BY <1>2, <1>5, <2>1, <3>1, <3>2, <3>3
  <2>2. CASE h \notin Headers(b)
    BY <1>2, <1>6, <1>8, <2>2 DEF Headers
  <2> QED BY <2>1, <2>2
<1> QED BY <1>7, <1>8 DEF Headers
(***************************************************************************)
(* The parts of a header changer: a mask that says which bits are set,     *)
(* their values, and x's for the way back.                                 *)
(***************************************************************************)
LEMMA BitsDiffer == Zero # One /\ Zero # X /\ One # X
<1>1. 0 \in Zero /\ 1 \notin Zero /\ 0 \notin One /\ 1 \in One
  BY DEF Zero, One
<1>2. 0 \in X /\ 1 \in X
  BY DEF X
<1> QED BY <1>1, <1>2

LEMMA ChosenBit ==
  ASSUME NEW b \in {Zero, One}
  PROVE  Value(b) \in {0, 1} /\ b = {Value(b)}
<1>1. \E v : v \in b
  BY DEF Zero, One
<1>2. Value(b) \in b
  BY <1>1 DEF Value
<1> QED BY <1>2 DEF Zero, One

LEMMA ChosenOf ==
  ASSUME NEW b \in {Zero, One, X}
  PROVE  Value(b) \in b
<1>1. \E v : v \in b
  BY DEF Zero, One, X
<1> QED BY <1>1 DEF Value

LEMMA ChangerTyped ==
  ASSUME NEW t \in Vector
  PROVE  IsChanger(Changer(t))
BY BitsDiffer DEF Vector, Changer, IsChanger, Transparent

LEMMA ChangedTyped ==
  ASSUME NEW c, IsChanger(c), NEW h \in Header
  PROVE  Changed(c, h) \in Header
<1>1. \A i \in Bits : c.rewrite[i] \in {Zero, One}
  BY DEF IsChanger, Transparent
<1> QED BY <1>1, ChosenBit DEF Changed, Header

(* HeaderChanger::operator*=: composing two changers changes a header as   *)
(* the one and then the other would.                                       *)
THEOREM ComposeExact ==
  ASSUME NEW c, IsChanger(c), NEW d, IsChanger(d), NEW h \in Header
  PROVE  /\ IsChanger(Compose(c, d))
         /\ Changed(Compose(c, d), h) = Changed(d, Changed(c, h))
<1>1. \A i \in Bits : /\ c.mask[i] \in {Zero, One} /\ d.mask[i] \in {Zero, One}
                     /\ c.rewrite[i] \in {Zero, One} /\ d.rewrite[i] \in {Zero, One}
                     /\ c.inverse[i] \in {Zero, X} /\ d.inverse[i] \in {Zero, X}
  BY DEF IsChanger, Transparent
<1>2. ASSUME NEW e, IsChanger(e), e.identity, NEW g \in Header
      PROVE  Changed(e, g) = g
  <2>1. \A i \in Bits : e.mask[i] = One
    BY <1>2 DEF IsChanger
  <2> QED BY <1>2, <2>1, BitsDiffer DEF Changed, Header
<1>3. CASE c.identity
  BY <1>2, <1>3 DEF Compose
<1>4. CASE ~c.identity /\ d.identity
  <2>1. Compose(c, d) = c
    BY <1>4 DEF Compose
  <2> QED BY <1>2, <1>4, <2>1, ChangedTyped
<1>5. CASE ~c.identity /\ ~d.identity
  <2> DEFINE e == Compose(c, d)
  <2>1. /\ e.mask = [i \in Bits |->
                       IF Zero \in {c.mask[i], d.mask[i]} THEN Zero ELSE One]
        /\ e.rewrite = Rewrite(c.rewrite, d.mask, d.rewrite)
        /\ e.inverse = Rewrite(c.inverse, d.mask, d.inverse)
        /\ e.identity = FALSE
    BY <1>5 DEF Compose
  <2>2. IsChanger(e)
    <3>1. e.mask \in Transparent /\ e.rewrite \in Transparent
      BY <1>1, <2>1 DEF Transparent, Rewrite
    <3>2. e.inverse \in [Bits -> {Zero, X}]
      BY <1>1, <2>1 DEF Rewrite
    <3>3. \A i \in Bits : e.inverse[i] = X <=> e.mask[i] = Zero
      BY <1>1, <2>1, BitsDiffer DEF Rewrite, IsChanger
    <3>4. ~\A i \in Bits : e.mask[i] = One
      <4>1. PICK i \in Bits : c.mask[i] # One
        BY <1>5 DEF IsChanger
      <4> QED BY <1>1, <2>1, <4>1, BitsDiffer
    <3> QED BY <2>1, <3>1, <3>2, <3>3, <3>4 DEF IsChanger
  <2>3. ASSUME NEW i \in Bits
        PROVE  Changed(e, h)[i] = Changed(d, Changed(c, h))[i]
    <3>1. /\ Changed(e, h)[i] = IF e.mask[i] = Zero THEN Value(e.rewrite[i]) ELSE h[i]
          /\ Changed(d, Changed(c, h))[i] =
               IF d.mask[i] = Zero THEN Value(d.rewrite[i]) ELSE Changed(c, h)[i]
          /\ Changed(c, h)[i] = IF c.mask[i] = Zero THEN Value(c.rewrite[i]) ELSE h[i]
      BY <2>3 DEF Changed
    <3>2. /\ e.mask[i] = IF Zero \in {c.mask[i], d.mask[i]} THEN Zero ELSE One
          /\ e.rewrite[i] = IF d.mask[i] = Zero THEN d.rewrite[i] ELSE c.rewrite[i]
      BY <2>1, <2>3 DEF Rewrite
    <3> HIDE DEF e
    <3>3. CASE d.mask[i] = Zero
      BY <3>1, <3>3, <3>2
    <3>4. CASE d.mask[i] = One
      BY <1>1, <2>3, <3>1, <3>4, <3>2, BitsDiffer
    <3> QED BY <1>1, <2>3, <3>3, <3>4
  <2> QED BY <2>2, <2>3 DEF Changed
<1> QED BY <1>3, <1>4, <1>5

(* HeaderChanger::apply: the rewritten vector stands for exactly what the  *)
(* headers of the vector become.                                           *)
THEOREM RewriteExact ==
  ASSUME NEW c, IsChanger(c), NEW a \in Vector
  PROVE  Headers(Rewrite(a, c.mask, c.rewrite)) = {Changed(c, h) : h \in Headers(a)}
<1> DEFINE r == Rewrite(a, c.mask, c.rewrite)
<1>1. \A i \in Bits : c.mask[i] \in {Zero, One} /\ c.rewrite[i] \in {Zero, One}
  BY DEF IsChanger, Transparent
<1>2. ASSUME NEW h \in Headers(a) PROVE Changed(c, h) \in Headers(r)
  <2>1. h \in Header /\ \A i \in Bits : h[i] \in a[i]
    BY <1>2 DEF Headers
  <2>2. Changed(c, h) \in Header
    BY <2>1, ChangedTyped
  <2>3. \A i \in Bits : Changed(c, h)[i] \in r[i]
    BY <1>1, <2>1, ChosenBit DEF Changed, Rewrite
  <2> QED BY <2>2, <2>3 DEF Headers
<1>3. ASSUME NEW g \in Headers(r) PROVE \E h \in Headers(a) : g = Changed(c, h)
  <2> DEFINE h == [i \in Bits |-> IF c.mask[i] = Zero THEN Value(a[i])
                                  ELSE g[i]]
  <2>1. g \in Header /\ \A i \in Bits : g[i] \in r[i]
    BY <1>3 DEF Headers
  <2>2. ASSUME NEW i \in Bits PROVE h[i] \in a[i] /\ h[i] \in {0, 1}
    <3>1. Value(a[i]) \in a[i] /\ a[i] \subseteq {0, 1}
      BY ChosenOf, BitValues DEF Vector, Zero, One, X
    <3>2. c.mask[i] # Zero => g[i] \in a[i]
      BY <2>1 DEF Rewrite
    <3> QED BY <3>1, <3>2
  <2>3. h \in Headers(a)
    BY <2>2 DEF Headers, Header
  <2>4. ASSUME NEW i \in Bits PROVE g[i] = Changed(c, h)[i]
    <3>1. Changed(c, h)[i] = IF c.mask[i] = Zero THEN Value(c.rewrite[i]) ELSE h[i]
      BY DEF Changed
    <3>2. c.mask[i] = Zero => g[i] \in c.rewrite[i]
      BY <2>1 DEF Rewrite
    <3>3. c.rewrite[i] = {Value(c.rewrite[i])}
      BY <1>1, ChosenBit
    <3> QED BY <3>1, <3>2, <3>3
  <2>5. g = Changed(c, h)
    BY <2>1, <2>4 DEF Changed, Header
  <2> QED BY <2>3, <2>5
<1> QED BY <1>2, <1>3

(* A vector that has in every bit that is set the value it is set to.      *)
InRange(c, b) == \A i \in Bits : c.mask[i] = Zero => b[i] = c.rewrite[i]

(* HeaderChanger::inverse: a vector that lies in the range of a changer is *)
(* taken back to exactly the headers that become one of its own.  It is    *)
(* so for the intersection of anything with the domain of an edge, which   *)
(* is what the flow predictor takes back.                                  *)
THEOREM InverseExact ==
  ASSUME NEW c, IsChanger(c), NEW b \in Vector, InRange(c, b)
  PROVE  Headers(Rewrite(b, c.mask, c.inverse)) =
           {h \in Header : Changed(c, h) \in Headers(b)}
<1> DEFINE r == Rewrite(b, c.mask, c.inverse)
<1>1. \A i \in Bits : c.mask[i] \in {Zero, One} /\ c.rewrite[i] \in {Zero, One}
  BY DEF IsChanger, Transparent
<1>2. \A i \in Bits : c.inverse[i] = X <=> c.mask[i] = Zero
  BY DEF IsChanger
<1>3. ASSUME NEW h \in Header, NEW i \in Bits
      PROVE  h[i] \in r[i] <=> Changed(c, h)[i] \in b[i]
  <2>1. h[i] \in {0, 1}
    BY <1>3 DEF Header
  <2>2. CASE c.mask[i] = Zero
    <3>1. r[i] = X
      BY <1>2, <2>2 DEF Rewrite
    <3>2. Changed(c, h)[i] = Value(c.rewrite[i])
      BY <2>2 DEF Changed
    <3>3. Value(c.rewrite[i]) \in b[i]
      <4>1. b[i] = c.rewrite[i]
        BY <2>2 DEF InRange
      <4>2. Value(c.rewrite[i]) \in c.rewrite[i]
        BY <1>1, <1>3, ChosenOf
      <4> QED BY <4>1, <4>2
    <3>4. h[i] \in X
      BY <2>1 DEF X
    <3> QED BY <3>1, <3>2, <3>3, <3>4
  <2>3. CASE c.mask[i] = One
    BY <2>3, BitsDiffer DEF Changed, Rewrite
  <2> QED BY <1>1, <1>3, <2>2, <2>3
<1>4. ASSUME NEW h \in Header PROVE Changed(c, h) \in Header
  BY <1>4, ChangedTyped
<1> QED BY <1>3, <1>4 DEF Headers

(* hs_rewrite keeps a difference that has as many x's in the set bits as   *)
(* its element.  For a difference within the element it then has them in   *)
(* the same bits, so that what is taken from the element before is what is *)
(* taken from it afterwards.                                               *)
THEOREM KeptDifferenceExact ==
  ASSUME NEW c, IsChanger(c), NEW a \in Vector, NEW d \in Vector, IsSub(a, d),
         XCount(d, c.mask) = XCount(a, c.mask)
  PROVE  {Changed(c, h) : h \in Headers(a) \ Headers(d)} =
           Headers(Rewrite(a, c.mask, c.rewrite))
             \ Headers(Rewrite(d, c.mask, c.rewrite))
<1> DEFINE Wild(b) == {i \in Bits : c.mask[i] = Zero /\ b[i] = X}
<1>1. Wild(d) \subseteq Wild(a)
  BY BitValues DEF IsSub, X
<1>2. IsFiniteSet(Wild(a)) /\ IsFiniteSet(Wild(d))
  <2>1. IsFiniteSet(Bits)
    <3>1. 1 \in Int /\ Width \in Int
      BY WidthAssumption
    <3> QED BY <3>1, FS_Interval, Zenon DEF Bits
  <2>2. Wild(a) \subseteq Bits /\ Wild(d) \subseteq Bits
    OBVIOUS
  <2> QED BY <2>1, <2>2, FS_Subset, Zenon
<1>3. Wild(d) = Wild(a)
  <2>1. Cardinality(Wild(d)) = Cardinality(Wild(a))
    BY DEF XCount
  <2> HIDE DEF Wild
  <2> QED BY <1>1, <1>2, <2>1, FS_Subset
<1>4. ASSUME NEW i \in Bits, c.mask[i] = Zero PROVE d[i] = a[i]
  <2>1. d[i] \subseteq a[i] /\ d[i] \in {Zero, One, X} /\ a[i] \in {Zero, One, X}
    BY BitValues DEF IsSub
  <2>2. d[i] = X <=> a[i] = X
    BY <1>3, <1>4
  <2> QED BY <2>1, <2>2 DEF Zero, One, X
<1>5. \A i \in Bits : c.mask[i] \in {Zero, One} /\ c.rewrite[i] \in {Zero, One}
  BY DEF IsChanger, Transparent
<1>6. ASSUME NEW h \in Headers(a)
      PROVE  h \in Headers(d) <=> Changed(c, h) \in Headers(Rewrite(d, c.mask, c.rewrite))
  <2>1. h \in Header /\ \A i \in Bits : h[i] \in a[i]
    BY <1>6 DEF Headers
  <2>2. Changed(c, h) \in Header
    BY <2>1, ChangedTyped
  <2>3. ASSUME NEW i \in Bits
        PROVE  h[i] \in d[i] <=> Changed(c, h)[i] \in Rewrite(d, c.mask, c.rewrite)[i]
    <3>1. CASE c.mask[i] = Zero
      BY <1>4, <1>5, <2>1, <3>1, ChosenBit DEF Changed, Rewrite
    <3>2. CASE c.mask[i] # Zero
      BY <3>2 DEF Changed, Rewrite
    <3> QED BY <3>1, <3>2
  <2> QED BY <2>1, <2>2, <2>3 DEF Headers
<1> QED BY <1>6, RewriteExact

(***************************************************************************)
(* Elements and spaces                                                     *)
(***************************************************************************)
(* What is taken from an element.                                          *)
Taken(h, ds) == \E i \in DOMAIN ds : h \in Headers(ds[i])

LEMMA OfElement ==
  ASSUME NEW e \in Elements, NEW h
  PROVE  h \in HeadersOf(e) <=> h \in Headers(e.mask) /\ ~Taken(h, e.diff)
BY DEF HeadersOf, Taken, ToSet

LEMMA InSpace ==
  ASSUME NEW s, NEW h
  PROVE  h \in HeadersIn(s) <=> \E i \in DOMAIN s : h \in HeadersOf(s[i])
BY DEF HeadersIn, ToSet

LEMMA SomeHeaders ==
  ASSUME NEW a \in Vector
  PROVE  Headers(a) # {} /\ Headers(a) \subseteq Header
<1>1. a \in [Bits -> SUBSET {0, 1}] /\ ~HasZ(a)
  BY BitValues DEF HasZ, Vector, Zero, One, X
<1>2. 1 \in Bits
  BY WidthAssumption DEF Bits
<1>3. PICK v \in a[1] : TRUE
  BY <1>1, <1>2 DEF HasZ
<1> QED BY <1>1, <1>2, <1>3, SomeHeader DEF Headers

LEMMA WholeVector == Whole \in Vector /\ Headers(Whole) = Header
BY DEF Whole, Vector, Headers, Header, X

LEMMA MeetTyped ==
  ASSUME NEW a \in Vector, NEW b \in Vector, ~Disjoint(a, b)
  PROVE  Isect(a, b) \in Vector
<1>1. ASSUME NEW i \in Bits PROVE Isect(a, b)[i] \in {Zero, One, X}
  <2>1. Isect(a, b)[i] = a[i] \cap b[i] /\ a[i] \cap b[i] # {}
    BY DEF Isect, Disjoint, HasZ
  <2>2. a[i] \in {Zero, One, X} /\ b[i] \in {Zero, One, X}
    BY BitValues
  <2> QED BY <2>1, <2>2 DEF Zero, One, X
<1>2. Isect(a, b) = [i \in Bits |-> Isect(a, b)[i]]
  BY DEF Isect
<1> QED BY <1>1, <1>2 DEF Vector

LEMMA SubFacts ==
  /\ \A a : IsSub(a, a)
  /\ \A a, b, c : IsSub(a, b) /\ IsSub(b, c) => IsSub(a, c)
  /\ \A a, b : IsSub(a, Isect(a, b))
BY DEF IsSub, Isect

----
(* Lists that are joined.                                                  *)
LEMMA FlattenMembers ==
  ASSUME NEW T, NEW seqs \in Seq(Seq(T)), NEW x
  PROVE  x \in ToSet(FlattenSeq(seqs)) <=> \E i \in DOMAIN seqs : x \in ToSet(seqs[i])
<1> DEFINE In(b) == \A i \in DOMAIN b : ToSet(b[i]) \subseteq ToSet(FlattenSeq(b))
           S == {b \in Seq(Seq(T)) : In(b)}
<1>1. <<>> \in S
  OBVIOUS
<1>2. ASSUME NEW b \in S, NEW z \in Seq(T) PROVE Append(b, z) \in S
  <2> DEFINE c == Append(b, z)
  <2>1. b \in Seq(Seq(T)) /\ In(b) /\ c \in Seq(Seq(T))
    OBVIOUS
  <2>2. FlattenSeq(c) = FlattenSeq(b) \o z /\ FlattenSeq(b) \in Seq(T)
    BY <2>1, FlattenAppend, FlattenType
  <2>3. ToSet(FlattenSeq(b) \o z) = ToSet(FlattenSeq(b)) \cup ToSet(z)
    <3> DEFINE y == FlattenSeq(b)
    <3>1. y \in Seq(T)
      BY <2>2
    <3> HIDE DEF y
    <3>2. ToSet(y \o z) = ToSet(y) \cup ToSet(z)
      BY <3>1, JoinedElements
    <3> QED BY <3>2 DEF y
  <2>4. ASSUME NEW i \in DOMAIN c PROVE ToSet(c[i]) \subseteq ToSet(FlattenSeq(c))
    <3>1. CASE i = Len(b) + 1
      <4>1. c[i] = z
        BY <2>1, <3>1
      <4> QED BY <2>2, <2>3, <4>1
    <3>2. CASE i # Len(b) + 1
      <4>1. i \in DOMAIN b /\ c[i] = b[i]
        BY <2>1, <2>4, <3>2
      <4> QED BY <2>1, <2>2, <2>3, <4>1
    <3> QED BY <3>1, <3>2
  <2>5. In(c)
    BY <2>4
  <2> QED BY <2>1, <2>5
<1>3. S \in SUBSET Seq(Seq(T))
  OBVIOUS
<1> HIDE DEF S
<1>4. S = Seq(Seq(T))
  BY <1>1, <1>2, <1>3, SequenceInduction
<1>5. In(seqs)
  BY <1>4 DEF S
<1> QED BY <1>5, FlattenElements

LEMMA WithinFacts ==
  ASSUME NEW a \in Vector, NEW ds \in Seq(Vector)
  PROVE  /\ Within(a, ds) \in Seq(Vector)
         /\ \A h : Taken(h, Within(a, ds)) <=> h \in Headers(a) /\ Taken(h, ds)
         /\ \A i \in DOMAIN Within(a, ds) : IsSub(a, Within(a, ds)[i])
<1> DEFINE part(k) == IF Disjoint(a, ds[k]) THEN <<>> ELSE <<Isect(a, ds[k])>>
           parts == [k \in DOMAIN ds |-> part(k)]
           w == Within(a, ds)
<1>1. w = FlattenSeq(parts)
  BY DEF Within
<1>2. \A k \in DOMAIN ds : ds[k] \in Vector
  OBVIOUS
<1>3. ASSUME NEW k \in DOMAIN ds
      PROVE  /\ part(k) \in Seq(Vector)
             /\ \A x : x \in ToSet(part(k)) <=> ~Disjoint(a, ds[k]) /\ x = Isect(a, ds[k])
  <2>1. CASE Disjoint(a, ds[k])
    <3>1. part(k) = <<>>
      BY <2>1
    <3>2. DOMAIN <<>> = {} /\ <<>> \in Seq(Vector)
      OBVIOUS
    <3> QED BY <2>1, <3>1, <3>2 DEF ToSet
  <2>2. CASE ~Disjoint(a, ds[k])
    <3>1. part(k) = <<Isect(a, ds[k])>> /\ Isect(a, ds[k]) \in Vector
      BY <1>2, <2>2, MeetTyped
    <3> HIDE DEF part
    <3>2. DOMAIN part(k) = {1} /\ part(k)[1] = Isect(a, ds[k]) /\ part(k) \in Seq(Vector)
      BY <3>1
    <3> QED BY <2>2, <3>2 DEF ToSet
  <2> QED BY <2>1, <2>2
<1> HIDE DEF part
<1>4. parts \in Seq(Seq(Vector)) /\ DOMAIN parts = DOMAIN ds
  <2>1. \A k \in DOMAIN ds : part(k) \in Seq(Vector)
    BY <1>3
  <2>2. DOMAIN ds = 1 .. Len(ds) /\ Len(ds) \in Nat
    OBVIOUS
  <2> QED BY <2>1, <2>2
<1>5. w \in Seq(Vector)
  BY <1>1, <1>4, FlattenType
<1>6. \A x : x \in ToSet(w) <=>
        \E k \in DOMAIN ds : ~Disjoint(a, ds[k]) /\ x = Isect(a, ds[k])
  <2>1. \A x : x \in ToSet(w) <=> \E k \in DOMAIN parts : x \in ToSet(parts[k])
    BY <1>1, <1>4, FlattenMembers
  <2> QED BY <1>3, <1>4, <2>1
<1> HIDE DEF parts, w
<1>7. ASSUME NEW h
      PROVE  Taken(h, w) <=> h \in Headers(a) /\ Taken(h, ds)
  <2>1. Taken(h, w) <=> \E x \in ToSet(w) : h \in Headers(x)
    BY DEF Taken, ToSet
  <2>2. \A k \in DOMAIN ds : Headers(Isect(a, ds[k])) = Headers(a) \cap Headers(ds[k])
    BY <1>2, IsectExact
  <2>3. \A k \in DOMAIN ds : Disjoint(a, ds[k]) <=> Headers(a) \cap Headers(ds[k]) = {}
    BY <1>2, DisjointExact
  <2> QED BY <1>6, <2>1, <2>2, <2>3 DEF Taken
<1>8. ASSUME NEW i \in DOMAIN w PROVE IsSub(a, w[i])
  <2>1. w[i] \in ToSet(w)
    BY DEF ToSet
  <2> QED BY <1>6, <2>1, SubFacts
<1> QED BY <1>5, <1>7, <1>8 DEF w

(***************************************************************************)
(* Sum and intersection                                                    *)
(***************************************************************************)
LEMMA JoinOf ==
  ASSUME NEW T, NEW n \in Nat, NEW f \in [1 .. n -> Seq(T)]
  PROVE  /\ FlattenSeq(f) \in Seq(T)
         /\ \A x : x \in ToSet(FlattenSeq(f)) <=> \E i \in 1 .. n : x \in ToSet(f[i])
<1>1. f \in Seq(Seq(T)) /\ DOMAIN f = 1 .. n
  OBVIOUS
<1> QED BY <1>1, FlattenType, FlattenMembers

LEMMA ElementParts ==
  /\ \A e \in Elements : e.mask \in Vector /\ e.diff \in Seq(Vector)
  /\ \A a \in Vector, ds \in Seq(Vector) : [mask |-> a, diff |-> ds] \in Elements
BY DEF Elements

LEMMA SpaceParts ==
  ASSUME NEW s \in HeaderSpace
  PROVE  /\ s \in Seq(Elements) /\ Len(s) \in Nat /\ DOMAIN s = 1 .. Len(s)
         /\ \A i \in DOMAIN s : s[i] \in Elements
         /\ \A i \in DOMAIN s : s[i].mask \in Vector /\ s[i].diff \in Seq(Vector)
BY ElementParts DEF HeaderSpace

LEMMA EmptyList == DOMAIN <<>> = {} /\ ToSet(<<>>) = {} /\ \A T : <<>> \in Seq(T)
BY DEF ToSet

LEMMA OneList ==
  ASSUME NEW T, NEW x \in T
  PROVE  /\ <<x>> \in Seq(T) /\ Len(<<x>>) = 1 /\ DOMAIN <<x>> = {1} /\ <<x>>[1] = x
         /\ ToSet(<<x>>) = {x} /\ <<x>> # <<>>
BY DEF ToSet

LEMMA InList ==
  ASSUME NEW s, NEW h
  PROVE  h \in HeadersIn(s) <=> \E e \in ToSet(s) : h \in HeadersOf(e)
BY DEF HeadersIn

LEMMA TakenOf ==
  ASSUME NEW ds, NEW h
  PROVE  Taken(h, ds) <=> \E d \in ToSet(ds) : h \in Headers(d)
BY DEF Taken, ToSet

LEMMA TakenJoin ==
  ASSUME NEW ds \in Seq(Vector), NEW es \in Seq(Vector), NEW h
  PROVE  Taken(h, ds \o es) <=> Taken(h, ds) \/ Taken(h, es)
BY JoinedElements, TakenOf

LEMMA MeetFacts ==
  ASSUME NEW e \in Elements, NEW f \in Elements
  PROVE  /\ Common(e, f) \in Seq(Elements)
         /\ \A h : h \in HeadersIn(Common(e, f)) <=> h \in HeadersOf(e) /\ h \in HeadersOf(f)
         /\ e.diff = <<>> /\ f.diff = <<>> => \A g \in ToSet(Common(e, f)) : g.diff = <<>>
<1> DEFINE a == Isect(e.mask, f.mask)
           we == Within(a, e.diff)
           wf == Within(a, f.diff)
           g == [mask |-> a, diff |-> we \o wf]
<1>1. e.mask \in Vector /\ f.mask \in Vector /\ e.diff \in Seq(Vector) /\ f.diff \in Seq(Vector)
  BY ElementParts
<1>2. Headers(a) = Headers(e.mask) \cap Headers(f.mask)
  BY <1>1, IsectExact
<1>3. HasZ(a) <=> Headers(a) = {}
  BY <1>1, <1>2, DisjointExact DEF Disjoint
<1>4. CASE HasZ(a)
  <2>1. Common(e, f) = <<>>
    BY <1>4 DEF Common
  <2>2. \A h : h \in HeadersOf(e) /\ h \in HeadersOf(f) => h \in Headers(a)
    BY <1>2, OfElement
  <2> QED BY <1>3, <1>4, <2>1, <2>2, EmptyList, InList
<1>5. CASE ~HasZ(a)
  <2>1. Common(e, f) = <<g>>
    BY <1>5 DEF Common
  <2>2. a \in Vector
    BY <1>1, <1>5, MeetTyped DEF Disjoint
  <2> HIDE DEF a
  <2>3. /\ we \in Seq(Vector) /\ wf \in Seq(Vector)
        /\ \A h : Taken(h, we) <=> h \in Headers(a) /\ Taken(h, e.diff)
        /\ \A h : Taken(h, wf) <=> h \in Headers(a) /\ Taken(h, f.diff)
    BY <1>1, <2>2, WithinFacts
  <2> HIDE DEF we, wf
  <2>4. we \o wf \in Seq(Vector)
    BY <2>3, JoinFacts
  <2>5. g \in Elements
    BY <2>2, <2>4, ElementParts
  <2>6. g.mask = a /\ g.diff = we \o wf
    OBVIOUS
  <2> HIDE DEF g
  <2>7. Common(e, f) \in Seq(Elements) /\ ToSet(Common(e, f)) = {g}
    BY <2>1, <2>5, OneList
  <2>8. ASSUME NEW h
        PROVE  h \in HeadersIn(Common(e, f)) <=> h \in HeadersOf(e) /\ h \in HeadersOf(f)
    <3>1. h \in HeadersIn(Common(e, f)) <=> h \in HeadersOf(g)
      BY <2>7, InList
    <3>2. h \in HeadersOf(g) <=> h \in Headers(a) /\ ~Taken(h, we \o wf)
      BY <2>5, <2>6, OfElement
    <3>3. Taken(h, we \o wf) <=> Taken(h, we) \/ Taken(h, wf)
      BY <2>3, TakenJoin
    <3>4. h \in HeadersOf(e) <=> h \in Headers(e.mask) /\ ~Taken(h, e.diff)
      BY OfElement
    <3>5. h \in HeadersOf(f) <=> h \in Headers(f.mask) /\ ~Taken(h, f.diff)
      BY OfElement
    <3> QED BY <1>2, <2>3, <3>1, <3>2, <3>3, <3>4, <3>5
  <2>9. ASSUME e.diff = <<>>, f.diff = <<>> PROVE g.diff = <<>>
    <3>1. \A b : Within(b, <<>>) = <<>>
      <4>1. \A b : [k \in DOMAIN <<>> |-> IF Disjoint(b, <<>>[k]) THEN <<>> ELSE <<Isect(b, <<>>[k])>>] = <<>>
        BY EmptyList
      <4> QED BY <4>1, FlattenEmpty DEF Within
    <3>2. we = <<>> /\ wf = <<>>
      BY <2>9, <3>1 DEF we, wf
    <3>3. <<>> \o <<>> = <<>>
      OBVIOUS
    <3> QED BY <2>6, <3>2, <3>3
  <2> QED BY <2>7, <2>8, <2>9
<1> QED BY <1>4, <1>5

(* vec_isect_a: the elements of the two, each with each, stand for what    *)
(* the spaces have in common.                                              *)
THEOREM AndExact ==
  ASSUME NEW s \in HeaderSpace, NEW t \in HeaderSpace
  PROVE  /\ And(s, t) \in HeaderSpace
         /\ HeadersIn(And(s, t)) = HeadersIn(s) \cap HeadersIn(t)
         /\ ~HasDiffs(s) /\ ~HasDiffs(t) => ~HasDiffs(And(s, t))
<1> DEFINE row(i) == [j \in DOMAIN t |-> Common(s[i], t[j])]
           rows == [i \in DOMAIN s |-> FlattenSeq(row(i))]
<1>1. /\ Len(s) \in Nat /\ DOMAIN s = 1 .. Len(s) /\ \A i \in DOMAIN s : s[i] \in Elements
      /\ Len(t) \in Nat /\ DOMAIN t = 1 .. Len(t) /\ \A j \in DOMAIN t : t[j] \in Elements
  BY SpaceParts
<1>2. ASSUME NEW i \in DOMAIN s
      PROVE  /\ FlattenSeq(row(i)) \in Seq(Elements)
             /\ \A e : e \in ToSet(FlattenSeq(row(i))) <=>
                         \E j \in DOMAIN t : e \in ToSet(Common(s[i], t[j]))
  <2>1. row(i) \in [1 .. Len(t) -> Seq(Elements)] /\ \A j \in DOMAIN t : row(i)[j] = Common(s[i], t[j])
    BY <1>1, MeetFacts
  <2> HIDE DEF row
  <2> QED BY <1>1, <2>1, JoinOf
<1>3. And(s, t) = FlattenSeq(rows)
  BY DEF And
<1> HIDE DEF row
<1>4. rows \in [1 .. Len(s) -> Seq(Elements)] /\ \A i \in DOMAIN s : rows[i] = FlattenSeq(row(i))
  BY <1>1, <1>2
<1> HIDE DEF rows
<1>5. /\ And(s, t) \in Seq(Elements)
      /\ \A e : e \in ToSet(And(s, t)) <=>
                  \E i \in DOMAIN s, j \in DOMAIN t : e \in ToSet(Common(s[i], t[j]))
  <2>1. /\ And(s, t) \in Seq(Elements)
        /\ \A e : e \in ToSet(And(s, t)) <=> \E i \in 1 .. Len(s) : e \in ToSet(rows[i])
    BY <1>1, <1>3, <1>4, JoinOf
  <2> QED BY <1>1, <1>2, <1>4, <2>1
<1>6. ASSUME NEW h
      PROVE  h \in HeadersIn(And(s, t)) <=> h \in HeadersIn(s) /\ h \in HeadersIn(t)
  <2>1. h \in HeadersIn(And(s, t)) <=>
          \E i \in DOMAIN s, j \in DOMAIN t : h \in HeadersIn(Common(s[i], t[j]))
    BY <1>5, InList
  <2>2. \A i \in DOMAIN s, j \in DOMAIN t :
          h \in HeadersIn(Common(s[i], t[j])) <=> h \in HeadersOf(s[i]) /\ h \in HeadersOf(t[j])
    BY <1>1, MeetFacts
  <2> QED BY <2>1, <2>2, InSpace
<1>7. ASSUME ~HasDiffs(s), ~HasDiffs(t) PROVE ~HasDiffs(And(s, t))
  <2>1. \A e \in ToSet(And(s, t)) : e.diff = <<>>
    <3>1. \A i \in DOMAIN s, j \in DOMAIN t : s[i].diff = <<>> /\ t[j].diff = <<>>
      BY <1>7 DEF HasDiffs
    <3>2. ASSUME NEW i \in DOMAIN s, NEW j \in DOMAIN t, NEW e \in ToSet(Common(s[i], t[j]))
          PROVE  e.diff = <<>>
      BY <1>1, <3>1, MeetFacts
    <3> QED BY <1>5, <3>2
  <2> QED BY <2>1 DEF HasDiffs, ToSet
<1> QED BY <1>5, <1>6, <1>7 DEF HeaderSpace

LEMMA PlusExact ==
  ASSUME NEW s \in HeaderSpace, NEW t \in HeaderSpace
  PROVE  /\ Plus(s, t) \in HeaderSpace
         /\ HeadersIn(Plus(s, t)) = HeadersIn(s) \cup HeadersIn(t)
<1>1. s \in Seq(Elements) /\ t \in Seq(Elements)
  BY DEF HeaderSpace
<1>2. s \o t \in Seq(Elements) /\ ToSet(s \o t) = ToSet(s) \cup ToSet(t)
  BY <1>1, JoinedElements, JoinFacts
<1>3. \A h : h \in HeadersIn(s \o t) <=> h \in HeadersIn(s) \/ h \in HeadersIn(t)
  BY <1>2, InList
<1> QED BY <1>2, <1>3 DEF Plus, HeaderSpace
----
(* hs_diff                                                                 *)
LEMMA TakeVectorExact ==
  ASSUME NEW s \in HeaderSpace, NEW a \in Vector
  PROVE  /\ TakeVector(s, a) \in HeaderSpace /\ Len(TakeVector(s, a)) = Len(s)
         /\ HeadersIn(TakeVector(s, a)) = HeadersIn(s) \ Headers(a)
<1> DEFINE more(i) == s[i].diff \o Within(s[i].mask, <<a>>)
           e(i) == [mask |-> s[i].mask, diff |-> more(i)]
           t == [i \in DOMAIN s |-> e(i)]
<1>1. /\ Len(s) \in Nat /\ DOMAIN s = 1 .. Len(s)
      /\ \A i \in DOMAIN s : s[i] \in Elements /\ s[i].mask \in Vector /\ s[i].diff \in Seq(Vector)
  BY SpaceParts
<1>2. TakeVector(s, a) = t
  <2>1. ASSUME NEW i \in DOMAIN s
        PROVE  [s[i] EXCEPT !.diff = @ \o Within(s[i].mask, <<a>>)] = e(i)
    <3> DEFINE w == Within(s[i].mask, <<a>>)
    <3>1. \E m \in Vector, d \in Seq(Vector) : s[i] = [mask |-> m, diff |-> d]
      BY <1>1 DEF Elements
    <3>2. PICK m, d : s[i] = [mask |-> m, diff |-> d]
      BY <3>1
    <3> HIDE DEF w
    <3>3. [s[i] EXCEPT !.diff = @ \o w] = [mask |-> m, diff |-> d \o w]
      <4> DEFINE u == s[i].diff \o w
      <4>1. u = d \o w
        BY <3>2
      <4> HIDE DEF u
      <4>2. [s[i] EXCEPT !.diff = u] = [mask |-> m, diff |-> u]
        BY <3>2
      <4> QED BY <4>1, <4>2 DEF u
    <3>4. s[i].mask = m /\ s[i].diff = d
      BY <3>2
    <3> QED BY <3>3, <3>4 DEF w
  <2> QED BY <2>1 DEF TakeVector
<1>3. /\ <<a>> \in Seq(Vector) /\ \A h : Taken(h, <<a>>) <=> h \in Headers(a)
  BY OneList, TakenOf
<1>4. ASSUME NEW i \in DOMAIN s
      PROVE  /\ e(i) \in Elements
             /\ \A h : h \in HeadersOf(e(i)) <=> h \in HeadersOf(s[i]) /\ h \notin Headers(a)
  <2> DEFINE w == Within(s[i].mask, <<a>>)
  <2>1. /\ w \in Seq(Vector)
        /\ \A h : Taken(h, w) <=> h \in Headers(s[i].mask) /\ Taken(h, <<a>>)
    BY <1>1, <1>3, WithinFacts
  <2> HIDE DEF w
  <2>2. more(i) = s[i].diff \o w
    BY DEF w
  <2>3. more(i) \in Seq(Vector)
    BY <1>1, <2>1, <2>2, JoinFacts
  <2>4. \A h : Taken(h, more(i)) <=> Taken(h, s[i].diff) \/ Taken(h, w)
    BY <1>1, <2>1, <2>2, TakenJoin
  <2> HIDE DEF more
  <2>5. e(i) \in Elements /\ e(i).mask = s[i].mask /\ e(i).diff = more(i)
    BY <1>1, <2>3, ElementParts
  <2> HIDE DEF e
  <2>6. ASSUME NEW h
        PROVE  h \in HeadersOf(e(i)) <=> h \in HeadersOf(s[i]) /\ h \notin Headers(a)
    <3>1. h \in HeadersOf(e(i)) <=> h \in Headers(s[i].mask) /\ ~Taken(h, more(i))
      BY <2>5, OfElement
    <3>2. h \in HeadersOf(s[i]) <=> h \in Headers(s[i].mask) /\ ~Taken(h, s[i].diff)
      BY <1>1, OfElement
    <3> QED BY <1>3, <2>1, <2>4, <3>1, <3>2
  <2> QED BY <2>5, <2>6
<1> HIDE DEF e
<1>5. t \in Seq(Elements) /\ Len(t) = Len(s) /\ DOMAIN t = DOMAIN s /\ \A i \in DOMAIN s : t[i] = e(i)
  BY <1>1, <1>4
<1> HIDE DEF t
<1>6. \A h : h \in HeadersIn(t) <=> h \in HeadersIn(s) /\ h \notin Headers(a)
  BY <1>4, <1>5, InSpace
<1> QED BY <1>2, <1>5, <1>6 DEF HeaderSpace

(***************************************************************************)
(* The loops, and the larger of two vectors                                *)
(***************************************************************************)
(* The first n + 1 states of a loop.                                       *)
Steps(f, step, l, n) == f = [k \in 0 .. n |-> IF k = 0 THEN l ELSE step[f[k - 1]]]

LEMMA RoundsExist ==
  ASSUME NEW Z, NEW step \in [Z -> Z], NEW l \in Z, NEW n \in Nat
  PROVE  \E f \in [0 .. n -> Z] : Steps(f, step, l, n)
<1> USE DEF Steps
<1> DEFINE Runs(f, m) == Steps(f, step, l, m)
           N == {m \in Nat : \E f \in [0 .. m -> Z] : Runs(f, m)}
<1>1. 0 \in N
  <2> DEFINE f == [k \in 0 .. 0 |-> l]
  <2>1. f \in [0 .. 0 -> Z] /\ Runs(f, 0)
    OBVIOUS
  <2> QED BY <2>1
<1>2. ASSUME NEW m \in N PROVE m + 1 \in N
  <2>1. PICK f \in [0 .. m -> Z] : Runs(f, m)
    OBVIOUS
  <2> DEFINE g == [k \in 0 .. m + 1 |-> IF k = m + 1 THEN step[f[m]] ELSE f[k]]
  <2>2. m \in Nat
    OBVIOUS
  <2>3. g \in [0 .. m + 1 -> Z]
    BY <2>2
  <2>4. ASSUME NEW k \in 0 .. m + 1 PROVE g[k] = IF k = 0 THEN l ELSE step[g[k - 1]]
    <3>1. CASE k = m + 1
      BY <2>2, <3>1
    <3>2. CASE k \in 0 .. m
      <4>1. f[k] = IF k = 0 THEN l ELSE step[f[k - 1]]
        BY <2>1, <3>2
      <4>2. g[k] = f[k] /\ (k # 0 => g[k - 1] = f[k - 1])
        BY <2>2, <3>2
      <4> QED BY <4>1, <4>2
    <3> QED BY <2>2, <3>1, <3>2
  <2>5. g = [k \in 0 .. m + 1 |-> g[k]]
    OBVIOUS
  <2> HIDE DEF g
  <2>6. Runs(g, m + 1)
    BY <2>4, <2>5
  <2> QED BY <2>2, <2>3, <2>6
<1>3. N = Nat
  <2>1. N \in SUBSET Nat
    OBVIOUS
  <2> HIDE DEF N
  <2> QED BY <1>1, <1>2, <2>1, NaturalInduction
<1> QED BY <1>3

LEMMA RoundsReach ==
  ASSUME NEW n \in Nat, NEW g, NEW Z, g[0] \in Z[0],
         \A k \in 1 .. n : g[k - 1] \in Z[k - 1] => g[k] \in Z[k]
  PROVE  g[n] \in Z[n]
<1> DEFINE N == {m \in Nat : m <= n => g[m] \in Z[m]}
<1>1. 0 \in N
  OBVIOUS
<1>2. ASSUME NEW m \in N PROVE m + 1 \in N
  <2>1. m \in Nat
    OBVIOUS
  <2>2. ASSUME m + 1 <= n PROVE g[m + 1] \in Z[m + 1]
    <3>1. m + 1 \in 1 .. n /\ (m + 1) - 1 = m /\ m <= n
      BY <2>1, <2>2
    <3>2. g[(m + 1) - 1] \in Z[(m + 1) - 1] => g[m + 1] \in Z[m + 1]
      BY <3>1
    <3> QED BY <3>1, <3>2
  <2> QED BY <2>1, <2>2
<1>3. N = Nat
  <2>1. N \in SUBSET Nat
    OBVIOUS
  <2> HIDE DEF N
  <2> QED BY <1>1, <1>2, <2>1, NaturalInduction
<1> QED BY <1>3

LEMMA DropFacts ==
  ASSUME NEW S, NEW v \in Seq(S), NEW i \in 1 .. Len(v)
  PROVE  /\ Drop(v, i) \in Seq(S) /\ Len(Drop(v, i)) = Len(v) - 1
         /\ ToSet(v) = ToSet(Drop(v, i)) \cup {v[i]}
         /\ \A m \in 1 .. Len(v) : m # i => v[m] \in ToSet(Drop(v, i))
         /\ \A m \in 1 .. i - 1 : Drop(v, i)[m] = v[m]
<1>0. Len(v) \in Nat
  OBVIOUS
<1>1. Len(v) \in Nat /\ DOMAIN v = 1 .. Len(v) /\ \A m \in 1 .. Len(v) : v[m] \in S
  OBVIOUS
<1>2. /\ Drop(v, i) \in Seq(S) /\ Len(Drop(v, i)) = Len(v) - 1
      /\ DOMAIN Drop(v, i) = 1 .. Len(v) - 1
      /\ \A m \in 1 .. Len(v) - 1 : Drop(v, i)[m] = IF m = i THEN v[Len(v)] ELSE v[m]
  BY <1>1 DEF Drop, Last
<1>3. ASSUME NEW m \in 1 .. Len(v), m # i PROVE v[m] \in ToSet(Drop(v, i))
  <2>1. CASE m = Len(v)
    <3>1. i \in 1 .. Len(v) - 1
      BY <1>0, <1>3, <2>1
    <3>2. Drop(v, i)[i] = v[m]
      BY <1>2, <2>1, <3>1
    <3> QED BY <1>2, <3>1, <3>2 DEF ToSet
  <2>2. CASE m # Len(v)
    <3>1. m \in 1 .. Len(v) - 1
      BY <1>0, <2>2
    <3>2. Drop(v, i)[m] = v[m]
      BY <1>2, <1>3, <3>1
    <3> QED BY <1>2, <3>1, <3>2 DEF ToSet
  <2> QED BY <2>1, <2>2
<1>4. ASSUME NEW x \in ToSet(Drop(v, i)) PROVE x \in ToSet(v)
  <2>1. PICK m \in 1 .. Len(v) - 1 : x = Drop(v, i)[m]
    BY <1>2 DEF ToSet
  <2>2. x = v[Len(v)] \/ x = v[m]
    BY <1>2, <2>1
  <2>3. m \in 1 .. Len(v) /\ Len(v) \in 1 .. Len(v)
    BY <1>1
  <2> QED BY <1>1, <2>2, <2>3 DEF ToSet
<1>5. v[i] \in ToSet(v) /\ \A x \in ToSet(v) : x = v[i] \/ x \in ToSet(Drop(v, i))
  BY <1>1, <1>3 DEF ToSet
<1>6. \A m \in 1 .. i - 1 : Drop(v, i)[m] = v[m]
  BY <1>1, <1>2
<1> QED BY <1>2, <1>3, <1>4, <1>5, <1>6

(* The states of the loop of vec_compact: every vector lies in one that is *)
(* still there.                                                            *)
SweepState(T) == [v : T, i : Nat \ {0}, j : Nat \ {0}]
IsAt(l, T, w, m, n) == l \in SweepState(T) /\ l.v = w /\ l.i = m /\ l.j = n
Sweeps(keys) ==
  {l \in SweepState(Seq(DOMAIN keys)) :
     /\ l.i < l.j /\ Len(l.v) <= Len(keys)
     /\ \A k \in DOMAIN keys : \E m \in ToSet(l.v) : IsSub(keys[m], keys[k])}

LEMMA SweepSteps ==
  ASSUME NEW T, NEW l \in SweepState(T), NEW w \in T, NEW m \in Nat \ {0}, NEW n \in Nat \ {0}
  PROVE  /\ IsAt([l EXCEPT !.v = w], T, w, l.i, l.j)
         /\ IsAt([l EXCEPT !.v = w, !.j = n], T, w, l.i, n)
         /\ IsAt([l EXCEPT !.i = m, !.j = n], T, l.v, m, n)
         /\ IsAt([l EXCEPT !.j = n], T, l.v, l.i, n)
<1>1. l \in [v : T, i : Nat \ {0}, j : Nat \ {0}]
  BY DEF SweepState
<1>2. ASSUME NEW r, r = [l EXCEPT !.v = w] PROVE IsAt(r, T, w, l.i, l.j)
  BY <1>1, <1>2 DEF SweepState, IsAt
<1>3. ASSUME NEW r, r = [l EXCEPT !.v = w, !.j = n] PROVE IsAt(r, T, w, l.i, n)
  BY <1>1, <1>3 DEF SweepState, IsAt
<1>4. ASSUME NEW r, r = [l EXCEPT !.i = m, !.j = n] PROVE IsAt(r, T, l.v, m, n)
  BY <1>1, <1>4 DEF SweepState, IsAt
<1>5. ASSUME NEW r, r = [l EXCEPT !.j = n] PROVE IsAt(r, T, l.v, l.i, n)
  BY <1>1, <1>5 DEF SweepState, IsAt
<1> QED BY <1>2, <1>3, <1>4, <1>5

(* What a round of the loop does.                                          *)
LEMMA SweepCases ==
  ASSUME NEW keys, NEW S, NEW l \in SweepState(Seq(S)),
         NEW v, NEW i, NEW j, l.v = v, l.i = i, l.j = j
  PROVE  LET r == SweepRound(keys, l)
             At(w, m, n) == IsAt(r, Seq(S), w, m, n)
         IN  \/ r = l
             \/ At(v, i + 1, i + 2)
             \/ At(v, i, j + 1)
             \/ /\ i \in 1 .. Len(v) /\ j \in 1 .. Len(v)
                /\ \/ IsSub(keys[v[i]], keys[v[j]]) /\ At(Drop(v, j), i, j)
                   \/ IsSub(keys[v[j]], keys[v[i]]) /\ At(Drop(v, i), i, i + 1)
<1>1. v \in Seq(S) /\ i \in Nat \ {0} /\ j \in Nat \ {0} /\ Len(v) \in Nat
  <2>1. l.v \in Seq(S) /\ l.i \in Nat \ {0} /\ l.j \in Nat \ {0}
    BY DEF SweepState
  <2> QED BY <2>1
<1>2. i + 1 \in Nat \ {0} /\ i + 2 \in Nat \ {0} /\ j + 1 \in Nat \ {0}
  BY <1>1
<1> DEFINE r == SweepRound(keys, l)
           At(w, m, n) == IsAt(r, Seq(S), w, m, n)
           p == IsSub(keys[l.v[l.i]], keys[l.v[l.j]])
           q == IsSub(keys[l.v[l.j]], keys[l.v[l.i]])
<1>3. CASE l.i > Len(l.v)
  BY <1>3 DEF SweepRound
<1>4. CASE ~(l.i > Len(l.v)) /\ l.j > Len(l.v)
  <2>1. r = [l EXCEPT !.i = l.i + 1, !.j = l.i + 2]
    BY <1>4 DEF SweepRound
  <2>2. IsAt([l EXCEPT !.i = l.i + 1, !.j = l.i + 2], Seq(S), l.v, l.i + 1, l.i + 2)
    BY <1>1, <1>2, SweepSteps
  <2> QED BY <2>1, <2>2
<1>5. CASE ~(l.i > Len(l.v)) /\ ~(l.j > Len(l.v))
  <2>1. l.i \in 1 .. Len(l.v) /\ l.j \in 1 .. Len(l.v) /\ l.v \in Seq(S)
    BY <1>1, <1>5
  <2>2. Drop(l.v, l.i) \in Seq(S) /\ Drop(l.v, l.j) \in Seq(S)
    BY <2>1, DropFacts
  <2>3. CASE p
    <3>1. r = [l EXCEPT !.v = Drop(l.v, l.j)]
      BY <1>5, <2>3 DEF SweepRound
    <3>2. IsAt([l EXCEPT !.v = Drop(l.v, l.j)], Seq(S), Drop(l.v, l.j), l.i, l.j)
      BY <1>1, <2>2, SweepSteps
    <3> QED BY <2>1, <2>3, <3>1, <3>2
  <2>4. CASE ~p /\ q
    <3>1. r = [l EXCEPT !.v = Drop(l.v, l.i), !.j = l.i + 1]
      BY <1>5, <2>4 DEF SweepRound
    <3>2. IsAt([l EXCEPT !.v = Drop(l.v, l.i), !.j = l.i + 1], Seq(S), Drop(l.v, l.i), l.i, l.i + 1)
      BY <1>1, <1>2, <2>2, SweepSteps
    <3> QED BY <2>1, <2>4, <3>1, <3>2
  <2>5. CASE ~p /\ ~q
    <3>1. r = [l EXCEPT !.j = l.j + 1]
      BY <1>5, <2>5 DEF SweepRound
    <3>2. IsAt([l EXCEPT !.j = l.j + 1], Seq(S), l.v, l.i, l.j + 1)
      BY <1>1, <1>2, SweepSteps
    <3> QED BY <3>1, <3>2
  <2> QED BY <2>3, <2>4, <2>5
<1> QED BY <1>3, <1>4, <1>5

LEMMA SweepKeeps ==
  ASSUME NEW keys \in Seq(Vector), NEW l \in Sweeps(keys)
  PROVE  SweepRound(keys, l) \in Sweeps(keys)
<1> DEFINE S == DOMAIN keys
           r == SweepRound(keys, l)
           At(w, m, o) == IsAt(r, Seq(S), w, m, o)
           Covers(w) == \A k \in S : \E m \in ToSet(w) : IsSub(keys[m], keys[k])
<1> SUFFICES r \in Sweeps(keys)
  OBVIOUS
<1>1. l \in SweepState(Seq(S))
  BY DEF Sweeps
<1>2. PICK v \in Seq(S), i \in Nat \ {0}, j \in Nat \ {0} :
        /\ l.v = v /\ l.i = i /\ l.j = j
        /\ i < j /\ Len(v) <= Len(keys) /\ Covers(v)
  BY DEF Sweeps, SweepState
<1>3. ASSUME NEW w \in Seq(S), NEW m, NEW o, m < o, Len(w) <= Len(keys), At(w, m, o), Covers(w)
      PROVE  r \in Sweeps(keys)
  BY <1>3 DEF Sweeps, IsAt
<1>4. /\ i < i + 1 /\ i + 1 < i + 2 /\ i < j + 1 /\ i # j
      /\ Len(v) \in Nat /\ Len(keys) \in Nat /\ Len(v) - 1 <= Len(keys)
  BY <1>2
<1>5. \A a, b, c : IsSub(a, b) /\ IsSub(b, c) => IsSub(a, c)
  BY SubFacts
<1>6. ASSUME NEW w, NEW p, NEW q, ToSet(v) = ToSet(w) \cup {q}, p \in ToSet(w),
             IsSub(keys[p], keys[q])
      PROVE  Covers(w)
  <2>1. ASSUME NEW k \in S PROVE \E m \in ToSet(w) : IsSub(keys[m], keys[k])
    <3>1. PICK m \in ToSet(v) : IsSub(keys[m], keys[k])
      BY <1>2
    <3>2. CASE m = q
      <4>1. IsSub(keys[p], keys[k])
        BY <1>5, <1>6, <3>1, <3>2
      <4> QED BY <1>6, <4>1
    <3>3. CASE m # q
      BY <1>6, <3>1, <3>3
    <3> QED BY <3>2, <3>3
  <2> QED BY <2>1
<1> DEFINE Less(w, p) == /\ w \in Seq(S) /\ Len(w) = Len(v) - 1 /\ p \in ToSet(w)
<1>7. ASSUME i \in 1 .. Len(v), j \in 1 .. Len(v)
      PROVE  /\ Less(Drop(v, j), v[i]) /\ ToSet(v) = ToSet(Drop(v, j)) \cup {v[j]}
             /\ Less(Drop(v, i), v[j]) /\ ToSet(v) = ToSet(Drop(v, i)) \cup {v[i]}
  <2>1. Less(Drop(v, j), v[i]) /\ ToSet(v) = ToSet(Drop(v, j)) \cup {v[j]}
    <3>1. /\ Drop(v, j) \in Seq(S) /\ Len(Drop(v, j)) = Len(v) - 1
          /\ ToSet(v) = ToSet(Drop(v, j)) \cup {v[j]}
          /\ \A m \in 1 .. Len(v) : m # j => v[m] \in ToSet(Drop(v, j))
      BY <1>7, DropFacts
    <3> QED BY <1>4, <1>7, <3>1
  <2>2. Less(Drop(v, i), v[j]) /\ ToSet(v) = ToSet(Drop(v, i)) \cup {v[i]}
    <3>1. /\ Drop(v, i) \in Seq(S) /\ Len(Drop(v, i)) = Len(v) - 1
          /\ ToSet(v) = ToSet(Drop(v, i)) \cup {v[i]}
          /\ \A m \in 1 .. Len(v) : m # i => v[m] \in ToSet(Drop(v, i))
      BY <1>7, DropFacts
    <3> QED BY <1>4, <1>7, <3>1
  <2> QED BY <2>1, <2>2
<1>8. \/ r = l
      \/ At(v, i + 1, i + 2)
      \/ At(v, i, j + 1)
      \/ /\ i \in 1 .. Len(v) /\ j \in 1 .. Len(v)
         /\ \/ IsSub(keys[v[i]], keys[v[j]]) /\ At(Drop(v, j), i, j)
            \/ IsSub(keys[v[j]], keys[v[i]]) /\ At(Drop(v, i), i, i + 1)
  BY <1>1, <1>2, SweepCases
<1> HIDE DEF At, r, Covers
<1>9. CASE r = l
  BY <1>9
<1>10. CASE At(v, i + 1, i + 2)
  BY <1>2, <1>3, <1>4, <1>10
<1>11. CASE At(v, i, j + 1)
  BY <1>2, <1>3, <1>4, <1>11
<1>12. CASE /\ i \in 1 .. Len(v) /\ j \in 1 .. Len(v)
            /\ IsSub(keys[v[i]], keys[v[j]]) /\ At(Drop(v, j), i, j)
  <2>1. Covers(Drop(v, j))
    BY <1>6, <1>7, <1>12
  <2> QED BY <1>2, <1>3, <1>4, <1>7, <1>12, <2>1
<1>13. CASE /\ i \in 1 .. Len(v) /\ j \in 1 .. Len(v)
            /\ IsSub(keys[v[j]], keys[v[i]]) /\ At(Drop(v, i), i, i + 1)
  <2>1. Covers(Drop(v, i))
    BY <1>6, <1>7, <1>13
  <2> QED BY <1>2, <1>3, <1>4, <1>7, <1>13, <2>1
<1> QED BY <1>8, <1>9, <1>10, <1>11, <1>12, <1>13

LEMMA LargestFacts ==
  ASSUME NEW keys \in Seq(Vector)
  PROVE  /\ Largest(keys) \in Seq(DOMAIN keys) /\ Len(Largest(keys)) <= Len(keys)
         /\ \A k \in DOMAIN keys : \E m \in ToSet(Largest(keys)) : IsSub(keys[m], keys[k])
<1> DEFINE l == [v |-> [k \in DOMAIN keys |-> k], i |-> 1, j |-> 2]
           n == Len(keys) * Len(keys)
           Runs(f) == f = [k \in 0 .. n |-> IF k = 0 THEN l
                                            ELSE SweepRound(keys, f[k - 1])]
           f == CHOOSE f : Runs(f)
           step == [z \in Sweeps(keys) |-> SweepRound(keys, z)]
<1>1. Largest(keys) = f[n].v
  BY DEF Largest, Rounds
<1>2. n \in Nat
  <2>1. Len(keys) \in Nat
    OBVIOUS
  <2> QED BY <2>1
<1>3. l \in Sweeps(keys)
  <2> DEFINE v == [k \in DOMAIN keys |-> k]
  <2>1. DOMAIN keys = 1 .. Len(keys) /\ Len(keys) \in Nat
    OBVIOUS
  <2>2. v \in Seq(DOMAIN keys) /\ Len(v) = Len(keys) /\ DOMAIN v = DOMAIN keys
        /\ \A k \in DOMAIN keys : v[k] = k
    BY <2>1
  <2>3. \A k \in DOMAIN keys : k \in ToSet(v)
    BY <2>2 DEF ToSet
  <2>4. l.v = v /\ l.i = 1 /\ l.j = 2
    OBVIOUS
  <2> HIDE DEF v
  <2>5. l \in SweepState(Seq(DOMAIN keys))
    BY <2>2 DEF v, SweepState
  <2> HIDE DEF l
  <2>6. \A k \in DOMAIN keys : \E m \in ToSet(l.v) : IsSub(keys[m], keys[k])
    BY <2>3, <2>4, SubFacts
  <2>7. l.i < l.j /\ Len(l.v) <= Len(keys)
    BY <2>1, <2>2, <2>4
  <2> QED BY <2>5, <2>6, <2>7 DEF Sweeps
<1> HIDE DEF l, n
<1>4. \E g : Runs(g)
  <2>1. step \in [Sweeps(keys) -> Sweeps(keys)] /\ \A z \in Sweeps(keys) : step[z] = SweepRound(keys, z)
    BY SweepKeeps
  <2> HIDE DEF step
  <2>2. PICK g \in [0 .. n -> Sweeps(keys)] : Steps(g, step, l, n)
    BY <1>2, <1>3, <2>1, RoundsExist
  <2>3. ASSUME NEW k \in 0 .. n, k # 0 PROVE step[g[k - 1]] = SweepRound(keys, g[k - 1])
    <3>1. k - 1 \in 0 .. n
      BY <1>2, <2>3
    <3> QED BY <2>1, <2>2, <3>1
  <2>4. Runs(g)
    BY <2>2, <2>3 DEF Steps
  <2> QED BY <2>4
<1>5. Runs(f)
  BY <1>4
<1> HIDE DEF f
<1>6. f[n] \in Sweeps(keys)
  <2> DEFINE Z == [k \in 0 .. n |-> Sweeps(keys)]
  <2>1. f[0] = l /\ \A k \in 1 .. n : f[k] = SweepRound(keys, f[k - 1])
    BY <1>2, <1>5
  <2>2. \A k \in 0 .. n : Z[k] = Sweeps(keys)
    OBVIOUS
  <2>3. 0 \in 0 .. n /\ n \in 0 .. n /\ \A k \in 1 .. n : k \in 0 .. n /\ k - 1 \in 0 .. n
    BY <1>2
  <2> HIDE DEF Z
  <2>4. f[0] \in Z[0] /\ \A k \in 1 .. n : f[k - 1] \in Z[k - 1] => f[k] \in Z[k]
    BY <1>3, <2>1, <2>2, <2>3, SweepKeeps
  <2>5. f[n] \in Z[n]
    BY <1>2, <2>4, RoundsReach
  <2> QED BY <2>2, <2>3, <2>5
<1> QED BY <1>1, <1>6 DEF Sweeps, SweepState

(***************************************************************************)
(* The differences of an element are taken off                             *)
(***************************************************************************)
LEMMA Covered ==
  ASSUME NEW a \in Vector, NEW b \in Vector, IsSub(a, b)
  PROVE  Headers(b) \subseteq Headers(a)
BY IsSubExact

(* vec_compact of the vectors of an element: what they take away together  *)
(* stays the same.                                                         *)
LEMMA CompactVectorsExact ==
  ASSUME NEW ds \in Seq(Vector)
  PROVE  /\ CompactVectors(ds) \in Seq(Vector) /\ Len(CompactVectors(ds)) <= Len(ds)
         /\ \A h : Taken(h, CompactVectors(ds)) <=> Taken(h, ds)
         /\ ToSet(CompactVectors(ds)) \subseteq ToSet(ds)
<1> DEFINE v == Largest(ds)
           c == [k \in DOMAIN v |-> ds[v[k]]]
<1>1. /\ v \in Seq(DOMAIN ds) /\ Len(v) <= Len(ds)
      /\ \A k \in DOMAIN ds : \E m \in ToSet(v) : IsSub(ds[m], ds[k])
  BY LargestFacts
<1>2. CompactVectors(ds) = c
  BY DEF CompactVectors
<1> HIDE DEF v
<1>3. /\ Len(v) \in Nat /\ DOMAIN v = 1 .. Len(v)
      /\ \A k \in DOMAIN v : v[k] \in DOMAIN ds
      /\ \A k \in DOMAIN ds : ds[k] \in Vector
  BY <1>1
<1>4. c \in Seq(Vector) /\ Len(c) = Len(v) /\ DOMAIN c = DOMAIN v /\ \A k \in DOMAIN v : c[k] = ds[v[k]]
  BY <1>3
<1> HIDE DEF c
<1>5. ASSUME NEW h, Taken(h, c) PROVE Taken(h, ds)
  BY <1>3, <1>4, <1>5 DEF Taken
<1>6. ASSUME NEW h, Taken(h, ds) PROVE Taken(h, c)
  <2>1. PICK k \in DOMAIN ds : h \in Headers(ds[k])
    BY <1>6 DEF Taken
  <2>2. PICK m \in ToSet(v) : IsSub(ds[m], ds[k])
    BY <1>1
  <2>3. PICK o \in DOMAIN v : v[o] = m
    BY DEF ToSet
  <2>4. h \in Headers(c[o])
    BY <1>3, <1>4, <2>1, <2>2, <2>3, Covered
  <2> QED BY <1>4, <2>3, <2>4 DEF Taken
<1>7. ToSet(c) \subseteq ToSet(ds)
  BY <1>3, <1>4 DEF ToSet
<1> QED BY <1>1, <1>2, <1>4, <1>5, <1>6, <1>7

(* vec_compact of the elements of a space.                                 *)
LEMMA CompactElementsExact ==
  ASSUME NEW s \in HeaderSpace
  PROVE  /\ CompactElements(s) \in HeaderSpace /\ Len(CompactElements(s)) <= Len(s)
         /\ ToSet(CompactElements(s)) \subseteq ToSet(s)
         /\ Plain(s) => HeadersIn(CompactElements(s)) = HeadersIn(s)
<1> DEFINE keys == [k \in DOMAIN s |-> s[k].mask]
           v == Largest(keys)
           c == [k \in DOMAIN v |-> s[v[k]]]
<1>1. /\ Len(s) \in Nat /\ DOMAIN s = 1 .. Len(s)
      /\ \A k \in DOMAIN s : s[k] \in Elements /\ s[k].mask \in Vector
  BY SpaceParts
<1>2. /\ keys \in Seq(Vector) /\ Len(keys) = Len(s) /\ DOMAIN keys = DOMAIN s
      /\ \A k \in DOMAIN s : keys[k] = s[k].mask
  BY <1>1
<1>3. CompactElements(s) = c
  BY DEF CompactElements
<1> HIDE DEF keys
<1>4. /\ v \in Seq(DOMAIN s) /\ Len(v) <= Len(s)
      /\ \A k \in DOMAIN s : \E m \in ToSet(v) : IsSub(keys[m], keys[k])
  BY <1>2, LargestFacts
<1> HIDE DEF v
<1>5. /\ Len(v) \in Nat /\ DOMAIN v = 1 .. Len(v)
      /\ \A k \in DOMAIN v : v[k] \in DOMAIN s
  BY <1>4
<1>6. c \in Seq(Elements) /\ Len(c) = Len(v) /\ DOMAIN c = DOMAIN v /\ \A k \in DOMAIN v : c[k] = s[v[k]]
  BY <1>1, <1>5
<1> HIDE DEF c
<1>7. ToSet(c) \subseteq ToSet(s)
  BY <1>5, <1>6 DEF ToSet
<1>8. \A h \in HeadersIn(c) : h \in HeadersIn(s)
  BY <1>7, InList
<1>9. ASSUME Plain(s), NEW h \in HeadersIn(s) PROVE h \in HeadersIn(c)
  <2>1. PICK k \in DOMAIN s : h \in HeadersOf(s[k])
    BY InSpace
  <2>2. PICK m \in ToSet(v) : IsSub(keys[m], keys[k])
    BY <1>4
  <2>3. PICK o \in DOMAIN v : v[o] = m
    BY DEF ToSet
  <2>4. m \in DOMAIN s /\ c[o] = s[m] /\ IsSub(s[m].mask, s[k].mask)
    BY <1>2, <1>5, <1>6, <2>2, <2>3
  <2>5. h \in HeadersOf(s[m])
    <3>1. CASE Len(s) <= 1
      <4>1. m = k
        BY <1>1, <2>4, <3>1
      <4> QED BY <2>1, <4>1
    <3>2. CASE ~HasDiffs(s)
      <4>1. s[m].diff = <<>>
        BY <2>4, <3>2 DEF HasDiffs
      <4>2. ~Taken(h, <<>>)
        BY EmptyList, TakenOf
      <4>3. h \in Headers(s[k].mask)
        BY <1>1, <2>1, OfElement
      <4>4. h \in Headers(s[m].mask)
        BY <1>1, <2>4, <4>3, Covered
      <4> QED BY <1>1, <2>4, <4>1, <4>2, <4>4, OfElement
    <3> QED BY <1>9, <3>1, <3>2 DEF Plain
  <2> QED BY <1>6, <2>3, <2>4, <2>5, InSpace
<1> QED BY <1>3, <1>4, <1>6, <1>7, <1>8, <1>9 DEF HeaderSpace
----
(* The loop over the differences of an element.                            *)
TakeOffState == [e : Elements, j : Nat \ {0}, freed : BOOLEAN]

IsTaking(l, f, b) == l \in TakeOffState /\ l.e = f /\ l.freed = b

(* What it keeps: the headers of the element, which it has none of when it *)
(* is freed.                                                               *)
TakesOff(e) ==
  {l \in TakeOffState :
     /\ HeadersOf(l.e) = HeadersOf(e) /\ (l.freed => HeadersOf(e) = {})
     /\ IsSub(e.mask, l.e.mask) /\ Len(l.e.diff) <= Len(e.diff)}

LEMMA TakeOffParts ==
  ASSUME NEW l \in TakeOffState
  PROVE  /\ l.e \in Elements /\ l.e.mask \in Vector /\ l.e.diff \in Seq(Vector)
         /\ Len(l.e.diff) \in Nat /\ l.j \in Nat \ {0} /\ l.freed \in BOOLEAN
<1>1. l.e \in Elements /\ l.j \in Nat \ {0} /\ l.freed \in BOOLEAN
  BY DEF TakeOffState
<1>2. l.e.mask \in Vector /\ l.e.diff \in Seq(Vector)
  BY <1>1, ElementParts
<1>3. Len(l.e.diff) \in Nat
  BY <1>2
<1> QED BY <1>1, <1>2, <1>3

LEMMA TakeOffSteps ==
  ASSUME NEW l \in TakeOffState, NEW f \in Elements
  PROVE  /\ IsTaking([l EXCEPT !.e = f], f, l.freed)
         /\ IsTaking([l EXCEPT !.freed = TRUE], l.e, TRUE)
         /\ IsTaking([l EXCEPT !.j = l.j + 1], l.e, l.freed)
<1>1. l \in [e : Elements, j : Nat \ {0}, freed : BOOLEAN]
  BY DEF TakeOffState
<1>2. l.e \in Elements /\ l.j \in Nat \ {0} /\ l.freed \in BOOLEAN
  BY <1>1
<1>3. ASSUME NEW r, r = [l EXCEPT !.e = f] PROVE IsTaking(r, f, l.freed)
  BY <1>1, <1>3 DEF TakeOffState, IsTaking
<1>4. ASSUME NEW r, r = [l EXCEPT !.freed = TRUE] PROVE IsTaking(r, l.e, TRUE)
  BY <1>1, <1>4 DEF TakeOffState, IsTaking
<1>5. ASSUME NEW r, r = [l EXCEPT !.j = l.j + 1] PROVE IsTaking(r, l.e, l.freed)
  BY <1>1, <1>5 DEF TakeOffState, IsTaking
<1> QED BY <1>3, <1>4, <1>5

LEMMA TakeOffKeeps ==
  ASSUME NEW e \in Elements, NEW l \in TakesOff(e)
  PROVE  TakeOffRound(l) \in TakesOff(e)
<1> DEFINE a == l.e.mask
           ds == l.e.diff
           d == ds[l.j]
           n == Cardinality(Excess(d, a))
           r == TakeOffRound(l)
<1>1. /\ l \in TakeOffState /\ HeadersOf(l.e) = HeadersOf(e) /\ (l.freed => HeadersOf(e) = {})
      /\ IsSub(e.mask, a) /\ Len(ds) <= Len(e.diff)
  BY DEF TakesOff
<1>2. /\ l.e \in Elements /\ a \in Vector /\ ds \in Seq(Vector) /\ l.j \in Nat \ {0}
      /\ l.freed \in BOOLEAN /\ Len(ds) \in Nat
  BY <1>1, TakeOffParts
<1>0. ds \in Seq(Vector)
  BY <1>2
<1>3. CASE l.freed \/ l.j > Len(ds)
  <2>1. r = l
    BY <1>3 DEF TakeOffRound
  <2> QED BY <2>1
<1>4. CASE ~(l.freed \/ l.j > Len(ds))
  <2>1. l.j \in 1 .. Len(ds) /\ d \in Vector
    BY <1>2, <1>4
  <2>2. \A h : h \in HeadersOf(l.e) <=> h \in Headers(a) /\ ~Taken(h, ds)
    BY <1>2, OfElement
  <2>3. \A h \in Headers(d) : Taken(h, ds)
    BY <2>1 DEF Taken
  <2>4. CASE n = 0
    <3>1. r = [l EXCEPT !.freed = TRUE]
      BY <1>4, <2>4 DEF TakeOffRound
    <3>2. HeadersOf(l.e) = {}
      <4>1. Headers(a) \subseteq Headers(d)
        BY <1>2, <2>1, <2>4, CoveredExact
      <4> QED BY <2>2, <2>3, <4>1
    <3>3. r \in TakeOffState /\ r.e = l.e
      <4>1. IsTaking(r, l.e, TRUE)
        BY <1>1, <1>2, <3>1, TakeOffSteps
      <4> QED BY <4>1 DEF IsTaking
    <3> QED BY <1>1, <3>2, <3>3 DEF TakesOff
  <2>5. CASE n = 1
    <3> DEFINE b == OneBitSubtract(d, a)
               w == Drop(ds, l.j)
               f == [mask |-> b, diff |-> w]
    <3>1. r = [l EXCEPT !.e = f]
      BY <1>4, <2>5 DEF TakeOffRound
    <3>2. b \in Vector /\ Headers(b) = Headers(a) \ Headers(d)
      BY <1>2, <2>1, <2>5, OneBitSubtractExact
    <3>3. /\ w \in Seq(Vector) /\ Len(w) = Len(ds) - 1
          /\ ToSet(ds) = ToSet(w) \cup {d}
      <4>1. l.j \in 1 .. Len(ds)
        BY <2>1
      <4> HIDE DEF ds
      <4>2. /\ Drop(ds, l.j) \in Seq(Vector) /\ Len(Drop(ds, l.j)) = Len(ds) - 1
            /\ ToSet(ds) = ToSet(Drop(ds, l.j)) \cup {ds[l.j]}
        BY <1>0, <4>1, DropFacts
      <4> QED BY <4>2
    <3>4. IsSub(a, b)
      BY <1>2, <3>2, IsSubExact
    <3> HIDE DEF b, w
    <3>5. f \in Elements /\ f.mask = b /\ f.diff = w
      BY <3>2, <3>3, ElementParts
    <3> HIDE DEF f
    <3>6. \A h : Taken(h, ds) <=> Taken(h, w) \/ h \in Headers(d)
      BY <3>3, TakenOf
    <3>7. \A h : h \in HeadersOf(f) <=> h \in Headers(b) /\ ~Taken(h, w)
      BY <3>5, OfElement
    <3>8. HeadersOf(f) = HeadersOf(l.e)
      BY <2>2, <3>2, <3>6, <3>7
    <3>9. r \in TakeOffState /\ r.e = f /\ r.freed = l.freed
      <4>1. IsTaking(r, f, l.freed)
        BY <1>1, <3>1, <3>5, TakeOffSteps
      <4> QED BY <4>1 DEF IsTaking
    <3>10. IsSub(e.mask, b)
      BY <1>1, <3>4, SubFacts
    <3>11. Len(w) <= Len(e.diff)
      <4>1. e.diff \in Seq(Vector)
        BY ElementParts
      <4>2. Len(e.diff) \in Nat
        BY <4>1
      <4> QED BY <1>1, <1>2, <3>3, <4>2
    <3> QED BY <1>1, <3>5, <3>8, <3>9, <3>10, <3>11 DEF TakesOff
  <2>6. CASE n # 0 /\ n # 1
    <3>1. r = [l EXCEPT !.j = l.j + 1]
      BY <1>4, <2>6 DEF TakeOffRound
    <3>2. r \in TakeOffState /\ r.e = l.e /\ r.freed = l.freed
      <4>1. IsTaking(r, l.e, l.freed)
        BY <1>1, <1>2, <3>1, TakeOffSteps
      <4> QED BY <4>1 DEF IsTaking
    <3> QED BY <1>1, <3>2 DEF TakesOff
  <2> QED BY <2>4, <2>5, <2>6
<1> QED BY <1>3, <1>4

(* The differences of an element: it stays with the same headers, or goes  *)
(* if it has none.                                                         *)
LEMMA TakeOffExact ==
  ASSUME NEW e \in Elements
  PROVE  \/ TakeOff(e) = <<>> /\ HeadersOf(e) = {}
         \/ \E f \in Elements :
              /\ TakeOff(e) = <<f>> /\ HeadersOf(f) = HeadersOf(e)
              /\ IsSub(e.mask, f.mask) /\ Len(f.diff) <= Len(e.diff)
<1> DEFINE Z == TakesOff(e)
           l == [e |-> e, j |-> 1, freed |-> FALSE]
           n == Len(e.diff)
           Runs(f) == f = [k \in 0 .. n |-> IF k = 0 THEN l ELSE TakeOffRound(f[k - 1])]
           f == CHOOSE f : Runs(f)
           step == [z \in Z |-> TakeOffRound(z)]
<1>1. TakeOff(e) = IF f[n].freed THEN <<>> ELSE <<f[n].e>>
  BY DEF TakeOff, Rounds
<1>2. n \in Nat
  <2>1. e.diff \in Seq(Vector)
    BY ElementParts
  <2> QED BY <2>1
<1>3. l \in Z
  <2>1. l \in TakeOffState /\ l.e = e /\ l.freed = FALSE
    BY DEF TakeOffState
  <2> HIDE DEF l
  <2> QED BY <1>2, <2>1, SubFacts DEF TakesOff
<1> HIDE DEF l, n
<1>4. \A z \in Z : TakeOffRound(z) \in Z
  BY TakeOffKeeps
<1> HIDE DEF Z
<1>5. \E g : Runs(g)
  <2>1. step \in [Z -> Z] /\ \A z \in Z : step[z] = TakeOffRound(z)
    BY <1>4
  <2> HIDE DEF step
  <2>2. PICK g \in [0 .. n -> Z] : Steps(g, step, l, n)
    BY <1>2, <1>3, <2>1, RoundsExist
  <2>3. ASSUME NEW k \in 0 .. n, k # 0 PROVE step[g[k - 1]] = TakeOffRound(g[k - 1])
    <3>1. k - 1 \in 0 .. n
      BY <1>2, <2>3
    <3> QED BY <2>1, <2>2, <3>1
  <2>4. Runs(g)
    BY <2>2, <2>3 DEF Steps
  <2> QED BY <2>4
<1>6. Runs(f)
  BY <1>5
<1> HIDE DEF f
<1>7. f[n] \in Z
  <2> DEFINE Y == [k \in 0 .. n |-> Z]
  <2>1. f[0] = l /\ \A k \in 1 .. n : f[k] = TakeOffRound(f[k - 1])
    BY <1>2, <1>6
  <2>2. \A k \in 0 .. n : Y[k] = Z
    OBVIOUS
  <2>3. 0 \in 0 .. n /\ n \in 0 .. n /\ \A k \in 1 .. n : k \in 0 .. n /\ k - 1 \in 0 .. n
    BY <1>2
  <2> HIDE DEF Y
  <2>4. f[0] \in Y[0] /\ \A k \in 1 .. n : f[k - 1] \in Y[k - 1] => f[k] \in Y[k]
    BY <1>3, <1>4, <2>1, <2>2, <2>3
  <2>5. f[n] \in Y[n]
    BY <1>2, <2>4, RoundsReach
  <2> QED BY <2>2, <2>3, <2>5
<1>8. f[n].e \in Elements
  BY <1>7, TakeOffParts DEF Z, TakesOff
<1> QED BY <1>1, <1>7, <1>8 DEF Z, TakesOff

(***************************************************************************)
(* Compaction                                                              *)
(***************************************************************************)
LEMMA CompactDiffs ==
  ASSUME NEW e \in Elements
  PROVE  LET f == [e EXCEPT !.diff = CompactVectors(@)]
         IN  /\ f \in Elements /\ HeadersOf(f) = HeadersOf(e)
             /\ f.mask = e.mask /\ Len(f.diff) <= Len(e.diff)
<1> DEFINE c == CompactVectors(e.diff)
           f == [e EXCEPT !.diff = CompactVectors(@)]
<1>1. e.mask \in Vector /\ e.diff \in Seq(Vector)
  BY ElementParts
<1>2. /\ c \in Seq(Vector) /\ Len(c) <= Len(e.diff)
      /\ \A h : Taken(h, c) <=> Taken(h, e.diff)
  BY <1>1, CompactVectorsExact
<1>3. f = [e EXCEPT !.diff = c]
  OBVIOUS
<1> HIDE DEF f, c
<1>4. e \in [mask : Vector, diff : Seq(Vector)]
  BY DEF Elements
<1>5. f \in [mask : Vector, diff : Seq(Vector)] /\ f.mask = e.mask /\ f.diff = c
  BY <1>2, <1>3, <1>4
<1>6. f \in Elements
  BY <1>5 DEF Elements
<1>7. \A h : h \in HeadersOf(f) <=> h \in HeadersOf(e)
  BY <1>2, <1>5, <1>6, OfElement
<1> QED BY <1>2, <1>5, <1>6, <1>7 DEF f

(* The loop over the elements of a space: what a space becomes has its     *)
(* headers, and every element has come from one of it.                     *)
ComesFrom(g, s) ==
  \E f \in ToSet(s) : IsSub(f.mask, g.mask) /\ Len(g.diff) <= Len(f.diff)
AllState == [s : HeaderSpace, i : Nat \ {0}]
IsAll(l, s) == l \in AllState /\ l.s = s
TakesOffAll(s) ==
  {l \in AllState : /\ HeadersIn(l.s) = HeadersIn(s) /\ Len(l.s) <= Len(s)
                    /\ \A g \in ToSet(l.s) : ComesFrom(g, s)}

LEMMA AllSteps ==
  ASSUME NEW l \in AllState, NEW t \in HeaderSpace, NEW n \in Nat \ {0}
  PROVE  /\ IsAll([l EXCEPT !.s = t], t)
         /\ IsAll([l EXCEPT !.s = t, !.i = n], t)
<1>1. l \in [s : HeaderSpace, i : Nat \ {0}]
  BY DEF AllState
<1>2. ASSUME NEW r, r = [l EXCEPT !.s = t] PROVE IsAll(r, t)
  BY <1>1, <1>2 DEF AllState, IsAll
<1>3. ASSUME NEW r, r = [l EXCEPT !.s = t, !.i = n] PROVE IsAll(r, t)
  BY <1>1, <1>3 DEF AllState, IsAll
<1> QED BY <1>2, <1>3

LEMMA TakeOffAllKeeps ==
  ASSUME NEW s \in HeaderSpace, NEW l \in TakesOffAll(s)
  PROVE  TakeOffAllRound(l) \in TakesOffAll(s)
<1> DEFINE r == TakeOffAllRound(l)
           i == l.i
           e == l.s[i]
           f == [e EXCEPT !.diff = CompactVectors(@)]
           rest == TakeOff(f)
<1> SUFFICES r \in TakesOffAll(s)
  OBVIOUS
<1>1. /\ l \in AllState /\ HeadersIn(l.s) = HeadersIn(s) /\ Len(l.s) <= Len(s)
      /\ \A g \in ToSet(l.s) : ComesFrom(g, s)
  BY DEF TakesOffAll
<1>2. l.s \in HeaderSpace /\ i \in Nat \ {0}
  BY <1>1 DEF AllState
<1>3. l.s \in Seq(Elements) /\ Len(l.s) \in Nat /\ DOMAIN l.s = 1 .. Len(l.s)
  BY <1>2, SpaceParts
<1>4. Len(s) \in Nat
  BY SpaceParts
<1>5. CASE l.i > Len(l.s)
  BY <1>1, <1>5 DEF TakeOffAllRound, TakesOffAll
<1>6. CASE ~(l.i > Len(l.s))
  <2>1. i \in 1 .. Len(l.s) /\ e \in Elements /\ e \in ToSet(l.s)
    BY <1>2, <1>3, <1>6 DEF ToSet
  <2>2. /\ f \in Elements /\ HeadersOf(f) = HeadersOf(e)
        /\ f.mask = e.mask /\ Len(f.diff) <= Len(e.diff)
    BY <2>1, CompactDiffs
  <2>3. \/ rest = <<>> /\ HeadersOf(f) = {}
        \/ \E g \in Elements :
              /\ rest = <<g>> /\ HeadersOf(g) = HeadersOf(f)
              /\ IsSub(f.mask, g.mask) /\ Len(g.diff) <= Len(f.diff)
    BY <2>2, TakeOffExact
  <2>4. r = IF rest = <<>> THEN [l EXCEPT !.s = Drop(l.s, l.i)]
            ELSE [l EXCEPT !.s[l.i] = rest[1], !.i = @ + 1]
    BY <1>6 DEF TakeOffAllRound
  <2>5. CASE rest = <<>> /\ HeadersOf(f) = {}
    <3> DEFINE t == Drop(l.s, i)
    <3>1. /\ t \in Seq(Elements) /\ Len(t) = Len(l.s) - 1 /\ ToSet(l.s) = ToSet(t) \cup {e}
      <4>1. i \in 1 .. Len(l.s) /\ l.s \in Seq(Elements)
        BY <1>3, <2>1
      <4> HIDE DEF e, i
      <4>2. /\ Drop(l.s, i) \in Seq(Elements) /\ Len(Drop(l.s, i)) = Len(l.s) - 1
            /\ ToSet(l.s) = ToSet(Drop(l.s, i)) \cup {l.s[i]}
        BY <4>1, DropFacts
      <4> QED BY <4>2 DEF e
    <3>2. r = [l EXCEPT !.s = t]
      BY <2>4, <2>5
    <3> HIDE DEF t, r
    <3>3. r \in AllState /\ r.s = t
      <4>1. t \in HeaderSpace
        BY <3>1 DEF HeaderSpace
      <4>2. IsAll(r, t)
        BY <1>1, <1>2, <3>2, <4>1, AllSteps
      <4> QED BY <4>2 DEF IsAll
    <3>4. HeadersOf(e) = {}
      BY <2>2, <2>5
    <3>5. HeadersIn(t) = HeadersIn(l.s)
      <4>1. \A h : h \in HeadersIn(t) <=> h \in HeadersIn(l.s)
        BY <3>1, <3>4, InList
      <4> QED BY <4>1
    <3>6. Len(t) <= Len(s) /\ \A g \in ToSet(t) : ComesFrom(g, s)
      BY <1>1, <1>3, <1>4, <3>1
    <3> QED BY <1>1, <3>3, <3>5, <3>6 DEF TakesOffAll
  <2>6. CASE \E g \in Elements :
               /\ rest = <<g>> /\ HeadersOf(g) = HeadersOf(f)
               /\ IsSub(f.mask, g.mask) /\ Len(g.diff) <= Len(f.diff)
    <3>1. PICK g \in Elements :
               /\ rest = <<g>> /\ HeadersOf(g) = HeadersOf(f)
               /\ IsSub(f.mask, g.mask) /\ Len(g.diff) <= Len(f.diff)
      BY <2>6
    <3> DEFINE t == [l.s EXCEPT ![i] = g]
    <3>2. rest # <<>> /\ rest[1] = g
      BY <3>1, OneList
    <3>3. r = [l EXCEPT !.s = t, !.i = l.i + 1]
      BY <2>4, <3>2
    <3>4. /\ t \in Seq(Elements) /\ Len(t) = Len(l.s) /\ DOMAIN t = DOMAIN l.s
          /\ \A k \in DOMAIN l.s : t[k] = IF k = i THEN g ELSE l.s[k]
      BY <1>3, <2>1
    <3> HIDE DEF t, r
    <3>5. r \in AllState /\ r.s = t
      <4>1. t \in HeaderSpace
        BY <3>4 DEF HeaderSpace
      <4>2. IsAll(r, t)
        <5>1. l.i + 1 \in Nat \ {0}
          BY <1>2
        <5> QED BY <1>1, <3>3, <4>1, <5>1, AllSteps
      <4> QED BY <4>2 DEF IsAll
    <3>6. HeadersIn(t) = HeadersIn(l.s)
      <4>1. HeadersOf(g) = HeadersOf(l.s[i])
        BY <2>2, <3>1
      <4>2. ASSUME NEW k \in DOMAIN l.s PROVE HeadersOf(t[k]) = HeadersOf(l.s[k])
        BY <3>4, <4>1
      <4>3. \A h : h \in HeadersIn(t) <=> h \in HeadersIn(l.s)
        BY <3>4, <4>2, InSpace
      <4> QED BY <4>3
    <3>7. ComesFrom(g, s)
      <4>1. PICK b \in ToSet(s) : IsSub(b.mask, e.mask) /\ Len(e.diff) <= Len(b.diff)
        BY <1>1, <2>1 DEF ComesFrom
      <4>2. IsSub(b.mask, g.mask)
        BY <2>2, <3>1, <4>1, SubFacts
      <4>3. Len(g.diff) <= Len(b.diff)
        <5>1. b \in Elements
          BY SpaceParts DEF ToSet
        <5>2. Len(b.diff) \in Nat /\ Len(e.diff) \in Nat /\ Len(f.diff) \in Nat /\ Len(g.diff) \in Nat
          <6>1. \A x \in Elements : Len(x.diff) \in Nat
            BY ElementParts
          <6> HIDE DEF e, f
          <6> QED BY <2>1, <2>2, <5>1, <6>1
        <5> HIDE DEF e, f
        <5> QED BY <2>2, <3>1, <4>1, <5>2
      <4> QED BY <4>2, <4>3 DEF ComesFrom
    <3>8. \A x \in ToSet(t) : ComesFrom(x, s)
      <4>1. \A x \in ToSet(t) : x = g \/ x \in ToSet(l.s)
        BY <3>4 DEF ToSet
      <4> QED BY <1>1, <3>7, <4>1
    <3> QED BY <1>1, <3>4, <3>5, <3>6, <3>8 DEF TakesOffAll
  <2> QED BY <2>3, <2>5, <2>6
<1> QED BY <1>5, <1>6

LEMMA TakeOffAllExact ==
  ASSUME NEW s \in HeaderSpace
  PROVE  /\ TakeOffAll(s) \in HeaderSpace /\ HeadersIn(TakeOffAll(s)) = HeadersIn(s)
         /\ Len(TakeOffAll(s)) <= Len(s)
         /\ \A g \in ToSet(TakeOffAll(s)) : ComesFrom(g, s)
<1> DEFINE Z == TakesOffAll(s)
           l == [s |-> s, i |-> 1]
           n == Len(s)
           Runs(f) == f = [k \in 0 .. n |-> IF k = 0 THEN l ELSE TakeOffAllRound(f[k - 1])]
           f == CHOOSE f : Runs(f)
           step == [z \in Z |-> TakeOffAllRound(z)]
<1>1. TakeOffAll(s) = f[n].s
  BY DEF TakeOffAll, Rounds
<1>2. n \in Nat
  BY SpaceParts
<1>3. l \in Z
  <2>1. l \in AllState /\ l.s = s
    BY DEF AllState
  <2> HIDE DEF l
  <2>2. ASSUME NEW g \in ToSet(s) PROVE ComesFrom(g, s)
    <3>1. Len(g.diff) \in Nat
      <4>1. g \in Elements
        BY SpaceParts DEF ToSet
      <4> QED BY <4>1, ElementParts
    <3> QED BY <3>1, SubFacts DEF ComesFrom
  <2> QED BY <1>2, <2>1, <2>2 DEF TakesOffAll
<1> HIDE DEF l, n
<1>4. \A z \in Z : TakeOffAllRound(z) \in Z
  BY TakeOffAllKeeps
<1> HIDE DEF Z
<1>5. \E g : Runs(g)
  <2>1. step \in [Z -> Z] /\ \A z \in Z : step[z] = TakeOffAllRound(z)
    BY <1>4
  <2> HIDE DEF step
  <2>2. PICK g \in [0 .. n -> Z] : Steps(g, step, l, n)
    BY <1>2, <1>3, <2>1, RoundsExist
  <2>3. ASSUME NEW k \in 0 .. n, k # 0 PROVE step[g[k - 1]] = TakeOffAllRound(g[k - 1])
    <3>1. k - 1 \in 0 .. n
      BY <1>2, <2>3
    <3> QED BY <2>1, <2>2, <3>1
  <2>4. Runs(g)
    BY <2>2, <2>3 DEF Steps
  <2> QED BY <2>4
<1>6. Runs(f)
  BY <1>5
<1> HIDE DEF f
<1>7. f[n] \in Z
  <2> DEFINE Y == [k \in 0 .. n |-> Z]
  <2>1. f[0] = l /\ \A k \in 1 .. n : f[k] = TakeOffAllRound(f[k - 1])
    BY <1>2, <1>6
  <2>2. \A k \in 0 .. n : Y[k] = Z
    OBVIOUS
  <2>3. 0 \in 0 .. n /\ n \in 0 .. n /\ \A k \in 1 .. n : k \in 0 .. n /\ k - 1 \in 0 .. n
    BY <1>2
  <2> HIDE DEF Y
  <2>4. f[0] \in Y[0] /\ \A k \in 1 .. n : f[k - 1] \in Y[k - 1] => f[k] \in Y[k]
    BY <1>3, <1>4, <2>1, <2>2, <2>3
  <2>5. f[n] \in Y[n]
    BY <1>2, <2>4, RoundsReach
  <2> QED BY <2>2, <2>3, <2>5
<1> QED BY <1>1, <1>7 DEF Z, TakesOffAll, AllState

(* hs_compact: the space keeps its type, no header comes in, and none gets *)
(* lost if the space has at most one element or no differences.            *)
THEOREM CompactExact ==
  ASSUME NEW s \in HeaderSpace
  PROVE  /\ Compact(s) \in HeaderSpace /\ Len(Compact(s)) <= Len(s)
         /\ HeadersIn(Compact(s)) \subseteq HeadersIn(s)
         /\ Plain(s) => HeadersIn(Compact(s)) = HeadersIn(s)
         /\ ~HasDiffs(s) => ~HasDiffs(Compact(s))
         /\ \A g \in ToSet(Compact(s)) : ComesFrom(g, s)
<1> DEFINE t == TakeOffAll(s)
           c == CompactElements(t)
<1>1. /\ t \in HeaderSpace /\ HeadersIn(t) = HeadersIn(s) /\ Len(t) <= Len(s)
      /\ \A g \in ToSet(t) : ComesFrom(g, s)
  BY TakeOffAllExact
<1> HIDE DEF t
<1>2. /\ c \in HeaderSpace /\ Len(c) <= Len(t) /\ ToSet(c) \subseteq ToSet(t)
      /\ Plain(t) => HeadersIn(c) = HeadersIn(t)
  BY <1>1, CompactElementsExact
<1>3. Compact(s) = c
  BY DEF Compact, t
<1> HIDE DEF c
<1>4. Len(s) \in Nat /\ Len(t) \in Nat /\ Len(c) \in Nat
  BY <1>1, <1>2, SpaceParts
<1>5. \A g \in ToSet(c) : ComesFrom(g, s)
  BY <1>1, <1>2
<1>6. HeadersIn(c) \subseteq HeadersIn(s)
  BY <1>1, <1>2, InList
<1>7. ASSUME ~HasDiffs(s), NEW g, ComesFrom(g, s), g \in Elements PROVE g.diff = <<>>
  <2>1. PICK f \in ToSet(s) : Len(g.diff) <= Len(f.diff)
    BY <1>7 DEF ComesFrom
  <2>2. f.diff = <<>>
    BY <1>7 DEF HasDiffs, ToSet
  <2>3. g.diff \in Seq(Vector)
    BY <1>7, ElementParts
  <2> QED BY <2>1, <2>2, <2>3
<1>8. ASSUME NEW u \in HeaderSpace, NEW i \in DOMAIN u PROVE u[i] \in ToSet(u) /\ u[i] \in Elements
  BY SpaceParts DEF ToSet
<1>9. ~HasDiffs(s) => ~HasDiffs(t) /\ ~HasDiffs(c)
  BY <1>1, <1>2, <1>5, <1>7, <1>8 DEF HasDiffs
<1>10. Plain(s) => Plain(t)
  BY <1>1, <1>4, <1>9 DEF Plain
<1> QED BY <1>1, <1>2, <1>3, <1>4, <1>5, <1>6, <1>9, <1>10

LEMMA CompactedExact ==
  ASSUME NEW s \in HeaderSpace
  PROVE  /\ Compacted(s) \in HeaderSpace /\ Len(Compacted(s)) <= Len(s)
         /\ HeadersIn(Compacted(s)) \subseteq HeadersIn(s)
         /\ Plain(s) => HeadersIn(Compacted(s)) = HeadersIn(s)
         /\ \A g \in ToSet(Compacted(s)) : \E f \in ToSet(s) : IsSub(f.mask, g.mask)
<1>1. Len(s) \in Nat
  BY SpaceParts
<1>2. CASE HasDiffs(s)
  BY <1>2, CompactExact DEF Compacted, ComesFrom
<1>3. CASE ~HasDiffs(s)
  BY <1>1, <1>3, SubFacts DEF Compacted
<1> QED BY <1>2, <1>3

(***************************************************************************)
(* The complement of an element, and of one after the other                *)
(***************************************************************************)
NoDiffs(s) == \A e \in ToSet(s) : e.diff = <<>>

LEMMA NoDiffsOf == \A s : NoDiffs(s) <=> ~HasDiffs(s)
BY DEF NoDiffs, HasDiffs, ToSet

LEMMA ElementOf ==
  ASSUME NEW a \in Vector
  PROVE  /\ Element(a) \in Elements /\ Element(a).mask = a /\ Element(a).diff = <<>>
         /\ HeadersOf(Element(a)) = Headers(a)
<1>1. <<>> \in Seq(Vector)
  OBVIOUS
<1>2. Element(a) \in Elements /\ Element(a).mask = a /\ Element(a).diff = <<>>
  BY <1>1, ElementParts DEF Element
<1>3. \A h : ~Taken(h, <<>>)
  BY EmptyList, TakenOf
<1>4. \A h : h \in HeadersOf(Element(a)) <=> h \in Headers(a)
  BY <1>2, <1>3, OfElement
<1> QED BY <1>2, <1>4

(* A space without differences has no headers only if it is empty.         *)
LEMMA EmptyIfNone ==
  ASSUME NEW s \in HeaderSpace, NoDiffs(s)
  PROVE  s = <<>> <=> HeadersIn(s) = {}
<1>1. s = <<>> => HeadersIn(s) = {}
  BY EmptyList, InList
<1>2. ASSUME s # <<>> PROVE HeadersIn(s) # {}
  <2>1. 1 \in DOMAIN s /\ s[1] \in Elements
    BY <1>2 DEF HeaderSpace
  <2>2. s[1].diff = <<>> /\ s[1].mask \in Vector
    BY <2>1, ElementParts DEF NoDiffs, ToSet
  <2>3. PICK h : h \in Headers(s[1].mask)
    BY <2>2, SomeHeaders
  <2>4. h \in HeadersOf(s[1])
    BY <2>1, <2>2, <2>3, OfElement, EmptyList, TakenOf
  <2> QED BY <2>1, <2>4, InSpace
<1> QED BY <1>1, <1>2

LEMMA FlippedTyped ==
  ASSUME NEW a \in Vector, NEW i \in Fixed(a)
  PROVE  Flipped(a, i) \in Vector
<1>1. i \in Bits /\ a[i] # X
  BY DEF Fixed
<1>2. X \ a[i] \in {Zero, One}
  <2>1. a[i] \in {Zero, One}
    BY <1>1, BitValues
  <2>2. X \ Zero = One /\ X \ One = Zero
    BY DEF X, Zero, One
  <2> QED BY <2>1, <2>2
<1>3. \A j \in Bits : Flipped(a, i)[j] = IF j = i THEN X \ a[i] ELSE X
  BY DEF Flipped, Whole
<1>4. Flipped(a, i) = [j \in Bits |-> Flipped(a, i)[j]]
  BY DEF Flipped, Whole
<1> QED BY <1>1, <1>2, <1>3, <1>4 DEF Vector

(* array_cmpl: the vectors of the complement stand for what the vector     *)
(* leaves out.                                                             *)
LEMMA CmplVectorsExact ==
  ASSUME NEW a \in Vector
  PROVE  /\ CmplVectors(a) \in HeaderSpace /\ NoDiffs(CmplVectors(a))
         /\ HeadersIn(CmplVectors(a)) = Header \ Headers(a)
<1> DEFINE bit(k) == Width + 1 - k
           part(k) == IF bit(k) \in Fixed(a) THEN <<Element(Flipped(a, bit(k)))>> ELSE <<>>
           parts == [k \in 1 .. Width |-> part(k)]
           c == CmplVectors(a)
<1>1. Width \in Nat
  BY WidthAssumption
<1>2. c = FlattenSeq(parts)
  BY DEF CmplVectors, Bits
<1>3. ASSUME NEW k \in 1 .. Width
      PROVE  /\ part(k) \in Seq(Elements)
             /\ \A e : e \in ToSet(part(k)) <=>
                         bit(k) \in Fixed(a) /\ e = Element(Flipped(a, bit(k)))
  <2>1. CASE bit(k) \in Fixed(a)
    <3>1. Element(Flipped(a, bit(k))) \in Elements
      BY <2>1, FlippedTyped, ElementOf
    <3>2. part(k) = <<Element(Flipped(a, bit(k)))>>
      BY <2>1
    <3> HIDE DEF part, bit
    <3> QED BY <2>1, <3>1, <3>2, OneList
  <2>2. CASE bit(k) \notin Fixed(a)
    <3>1. part(k) = <<>>
      BY <2>2
    <3> HIDE DEF part, bit
    <3> QED BY <2>2, <3>1, EmptyList
  <2> QED BY <2>1, <2>2
<1>4. ASSUME NEW i \in Fixed(a) PROVE \E k \in 1 .. Width : bit(k) = i
  <2>1. i \in 1 .. Width
    BY DEF Fixed, Bits
  <2> QED BY <1>1, <2>1
<1> HIDE DEF part, bit
<1>5. parts \in [1 .. Width -> Seq(Elements)] /\ \A k \in 1 .. Width : parts[k] = part(k)
  BY <1>3
<1> HIDE DEF parts
<1>6. /\ c \in Seq(Elements)
      /\ \A e : e \in ToSet(c) <=> \E i \in Fixed(a) : e = Element(Flipped(a, i))
  <2>1. /\ c \in Seq(Elements)
        /\ \A e : e \in ToSet(c) <=> \E k \in 1 .. Width : e \in ToSet(parts[k])
    BY <1>1, <1>2, <1>5, JoinOf
  <2> QED BY <1>3, <1>4, <1>5, <2>1
<1> HIDE DEF c
<1>7. \A i \in Fixed(a) : /\ Element(Flipped(a, i)).diff = <<>>
                          /\ HeadersOf(Element(Flipped(a, i))) = Headers(Flipped(a, i))
  BY FlippedTyped, ElementOf
<1>8. \A h : h \in HeadersIn(c) <=> \E i \in Fixed(a) : h \in Headers(Flipped(a, i))
  BY <1>6, <1>7, InList
<1>9. HeadersIn(c) = UNION {Headers(Flipped(a, i)) : i \in Fixed(a)}
  BY <1>8
<1> QED BY <1>6, <1>7, <1>9, ComplementExact DEF NoDiffs, HeaderSpace, c

(* What the differences of an element, as elements of their own, stand for.*)
LEMMA AsElements ==
  ASSUME NEW ds \in Seq(Vector)
  PROVE  LET s == [k \in DOMAIN ds |-> Element(ds[k])]
         IN  /\ s \in HeaderSpace /\ NoDiffs(s) /\ Len(s) = Len(ds)
             /\ \A h : h \in HeadersIn(s) <=> Taken(h, ds)
<1> DEFINE s == [k \in DOMAIN ds |-> Element(ds[k])]
<1>1. /\ Len(ds) \in Nat /\ DOMAIN ds = 1 .. Len(ds) /\ \A k \in DOMAIN ds : ds[k] \in Vector
  OBVIOUS
<1>2. \A k \in DOMAIN ds : /\ Element(ds[k]) \in Elements /\ Element(ds[k]).diff = <<>>
                           /\ HeadersOf(Element(ds[k])) = Headers(ds[k])
  BY <1>1, ElementOf
<1>3. /\ s \in Seq(Elements) /\ Len(s) = Len(ds) /\ DOMAIN s = DOMAIN ds
      /\ \A k \in DOMAIN ds : s[k] = Element(ds[k])
  BY <1>1, <1>2
<1> HIDE DEF s
<1>4. NoDiffs(s)
  BY <1>2, <1>3 DEF NoDiffs, ToSet
<1>5. \A h : h \in HeadersIn(s) <=> Taken(h, ds)
  BY <1>2, <1>3, InSpace DEF Taken
<1> QED BY <1>3, <1>4, <1>5 DEF s, HeaderSpace

LEMMA CmplElementExact ==
  ASSUME NEW e \in Elements
  PROVE  /\ CmplElement(e) \in HeaderSpace /\ NoDiffs(CmplElement(e))
         /\ HeadersIn(CmplElement(e)) = Header \ HeadersOf(e)
<1> DEFINE c == CmplVectors(e.mask)
           d == [k \in DOMAIN e.diff |-> Element(e.diff[k])]
<1>1. e.mask \in Vector /\ e.diff \in Seq(Vector)
  BY ElementParts
<1>2. c \in HeaderSpace /\ NoDiffs(c) /\ HeadersIn(c) = Header \ Headers(e.mask)
  BY <1>1, CmplVectorsExact
<1>3. d \in HeaderSpace /\ NoDiffs(d) /\ \A h : h \in HeadersIn(d) <=> Taken(h, e.diff)
  BY <1>1, AsElements
<1>4. CmplElement(e) = Plus(c, d)
  BY DEF CmplElement, Plus
<1> HIDE DEF c, d
<1>5. Plus(c, d) \in HeaderSpace /\ HeadersIn(Plus(c, d)) = HeadersIn(c) \cup HeadersIn(d)
  BY <1>2, <1>3, PlusExact
<1>6. NoDiffs(Plus(c, d))
  <2>1. ToSet(c \o d) = ToSet(c) \cup ToSet(d)
    BY <1>2, <1>3, JoinedElements DEF HeaderSpace
  <2> QED BY <1>2, <1>3, <2>1 DEF NoDiffs, Plus
<1>7. ASSUME NEW h PROVE h \in HeadersIn(d) => h \in Header
  <2>1. Taken(h, e.diff) => h \in Header
    BY <1>1, SomeHeaders DEF Taken
  <2> QED BY <1>3, <2>1
<1>8. \A h : h \in HeadersOf(e) <=> h \in Headers(e.mask) /\ ~Taken(h, e.diff)
  BY OfElement
<1>9. \A h : h \in HeadersIn(Plus(c, d)) <=> h \in Header \ HeadersOf(e)
  BY <1>2, <1>3, <1>5, <1>7, <1>8
<1> QED BY <1>4, <1>5, <1>6, <1>9
----
Complementing == INSTANCE FoldFacts
  WITH Op <- LAMBDA p, o, acc, e : IF acc = <<>> THEN CmplElement(e)
                                   ELSE And(acc, CmplElement(e))

CmplFold(s) == FoldLeft(LAMBDA acc, e : IF acc = <<>> THEN CmplElement(e)
                                        ELSE And(acc, CmplElement(e)), <<>>, s)

LEMMA ComplementingFold ==
  \A s : CmplFold(s) = Complementing!Fold(0, 0, <<>>, s)
BY Zenon DEF CmplFold, Complementing!Fold, FoldLeft, MapThenFoldSet,
             Complementing!MapThenFoldSet, Max, Complementing!Largest

(* What holds of the list while the loop of hs_cmpl runs: it is what the   *)
(* elements so far leave out, unless they have covered everything before   *)
(* the last of them.                                                       *)
LEMMA CmplFoldExact ==
  ASSUME NEW s \in HeaderSpace
  PROVE  /\ CmplFold(s) \in HeaderSpace /\ NoDiffs(CmplFold(s))
         /\ s # <<>> /\ ~CoversEarly(s) => HeadersIn(CmplFold(s)) = Header \ HeadersIn(s)
<1> DEFINE Exact(q, t) == HeadersIn(t) = Header \ HeadersIn(q)
           Good(q, t) == /\ t \in HeaderSpace /\ NoDiffs(t)
                         /\ q = <<>> => t = <<>>
                         /\ q # <<>> /\ ~CoversEarly(q) => Exact(q, t)
           Z == {z \in HeaderSpace \X HeaderSpace : Good(z[1], z[2])}
<1>1. <<<<>>, <<>>>> \in Z
  BY EmptyList DEF HeaderSpace, NoDiffs
<1>2. ASSUME NEW t, NEW q \in Seq(Elements), NEW e \in Elements, <<q, t>> \in Z
      PROVE  <<Append(q, e), IF t = <<>> THEN CmplElement(e)
                             ELSE And(t, CmplElement(e))>> \in Z
  <2> DEFINE r == Append(q, e)
             c == CmplElement(e)
             u == IF t = <<>> THEN c ELSE And(t, c)
  <2>1. q \in HeaderSpace /\ Good(q, t)
    BY <1>2
  <2>2. c \in HeaderSpace /\ NoDiffs(c) /\ HeadersIn(c) = Header \ HeadersOf(e)
    BY CmplElementExact
  <2> HIDE DEF c
  <2>3. u \in HeaderSpace /\ NoDiffs(u)
    BY <2>1, <2>2, AndExact, NoDiffsOf
  <2>4. r \in Seq(Elements) /\ Len(r) = Len(q) + 1 /\ Len(q) \in Nat /\ r # <<>>
    OBVIOUS
  <2>5. \A h : h \in HeadersIn(r) <=> h \in HeadersIn(q) \/ h \in HeadersOf(e)
    <3>1. /\ DOMAIN r = DOMAIN q \cup {Len(q) + 1} /\ r[Len(q) + 1] = e
          /\ \A i \in DOMAIN q : r[i] = q[i]
      OBVIOUS
    <3> HIDE DEF r
    <3> QED BY <3>1, InSpace
  <2>6. ASSUME ~CoversEarly(r) PROVE ~CoversEarly(q) /\ (q # <<>> => HeadersIn(q) # Header)
    <3>1. ASSUME NEW k \in 1 .. Len(q) PROVE SubSeq(r, 1, k) = SubSeq(q, 1, k)
      OBVIOUS
    <3>2. SubSeq(q, 1, Len(q)) = q
      OBVIOUS
    <3>3. \A k \in 1 .. Len(q) : HeadersIn(SubSeq(q, 1, k)) # Header
      <4>1. \A k \in 1 .. Len(q) : k \in 1 .. Len(r) - 1
        BY <2>4
      <4> HIDE DEF r
      <4> QED BY <2>6, <3>1, <4>1 DEF CoversEarly
    <3>4. \A k \in 1 .. Len(q) - 1 : k \in 1 .. Len(q)
      BY <2>4
    <3>5. q # <<>> => Len(q) \in 1 .. Len(q)
      BY <2>4
    <3> QED BY <3>2, <3>3, <3>4, <3>5 DEF CoversEarly
  <2>7. ASSUME ~CoversEarly(r) PROVE Exact(r, u)
    <3>1. CASE q = <<>>
      <4>1. u = c /\ HeadersIn(q) = {}
        BY <2>1, <3>1, EmptyList, InList
      <4> QED BY <2>2, <2>5, <4>1
    <3>2. CASE q # <<>>
      <4>1. HeadersIn(t) = Header \ HeadersIn(q) /\ HeadersIn(q) # Header
        BY <2>1, <2>6, <2>7, <3>2
      <4>2. HeadersIn(q) \subseteq Header
        BY <2>1, SpaceParts, SomeHeaders, InSpace, OfElement
      <4>3. t # <<>>
        BY <2>1, <4>1, <4>2, EmptyIfNone
      <4>4. HeadersIn(u) = HeadersIn(t) \cap HeadersIn(c)
        BY <2>1, <2>2, <4>3, AndExact
      <4> QED BY <2>2, <2>5, <4>1, <4>4
    <3> QED BY <3>1, <3>2
  <2> HIDE DEF u, r, Exact
  <2>8. Good(r, u)
    BY <2>3, <2>4, <2>7
  <2>9. <<r, u>> \in Z
    BY <2>3, <2>4, <2>8 DEF HeaderSpace
  <2> QED BY <2>9 DEF r, u, c
<1>3. s \in Seq(Elements)
  BY DEF HeaderSpace
<1> HIDE DEF Z
<1>4. <<s, Complementing!Fold(0, 0, <<>>, s)>> \in Z
  BY <1>1, <1>2, <1>3, Complementing!FoldSteps, NaturalInduction
        DEF Complementing!Induction
<1>5. <<s, CmplFold(s)>> \in Z
  BY <1>4, ComplementingFold
<1> QED BY <1>5 DEF Z

(***************************************************************************)
(* Complement and difference                                               *)
(***************************************************************************)
LEMMA AllHeaders ==
  ASSUME NEW s \in HeaderSpace
  PROVE  HeadersIn(s) \subseteq Header
BY SpaceParts, SomeHeaders, InSpace, OfElement

LEMMA CmplListExact ==
  ASSUME NEW s \in HeaderSpace
  PROVE  /\ CmplList(s) \in HeaderSpace /\ NoDiffs(CmplList(s))
         /\ (/\ s # <<>> /\ ~CoversEarly(s)
             /\ \A i \in DOMAIN s : s[i].mask = Whole => s[i].diff = <<>>)
              => HeadersIn(CmplList(s)) = Header \ HeadersIn(s)
<1>1. CASE \E i \in DOMAIN s : s[i].mask = Whole
  <2>1. CmplList(s) = <<>>
    BY <1>1 DEF CmplList
  <2>2. <<>> \in HeaderSpace /\ NoDiffs(<<>>) /\ HeadersIn(<<>>) = {}
    BY EmptyList, InList DEF HeaderSpace, NoDiffs
  <2>3. ASSUME \A i \in DOMAIN s : s[i].mask = Whole => s[i].diff = <<>>
        PROVE  HeadersIn(s) = Header
    <3>1. PICK i \in DOMAIN s : s[i].mask = Whole /\ s[i].diff = <<>>
      BY <1>1, <2>3
    <3>2. \A h \in Header : h \in HeadersOf(s[i])
      BY <3>1, SpaceParts, OfElement, WholeVector, EmptyList, TakenOf
    <3>3. \A h \in Header : h \in HeadersIn(s)
      BY <3>2, InSpace
    <3> QED BY <3>3, AllHeaders
  <2> QED BY <2>1, <2>2, <2>3
<1>2. CASE ~\E i \in DOMAIN s : s[i].mask = Whole
  <2>1. CmplList(s) = CmplFold(s)
    BY <1>2 DEF CmplList, CmplFold
  <2> QED BY <2>1, CmplFoldExact
<1> QED BY <1>1, <1>2

LEMMA WholeSpaceExact ==
  WholeSpace \in HeaderSpace /\ NoDiffs(WholeSpace) /\ HeadersIn(WholeSpace) = Header
<1>1. /\ Element(Whole) \in Elements /\ Element(Whole).diff = <<>>
      /\ HeadersOf(Element(Whole)) = Header
  BY WholeVector, ElementOf
<1>2. WholeSpace \in Seq(Elements) /\ ToSet(WholeSpace) = {Element(Whole)}
  BY <1>1, OneList DEF WholeSpace
<1>3. \A h : h \in HeadersIn(WholeSpace) <=> h \in Header
  BY <1>1, <1>2, InList
<1> QED BY <1>1, <1>2, <1>3 DEF HeaderSpace, NoDiffs

(* hs_cmpl: the complement of a space that none of its faults meets.       *)
THEOREM CmplExact ==
  ASSUME NEW s \in HeaderSpace
  PROVE  /\ Cmpl(s) \in HeaderSpace /\ NoDiffs(Cmpl(s))
         /\ Complementable(s) => HeadersIn(Cmpl(s)) = Header \ HeadersIn(s)
<1>1. CASE s = <<>>
  <2>1. Cmpl(s) = WholeSpace
    BY <1>1 DEF Cmpl
  <2>2. HeadersIn(s) = {}
    BY <1>1, EmptyList, InList
  <2> QED BY <2>1, <2>2, WholeSpaceExact
<1>2. CASE s # <<>>
  <2>1. Cmpl(s) = CmplList(Compact(s))
    BY <1>2 DEF Cmpl
  <2>2. Compact(s) \in HeaderSpace
    BY CompactExact
  <2> QED BY <1>2, <2>1, <2>2, CmplListExact DEF Complementable
<1> QED BY <1>1, <1>2

LEMMA CmplOfVectorsExact ==
  ASSUME NEW ds \in Seq(Vector)
  PROVE  /\ CmplOfVectors(ds) \in HeaderSpace /\ NoDiffs(CmplOfVectors(ds))
         /\ ~CoversEarly([k \in DOMAIN ds |-> Element(ds[k])]) =>
              \A h : h \in HeadersIn(CmplOfVectors(ds)) <=> h \in Header /\ ~Taken(h, ds)
<1> DEFINE s == [k \in DOMAIN ds |-> Element(ds[k])]
<1>1. CASE ds = <<>>
  <2>1. CmplOfVectors(ds) = WholeSpace
    BY <1>1 DEF CmplOfVectors
  <2>2. \A h : ~Taken(h, ds)
    BY <1>1, EmptyList, TakenOf
  <2> QED BY <2>1, <2>2, WholeSpaceExact
<1>2. CASE ds # <<>>
  <2>1. CmplOfVectors(ds) = CmplList(s)
    BY <1>2 DEF CmplOfVectors
  <2>2. s \in HeaderSpace /\ NoDiffs(s) /\ Len(s) = Len(ds) /\ \A h : h \in HeadersIn(s) <=> Taken(h, ds)
    BY AsElements
  <2>3. s # <<>>
    <3>1. Len(ds) # 0 /\ Len(<<>>) = 0
      BY <1>2
    <3> HIDE DEF s
    <3> QED BY <2>2, <3>1
  <2>4. \A i \in DOMAIN s : s[i].diff = <<>>
    BY <2>2 DEF NoDiffs, ToSet
  <2> HIDE DEF s
  <2>5. /\ CmplList(s) \in HeaderSpace /\ NoDiffs(CmplList(s))
        /\ ~CoversEarly(s) => HeadersIn(CmplList(s)) = Header \ HeadersIn(s)
    BY <2>2, <2>3, <2>4, CmplListExact
  <2> QED BY <2>1, <2>2, <2>5 DEF s
<1> QED BY <1>1, <1>2
----
Noting == INSTANCE FoldFacts WITH Op <- LAMBDA p, o, acc, e : TakeVector(acc, e.mask)

NoteAll(s, t) == FoldLeft(LAMBDA acc, e : TakeVector(acc, e.mask), s, t)

LEMMA NotingFold ==
  \A s, t : NoteAll(s, t) = Noting!Fold(0, 0, s, t)
BY Zenon DEF NoteAll, Noting!Fold, FoldLeft, MapThenFoldSet,
             Noting!MapThenFoldSet, Max, Noting!Largest

(* The masks of a space, noted as differences in every element of another. *)
LEMMA NoteAllExact ==
  ASSUME NEW s \in HeaderSpace, NEW t \in HeaderSpace
  PROVE  /\ NoteAll(s, t) \in HeaderSpace
         /\ \A h : h \in HeadersIn(NoteAll(s, t)) <=>
                     h \in HeadersIn(s) /\ \A e \in ToSet(t) : h \notin Headers(e.mask)
<1> DEFINE Good(q, r) == \A h : h \in HeadersIn(r) <=>
                           h \in HeadersIn(s) /\ \A e \in ToSet(q) : h \notin Headers(e.mask)
           Z == {z \in HeaderSpace \X HeaderSpace : Good(z[1], z[2])}
<1>1. <<<<>>, s>> \in Z
  BY EmptyList DEF HeaderSpace
<1>2. ASSUME NEW r, NEW q \in Seq(Elements), NEW e \in Elements, <<q, r>> \in Z
      PROVE  <<Append(q, e), TakeVector(r, e.mask)>> \in Z
  <2> DEFINE u == TakeVector(r, e.mask)
             v == Append(q, e)
  <2>1. r \in HeaderSpace /\ Good(q, r)
    BY <1>2
  <2>2. e.mask \in Vector
    BY ElementParts
  <2>3. u \in HeaderSpace /\ HeadersIn(u) = HeadersIn(r) \ Headers(e.mask)
    BY <2>1, <2>2, TakeVectorExact
  <2>4. v \in Seq(Elements) /\ ToSet(v) = ToSet(q) \cup {e}
    <3>1. /\ DOMAIN v = DOMAIN q \cup {Len(q) + 1} /\ v[Len(q) + 1] = e
          /\ \A i \in DOMAIN q : v[i] = q[i]
      OBVIOUS
    <3>2. v \in Seq(Elements)
      OBVIOUS
    <3> HIDE DEF v
    <3> QED BY <3>1, <3>2 DEF ToSet
  <2> HIDE DEF u, v
  <2>5. Good(v, u)
    BY <2>1, <2>3, <2>4
  <2>6. <<v, u>> \in Z
    BY <2>3, <2>4, <2>5 DEF HeaderSpace
  <2> QED BY <2>6 DEF u, v
<1>3. t \in Seq(Elements)
  BY DEF HeaderSpace
<1> HIDE DEF Z
<1>4. <<t, Noting!Fold(0, 0, s, t)>> \in Z
  BY <1>1, <1>2, <1>3, Noting!FoldSteps, NaturalInduction DEF Noting!Induction
<1>5. <<t, NoteAll(s, t)>> \in Z
  BY <1>4, NotingFold
<1> QED BY <1>5 DEF Z

(* operator-=: the difference, noted in the elements or computed by a      *)
(* complement, leaves exactly the headers of the one space that the other  *)
(* does not have, under the conditions of SubtractExact.                   *)
THEOREM MinusExact ==
  ASSUME NEW s \in HeaderSpace, NEW t \in HeaderSpace
  PROVE  /\ Minus(s, t) \in HeaderSpace
         /\ SubtractExact(s, t) => HeadersIn(Minus(s, t)) = HeadersIn(s) \ HeadersIn(t)
<1>1. CASE HasDiffs(t)
  <2> DEFINE c == Cmpl(t)
             a == And(s, c)
  <2>1. Minus(s, t) = Compact(a)
    BY <1>1 DEF Minus
  <2>2. /\ c \in HeaderSpace /\ NoDiffs(c)
        /\ Complementable(t) => HeadersIn(c) = Header \ HeadersIn(t)
    BY CmplExact
  <2> HIDE DEF c
  <2>3. /\ a \in HeaderSpace /\ HeadersIn(a) = HeadersIn(s) \cap HeadersIn(c)
        /\ ~HasDiffs(s) => ~HasDiffs(a)
    BY <2>2, AndExact, NoDiffsOf
  <2> HIDE DEF a
  <2>4. Compact(a) \in HeaderSpace /\ (~HasDiffs(a) => HeadersIn(Compact(a)) = HeadersIn(a))
    BY <2>3, CompactExact DEF Plain
  <2> QED BY <1>1, <2>1, <2>2, <2>3, <2>4, AllHeaders DEF SubtractExact
<1>2. CASE ~HasDiffs(t)
  <2>1. Minus(s, t) = NoteAll(s, t)
    BY <1>2 DEF Minus, NoteAll
  <2>2. \A e \in ToSet(t) : HeadersOf(e) = Headers(e.mask)
    <3>1. ASSUME NEW e \in ToSet(t), NEW h PROVE h \in HeadersOf(e) <=> h \in Headers(e.mask)
      <4>1. e.diff = <<>> /\ e \in Elements
        BY <1>2, NoDiffsOf, SpaceParts DEF NoDiffs, ToSet
      <4> QED BY <4>1, OfElement, EmptyList, TakenOf
    <3> QED BY <3>1
  <2>3. \A h : h \in HeadersIn(t) <=> \E e \in ToSet(t) : h \in Headers(e.mask)
    BY <2>2, InList
  <2>4. /\ NoteAll(s, t) \in HeaderSpace
        /\ \A h : h \in HeadersIn(NoteAll(s, t)) <=>
                     h \in HeadersIn(s) /\ \A e \in ToSet(t) : h \notin Headers(e.mask)
    BY NoteAllExact
  <2> QED BY <2>1, <2>3, <2>4
<1> QED BY <1>1, <1>2

(* computeDifference, element by element.                                  *)
LEMMA ComputeDifferenceExact ==
  ASSUME NEW s \in HeaderSpace
  PROVE  /\ ComputeDifference(s) \in HeaderSpace /\ NoDiffs(ComputeDifference(s))
         /\ Separable(s) => HeadersIn(ComputeDifference(s)) = HeadersIn(s)
<1> DEFINE t == Compacted(s)
           all(i) == And(<<Element(t[i].mask)>>, CmplOfVectors(t[i].diff))
           part(i) == Compact(all(i))
           parts == [i \in DOMAIN t |-> part(i)]
           r == ComputeDifference(s)
           Early(i) == CoversEarly([k \in DOMAIN t[i].diff |-> Element(t[i].diff[k])])
<1>1. t \in HeaderSpace /\ (Plain(s) => HeadersIn(t) = HeadersIn(s))
  BY CompactedExact
<1>2. r = FlattenSeq(parts)
  BY DEF ComputeDifference
<1>3. Separable(s) <=> Plain(s) /\ \A i \in DOMAIN t : ~Early(i)
  BY DEF Separable, ToSet
<1> HIDE DEF t
<1>4. /\ Len(t) \in Nat /\ DOMAIN t = 1 .. Len(t)
      /\ \A i \in DOMAIN t : t[i] \in Elements /\ t[i].mask \in Vector /\ t[i].diff \in Seq(Vector)
  BY <1>1, SpaceParts
<1>5. ASSUME NEW i \in DOMAIN t
      PROVE  /\ part(i) \in HeaderSpace /\ NoDiffs(part(i))
             /\ ~Early(i) => HeadersIn(part(i)) = HeadersOf(t[i])
  <2> DEFINE m == <<Element(t[i].mask)>>
             c == CmplOfVectors(t[i].diff)
  <2>1. m \in HeaderSpace /\ NoDiffs(m) /\ HeadersIn(m) = Headers(t[i].mask)
    <3>1. /\ Element(t[i].mask) \in Elements /\ Element(t[i].mask).diff = <<>>
          /\ HeadersOf(Element(t[i].mask)) = Headers(t[i].mask)
      BY <1>4, ElementOf
    <3>2. m \in Seq(Elements) /\ ToSet(m) = {Element(t[i].mask)}
      BY <3>1, OneList
    <3> HIDE DEF m
    <3>3. \A h : h \in HeadersIn(m) <=> h \in Headers(t[i].mask)
      BY <3>1, <3>2, InList
    <3> QED BY <3>1, <3>2, <3>3 DEF HeaderSpace, NoDiffs
  <2>2. /\ c \in HeaderSpace /\ NoDiffs(c)
        /\ ~Early(i) => \A h : h \in HeadersIn(c) <=> h \in Header /\ ~Taken(h, t[i].diff)
    BY <1>4, CmplOfVectorsExact
  <2>3. all(i) = And(m, c)
    OBVIOUS
  <2> HIDE DEF m, c, all, Early
  <2>4. /\ all(i) \in HeaderSpace /\ HeadersIn(all(i)) = HeadersIn(m) \cap HeadersIn(c)
        /\ ~HasDiffs(all(i))
    BY <2>1, <2>2, <2>3, AndExact, NoDiffsOf
  <2>5. part(i) \in HeaderSpace /\ NoDiffs(part(i)) /\ HeadersIn(part(i)) = HeadersIn(all(i))
    BY <2>4, CompactExact, NoDiffsOf DEF Plain
  <2> HIDE DEF part
  <2>6. ASSUME ~Early(i), NEW h PROVE h \in HeadersIn(part(i)) <=> h \in HeadersOf(t[i])
    <3>1. h \in HeadersOf(t[i]) <=> h \in Headers(t[i].mask) /\ ~Taken(h, t[i].diff)
      BY <1>4, OfElement
    <3>2. h \in Headers(t[i].mask) => h \in Header
      BY <1>4, SomeHeaders
    <3> QED BY <2>1, <2>2, <2>4, <2>5, <2>6, <3>1, <3>2
  <2> QED BY <2>5, <2>6
<1> HIDE DEF part, Early
<1>6. parts \in [1 .. Len(t) -> Seq(Elements)] /\ \A i \in DOMAIN t : parts[i] = part(i)
  BY <1>4, <1>5 DEF HeaderSpace
<1> HIDE DEF parts
<1>7. /\ r \in Seq(Elements)
      /\ \A e : e \in ToSet(r) <=> \E i \in DOMAIN t : e \in ToSet(part(i))
  <2>1. /\ r \in Seq(Elements)
        /\ \A e : e \in ToSet(r) <=> \E i \in 1 .. Len(t) : e \in ToSet(parts[i])
    BY <1>2, <1>4, <1>6, JoinOf
  <2> QED BY <1>4, <1>6, <2>1
<1> HIDE DEF r
<1>8. NoDiffs(r)
  BY <1>5, <1>7 DEF NoDiffs
<1>9. \A h : h \in HeadersIn(r) <=> \E i \in DOMAIN t : h \in HeadersIn(part(i))
  BY <1>7, InList
<1>10. ASSUME \A i \in DOMAIN t : ~Early(i) PROVE HeadersIn(r) = HeadersIn(t)
  <2>1. \A h : h \in HeadersIn(r) <=> h \in HeadersIn(t)
    BY <1>5, <1>9, <1>10, InSpace
  <2> QED BY <2>1
<1> QED BY <1>1, <1>3, <1>7, <1>8, <1>10 DEF r, HeaderSpace

LEMMA NothingLeftExact ==
  ASSUME NEW s \in HeaderSpace, Separable(s)
  PROVE  NothingLeft(s) <=> HeadersIn(s) = {}
<1> DEFINE r == ComputeDifference(s)
<1>1. r \in HeaderSpace /\ NoDiffs(r) /\ HeadersIn(r) = HeadersIn(s)
  BY ComputeDifferenceExact
<1>2. NothingLeft(s) <=> r = <<>>
  BY <1>1, NoDiffsOf DEF NothingLeft, IsEmpty, Compacted
<1> QED BY <1>1, <1>2, EmptyIfNone

(***************************************************************************)
(* The differences that rewriting keeps                                    *)
(***************************************************************************)
(* The loop over the differences of an element that is rewritten: those    *)
(* before the index are to be kept, and every round takes one more out or  *)
(* goes one further.                                                       *)
KeepState == [ds : Seq(Vector), j : Nat \ {0}]
IsKeeping(l, ds, j) == l \in KeepState /\ l.ds = ds /\ l.j = j
Keeps(ds, n, mask, k) ==
  {l \in KeepState :
     /\ l.j - 1 <= Len(l.ds) /\ Len(l.ds) <= Len(ds) /\ ToSet(l.ds) \subseteq ToSet(ds)
     /\ \A m \in 1 .. l.j - 1 : XCount(l.ds[m], mask) = n
     /\ l.j > Len(l.ds) \/ l.j - 1 + Len(ds) - Len(l.ds) >= k
     /\ (\A d \in ToSet(ds) : XCount(d, mask) = n) => l.ds = ds}

LEMMA KeepSteps ==
  ASSUME NEW l \in KeepState, NEW t \in Seq(Vector)
  PROVE  /\ IsKeeping([l EXCEPT !.ds = t], t, l.j)
         /\ IsKeeping([l EXCEPT !.j = l.j + 1], l.ds, l.j + 1)
<1>1. l \in [ds : Seq(Vector), j : Nat \ {0}]
  BY DEF KeepState
<1>2. ASSUME NEW r, r = [l EXCEPT !.ds = t] PROVE IsKeeping(r, t, l.j)
  BY <1>1, <1>2 DEF KeepState, IsKeeping
<1>3. ASSUME NEW r, r = [l EXCEPT !.j = l.j + 1] PROVE IsKeeping(r, l.ds, l.j + 1)
  BY <1>1, <1>3 DEF KeepState, IsKeeping
<1> QED BY <1>2, <1>3

(* What a round of the loop does.                                          *)
LEMMA KeepCases ==
  ASSUME NEW n, NEW mask, NEW l \in KeepState
  PROVE  LET r == KeepRound(n, mask, l)
         IN  \/ r = l /\ l.j > Len(l.ds)
             \/ /\ l.j \in 1 .. Len(l.ds) /\ XCount(l.ds[l.j], mask) = n
                /\ IsKeeping(r, l.ds, l.j + 1)
             \/ /\ l.j \in 1 .. Len(l.ds) /\ XCount(l.ds[l.j], mask) # n
                /\ IsKeeping(r, Drop(l.ds, l.j), l.j)
<1> DEFINE r == KeepRound(n, mask, l)
<1>1. l.ds \in Seq(Vector) /\ l.j \in Nat \ {0}
  BY DEF KeepState
<1>2. Len(l.ds) \in Nat
  BY <1>1
<1>3. CASE l.j > Len(l.ds)
  BY <1>3 DEF KeepRound
<1>4. CASE ~(l.j > Len(l.ds)) /\ XCount(l.ds[l.j], mask) = n
  <2>1. l.j \in 1 .. Len(l.ds)
    BY <1>1, <1>2, <1>4
  <2>2. r = [l EXCEPT !.j = l.j + 1]
    BY <1>4 DEF KeepRound
  <2> QED BY <1>1, <1>4, <2>1, <2>2, KeepSteps
<1>5. CASE ~(l.j > Len(l.ds)) /\ XCount(l.ds[l.j], mask) # n
  <2>1. l.j \in 1 .. Len(l.ds)
    BY <1>1, <1>2, <1>5
  <2>2. r = [l EXCEPT !.ds = Drop(l.ds, l.j)]
    BY <1>5 DEF KeepRound
  <2>3. Drop(l.ds, l.j) \in Seq(Vector)
    BY <1>1, <2>1, DropFacts
  <2> QED BY <1>5, <2>1, <2>2, <2>3, KeepSteps
<1> QED BY <1>3, <1>4, <1>5

LEMMA KeepKeeps ==
  ASSUME NEW ds \in Seq(Vector), NEW n, NEW mask, NEW k \in Nat,
         NEW l \in Keeps(ds, n, mask, k)
  PROVE  KeepRound(n, mask, l) \in Keeps(ds, n, mask, k + 1)
<1> DEFINE r == KeepRound(n, mask, l)
           All == \A d \in ToSet(ds) : XCount(d, mask) = n
<1> SUFFICES r \in Keeps(ds, n, mask, k + 1)
  OBVIOUS
<1>1. l \in KeepState
  BY DEF Keeps
<1>2. PICK v \in Seq(Vector), j \in Nat \ {0} :
        /\ l.ds = v /\ l.j = j
        /\ j - 1 <= Len(v) /\ Len(v) <= Len(ds) /\ ToSet(v) \subseteq ToSet(ds)
        /\ \A m \in 1 .. j - 1 : XCount(v[m], mask) = n
        /\ j > Len(v) \/ j - 1 + Len(ds) - Len(v) >= k
        /\ All => v = ds
  BY DEF Keeps, KeepState
<1>3. Len(v) \in Nat /\ Len(ds) \in Nat
  OBVIOUS
<1>4. \/ r = l /\ j > Len(v)
      \/ j \in 1 .. Len(v) /\ XCount(v[j], mask) = n /\ IsKeeping(r, v, j + 1)
      \/ j \in 1 .. Len(v) /\ XCount(v[j], mask) # n /\ IsKeeping(r, Drop(v, j), j)
  BY <1>1, <1>2, KeepCases
<1> HIDE DEF r
<1>5. CASE r = l /\ j > Len(v)
  BY <1>1, <1>2, <1>5 DEF Keeps
<1>6. CASE j \in 1 .. Len(v) /\ XCount(v[j], mask) = n /\ IsKeeping(r, v, j + 1)
  <2>1. r \in KeepState /\ r.ds = v /\ r.j = j + 1
    BY <1>6 DEF IsKeeping
  <2>2. (j + 1) - 1 = j /\ \A m \in 1 .. j : m = j \/ m \in 1 .. j - 1
    BY <1>2
  <2>3. \A m \in 1 .. (j + 1) - 1 : XCount(v[m], mask) = n
    BY <1>2, <1>6, <2>2
  <2>4. j <= Len(v) /\ j + Len(ds) - Len(v) >= k + 1
    BY <1>2, <1>3, <1>6
  <2> HIDE DEF All
  <2> QED BY <1>2, <2>1, <2>2, <2>3, <2>4 DEF Keeps, All
<1>7. CASE j \in 1 .. Len(v) /\ XCount(v[j], mask) # n /\ IsKeeping(r, Drop(v, j), j)
  <2> DEFINE w == Drop(v, j)
  <2>1. r \in KeepState /\ r.ds = w /\ r.j = j
    BY <1>7 DEF IsKeeping
  <2>2. /\ w \in Seq(Vector) /\ Len(w) = Len(v) - 1 /\ ToSet(v) = ToSet(w) \cup {v[j]}
        /\ \A m \in 1 .. j - 1 : w[m] = v[m]
    BY <1>7, DropFacts
  <2>3. ~All
    BY <1>2, <1>7, <2>2
  <2> HIDE DEF w, All
  <2>4. \A m \in 1 .. j - 1 : XCount(w[m], mask) = n
    BY <1>2, <2>2
  <2>5. /\ j - 1 <= Len(w) /\ Len(w) <= Len(ds)
        /\ j > Len(w) \/ j - 1 + Len(ds) - Len(w) >= k + 1
    BY <1>2, <1>3, <1>7, <2>2
  <2>6. ToSet(w) \subseteq ToSet(ds)
    BY <1>2, <2>2
  <2> QED BY <2>1, <2>3, <2>4, <2>5, <2>6 DEF Keeps, All
<1> QED BY <1>4, <1>5, <1>6, <1>7

(* The differences that stay are those with the right number of x's.       *)
LEMMA KeepDiffsExact ==
  ASSUME NEW ds \in Seq(Vector), NEW n, NEW mask
  PROVE  /\ KeepDiffs(ds, n, mask) \in Seq(Vector)
         /\ ToSet(KeepDiffs(ds, n, mask)) \subseteq ToSet(ds)
         /\ \A d \in ToSet(KeepDiffs(ds, n, mask)) : XCount(d, mask) = n
         /\ (\A d \in ToSet(ds) : XCount(d, mask) = n) => KeepDiffs(ds, n, mask) = ds
<1> DEFINE l == [ds |-> ds, j |-> 1]
           o == Len(ds)
           T == KeepState
           Runs(f) == f = [k \in 0 .. o |-> IF k = 0 THEN l ELSE KeepRound(n, mask, f[k - 1])]
           f == CHOOSE f : Runs(f)
           step == [z \in T |-> KeepRound(n, mask, z)]
           Y == [k \in 0 .. o |-> Keeps(ds, n, mask, k)]
<1>1. KeepDiffs(ds, n, mask) = f[o].ds
  BY DEF KeepDiffs, Rounds
<1>2. o \in Nat
  OBVIOUS
<1>3. l \in T /\ l \in Keeps(ds, n, mask, 0)
  <2>1. l \in KeepState /\ l.ds = ds /\ l.j = 1
    BY DEF KeepState
  <2>2. 1 .. 1 - 1 = {}
    OBVIOUS
  <2> HIDE DEF l
  <2> QED BY <1>2, <2>1, <2>2 DEF Keeps
<1> HIDE DEF l, o
<1>4. \A z \in T : KeepRound(n, mask, z) \in T
  BY KeepCases DEF IsKeeping
<1> HIDE DEF T
<1>5. \E g : Runs(g)
  <2>1. step \in [T -> T] /\ \A z \in T : step[z] = KeepRound(n, mask, z)
    BY <1>4
  <2> HIDE DEF step
  <2>2. PICK g \in [0 .. o -> T] : Steps(g, step, l, o)
    BY <1>2, <1>3, <2>1, RoundsExist
  <2>3. ASSUME NEW k \in 0 .. o, k # 0 PROVE step[g[k - 1]] = KeepRound(n, mask, g[k - 1])
    <3>1. k - 1 \in 0 .. o
      BY <1>2, <2>3
    <3> QED BY <2>1, <2>2, <3>1
  <2>4. Runs(g)
    BY <2>2, <2>3 DEF Steps
  <2> QED BY <2>4
<1>6. Runs(f)
  BY <1>5
<1> HIDE DEF f
<1>7. f[o] \in Keeps(ds, n, mask, o)
  <2>1. f[0] = l /\ \A k \in 1 .. o : f[k] = KeepRound(n, mask, f[k - 1])
    BY <1>2, <1>6
  <2>2. \A k \in 0 .. o : Y[k] = Keeps(ds, n, mask, k)
    OBVIOUS
  <2>3. /\ 0 \in 0 .. o /\ o \in 0 .. o
        /\ \A k \in 1 .. o : k \in 0 .. o /\ k - 1 \in 0 .. o /\ k - 1 \in Nat /\ (k - 1) + 1 = k
    BY <1>2
  <2> HIDE DEF Y
  <2>4. ASSUME NEW k \in 1 .. o, f[k - 1] \in Y[k - 1] PROVE f[k] \in Y[k]
    <3>1. k - 1 \in Nat /\ (k - 1) + 1 = k
      BY <2>3
    <3>2. f[k - 1] \in Keeps(ds, n, mask, k - 1)
      BY <2>2, <2>3, <2>4
    <3>3. KeepRound(n, mask, f[k - 1]) \in Keeps(ds, n, mask, (k - 1) + 1)
      BY <3>1, <3>2, KeepKeeps
    <3> QED BY <2>1, <2>2, <2>3, <3>1, <3>3
  <2>5. f[0] \in Y[0]
    BY <1>3, <2>1, <2>2, <2>3
  <2>6. f[o] \in Y[o]
    BY <1>2, <2>4, <2>5, RoundsReach
  <2> QED BY <2>2, <2>3, <2>6
<1>8. PICK v \in Seq(Vector), j \in Nat \ {0} :
        /\ f[o].ds = v /\ j - 1 <= Len(v) /\ ToSet(v) \subseteq ToSet(ds)
        /\ \A m \in 1 .. j - 1 : XCount(v[m], mask) = n
        /\ j > Len(v) \/ j - 1 + o - Len(v) >= o
        /\ (\A d \in ToSet(ds) : XCount(d, mask) = n) => v = ds
  BY <1>7 DEF Keeps, KeepState, o
<1>9. Len(v) \in Nat /\ DOMAIN v = 1 .. Len(v)
  OBVIOUS
<1>10. 1 .. j - 1 = 1 .. Len(v)
  BY <1>2, <1>8, <1>9
<1>11. \A d \in ToSet(v) : XCount(d, mask) = n
  BY <1>8, <1>9, <1>10 DEF ToSet
<1> QED BY <1>1, <1>8, <1>11

(***************************************************************************)
(* Rewriting                                                               *)
(***************************************************************************)
LEMMA RewriteTyped ==
  ASSUME NEW a \in Vector, NEW w \in Vector, NEW mask
  PROVE  Rewrite(a, mask, w) \in Vector
BY DEF Rewrite, Vector

LEMMA ChangerVectors ==
  ASSUME NEW c, IsChanger(c)
  PROVE  /\ c.rewrite \in Vector /\ c.inverse \in Vector
         /\ \A i \in Bits : c.rewrite[i] \in {Zero, One}
BY DEF IsChanger, Transparent, Vector

LEMMA RewriteElementParts ==
  ASSUME NEW e \in Elements, NEW mask, NEW w \in Vector
  PROVE  LET r == RewriteElement(e, mask, w)
         IN  /\ r \in Elements /\ r.mask = Rewrite(e.mask, mask, w)
             /\ \A h : Taken(h, r.diff) <=>
                  \E d \in ToSet(KeepDiffs(e.diff, XCount(e.mask, mask), mask)) :
                    h \in Headers(Rewrite(d, mask, w))
             /\ e.diff = <<>> => r.diff = <<>>
<1> DEFINE kept == KeepDiffs(e.diff, XCount(e.mask, mask), mask)
           ds == [k \in DOMAIN kept |-> Rewrite(kept[k], mask, w)]
           r == RewriteElement(e, mask, w)
<1>1. e.mask \in Vector /\ e.diff \in Seq(Vector)
  BY ElementParts
<1>2. kept \in Seq(Vector) /\ ToSet(kept) \subseteq ToSet(e.diff)
  BY <1>1, KeepDiffsExact
<1>3. r = [mask |-> Rewrite(e.mask, mask, w), diff |-> ds]
  BY DEF RewriteElement
<1> HIDE DEF kept
<1>4. /\ Len(kept) \in Nat /\ DOMAIN kept = 1 .. Len(kept)
      /\ \A k \in DOMAIN kept : Rewrite(kept[k], mask, w) \in Vector
  BY <1>2, RewriteTyped
<1>5. /\ ds \in Seq(Vector) /\ Len(ds) = Len(kept) /\ DOMAIN ds = DOMAIN kept
      /\ \A k \in DOMAIN kept : ds[k] = Rewrite(kept[k], mask, w)
  BY <1>4
<1> HIDE DEF ds
<1>6. r \in Elements /\ r.mask = Rewrite(e.mask, mask, w) /\ r.diff = ds
  BY <1>1, <1>3, <1>5, RewriteTyped, ElementParts
<1>7. \A h : Taken(h, ds) <=> \E d \in ToSet(kept) : h \in Headers(Rewrite(d, mask, w))
  BY <1>5 DEF Taken, ToSet
<1>8. ASSUME e.diff = <<>> PROVE ds = <<>>
  <2>1. ToSet(kept) = {}
    BY <1>2, <1>8, EmptyList
  <2>2. DOMAIN kept = {}
    BY <2>1 DEF ToSet
  <2> QED BY <1>4, <1>5, <2>2
<1> HIDE DEF r
<1> QED BY <1>6, <1>7, <1>8 DEF kept, r

LEMMA RewriteSpaceParts ==
  ASSUME NEW s \in HeaderSpace, NEW mask, NEW w \in Vector
  PROVE  LET r == RewriteSpace(s, mask, w)
         IN  /\ r \in HeaderSpace /\ Len(r) = Len(s) /\ DOMAIN r = DOMAIN s
             /\ \A i \in DOMAIN s : r[i] = RewriteElement(s[i], mask, w)
<1>1. /\ Len(s) \in Nat /\ DOMAIN s = 1 .. Len(s)
      /\ \A i \in DOMAIN s : RewriteElement(s[i], mask, w) \in Elements
  BY SpaceParts, RewriteElementParts
<1> QED BY <1>1 DEF RewriteSpace, HeaderSpace

LEMMA IdentityChanges ==
  ASSUME NEW c, IsChanger(c), c.identity, NEW h \in Header
  PROVE  Changed(c, h) = h
<1>1. \A i \in Bits : c.mask[i] = One
  BY DEF IsChanger
<1> QED BY <1>1, BitsDiffer DEF Changed, Header

(* HeaderChanger::apply                                                    *)
LEMMA ApplyExact ==
  ASSUME NEW c, IsChanger(c), NEW s \in HeaderSpace
  PROVE  LET images == {Changed(c, h) : h \in HeadersIn(s)}
             r == ApplyChanger(c, s)
         IN  /\ r \in HeaderSpace /\ Len(r) = Len(s)
             /\ Tight(s) => images \subseteq HeadersIn(r)
             /\ ~HasDiffs(s) => images = HeadersIn(r)
             /\ ~c.identity => \A g \in ToSet(r) : InRange(c, g.mask)
<1> DEFINE images == {Changed(c, h) : h \in HeadersIn(s)}
           r == ApplyChanger(c, s)
<1>1. CASE c.identity
  <2>1. r = s
    BY <1>1 DEF ApplyChanger
  <2>2. \A h \in HeadersIn(s) : Changed(c, h) = h
    BY <1>1, AllHeaders, IdentityChanges
  <2>3. images = HeadersIn(s)
    BY <2>2
  <2> QED BY <1>1, <2>1, <2>3
<1>2. CASE ~c.identity
  <2> DEFINE R(a) == Rewrite(a, c.mask, c.rewrite)
  <2>1. r = RewriteSpace(s, c.mask, c.rewrite)
    BY <1>2 DEF ApplyChanger
  <2>2. /\ r \in HeaderSpace /\ Len(r) = Len(s) /\ DOMAIN r = DOMAIN s
        /\ \A i \in DOMAIN s : r[i] = RewriteElement(s[i], c.mask, c.rewrite)
    BY <2>1, ChangerVectors, RewriteSpaceParts
  <2> HIDE DEF r
  <2>3. ASSUME NEW i \in DOMAIN s
        PROVE  LET a == s[i].mask
                   kept == KeepDiffs(s[i].diff, XCount(a, c.mask), c.mask)
               IN  /\ s[i] \in Elements /\ a \in Vector /\ s[i].diff \in Seq(Vector)
                   /\ r[i] \in Elements /\ r[i].mask = R(a)
                   /\ \A h : Taken(h, r[i].diff) <=> \E d \in ToSet(kept) : h \in Headers(R(d))
                   /\ s[i].diff = <<>> => r[i].diff = <<>>
                   /\ Headers(R(a)) = {Changed(c, h) : h \in Headers(a)}
    <3>1. s[i] \in Elements /\ s[i].mask \in Vector /\ s[i].diff \in Seq(Vector)
      BY SpaceParts
    <3>2. c.rewrite \in Vector
      BY ChangerVectors
    <3> DEFINE a == s[i].mask
               kept == KeepDiffs(s[i].diff, XCount(a, c.mask), c.mask)
               q == RewriteElement(s[i], c.mask, c.rewrite)
    <3>3. /\ q \in Elements /\ q.mask = R(a)
          /\ \A h : Taken(h, q.diff) <=> \E d \in ToSet(kept) : h \in Headers(R(d))
          /\ s[i].diff = <<>> => q.diff = <<>>
      BY <3>1, <3>2, RewriteElementParts
    <3>4. Headers(R(a)) = {Changed(c, h) : h \in Headers(a)}
      BY <3>1, RewriteExact
    <3>5. r[i] = q
      BY <2>2
    <3> HIDE DEF q
    <3> QED BY <3>1, <3>3, <3>4, <3>5
  <2>4. ASSUME Tight(s), NEW h \in HeadersIn(s) PROVE Changed(c, h) \in HeadersIn(r)
    <3>1. PICK i \in DOMAIN s : h \in HeadersOf(s[i])
      BY InSpace
    <3> DEFINE a == s[i].mask
               kept == KeepDiffs(s[i].diff, XCount(a, c.mask), c.mask)
    <3>2. h \in Headers(a) /\ ~Taken(h, s[i].diff)
      BY <2>3, <3>1, OfElement
    <3>3. Changed(c, h) \in Headers(R(a))
      BY <2>3, <3>2
    <3>4. /\ ToSet(kept) \subseteq ToSet(s[i].diff)
          /\ \A d \in ToSet(kept) : XCount(d, c.mask) = XCount(a, c.mask)
      BY <2>3, KeepDiffsExact
    <3>5. ASSUME NEW d \in ToSet(kept) PROVE Changed(c, h) \notin Headers(R(d))
      <4>1. d \in ToSet(s[i].diff)
        BY <3>4
      <4>2. d \in Vector
        BY <2>3, <4>1 DEF ToSet
      <4>3. IsSub(a, d)
        BY <2>4, <4>1 DEF Tight, ToSet
      <4>4. h \notin Headers(d)
        BY <3>2, <4>1, TakenOf
      <4>5. {Changed(c, g) : g \in Headers(a) \ Headers(d)} = Headers(R(a)) \ Headers(R(d))
        BY <2>3, <3>4, <4>2, <4>3, KeptDifferenceExact
      <4> QED BY <3>2, <4>4, <4>5
    <3>6. ~Taken(Changed(c, h), r[i].diff)
      BY <2>3, <3>5
    <3>7. Changed(c, h) \in HeadersOf(r[i])
      BY <2>3, <3>3, <3>6, OfElement
    <3> QED BY <2>2, <3>7, InSpace
  <2>5. ASSUME ~HasDiffs(s) PROVE images = HeadersIn(r)
    <3>1. ASSUME NEW i \in DOMAIN s
          PROVE  /\ HeadersOf(s[i]) = Headers(s[i].mask)
                 /\ HeadersOf(r[i]) = {Changed(c, h) : h \in Headers(s[i].mask)}
      <4>1. s[i].diff = <<>> /\ r[i].diff = <<>>
        BY <2>3, <2>5 DEF HasDiffs
      <4>2. \A h : ~Taken(h, <<>>)
        BY EmptyList, TakenOf
      <4>3. \A h : h \in HeadersOf(s[i]) <=> h \in Headers(s[i].mask)
        BY <2>3, <4>1, <4>2, OfElement
      <4>4. \A h : h \in HeadersOf(r[i]) <=> h \in Headers(R(s[i].mask))
        BY <2>3, <4>1, <4>2, OfElement
      <4>5. Headers(R(s[i].mask)) = {Changed(c, h) : h \in Headers(s[i].mask)}
        BY <2>3
      <4>6. HeadersOf(s[i]) = Headers(s[i].mask) /\ HeadersOf(r[i]) = Headers(R(s[i].mask))
        BY <4>3, <4>4
      <4> QED BY <4>5, <4>6
    <3>2. \A g : g \in HeadersIn(r) <=> \E i \in DOMAIN s : g \in HeadersOf(r[i])
      BY <2>2, InSpace
    <3>3. \A g : g \in images <=> \E i \in DOMAIN s : \E h \in HeadersOf(s[i]) : g = Changed(c, h)
      BY InSpace
    <3> HIDE DEF images
    <3>4. \A g : g \in images <=> g \in HeadersIn(r)
      BY <3>1, <3>2, <3>3
    <3> QED BY <3>4 DEF images
  <2>6. ASSUME NEW g \in ToSet(r) PROVE InRange(c, g.mask)
    <3>1. PICK i \in DOMAIN s : g = r[i]
      BY <2>2 DEF ToSet
    <3>2. g.mask = R(s[i].mask)
      BY <2>3, <3>1
    <3> QED BY <3>2 DEF InRange, Rewrite
  <2>7. Tight(s) => images \subseteq HeadersIn(r)
    BY <2>4
  <2> QED BY <2>2, <2>5, <2>6, <2>7 DEF r
<1> QED BY <1>1, <1>2
----
(* A vector within one that lies in the range of a changer lies in it too, *)
(* and has no x in a bit that is set.                                      *)
LEMMA RangeWithin ==
  ASSUME NEW c, IsChanger(c), NEW a \in Vector, NEW b \in Vector, InRange(c, a)
  PROVE  IsSub(a, b) => InRange(c, b)
<1>1. ASSUME IsSub(a, b), NEW i \in Bits, c.mask[i] = Zero PROVE b[i] = c.rewrite[i]
  <2>1. a[i] = c.rewrite[i] /\ b[i] \subseteq a[i] /\ b[i] # {} /\ c.rewrite[i] \in {Zero, One}
    BY <1>1, BitValues, ChangerVectors DEF InRange, IsSub
  <2> QED BY <2>1 DEF Zero, One
<1> QED BY <1>1 DEF InRange

LEMMA RangeFixed ==
  ASSUME NEW c, IsChanger(c), NEW a, InRange(c, a)
  PROVE  XCount(a, c.mask) = 0
<1>1. {i \in Bits : c.mask[i] = Zero /\ a[i] = X} = {}
  BY BitsDiffer, ChangerVectors DEF InRange
<1> QED BY <1>1, FS_EmptySet DEF XCount

(* HeaderChanger::inverse, of a space that lies in the range of the        *)
(* changer.                                                                *)
LEMMA InvertExact ==
  ASSUME NEW c, IsChanger(c), NEW s \in HeaderSpace,
         ~c.identity => \A g \in ToSet(s) : /\ InRange(c, g.mask)
                                            /\ \A d \in ToSet(g.diff) : InRange(c, d)
  PROVE  LET r == InvertChanger(c, s)
         IN  /\ r \in HeaderSpace /\ Len(r) = Len(s)
             /\ HeadersIn(r) = {h \in Header : Changed(c, h) \in HeadersIn(s)}
<1> DEFINE r == InvertChanger(c, s)
<1>1. CASE c.identity
  <2>1. r = s
    BY <1>1 DEF InvertChanger
  <2>2. \A h \in Header : Changed(c, h) = h
    BY <1>1, IdentityChanges
  <2> QED BY <2>1, <2>2, AllHeaders
<1>2. CASE ~c.identity
  <2> DEFINE R(a) == Rewrite(a, c.mask, c.inverse)
  <2>1. r = RewriteSpace(s, c.mask, c.inverse)
    BY <1>2 DEF InvertChanger
  <2>2. /\ r \in HeaderSpace /\ Len(r) = Len(s) /\ DOMAIN r = DOMAIN s
        /\ \A i \in DOMAIN s : r[i] = RewriteElement(s[i], c.mask, c.inverse)
    BY <2>1, ChangerVectors, RewriteSpaceParts
  <2> HIDE DEF r
  <2>3. ASSUME NEW i \in DOMAIN s, NEW h
        PROVE  h \in HeadersOf(r[i]) <=> h \in Header /\ Changed(c, h) \in HeadersOf(s[i])
    <3> DEFINE a == s[i].mask
               ds == s[i].diff
               kept == KeepDiffs(ds, XCount(a, c.mask), c.mask)
    <3>1. s[i] \in Elements /\ a \in Vector /\ ds \in Seq(Vector)
      BY SpaceParts
    <3>2. InRange(c, a) /\ \A d \in ToSet(ds) : InRange(c, d)
      BY <1>2 DEF ToSet
    <3>3. kept = ds
      <4>1. XCount(a, c.mask) = 0 /\ \A d \in ToSet(ds) : XCount(d, c.mask) = 0
        BY <3>2, RangeFixed
      <4> QED BY <3>1, <4>1, KeepDiffsExact
    <3>4. /\ r[i] \in Elements /\ r[i].mask = R(a)
          /\ \A g : Taken(g, r[i].diff) <=> \E d \in ToSet(kept) : g \in Headers(R(d))
      BY <2>2, <3>1, ChangerVectors, RewriteElementParts
    <3>5. ASSUME NEW b \in Vector, InRange(c, b)
          PROVE  h \in Headers(R(b)) <=> h \in Header /\ Changed(c, h) \in Headers(b)
      <4>1. Headers(R(b)) = {g \in Header : Changed(c, g) \in Headers(b)}
        BY <3>5, InverseExact
      <4> QED BY <4>1
    <3>6. \A d \in ToSet(ds) : d \in Vector
      BY <3>1 DEF ToSet
    <3>7. h \in Header => (Taken(h, r[i].diff) <=> Taken(Changed(c, h), ds))
      BY <3>2, <3>3, <3>4, <3>5, <3>6, TakenOf
    <3>8. h \in HeadersOf(r[i]) <=> h \in Headers(R(a)) /\ ~Taken(h, r[i].diff)
      BY <3>4, OfElement
    <3>9. Changed(c, h) \in HeadersOf(s[i]) <=>
            Changed(c, h) \in Headers(a) /\ ~Taken(Changed(c, h), ds)
      BY <3>1, OfElement
    <3> QED BY <3>1, <3>2, <3>5, <3>7, <3>8, <3>9
  <2>4. \A h : h \in HeadersIn(r) <=> h \in Header /\ Changed(c, h) \in HeadersIn(s)
    BY <2>2, <2>3, InSpace
  <2> QED BY <2>2, <2>4 DEF r
<1> QED BY <1>1, <1>2

(* The elements of an intersection.                                        *)
LEMMA MeetParts ==
  ASSUME NEW e \in Elements, NEW f \in Elements
  PROVE  /\ Len(Common(e, f)) <= 1
         /\ \A g \in ToSet(Common(e, f)) :
              /\ g.mask = Isect(e.mask, f.mask)
              /\ \A d \in ToSet(g.diff) : IsSub(g.mask, d)
<1> DEFINE a == Isect(e.mask, f.mask)
           we == Within(a, e.diff)
           wf == Within(a, f.diff)
           g == [mask |-> a, diff |-> we \o wf]
<1>1. e.mask \in Vector /\ f.mask \in Vector /\ e.diff \in Seq(Vector) /\ f.diff \in Seq(Vector)
  BY ElementParts
<1>2. CASE HasZ(a)
  <2>1. Common(e, f) = <<>>
    BY <1>2 DEF Common
  <2>2. Len(<<>>) = 0
    OBVIOUS
  <2> QED BY <2>1, <2>2, EmptyList
<1>3. CASE ~HasZ(a)
  <2>1. Common(e, f) = <<g>>
    BY <1>3 DEF Common
  <2>2. a \in Vector
    BY <1>1, <1>3, MeetTyped DEF Disjoint
  <2> HIDE DEF a
  <2>3. /\ we \in Seq(Vector) /\ wf \in Seq(Vector)
        /\ \A d \in ToSet(we) : IsSub(a, d)
        /\ \A d \in ToSet(wf) : IsSub(a, d)
    BY <1>1, <2>2, WithinFacts DEF ToSet
  <2> HIDE DEF we, wf
  <2>4. ToSet(we \o wf) = ToSet(we) \cup ToSet(wf)
    BY <2>3, JoinedElements
  <2>5. g.mask = a /\ g.diff = we \o wf
    OBVIOUS
  <2> HIDE DEF g
  <2>6. ToSet(<<g>>) = {g} /\ Len(<<g>>) = 1
    <3>1. \A x : ToSet(<<x>>) = {x} /\ Len(<<x>>) = 1
      <4>1. ASSUME NEW x PROVE x \in {x}
        OBVIOUS
      <4> QED BY <4>1, OneList
    <3> QED BY <3>1
  <2>7. Len(Common(e, f)) = 1 /\ \A k \in ToSet(Common(e, f)) : k = g
    BY <2>1, <2>6
  <2>8. \A d \in ToSet(g.diff) : IsSub(g.mask, d)
    BY <2>3, <2>4, <2>5
  <2>9. g.mask = Isect(e.mask, f.mask)
    BY <2>5 DEF a
  <2> QED BY <2>7, <2>8, <2>9
<1> QED BY <1>2, <1>3

LEMMA AndParts ==
  ASSUME NEW s \in HeaderSpace, NEW t \in HeaderSpace
  PROVE  /\ Len(s) <= 1 /\ Len(t) <= 1 => Len(And(s, t)) <= 1
         /\ \A g \in ToSet(And(s, t)) :
              /\ \E e \in ToSet(s), f \in ToSet(t) : g.mask = Isect(e.mask, f.mask)
              /\ \A d \in ToSet(g.diff) : IsSub(g.mask, d)
<1> DEFINE row(i) == [j \in DOMAIN t |-> Common(s[i], t[j])]
           rows == [i \in DOMAIN s |-> FlattenSeq(row(i))]
<1>1. /\ Len(s) \in Nat /\ DOMAIN s = 1 .. Len(s) /\ \A i \in DOMAIN s : s[i] \in Elements
      /\ Len(t) \in Nat /\ DOMAIN t = 1 .. Len(t) /\ \A j \in DOMAIN t : t[j] \in Elements
  BY SpaceParts
<1>2. And(s, t) = FlattenSeq(rows)
  BY DEF And
<1>3. ASSUME NEW i \in DOMAIN s
      PROVE  /\ row(i) \in [1 .. Len(t) -> Seq(Elements)]
             /\ \A j \in DOMAIN t : row(i)[j] = Common(s[i], t[j])
             /\ FlattenSeq(row(i)) \in Seq(Elements)
             /\ \A e : e \in ToSet(FlattenSeq(row(i))) <=>
                         \E j \in DOMAIN t : e \in ToSet(Common(s[i], t[j]))
  <2>1. row(i) \in [1 .. Len(t) -> Seq(Elements)] /\ \A j \in DOMAIN t : row(i)[j] = Common(s[i], t[j])
    BY <1>1, MeetFacts
  <2> HIDE DEF row
  <2> QED BY <1>1, <2>1, JoinOf
<1> HIDE DEF row
<1>4. rows \in [1 .. Len(s) -> Seq(Elements)] /\ \A i \in DOMAIN s : rows[i] = FlattenSeq(row(i))
  BY <1>1, <1>3
<1> HIDE DEF rows
<1>5. \A e : e \in ToSet(And(s, t)) <=>
               \E i \in DOMAIN s, j \in DOMAIN t : e \in ToSet(Common(s[i], t[j]))
  <2>1. \A e : e \in ToSet(And(s, t)) <=> \E i \in 1 .. Len(s) : e \in ToSet(rows[i])
    BY <1>1, <1>2, <1>4, JoinOf
  <2> QED BY <1>1, <1>3, <1>4, <2>1
<1>6. ASSUME Len(s) <= 1, Len(t) <= 1 PROVE Len(And(s, t)) <= 1
  <2>1. \A f \in [1 .. 0 -> Seq(Elements)] : FlattenSeq(f) = <<>>
    <3>1. \A f \in [1 .. 0 -> Seq(Elements)] : f = <<>>
      OBVIOUS
    <3> QED BY <3>1, FlattenEmpty
  <2>2. \A f \in [1 .. 1 -> Seq(Elements)] : FlattenSeq(f) = f[1]
    <3>1. ASSUME NEW f \in [1 .. 1 -> Seq(Elements)] PROVE f = <<f[1]>> /\ f[1] \in Seq(Elements)
      OBVIOUS
    <3> QED BY <3>1, FlattenOne
  <2>3. Len(<<>>) = 0
    OBVIOUS
  <2>4. ASSUME NEW i \in DOMAIN s PROVE Len(FlattenSeq(row(i))) <= 1
    <3>1. CASE Len(t) = 0
      BY <1>3, <2>1, <2>3, <3>1
    <3>2. CASE Len(t) = 1
      <4>1. FlattenSeq(row(i)) = Common(s[i], t[1]) /\ t[1] \in Elements
        BY <1>1, <1>3, <2>2, <3>2
      <4> QED BY <1>1, <4>1, MeetParts
    <3>3. Len(t) = 0 \/ Len(t) = 1
      BY <1>1, <1>6
    <3> QED BY <3>1, <3>2, <3>3
  <2>5. CASE Len(s) = 0
    <3>1. rows \in [1 .. 0 -> Seq(Elements)]
      BY <1>4, <2>5
    <3>2. FlattenSeq(rows) = <<>>
      BY <2>1, <3>1
    <3> QED BY <1>2, <2>3, <3>2
  <2>6. CASE Len(s) = 1
    <3>1. And(s, t) = FlattenSeq(row(1)) /\ 1 \in DOMAIN s
      BY <1>1, <1>2, <1>4, <2>2, <2>6
    <3> QED BY <2>4, <3>1
  <2> QED BY <1>1, <1>6, <2>5, <2>6
<1>7. ASSUME NEW g \in ToSet(And(s, t))
      PROVE  /\ \E e \in ToSet(s), f \in ToSet(t) : g.mask = Isect(e.mask, f.mask)
             /\ \A d \in ToSet(g.diff) : IsSub(g.mask, d)
  <2>1. PICK i \in DOMAIN s, j \in DOMAIN t : g \in ToSet(Common(s[i], t[j]))
    BY <1>5
  <2>2. s[i] \in Elements /\ t[j] \in Elements /\ s[i] \in ToSet(s) /\ t[j] \in ToSet(t)
    BY <1>1 DEF ToSet
  <2> QED BY <2>1, <2>2, MeetParts
<1> QED BY <1>6, <1>7

(***************************************************************************)
(* Calls on a space                                                        *)
(***************************************************************************)
LEMMA MembersTyped ==
  ASSUME NEW s \in HeaderSpace, NEW g \in ToSet(s)
  PROVE  g.mask \in Vector /\ \A d \in ToSet(g.diff) : d \in Vector
<1>1. PICK i \in DOMAIN s : g = s[i]
  BY DEF ToSet
<1>2. g.mask \in Vector /\ g.diff \in Seq(Vector)
  BY <1>1, SpaceParts
<1> QED BY <1>2 DEF ToSet

LEMMA MatchSpace ==
  ASSUME NEW a \in Vector
  PROVE  /\ <<Element(a)>> \in HeaderSpace /\ Len(<<Element(a)>>) = 1
         /\ HeadersIn(<<Element(a)>>) = Headers(a) /\ ~HasDiffs(<<Element(a)>>)
<1> DEFINE e == Element(a)
<1>1. e \in Elements /\ e.diff = <<>> /\ HeadersOf(e) = Headers(a)
  BY ElementOf
<1> HIDE DEF e
<1>2. /\ <<e>> \in Seq(Elements) /\ Len(<<e>>) = 1 /\ DOMAIN <<e>> = {1} /\ <<e>>[1] = e
      /\ ToSet(<<e>>) = {e}
  BY <1>1, OneList
<1>3. \A h : h \in HeadersIn(<<e>>) <=> h \in Headers(a)
  BY <1>1, <1>2, InList
<1>4. ~HasDiffs(<<e>>)
  BY <1>1, <1>2 DEF HasDiffs
<1> QED BY <1>2, <1>3, <1>4 DEF e, HeaderSpace

LEMMA AndShort ==
  ASSUME NEW s \in HeaderSpace, NEW t \in HeaderSpace, Len(s) <= 1, Len(t) <= 1
  PROVE  Len(And(s, t)) <= 1
BY AndParts

LEMMA EdgeDomainExact ==
  ASSUME NEW hop \in Hops
  PROVE  /\ EdgeDomain(hop) \in HeaderSpace /\ Len(EdgeDomain(hop)) <= 1
         /\ HeadersIn(EdgeDomain(hop)) =
              {Changed(hop.changer, h) : h \in Headers(hop.match)} \cap HeadersIn(hop.dst)
         /\ ~hop.changer.identity =>
              \A g \in ToSet(EdgeDomain(hop)) : InRange(hop.changer, g.mask)
<1> DEFINE c == hop.changer
           p == <<Element(hop.match)>>
           q == ApplyChanger(c, p)
           u == And(q, hop.dst)
<1>1. hop.match \in Vector /\ IsChanger(c) /\ hop.dst \in HeaderSpace /\ Len(hop.dst) = 1
  BY CallsAreTyped
<1>2. EdgeDomain(hop) = Compacted(u)
  BY DEF EdgeDomain
<1>3. p \in HeaderSpace /\ Len(p) = 1 /\ HeadersIn(p) = Headers(hop.match) /\ ~HasDiffs(p)
  BY <1>1, MatchSpace
<1> HIDE DEF p, c
<1>4. /\ q \in HeaderSpace /\ Len(q) = 1
      /\ HeadersIn(q) = {Changed(c, h) : h \in Headers(hop.match)}
      /\ ~c.identity => \A g \in ToSet(q) : InRange(c, g.mask)
  BY <1>1, <1>3, ApplyExact
<1> HIDE DEF q
<1>5. /\ u \in HeaderSpace /\ Len(u) <= 1
      /\ HeadersIn(u) = {Changed(c, h) : h \in Headers(hop.match)} \cap HeadersIn(hop.dst)
  <2>1. u \in HeaderSpace /\ HeadersIn(u) = HeadersIn(q) \cap HeadersIn(hop.dst)
    BY <1>1, <1>4, AndExact
  <2>2. Len(q) <= 1 /\ Len(hop.dst) <= 1
    BY <1>1, <1>4
  <2>3. Len(u) <= 1
    BY <1>1, <1>4, <2>2, AndShort
  <2> QED BY <1>4, <2>1, <2>3
<1>6. ASSUME ~c.identity, NEW g \in ToSet(u) PROVE InRange(c, g.mask)
  <2>1. PICK e \in ToSet(q), f \in ToSet(hop.dst) : g.mask = Isect(e.mask, f.mask)
    BY <1>1, <1>4, AndParts
  <2>2. InRange(c, e.mask) /\ e.mask \in Vector /\ g.mask \in Vector
    BY <1>4, <1>5, <1>6, MembersTyped
  <2>3. IsSub(e.mask, g.mask)
    BY <2>1, SubFacts
  <2> QED BY <1>1, <2>2, <2>3, RangeWithin
<1> HIDE DEF u
<1>7. /\ Compacted(u) \in HeaderSpace /\ Len(Compacted(u)) <= Len(u)
      /\ HeadersIn(Compacted(u)) = HeadersIn(u)
      /\ \A g \in ToSet(Compacted(u)) : \E f \in ToSet(u) : IsSub(f.mask, g.mask)
  <2>1. Plain(u)
    BY <1>5 DEF Plain
  <2> QED BY <1>5, <2>1, CompactedExact
<1>8. Len(Compacted(u)) <= 1
  <2>1. Len(u) \in Nat /\ Len(Compacted(u)) \in Nat
    BY <1>5, <1>7, SpaceParts
  <2> QED BY <1>5, <1>7, <2>1
<1>9. ASSUME ~c.identity, NEW g \in ToSet(Compacted(u)) PROVE InRange(c, g.mask)
  <2>1. PICK f \in ToSet(u) : IsSub(f.mask, g.mask)
    BY <1>7
  <2>2. InRange(c, f.mask) /\ f.mask \in Vector /\ g.mask \in Vector
    BY <1>5, <1>6, <1>7, <1>9, MembersTyped
  <2> QED BY <1>1, <2>1, <2>2, RangeWithin
<1> QED BY <1>2, <1>5, <1>7, <1>8, <1>9 DEF c

LEMMA BackThroughExact ==
  ASSUME NEW hop \in Hops, NEW s \in HeaderSpace
  PROVE  /\ BackThrough(s, hop) \in HeaderSpace
         /\ Len(s) <= 1 => Len(BackThrough(s, hop)) <= 1
         /\ HeadersIn(BackThrough(s, hop)) =
              {h \in Headers(hop.match) :
                 Changed(hop.changer, h) \in HeadersIn(s) \cap HeadersIn(hop.dst)}
<1> DEFINE c == hop.changer
           d == EdgeDomain(hop)
           v == And(d, s)
           r == InvertChanger(c, v)
           p == <<Element(hop.match)>>
           b == BackThrough(s, hop)
<1>1. hop.match \in Vector /\ IsChanger(c)
  BY CallsAreTyped
<1>2. b = And(r, p)
  BY DEF BackThrough
<1> HIDE DEF b
<1>3. p \in HeaderSpace /\ Len(p) = 1 /\ HeadersIn(p) = Headers(hop.match)
  BY <1>1, MatchSpace
<1> HIDE DEF p
<1>4. /\ d \in HeaderSpace /\ Len(d) <= 1
      /\ HeadersIn(d) = {Changed(c, h) : h \in Headers(hop.match)} \cap HeadersIn(hop.dst)
      /\ ~c.identity => \A g \in ToSet(d) : InRange(c, g.mask)
  BY EdgeDomainExact
<1> HIDE DEF d, c
<1>5. v \in HeaderSpace /\ HeadersIn(v) = HeadersIn(d) \cap HeadersIn(s)
  BY <1>4, AndExact
<1>6. ASSUME ~c.identity, NEW g \in ToSet(v)
      PROVE  InRange(c, g.mask) /\ \A w \in ToSet(g.diff) : InRange(c, w)
  <2>1. /\ \E e \in ToSet(d), f \in ToSet(s) : g.mask = Isect(e.mask, f.mask)
        /\ \A w \in ToSet(g.diff) : IsSub(g.mask, w)
    BY <1>4, AndParts
  <2>2. PICK e \in ToSet(d), f \in ToSet(s) : g.mask = Isect(e.mask, f.mask)
    BY <2>1
  <2>3. InRange(c, e.mask) /\ e.mask \in Vector
    BY <1>4, <1>6, MembersTyped
  <2>4. g.mask \in Vector /\ \A w \in ToSet(g.diff) : w \in Vector
    BY <1>5, MembersTyped
  <2>5. IsSub(e.mask, g.mask)
    BY <2>2, SubFacts
  <2>6. InRange(c, g.mask)
    BY <1>1, <2>3, <2>4, <2>5, RangeWithin
  <2>7. ASSUME NEW w \in ToSet(g.diff) PROVE InRange(c, w)
    <3>1. w \in Vector /\ IsSub(g.mask, w)
      BY <2>1, <2>4
    <3> QED BY <1>1, <2>4, <2>6, <3>1, RangeWithin
  <2> QED BY <2>6, <2>7
<1>7. Len(s) <= 1 => Len(v) <= 1
  BY <1>4, AndParts
<1> HIDE DEF v
<1>8. /\ r \in HeaderSpace /\ Len(r) = Len(v)
      /\ HeadersIn(r) = {h \in Header : Changed(c, h) \in HeadersIn(v)}
  BY <1>1, <1>5, <1>6, InvertExact
<1> HIDE DEF r
<1>9. b \in HeaderSpace /\ HeadersIn(b) = HeadersIn(r) \cap Headers(hop.match)
  BY <1>2, <1>3, <1>8, AndExact
<1>10. Len(s) <= 1 => Len(b) <= 1
  <2>1. Len(p) <= 1
    BY <1>3
  <2>2. ASSUME Len(s) <= 1 PROVE Len(b) <= 1
    <3>1. Len(r) <= 1
      BY <1>7, <1>8, <2>2
    <3> QED BY <1>2, <1>3, <1>8, <2>1, <3>1, AndShort
  <2> QED BY <2>2
<1>11. ASSUME NEW h
       PROVE  h \in HeadersIn(b) <=> /\ h \in Headers(hop.match)
                                     /\ Changed(c, h) \in HeadersIn(s) \cap HeadersIn(hop.dst)
  <2>1. h \in Headers(hop.match) =>
          h \in Header /\ Changed(c, h) \in {Changed(c, g) : g \in Headers(hop.match)}
    BY <1>1, SomeHeaders
  <2> QED BY <1>4, <1>5, <1>8, <1>9, <2>1
<1> QED BY <1>9, <1>10, <1>11 DEF b, c
----
(* Whatever is called on a space, no vector of it has a bit without a      *)
(* value: an intersection that has one is left out.                        *)
LEMMA CallsTyped ==
  ASSUME NEW s \in HeaderSpace
  PROVE  /\ \A t \in Operands : /\ Plus(s, t) \in HeaderSpace /\ And(s, t) \in HeaderSpace
                                /\ Minus(s, t) \in HeaderSpace
         /\ Cmpl(s) \in HeaderSpace
         /\ Compacted(s) \in HeaderSpace
         /\ ComputeDifference(s) \in HeaderSpace
         /\ \A c \in Changers : /\ ApplyChanger(c, s) \in HeaderSpace
                                /\ InvertChanger(c, s) \in HeaderSpace
         /\ \A hop \in Hops : Compacted(BackThrough(s, hop)) \in HeaderSpace
<1>1. ASSUME NEW t \in Operands
      PROVE  /\ Plus(s, t) \in HeaderSpace /\ And(s, t) \in HeaderSpace
             /\ Minus(s, t) \in HeaderSpace
  <2>1. t \in HeaderSpace
    BY CallsAreTyped
  <2> QED BY <2>1, PlusExact, AndExact, MinusExact
<1>2. Cmpl(s) \in HeaderSpace
  BY CmplExact
<1>3. Compacted(s) \in HeaderSpace
  BY CompactedExact
<1>4. ComputeDifference(s) \in HeaderSpace
  BY ComputeDifferenceExact
<1>5. ASSUME NEW c \in Changers
      PROVE  ApplyChanger(c, s) \in HeaderSpace /\ InvertChanger(c, s) \in HeaderSpace
  <2>1. IsChanger(c)
    BY CallsAreTyped
  <2>2. ApplyChanger(c, s) \in HeaderSpace
    BY <2>1, ApplyExact
  <2>3. c.inverse \in Vector
    BY <2>1, ChangerVectors
  <2>4. RewriteSpace(s, c.mask, c.inverse) \in HeaderSpace
    BY <2>3, RewriteSpaceParts
  <2> QED BY <2>2, <2>4 DEF InvertChanger
<1>6. ASSUME NEW hop \in Hops PROVE Compacted(BackThrough(s, hop)) \in HeaderSpace
  <2>1. BackThrough(s, hop) \in HeaderSpace
    BY BackThroughExact
  <2> QED BY <2>1, CompactedExact
<1> QED BY <1>1, <1>2, <1>3, <1>4, <1>5, <1>6

(* No vector of a space ever has a bit without a value, whatever is called *)
(* on it and in which order.                                               *)
THEOREM SpaceTyped == Spec => []TypeOK
<1>1. Init => TypeOK
  <2>1. EmptySpace \in HeaderSpace /\ WholeSpace \in HeaderSpace
    BY EmptyList, WholeSpaceExact DEF EmptySpace, HeaderSpace
  <2> QED BY <2>1 DEF Init, TypeOK
<1>2. TypeOK /\ [Next]_space => TypeOK'
  <2> SUFFICES ASSUME space \in HeaderSpace, [Next]_space PROVE space' \in HeaderSpace
    BY DEF TypeOK
  <2>1. CASE UNCHANGED space
    BY <2>1
  <2>2. ASSUME NEW t \in Operands, Add(t) \/ Intersect(t) \/ Subtract(t)
        PROVE  space' \in HeaderSpace
    BY <2>2, CallsTyped DEF Add, Intersect, Subtract, Becomes
  <2>3. CASE Complement
    BY <2>3, CallsTyped DEF Complement, Becomes
  <2>4. CASE LookEmpty
    BY <2>4, CallsTyped DEF LookEmpty, Becomes
  <2>5. CASE Difference
    BY <2>5, CallsTyped DEF Difference, Becomes
  <2>6. ASSUME NEW c \in Changers, Apply(c) \/ Invert(c) PROVE space' \in HeaderSpace
    BY <2>6, CallsTyped DEF Apply, Invert, Becomes
  <2>7. ASSUME NEW hop \in Hops, FollowBack(hop) PROVE space' \in HeaderSpace
    BY <2>7, CallsTyped DEF FollowBack, Becomes
  <2> QED BY <2>1, <2>2, <2>3, <2>4, <2>5, <2>6, <2>7 DEF Next
<1> QED BY <1>1, <1>2, PTL DEF Spec

(* For headers of any width and spaces of any size, the operators of the   *)
(* class compute what their names say of the sets of headers, but for the  *)
(* faults that SubtractExact, Complementable, Plain and Separable name.    *)
THEOREM AlgebraHolds == Spec => []AlgebraExact
<1>1. TypeOK => AlgebraExact
  <2> SUFFICES ASSUME space \in HeaderSpace PROVE AlgebraExact
    BY DEF TypeOK
  <2>1. ASSUME NEW t \in Operands
        PROVE  /\ HeadersIn(Plus(space, t)) = HeadersIn(space) \cup HeadersIn(t)
               /\ HeadersIn(And(space, t)) = HeadersIn(space) \cap HeadersIn(t)
               /\ SubtractExact(space, t) =>
                    HeadersIn(Minus(space, t)) = HeadersIn(space) \ HeadersIn(t)
    <3>1. t \in HeaderSpace
      BY CallsAreTyped
    <3> QED BY <3>1, PlusExact, AndExact, MinusExact
  <2>2. Complementable(space) => HeadersIn(Cmpl(space)) = Header \ HeadersIn(space)
    BY CmplExact
  <2>3. /\ HeadersIn(Compacted(space)) \subseteq HeadersIn(space)
        /\ Plain(space) => HeadersIn(Compacted(space)) = HeadersIn(space)
    BY CompactedExact
  <2>4. Separable(space) => HeadersIn(ComputeDifference(space)) = HeadersIn(space)
    BY ComputeDifferenceExact
  <2> QED BY <2>1, <2>2, <2>3, <2>4 DEF AlgebraExact
<1> QED BY <1>1, SpaceTyped, PTL

(* A header changer loses no header of a space whose differences lie in    *)
(* their elements, and adds none to a space without differences.           *)
THEOREM RewritingHolds == Spec => []RewritingKeeps
<1>1. TypeOK => RewritingKeeps
  <2> SUFFICES ASSUME space \in HeaderSpace, NEW c \in Changers
               PROVE  LET images == {Changed(c, h) : h \in HeadersIn(space)}
                          after  == HeadersIn(ApplyChanger(c, space))
                      IN  /\ Tight(space) => images \subseteq after
                          /\ ~HasDiffs(space) => images = after
    BY DEF TypeOK, RewritingKeeps
  <2>1. IsChanger(c)
    BY CallsAreTyped
  <2> QED BY <2>1, ApplyExact
<1> QED BY <1>1, SpaceTyped, PTL

(* What a path of one element keeps when it is followed back over a hop    *)
(* are exactly the headers that the rule matches and that, changed, arrive *)
(* in the path: the step by which the flow predictor builds the domain of  *)
(* an intercept rule loses and invents no header.                          *)
THEOREM PathDomainHolds == Spec => []PathDomainExact
<1>1. TypeOK => PathDomainExact
  <2> SUFFICES ASSUME space \in HeaderSpace, NEW hop \in Hops, Len(space) = 1
               PROVE  HeadersIn(Compacted(BackThrough(space, hop))) =
                        {h \in Headers(hop.match) :
                           Changed(hop.changer, h) \in HeadersIn(space) \cap HeadersIn(hop.dst)}
    BY DEF TypeOK, PathDomainExact
  <2> DEFINE b == BackThrough(space, hop)
  <2>1. /\ b \in HeaderSpace /\ Len(b) <= 1
        /\ HeadersIn(b) =
             {h \in Headers(hop.match) :
                Changed(hop.changer, h) \in HeadersIn(space) \cap HeadersIn(hop.dst)}
    <3>1. Len(space) <= 1
      OBVIOUS
    <3> QED BY <3>1, BackThroughExact
  <2> HIDE DEF b
  <2>2. HeadersIn(Compacted(b)) = HeadersIn(b)
    BY <2>1, CompactedExact DEF Plain
  <2> QED BY <2>1, <2>2 DEF b
<1> QED BY <1>1, SpaceTyped, PTL

(* The comparisons of spaces (operator<=, >= and ==) agree with the        *)
(* inclusion of the sets of headers wherever the difference they are made  *)
(* of is exact.                                                            *)
THEOREM ComparisonsHold == Spec => []ComparisonsExact
<1>1. TypeOK => ComparisonsExact
  <2> SUFFICES ASSUME space \in HeaderSpace, NEW t \in Operands
               PROVE  /\ ~HasDiffs(t) /\ Separable(Minus(space, t)) =>
                           (IsWithin(space, t) <=> HeadersIn(space) \subseteq HeadersIn(t))
                      /\ SubtractExact(t, space) /\ Separable(Minus(t, space)) =>
                           (IsWithin(t, space) <=> HeadersIn(t) \subseteq HeadersIn(space))
    BY DEF TypeOK, ComparisonsExact
  <2>1. t \in HeaderSpace
    BY CallsAreTyped
  <2>2. ASSUME NEW p \in HeaderSpace, NEW q \in HeaderSpace, SubtractExact(p, q),
               Separable(Minus(p, q))
        PROVE  IsWithin(p, q) <=> HeadersIn(p) \subseteq HeadersIn(q)
    <3>1. Minus(p, q) \in HeaderSpace /\ HeadersIn(Minus(p, q)) = HeadersIn(p) \ HeadersIn(q)
      BY <2>2, MinusExact
    <3>2. NothingLeft(Minus(p, q)) <=> HeadersIn(Minus(p, q)) = {}
      BY <2>2, <3>1, NothingLeftExact
    <3> QED BY <3>1, <3>2 DEF IsWithin
  <2>3. ~HasDiffs(t) => SubtractExact(space, t)
    BY DEF SubtractExact
  <2> QED BY <2>1, <2>2, <2>3
<1> QED BY <1>1, SpaceTyped, PTL
====
