--------------------------- MODULE TernaryVectors ---------------------------
(***************************************************************************)
(* The wildcard vectors of the header space library (array.c): a bit of a  *)
(* vector is 0, 1, x (any) or z (none).  The code keeps a bit as a pair of *)
(* flags, "may be 0" and "may be 1"; here it is the set of the values it   *)
(* allows, so that the word-wise & of the code is an intersection.         *)
(***************************************************************************)
EXTENDS Integers, FiniteSets

CONSTANT Width  (* the number of bits of a header                          *)

ASSUME WidthAssumption == Width \in Nat \ {0}

Bits == 1..Width

Zero == {0}
One == {1}
X == {0, 1}

Vector == [Bits -> {Zero, One, X}]

(* A header is a packet as the rules see it; Headers(a) are those that the *)
(* vector a stands for.                                                    *)
Header == [Bits -> {0, 1}]
Headers(a) == {h \in Header : \A i \in Bits : h[i] \in a[i]}

(* array_create with BIT_X                                                 *)
Whole == [i \in Bits |-> X]

(* array_isect; where it leaves a z, array_isect_a returns NULL.           *)
Isect(a, b) == [i \in Bits |-> a[i] \cap b[i]]
HasZ(a) == \E i \in Bits : a[i] = {}
Disjoint(a, b) == HasZ(Isect(a, b))

(* array_is_sub: b lies in a.                                              *)
IsSub(a, b) == \A i \in Bits : b[i] \subseteq a[i]

(* Variant: a bit that is x on one side is not an excess.                  *)
FixedExcess(a, b) ==
  {f \in Bits \X {0, 1} : b[f[1]] # X /\ f[2] \in b[f[1]] \ a[f[1]]}

(* array_one_bit_subtract, b less a: the flags of b that a does not have.  *)
(* With none of them a covers b; with a single one b less a is a vector,   *)
(* in which the bit of the flag is fixed; with more of them it is not.     *)
Excess(a, b) == {f \in Bits \X {0, 1} : f[2] \in b[f[1]] \ a[f[1]]}
OneBitSubtract(a, b) ==
  [i \in Bits |-> IF \E v \in {0, 1} : <<i, v>> \in Excess(a, b)
                  THEN b[i] \ a[i] ELSE b[i]]

(* array_cmpl: one vector for every bit that a fixes, with the other value *)
(* in that bit and x everywhere else.                                      *)
Fixed(a) == {i \in Bits : a[i] # X}
Flipped(a, i) == [Whole EXCEPT ![i] = X \ a[i]]

(***************************************************************************)
(* Header changers.  A transfer vector names the bits that are set, with   *)
(* their values; x leaves a bit alone.                                     *)
(***************************************************************************)
(* array_rewrite, for a mask of 0 (set the bit) and 1 (keep it); XCount is *)
(* what it returns.                                                        *)
Rewrite(a, mask, rewrite) ==
  [i \in Bits |-> IF mask[i] = Zero THEN rewrite[i] ELSE a[i]]
XCount(a, mask) == Cardinality({i \in Bits : mask[i] = Zero /\ a[i] = X})

(* HeaderChanger: what apply writes over the bits of its mask, and what    *)
(* inverse does.  The identity is not applied at all.                      *)
Changer(t) ==
  [mask     |-> [i \in Bits |-> IF t[i] = X THEN One ELSE Zero],
   rewrite  |-> [i \in Bits |-> IF t[i] = X THEN Zero ELSE t[i]],
   inverse  |-> [i \in Bits |-> IF t[i] = X THEN Zero ELSE X],
   identity |-> \A i \in Bits : t[i] = X]

(* What a changer made of transfer vectors, and composed of such, looks    *)
(* like.                                                                   *)
Transparent == [Bits -> {Zero, One}]
IsChanger(c) ==
  /\ c.mask \in Transparent /\ c.rewrite \in Transparent
  /\ c.inverse \in [Bits -> {Zero, X}]
  /\ \A i \in Bits : c.inverse[i] = X <=> c.mask[i] = Zero
  /\ c.identity <=> \A i \in Bits : c.mask[i] = One

(* HeaderChanger::operator*=, c and then d.                                *)
Compose(c, d) ==
  IF c.identity THEN d
  ELSE IF d.identity THEN c
  ELSE [mask     |-> [i \in Bits |->
                        IF Zero \in {c.mask[i], d.mask[i]} THEN Zero ELSE One],
        rewrite  |-> Rewrite(c.rewrite, d.mask, d.rewrite),
        inverse  |-> Rewrite(c.inverse, d.mask, d.inverse),
        identity |-> FALSE]

(* What a switch does to a header that passes a changer: Value is the      *)
(* value of a bit that is 0 or 1.                                          *)
Value(b) == CHOOSE v \in b : TRUE
Changed(c, h) ==
  [i \in Bits |-> IF c.mask[i] = Zero THEN Value(c.rewrite[i]) ELSE h[i]]
====
