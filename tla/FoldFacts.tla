----------------------------- MODULE FoldFacts -----------------------------
(***************************************************************************)
(* Folding a sequence from left to right with any operator, which may have *)
(* two parameters: what holds of the part that has been folded so far, and *)
(* how the fold keeps to a set.  A proof about a fold instantiates this    *)
(* module with the operator that is folded.                                *)
(*                                                                         *)
(* Fold is FoldLeft as SequencesExt defines it, written with MapThenFoldSet*)
(* of Folds, which it rests on.  There is one instance for each fold, and  *)
(* each carries along everything that this module has and extends.  So it  *)
(* has few lemmas, whose longer steps take the place of lemmas, extends no *)
(* library of theorems, and takes the induction rule for natural numbers   *)
(* from where it is used, as a hypothesis: NaturalInduction of             *)
(* SequenceFacts.                                                          *)
(***************************************************************************)
EXTENDS Integers, Sequences, Folds

CONSTANT Op(_, _, _, _)  (* two parameters, what has come so far, an element *)

(* The rule of induction for natural numbers.                              *)
Induction ==
  \A S \in SUBSET Nat : 0 \in S /\ (\A n \in S : n + 1 \in S) => S = Nat

Largest(S) == CHOOSE x \in S : \A y \in S : x >= y

Fold(p, o, b, s) ==
  MapThenFoldSet(LAMBDA x, y : Op(p, o, y, x), b, LAMBDA i : s[i],
                 LAMBDA S : Largest(S), DOMAIN s)

(* The function that the fold takes its value from.                        *)
Folding(g, p, o, b, s, n) ==
  g = [I \in SUBSET (1 .. n) |->
         IF I = {} THEN b ELSE Op(p, o, g[I \ {Largest(I)}], s[Largest(I)])]

----
(* A fold of nothing, and of one element more.                             *)
LEMMA FoldStep ==
  ASSUME Induction,
         NEW p, NEW o, NEW b, NEW E, NEW s \in Seq(E), NEW x \in E
  PROVE  /\ Fold(p, o, b, <<>>) = b
         /\ Fold(p, o, b, Append(s, x)) = Op(p, o, Fold(p, o, b, s), x)
(* A set of indices has a last one.                                        *)
<1>1. ASSUME NEW n \in Nat, NEW I \in SUBSET (1 .. n), I # {}
      PROVE  \E i \in I : \A j \in I : j <= i
  <2> DEFINE N == {k \in Nat : \A J \in SUBSET (1 .. k) : J # {} =>
                                  \E i \in J : \A j \in J : j <= i}
  <2>1. 0 \in N
    <3>1. \A J \in SUBSET (1 .. 0) : J = {}
      OBVIOUS
    <3> QED BY <3>1
  <2>2. ASSUME NEW k \in N PROVE k + 1 \in N
    <3>1. k \in Nat
      OBVIOUS
    <3>2. ASSUME NEW J \in SUBSET (1 .. k + 1), J # {}
          PROVE  \E i \in J : \A j \in J : j <= i
      <4>1. CASE k + 1 \in J
        BY <3>1, <4>1
      <4>2. CASE k + 1 \notin J
        <5>1. J \in SUBSET (1 .. k)
          BY <3>1, <4>2
        <5> QED BY <3>2, <5>1
      <4> QED BY <4>1, <4>2
    <3> QED BY <3>1, <3>2
  <2>3. N = Nat
    <3>1. N \in SUBSET Nat
      OBVIOUS
    <3> HIDE DEF N
    <3> QED BY <2>1, <2>2, <3>1 DEF Induction
  <2> QED BY <1>1, <2>3
<1>2. ASSUME NEW n \in Nat, NEW I \in SUBSET (1 .. n), I # {}
      PROVE  /\ Largest(I) \in I /\ Largest(I) \in 1 .. n
             /\ I \ {Largest(I)} \in SUBSET (1 .. Largest(I) - 1)
  <2>1. PICK i \in I : \A j \in I : j <= i
    BY <1>1, <1>2
  <2>2. i \in I /\ \A j \in I : i >= j
    BY <2>1
  <2>3. Largest(I) \in I /\ \A j \in I : Largest(I) >= j
    BY <2>2 DEF Largest
  <2>4. Largest(I) \in 1 .. n /\ Largest(I) \in Nat
    <3>1. \A j \in I : j \in 1 .. n /\ j \in Nat
      OBVIOUS
    <3> QED BY <2>3, <3>1
  <2>5. ASSUME NEW j \in I \ {Largest(I)} PROVE j \in 1 .. Largest(I) - 1
    BY <2>3, <2>4
  <2> QED BY <2>3, <2>4, <2>5
(* The function exists.                                                    *)
<1>3. ASSUME NEW q, NEW n \in Nat
      PROVE  \E g : Folding(g, p, o, b, q, n)
  <2> DEFINE N == {k \in Nat : \E g : Folding(g, p, o, b, q, k)}
  <2>1. 0 \in N
    <3> DEFINE g == [I \in SUBSET (1 .. 0) |-> b]
    <3>1. \A I \in SUBSET (1 .. 0) : I = {}
      OBVIOUS
    <3>2. g = [I \in SUBSET (1 .. 0) |->
                 IF I = {} THEN b ELSE Op(p, o, g[I \ {Largest(I)}], q[Largest(I)])]
      BY <3>1
    <3> QED BY <3>2 DEF Folding
  <2>2. ASSUME NEW k \in N PROVE k + 1 \in N
    <3>1. PICK g : Folding(g, p, o, b, q, k)
      OBVIOUS
    <3> DEFINE h == [I \in SUBSET (1 .. k + 1) |->
                       IF k + 1 \in I THEN Op(p, o, g[I \ {k + 1}], q[k + 1]) ELSE g[I]]
    <3>2. ASSUME NEW I \in SUBSET (1 .. k + 1)
          PROVE  h[I] = IF I = {} THEN b ELSE Op(p, o, h[I \ {Largest(I)}], q[Largest(I)])
      <4>1. CASE I = {}
        <5>1. {} \in SUBSET (1 .. k) /\ k + 1 \notin {}
          OBVIOUS
        <5>2. g[{}] = b
          BY <3>1, <5>1 DEF Folding
        <5> QED BY <4>1, <5>1, <5>2
      <4>2. CASE I # {} /\ k + 1 \in I
        <5>1. /\ Largest(I) \in I /\ Largest(I) \in 1 .. k + 1
              /\ I \ {Largest(I)} \in SUBSET (1 .. Largest(I) - 1)
          BY <1>2, <4>2
        <5>2. Largest(I) = k + 1
          BY <4>2, <5>1
        <5>3. I \ {k + 1} \in SUBSET (1 .. k + 1) /\ k + 1 \notin I \ {k + 1}
          OBVIOUS
        <5>4. h[I \ {k + 1}] = g[I \ {k + 1}]
          BY <5>3
        <5>5. h[I] = Op(p, o, g[I \ {k + 1}], q[k + 1])
          BY <4>2
        <5> HIDE DEF h
        <5> QED BY <4>2, <5>2, <5>4, <5>5
      <4>3. CASE I # {} /\ k + 1 \notin I
        <5>1. I \in SUBSET (1 .. k)
          BY <4>3
        <5>2. g[I] = Op(p, o, g[I \ {Largest(I)}], q[Largest(I)])
          BY <3>1, <4>3, <5>1 DEF Folding
        <5>3. I \ {Largest(I)} \in SUBSET (1 .. k + 1) /\ k + 1 \notin I \ {Largest(I)}
          BY <4>3
        <5>4. h[I \ {Largest(I)}] = g[I \ {Largest(I)}] /\ h[I] = g[I]
          BY <4>3, <5>3
        <5> HIDE DEF h
        <5> QED BY <4>3, <5>2, <5>4
      <4> QED BY <4>1, <4>2, <4>3
    <3>3. Folding(h, p, o, b, q, k + 1)
      <4>1. h = [I \in SUBSET (1 .. k + 1) |-> h[I]]
        OBVIOUS
      <4> HIDE DEF h
      <4> QED BY <3>2, <4>1 DEF Folding
    <3> QED BY <3>3
  <2>3. N = Nat
    <3>1. N \in SUBSET Nat
      OBVIOUS
    <3> HIDE DEF N
    <3> QED BY <2>1, <2>2, <3>1 DEF Induction
  <2> QED BY <2>3
<1>4. ASSUME NEW q \in Seq(E)
      PROVE  \E g : Folding(g, p, o, b, q, Len(q)) /\ Fold(p, o, b, q) = g[1 .. Len(q)]
  <2>1. DOMAIN q = 1 .. Len(q) /\ Len(q) \in Nat
    OBVIOUS
  <2> DEFINE g == CHOOSE g : Folding(g, p, o, b, q, Len(q))
  <2>2. Folding(g, p, o, b, q, Len(q))
    BY <1>3, <2>1
  <2>3. Fold(p, o, b, q) = g[1 .. Len(q)]
    BY <2>1 DEF Fold, MapThenFoldSet, Folding
  <2> QED BY <2>2, <2>3
<1>5. Fold(p, o, b, <<>>) = b
  <2>1. <<>> \in Seq(E) /\ Len(<<>>) = 0
    OBVIOUS
  <2>2. PICK g : /\ Folding(g, p, o, b, <<>>, Len(<<>>))
                /\ Fold(p, o, b, <<>>) = g[1 .. Len(<<>>)]
    BY <1>4, <2>1
  <2>3. 1 .. 0 = {}
    OBVIOUS
  <2> QED BY <2>1, <2>2, <2>3 DEF Folding
(* What is behind the first n elements makes no difference to them.        *)
<1>6. ASSUME NEW q, NEW n \in Nat, NEW g, Folding(g, p, o, b, q, n),
             NEW r, NEW m \in Nat, NEW h, Folding(h, p, o, b, r, m),
             n <= m, \A i \in 1 .. n : r[i] = q[i]
      PROVE  \A I \in SUBSET (1 .. n) : g[I] = h[I]
  <2> DEFINE N == {k \in Nat : \A I \in SUBSET (1 .. n) : I \subseteq 1 .. k => g[I] = h[I]}
  <2>1. /\ \A I \in SUBSET (1 .. n) :
             g[I] = IF I = {} THEN b ELSE Op(p, o, g[I \ {Largest(I)}], q[Largest(I)])
        /\ \A I \in SUBSET (1 .. n) :
             h[I] = IF I = {} THEN b ELSE Op(p, o, h[I \ {Largest(I)}], r[Largest(I)])
    <3>1. SUBSET (1 .. n) \subseteq SUBSET (1 .. m)
      BY <1>6
    <3> QED BY <1>6, <3>1 DEF Folding
  <2>2. 0 \in N
    <3>1. \A I : I \subseteq 1 .. 0 => I = {}
      OBVIOUS
    <3> QED BY <2>1, <3>1
  <2>3. ASSUME NEW k \in N PROVE k + 1 \in N
    <3>1. k \in Nat
      OBVIOUS
    <3>2. ASSUME NEW I \in SUBSET (1 .. n), I \subseteq 1 .. k + 1 PROVE g[I] = h[I]
      <4>1. CASE I = {}
        BY <2>1, <4>1
      <4>2. CASE I # {}
        <5>1. /\ Largest(I) \in I /\ Largest(I) \in 1 .. n
              /\ I \ {Largest(I)} \in SUBSET (1 .. Largest(I) - 1)
          BY <1>2, <4>2
        <5>2. I \ {Largest(I)} \in SUBSET (1 .. n) /\ I \ {Largest(I)} \subseteq 1 .. k
          BY <3>1, <3>2, <5>1
        <5>3. g[I \ {Largest(I)}] = h[I \ {Largest(I)}]
          BY <5>2
        <5> QED BY <1>6, <2>1, <4>2, <5>1, <5>3
      <4> QED BY <4>1, <4>2
    <3> QED BY <3>1, <3>2
  <2>4. N = Nat
    <3>1. N \in SUBSET Nat
      OBVIOUS
    <3> HIDE DEF N
    <3> QED BY <2>2, <2>3, <3>1 DEF Induction
  <2> QED BY <2>4
<1>7. Fold(p, o, b, Append(s, x)) = Op(p, o, Fold(p, o, b, s), x)
  <2> DEFINE r == Append(s, x)
             n == Len(s)
             m == n + 1
  <2>1. /\ n \in Nat /\ r \in Seq(E) /\ Len(r) = n + 1 /\ r[n + 1] = x
        /\ \A i \in 1 .. n : r[i] = s[i]
    OBVIOUS
  <2> HIDE DEF r
  <2>2. PICK g : Folding(g, p, o, b, s, n) /\ Fold(p, o, b, s) = g[1 .. n]
    BY <1>4
  <2>3. PICK h : Folding(h, p, o, b, r, m) /\ Fold(p, o, b, r) = h[1 .. m]
    BY <1>4, <2>1
  <2>4. h[1 .. n] = g[1 .. n]
    <3>1. m \in Nat /\ n <= m /\ 1 .. n \in SUBSET (1 .. n)
      BY <2>1
    <3>2. /\ n \in Nat /\ \A i \in 1 .. n : r[i] = s[i]
          /\ Folding(g, p, o, b, s, n) /\ Folding(h, p, o, b, r, m)
      BY <2>1, <2>2, <2>3
    <3> HIDE DEF m, n
    <3>3. \A I \in SUBSET (1 .. n) : g[I] = h[I]
      <4>1. n <= m /\ \A i \in 1 .. n : r[i] = s[i]
        BY <3>1, <3>2
      <4> QED BY ONLY <1>6, <3>1, <3>2, <4>1
    <3> QED BY <3>1, <3>3
  <2>5. /\ 1 .. m \in SUBSET (1 .. m) /\ 1 .. m # {} /\ m \in 1 .. m /\ m \in Nat
    BY <2>1
  <2>6. h[1 .. m] = Op(p, o, h[(1 .. m) \ {Largest(1 .. m)}], r[Largest(1 .. m)])
    <3> HIDE DEF m
    <3> QED BY <2>3, <2>5 DEF Folding
  <2>7. Largest(1 .. m) = m /\ (1 .. m) \ {m} = 1 .. n
    <3>1. /\ Largest(1 .. m) \in 1 .. m
          /\ (1 .. m) \ {Largest(1 .. m)} \in SUBSET (1 .. Largest(1 .. m) - 1)
      BY <1>2, <2>5
    <3> QED BY <2>1, <2>5, <3>1
  <2>8. r[m] = x
    BY <2>1
  <2> HIDE DEF m
  <2> QED BY <2>2, <2>3, <2>4, <2>6, <2>7, <2>8 DEF r
<1> QED BY <1>5, <1>7

(* What holds of the part that has been folded so far.                     *)
LEMMA FoldSteps ==
  ASSUME Induction,
         NEW p, NEW o, NEW E, NEW b, NEW s \in Seq(E), NEW Z,
         <<<<>>, b>> \in Z,
         \A t : \A q \in Seq(E), e \in E :
           <<q, t>> \in Z => <<Append(q, e), Op(p, o, t, e)>> \in Z
  PROVE  <<s, Fold(p, o, b, s)>> \in Z
<1> DEFINE N == {n \in Nat : \A q \in Seq(E) :
                   Len(q) = n => <<q, Fold(p, o, b, q)>> \in Z}
<1>1. Fold(p, o, b, <<>>) = b
  <2>1. <<>> \in Seq({b}) /\ b \in {b}
    OBVIOUS
  <2> QED BY <2>1, FoldStep
<1>2. 0 \in N
  <2>1. \A q \in Seq(E) : Len(q) = 0 => q = <<>>
    OBVIOUS
  <2> QED BY <1>1, <2>1
<1>3. ASSUME NEW n \in N PROVE n + 1 \in N
  <2> SUFFICES ASSUME NEW q \in Seq(E), Len(q) = n + 1
               PROVE  <<q, Fold(p, o, b, q)>> \in Z
    OBVIOUS
  <2> DEFINE front == [i \in 1 .. n |-> q[i]]
  <2>1. front \in Seq(E) /\ Len(front) = n /\ q[n + 1] \in E
    OBVIOUS
  <2>2. q = Append(front, q[n + 1])
    <3>1. /\ Append(front, q[n + 1]) \in Seq(E)
          /\ Len(Append(front, q[n + 1])) = n + 1
      BY <2>1
    <3>2. ASSUME NEW i \in 1 .. Len(q) PROVE q[i] = Append(front, q[n + 1])[i]
      BY <2>1
    <3> QED BY <3>1, <3>2
  <2>3. <<front, Fold(p, o, b, front)>> \in Z
    BY <2>1
  <2> HIDE DEF front
  <2>4. <<Append(front, q[n + 1]), Op(p, o, Fold(p, o, b, front), q[n + 1])>> \in Z
    BY <2>1, <2>3
  <2>5. Fold(p, o, b, Append(front, q[n + 1])) = Op(p, o, Fold(p, o, b, front), q[n + 1])
    BY <2>1, FoldStep
  <2> QED BY <2>2, <2>4, <2>5
<1>4. N = Nat
  <2>1. N \in SUBSET Nat
    OBVIOUS
  <2> HIDE DEF N
  <2> QED BY <1>2, <1>3, <2>1 DEF Induction
<1>5. Len(s) \in Nat
  OBVIOUS
<1> QED BY <1>4, <1>5

(* A fold keeps to a set that its operator does not leave.                 *)
LEMMA FoldIn ==
  ASSUME Induction,
         NEW p, NEW o, NEW E, NEW T, NEW b \in T, NEW s \in Seq(E),
         \A t \in T, e \in E : Op(p, o, t, e) \in T
  PROVE  Fold(p, o, b, s) \in T
<1> DEFINE Z == Seq(E) \X T
<1>1. <<>> \in Seq(E) /\ \A q \in Seq(E), e \in E : Append(q, e) \in Seq(E)
  OBVIOUS
<1>2. <<<<>>, b>> \in Z
  BY <1>1
<1>3. \A t : \A q \in Seq(E), e \in E :
        <<q, t>> \in Z => <<Append(q, e), Op(p, o, t, e)>> \in Z
  BY <1>1
<1>4. \A q, t : <<q, t>> \in Z => t \in T
  OBVIOUS
<1> HIDE DEF Z
<1>5. <<s, Fold(p, o, b, s)>> \in Z
  BY <1>2, <1>3, FoldSteps
<1> QED BY <1>4, <1>5
====
