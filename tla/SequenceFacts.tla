---------------------------- MODULE SequenceFacts ----------------------------
(***************************************************************************)
(* Facts about numbers and sequences that the proofs of several components *)
(* rest on.  Induction is stated for sets: a property to be proved by it   *)
(* is the set of the numbers, or of the sequences, that have it.           *)
(***************************************************************************)
EXTENDS Integers, SequencesExt, TLAPS, WellFoundedInduction, NaturalsInduction

LEMMA LeastElement ==
  ASSUME NEW S \in SUBSET Nat, S # {}
  PROVE  \E m \in S : \A k \in S : m <= k
<1>1. PICK m \in S : \A k \in S : <<k, m>> \notin OpToRel(<, Nat)
  BY NatLessThanWellFounded, WFMin
<1>2. \A k \in S : ~(k < m)
  BY <1>1 DEF OpToRel
<1> QED BY <1>2

LEMMA Induction ==
  ASSUME NEW S \in SUBSET Nat, 0 \in S, \A n \in S : n + 1 \in S
  PROVE  S = Nat
<1> SUFFICES ASSUME Nat \ S # {} PROVE FALSE
  OBVIOUS
<1>1. PICK m \in Nat \ S : \A k \in Nat \ S : m <= k
  BY LeastElement
<1>2. m # 0 /\ m - 1 \in Nat /\ m - 1 \notin Nat \ S
  BY <1>1
<1>3. (m - 1) + 1 \in S
  BY <1>2
<1> QED BY <1>1, <1>3

LEMMA NaturalInduction ==
  \A S \in SUBSET Nat : 0 \in S /\ (\A n \in S : n + 1 \in S) => S = Nat
BY Induction

(* A list of indices has a last one.                                       *)
LEMMA LastIndex ==
  ASSUME NEW n \in Nat, NEW I \in SUBSET (1 .. n), I # {}
  PROVE  \E i \in I : \A j \in I : j <= i
<1> DEFINE D == {n - j : j \in I}
<1>1. D \in SUBSET Nat /\ D # {}
  <2>1. \A j \in I : n - j \in Nat
    OBVIOUS
  <2>2. D \subseteq Nat
    BY <2>1
  <2> QED BY <2>2
<1> HIDE DEF D
<1>2. PICK d \in D : \A e \in D : d <= e
  BY <1>1, LeastElement
<1>3. PICK i \in I : d = n - i
  BY <1>2 DEF D
<1>4. ASSUME NEW j \in I PROVE j <= i
  <2>1. n - j \in D
    BY DEF D
  <2> QED BY <1>2, <1>3, <2>1
<1> QED BY <1>4

LEMMA AppendFacts ==
  ASSUME NEW S, NEW s \in Seq(S), NEW x \in S
  PROVE  /\ Len(s) \in Nat /\ DOMAIN s = 1 .. Len(s)
         /\ Append(s, x) \in Seq(S)
         /\ Len(Append(s, x)) = Len(s) + 1
         /\ DOMAIN Append(s, x) = 1 .. Len(s) + 1
         /\ \A i \in DOMAIN s : Append(s, x)[i] = s[i]
         /\ Append(s, x)[Len(s) + 1] = x
OBVIOUS

LEMMA JoinFacts ==
  ASSUME NEW S, NEW s \in Seq(S), NEW t \in Seq(S)
  PROVE  /\ s \o t \in Seq(S) /\ Len(s \o t) = Len(s) + Len(t)
         /\ DOMAIN (s \o t) = 1 .. Len(s) + Len(t)
         /\ \A i \in 1 .. Len(s) : (s \o t)[i] = s[i]
         /\ \A i \in 1 .. Len(t) : (s \o t)[Len(s) + i] = t[i]
         /\ \A i \in 1 .. Len(s) + Len(t) : i > Len(s) => (s \o t)[i] = t[i - Len(s)]
OBVIOUS

LEMMA SameSequence ==
  ASSUME NEW S, NEW s \in Seq(S), NEW t \in Seq(S), Len(s) = Len(t),
         \A i \in 1 .. Len(s) : s[i] = t[i]
  PROVE  s = t
OBVIOUS

LEMMA JoinAssociative ==
  ASSUME NEW S, NEW s \in Seq(S), NEW t \in Seq(S), NEW u \in Seq(S)
  PROVE  (s \o t) \o u = s \o (t \o u)
<1> DEFINE a == (s \o t) \o u
           b == s \o (t \o u)
<1>1. /\ Len(s) \in Nat /\ Len(t) \in Nat /\ Len(u) \in Nat
      /\ a \in Seq(S) /\ b \in Seq(S)
      /\ Len(a) = Len(s) + Len(t) + Len(u) /\ Len(b) = Len(s) + Len(t) + Len(u)
  OBVIOUS
<1>2. ASSUME NEW i \in 1 .. Len(s) + Len(t) + Len(u) PROVE a[i] = b[i]
  <2>1. CASE i <= Len(s)
    BY <2>1
  <2>2. CASE i > Len(s) /\ i <= Len(s) + Len(t)
    BY <2>2
  <2>3. CASE i > Len(s) + Len(t)
    BY <2>3
  <2> QED BY <1>1, <2>1, <2>2, <2>3
<1> HIDE DEF a, b
<1>3. a = b
  BY <1>1, <1>2, SameSequence
<1> QED BY <1>3 DEF a, b

(* What is appended to a joined sequence is appended to its second part.   *)
LEMMA JoinAppend ==
  ASSUME NEW S, NEW s \in Seq(S), NEW t \in Seq(S), NEW x \in S
  PROVE  s \o Append(t, x) = Append(s \o t, x)
<1>1. /\ s \o Append(t, x) \in Seq(S) /\ Append(s \o t, x) \in Seq(S)
      /\ Len(s \o Append(t, x)) = Len(s) + Len(t) + 1
      /\ Len(Append(s \o t, x)) = Len(s) + Len(t) + 1
      /\ Len(s) \in Nat /\ Len(t) \in Nat
  OBVIOUS
<1>2. ASSUME NEW i \in 1 .. Len(s) + Len(t) + 1
      PROVE  (s \o Append(t, x))[i] = Append(s \o t, x)[i]
  <2>1. CASE i <= Len(s)
    BY <2>1
  <2>2. CASE i > Len(s) /\ i <= Len(s) + Len(t)
    BY <2>2
  <2>3. CASE i = Len(s) + Len(t) + 1
    BY <2>3
  <2> QED BY <1>1, <2>1, <2>2, <2>3
<1> QED BY <1>1, <1>2, SameSequence

LEMMA JoinedElements ==
  ASSUME NEW S, NEW s \in Seq(S), NEW t \in Seq(S)
  PROVE  ToSet(s \o t) = ToSet(s) \cup ToSet(t)
<1>1. /\ DOMAIN (s \o t) = 1 .. Len(s) + Len(t)
      /\ \A i \in DOMAIN s : i \in DOMAIN (s \o t) /\ (s \o t)[i] = s[i]
      /\ \A i \in DOMAIN t : Len(s) + i \in DOMAIN (s \o t) /\ (s \o t)[Len(s) + i] = t[i]
  OBVIOUS
<1>2. \A i \in DOMAIN (s \o t) : i \in DOMAIN s \/ \E j \in DOMAIN t : i = Len(s) + j
  <2> SUFFICES ASSUME NEW i \in DOMAIN (s \o t), i \notin DOMAIN s
               PROVE  i - Len(s) \in DOMAIN t /\ i = Len(s) + (i - Len(s))
    OBVIOUS
  <2> QED BY <1>1
<1> HIDE DEF ToSet
<1>3. ToSet(s) \subseteq ToSet(s \o t)
  BY <1>1 DEF ToSet
<1>4. ToSet(t) \subseteq ToSet(s \o t)
  BY <1>1 DEF ToSet
<1>5. ToSet(s \o t) \subseteq ToSet(s) \cup ToSet(t)
  BY <1>1, <1>2 DEF ToSet
<1> QED BY <1>3, <1>4, <1>5

(* The parts of a joined sequence. *)
LEMMA JoinParts ==
  ASSUME NEW S, NEW s \in Seq(S), NEW t \in Seq(S), NEW k \in 0 .. Len(s)
  PROVE  /\ SubSeq(s \o t, 1, k) = SubSeq(s, 1, k)
         /\ SubSeq(s \o t, Len(s) + 1, Len(s \o t)) = t
         /\ SubSeq(s, 1, Len(s)) = s
<1> DEFINE u == s \o t
<1>1. /\ u \in Seq(S) /\ Len(u) = Len(s) + Len(t) /\ Len(s) \in Nat /\ Len(t) \in Nat
      /\ \A i \in 1 .. Len(s) : u[i] = s[i]
      /\ \A i \in 1 .. Len(t) : u[Len(s) + i] = t[i]
  OBVIOUS
<1> HIDE DEF u
<1>2. SubSeq(u, 1, k) = SubSeq(s, 1, k)
  <2>1. /\ SubSeq(u, 1, k) = [i \in 1 .. k |-> u[i]]
        /\ SubSeq(s, 1, k) = [i \in 1 .. k |-> s[i]]
    BY <1>1
  <2>2. \A i \in 1 .. k : u[i] = s[i]
    BY <1>1
  <2> QED BY <2>1, <2>2
<1>3. SubSeq(u, Len(s) + 1, Len(u)) = t
  <2> DEFINE v == SubSeq(u, Len(s) + 1, Len(u))
  <2>1. v = [i \in 1 .. Len(t) |-> u[Len(s) + i]]
    <3>1. v = [i \in 1 .. (Len(u) - (Len(s) + 1) + 1) |-> u[i + (Len(s) + 1) - 1]]
      BY <1>1
    <3>2. Len(u) - (Len(s) + 1) + 1 = Len(t)
      BY <1>1
    <3>3. \A i \in 1 .. Len(t) : i + (Len(s) + 1) - 1 = Len(s) + i
      BY <1>1
    <3> QED BY <3>1, <3>2, <3>3
  <2> HIDE DEF v
  <2>2. v = [i \in 1 .. Len(t) |-> t[i]]
    BY <1>1, <2>1
  <2>3. t = [i \in 1 .. Len(t) |-> t[i]]
    OBVIOUS
  <2> QED BY <2>2, <2>3 DEF v
<1>4. SubSeq(s, 1, Len(s)) = s
  OBVIOUS
<1> QED BY <1>2, <1>3, <1>4 DEF u

(* The head of the second part goes to the first.                          *)
LEMMA JoinHead ==
  ASSUME NEW S, NEW s \in Seq(S), NEW t \in Seq(S), t # <<>>
  PROVE  Append(s, Head(t)) \o Tail(t) = s \o t
<1> DEFINE a == Append(s, Head(t)) \o Tail(t)
           b == s \o t
<1>1. /\ Head(t) \in S /\ Tail(t) \in Seq(S) /\ Len(Tail(t)) = Len(t) - 1
      /\ Head(t) = t[1] /\ Len(t) \in Nat \ {0} /\ Len(s) \in Nat
      /\ \A i \in 1 .. Len(t) - 1 : Tail(t)[i] = t[i + 1]
  OBVIOUS
<1>2. /\ a \in Seq(S) /\ b \in Seq(S)
      /\ Len(a) = Len(s) + Len(t) /\ Len(b) = Len(s) + Len(t)
  BY <1>1
<1>3. ASSUME NEW i \in 1 .. Len(s) + Len(t) PROVE a[i] = b[i]
  <2>1. CASE i <= Len(s)
    BY <1>1, <2>1
  <2>2. CASE i = Len(s) + 1
    BY <1>1, <2>2
  <2>3. CASE i > Len(s) + 1
    BY <1>1, <2>3
  <2> QED BY <1>1, <2>1, <2>2, <2>3
<1> HIDE DEF a, b
<1>4. a = b
  BY <1>2, <1>3, SameSequence
<1> QED BY <1>4 DEF a, b

(* Induction on sequences.                                                 *)
LEMMA SequenceInduction ==
  ASSUME NEW T, NEW S \in SUBSET Seq(T), <<>> \in S,
         \A s \in S, x \in T : Append(s, x) \in S
  PROVE  S = Seq(T)
<1> DEFINE N == {n \in Nat : \A s \in Seq(T) : Len(s) = n => s \in S}
<1>1. 0 \in N
  <2>1. \A s \in Seq(T) : Len(s) = 0 => s = <<>>
    OBVIOUS
  <2> QED BY <2>1
<1>2. ASSUME NEW n \in N PROVE n + 1 \in N
  <2> SUFFICES ASSUME NEW s \in Seq(T), Len(s) = n + 1 PROVE s \in S
    OBVIOUS
  <2> DEFINE front == [i \in 1 .. n |-> s[i]]
  <2>1. front \in Seq(T) /\ Len(front) = n /\ s[n + 1] \in T
    OBVIOUS
  <2>2. s = Append(front, s[n + 1])
    <3>1. /\ Append(front, s[n + 1]) \in Seq(T)
          /\ Len(Append(front, s[n + 1])) = n + 1
      BY <2>1
    <3>2. ASSUME NEW i \in 1 .. Len(s) PROVE s[i] = Append(front, s[n + 1])[i]
      BY <2>1
    <3> QED BY <3>1, <3>2, SameSequence
  <2>3. front \in S
    BY <2>1
  <2> QED BY <2>1, <2>2, <2>3
<1> HIDE DEF N
<1>3. N = Nat
  <2>1. N \in SUBSET Nat
    BY DEF N
  <2> QED BY <1>1, <1>2, <2>1, Induction
<1>4. ASSUME NEW s \in Seq(T) PROVE s \in S
  <2>1. Len(s) \in N
    BY <1>3
  <2> QED BY <2>1 DEF N
<1> QED BY <1>4
(***************************************************************************)
(* FlattenSeq, by the equation of the recursive function that it uses.     *)
(***************************************************************************)
Flattens(g, seqs, n) ==
  g = [i \in 1 .. n |-> IF i = 1 THEN seqs[i] ELSE g[i - 1] \o seqs[i]]

LEMMA FlattensExists ==
  ASSUME NEW seqs, NEW n \in Nat
  PROVE  \E g : Flattens(g, seqs, n)
<1> DEFINE N == {k \in Nat : \E g : Flattens(g, seqs, k)}
<1>1. 0 \in N
  <2>1. Flattens([i \in 1 .. 0 |-> seqs[i]], seqs, 0)
    BY DEF Flattens
  <2> QED BY <2>1
<1>2. ASSUME NEW k \in N PROVE k + 1 \in N
  <2>1. PICK g : Flattens(g, seqs, k)
    OBVIOUS
  <2> DEFINE h == [i \in 1 .. k + 1 |->
                     IF i \in 1 .. k THEN g[i]
                     ELSE IF i = 1 THEN seqs[i] ELSE g[i - 1] \o seqs[i]]
  <2>2. ASSUME NEW i \in 1 .. k + 1
        PROVE  h[i] = IF i = 1 THEN seqs[i] ELSE h[i - 1] \o seqs[i]
    <3>1. CASE i = 1
      BY <2>1, <3>1 DEF Flattens
    <3>2. CASE i # 1
      <4>1. i - 1 \in 1 .. k /\ i - 1 \in 1 .. k + 1 /\ h[i - 1] = g[i - 1]
        BY <3>2
      <4>2. h[i] = g[i - 1] \o seqs[i]
        BY <2>1, <3>2 DEF Flattens
      <4> QED BY <3>2, <4>1, <4>2
    <3> QED BY <3>1, <3>2
  <2>3. Flattens(h, seqs, k + 1)
    BY <2>2 DEF Flattens
  <2> QED BY <2>3
<1> HIDE DEF N
<1>3. N = Nat
  <2>1. N \in SUBSET Nat
    BY DEF N
  <2> QED BY <1>1, <1>2, <2>1, Induction
<1>4. n \in N
  BY <1>3
<1> QED BY <1>4 DEF N

LEMMA FlattensFirst ==
  ASSUME NEW seqs, NEW n \in Nat \ {0}, NEW g, Flattens(g, seqs, n)
  PROVE  g[1] = seqs[1]
<1>1. \A i \in 1 .. n : g[i] = IF i = 1 THEN seqs[i] ELSE g[i - 1] \o seqs[i]
  BY DEF Flattens
<1> QED BY <1>1

LEMMA FlattensStep ==
  ASSUME NEW seqs, NEW n \in Nat, NEW g, Flattens(g, seqs, n), NEW k \in 1 .. n - 1
  PROVE  g[k + 1] = g[k] \o seqs[k + 1]
<1>1. \A i \in 1 .. n : g[i] = IF i = 1 THEN seqs[i] ELSE g[i - 1] \o seqs[i]
  BY DEF Flattens
<1>2. k + 1 \in 1 .. n /\ k + 1 # 1 /\ (k + 1) - 1 = k
  OBVIOUS
<1>3. g[k + 1] = g[(k + 1) - 1] \o seqs[k + 1]
  BY <1>1, <1>2
<1> QED BY <1>2, <1>3

(* The equation has one solution, which depends on the first elements only.*)
LEMMA FlattensUnique ==
  ASSUME NEW seqs, NEW more, NEW n \in Nat, NEW m \in Nat, n <= m,
         \A i \in 1 .. n : more[i] = seqs[i],
         NEW g, NEW h, Flattens(g, seqs, n), Flattens(h, more, m)
  PROVE  \A i \in 1 .. n : g[i] = h[i]
<1> DEFINE N == {k \in Nat : k \in 1 .. n => g[k] = h[k]}
<1>1. 0 \in N
  OBVIOUS
<1>2. ASSUME NEW k \in N PROVE k + 1 \in N
  <2> SUFFICES ASSUME k + 1 \in 1 .. n PROVE g[k + 1] = h[k + 1]
    OBVIOUS
  <2>1. CASE k = 0
    <3>1. n \in Nat \ {0} /\ m \in Nat \ {0} /\ 1 \in 1 .. n
      BY <2>1
    <3>2. g[1] = seqs[1]
      BY <3>1, FlattensFirst
    <3>3. h[1] = more[1]
      BY <3>1, FlattensFirst
    <3> QED BY <2>1, <3>1, <3>2, <3>3
  <2>2. CASE k # 0
    <3>1. k \in 1 .. n - 1 /\ k \in 1 .. m - 1 /\ k \in 1 .. n
      BY <2>2
    <3>2. g[k + 1] = g[k] \o seqs[k + 1] /\ h[k + 1] = h[k] \o more[k + 1]
      BY <3>1, FlattensStep
    <3> QED BY <3>1, <3>2
  <2> QED BY <2>1, <2>2
<1> HIDE DEF N
<1>3. N = Nat
  <2>1. N \in SUBSET Nat
    BY DEF N
  <2> QED BY <1>1, <1>2, <2>1, Induction
<1> QED BY <1>3 DEF N

LEMMA FlattenValue ==
  ASSUME NEW seqs, Len(seqs) \in Nat \ {0}
  PROVE  \E g : Flattens(g, seqs, Len(seqs)) /\ FlattenSeq(seqs) = g[Len(seqs)]
<1> DEFINE n == Len(seqs)
           f == CHOOSE g : g = [i \in 1 .. n |-> IF i = 1 THEN seqs[i]
                                                  ELSE g[i - 1] \o seqs[i]]
<1>1. \E g : g = [i \in 1 .. n |-> IF i = 1 THEN seqs[i] ELSE g[i - 1] \o seqs[i]]
  BY FlattensExists DEF Flattens
<1>2. Flattens(f, seqs, n)
  BY <1>1 DEF Flattens
<1>3. FlattenSeq(seqs) = f[n]
  BY DEF FlattenSeq
<1> QED BY <1>2, <1>3

LEMMA FlattenEmpty == FlattenSeq(<<>>) = <<>>
BY DEF FlattenSeq

LEMMA FlattenOne ==
  ASSUME NEW T, NEW s \in Seq(T)
  PROVE  FlattenSeq(<<s>>) = s
<1> DEFINE seqs == <<s>>
<1>1. Len(seqs) = 1 /\ seqs[1] = s
  OBVIOUS
<1> HIDE DEF seqs
<1>2. Len(seqs) \in Nat \ {0} 
  BY <1>1
<1>3. PICK g : Flattens(g, seqs, Len(seqs)) /\ FlattenSeq(seqs) = g[Len(seqs)]
  BY <1>2, FlattenValue
<1>4. g[1] = seqs[1]
  BY <1>2, <1>3, FlattensFirst
<1>5. FlattenSeq(seqs) = s
  BY <1>1, <1>3, <1>4
<1> QED BY <1>5 DEF seqs

(* One more sequence comes at the end.                                     *)
LEMMA FlattenAppend ==
  ASSUME NEW T, NEW seqs \in Seq(Seq(T)), NEW s \in Seq(T)
  PROVE  FlattenSeq(Append(seqs, s)) = FlattenSeq(seqs) \o s
<1> DEFINE n == Len(seqs)
           more == Append(seqs, s)
<1>1. /\ n \in Nat /\ Len(more) = n + 1 /\ more[n + 1] = s
      /\ \A i \in 1 .. n : more[i] = seqs[i]
  OBVIOUS
<1> HIDE DEF more, n
<1>2. PICK h : Flattens(h, more, n + 1) /\ FlattenSeq(more) = h[n + 1]
  BY <1>1, FlattenValue
<1>3. CASE n = 0
  <2>1. seqs = <<>> /\ more = <<s>>
    BY <1>3 DEF more, n
  <2>2. <<>> \o s = s
    OBVIOUS
  <2> QED BY <2>1, <2>2, FlattenEmpty, FlattenOne DEF more
<1>4. CASE n # 0
  <2>1. PICK g : Flattens(g, seqs, n) /\ FlattenSeq(seqs) = g[n]
    BY <1>1, <1>4, FlattenValue DEF n
  <2>2. \A i \in 1 .. n : g[i] = h[i]
    <3>1. n \in Nat /\ n + 1 \in Nat /\ n <= n + 1
      BY <1>1
    <3>2. Flattens(h, more, n + 1) /\ Flattens(g, seqs, n)
      BY <1>2, <2>1
    <3>3. \A i \in 1 .. n : more[i] = seqs[i]
      BY <1>1
    <3> HIDE DEF more
    <3> QED BY <3>1, <3>2, <3>3, FlattensUnique
  <2>3. h[n + 1] = h[n] \o s
    <3>1. n \in 1 .. (n + 1) - 1 /\ n + 1 \in Nat
      BY <1>1, <1>4
    <3> QED BY <1>1, <1>2, <3>1, FlattensStep
  <2>4. g[n] = h[n]
    BY <1>1, <1>4, <2>2
  <2> QED BY <1>2, <2>1, <2>3, <2>4 DEF more
<1> QED BY <1>3, <1>4

LEMMA FlattenType ==
  ASSUME NEW T, NEW seqs \in Seq(Seq(T))
  PROVE  FlattenSeq(seqs) \in Seq(T)
<1> DEFINE S == {b \in Seq(Seq(T)) : FlattenSeq(b) \in Seq(T)}
<1>1. <<>> \in S
  <2>1. <<>> \in Seq(Seq(T)) /\ <<>> \in Seq(T)
    OBVIOUS
  <2>2. FlattenSeq(<<>>) \in Seq(T)
    BY <2>1, FlattenEmpty
  <2> QED BY <2>1, <2>2
<1>2. ASSUME NEW b \in S, NEW s \in Seq(T) PROVE Append(b, s) \in S
  <2>1. Append(b, s) \in Seq(Seq(T)) /\ FlattenSeq(b) \in Seq(T)
    OBVIOUS
  <2>2. FlattenSeq(Append(b, s)) = FlattenSeq(b) \o s
    BY FlattenAppend
  <2>3. FlattenSeq(b) \o s \in Seq(T)
    BY <2>1
  <2>4. FlattenSeq(Append(b, s)) \in Seq(T)
    BY <2>2, <2>3
  <2> QED BY <2>1, <2>4
<1> HIDE DEF S
<1>3. S = Seq(Seq(T))
  <2>1. S \in SUBSET Seq(Seq(T))
    BY DEF S
  <2> QED BY <1>1, <1>2, <2>1, SequenceInduction
<1> QED BY <1>3 DEF S

(* The first sequence comes first.                                         *)
LEMMA FlattenTail ==
  ASSUME NEW T, NEW seqs \in Seq(Seq(T)), seqs # <<>>
  PROVE  FlattenSeq(seqs) = Head(seqs) \o FlattenSeq(Tail(seqs))
<1>1. ASSUME NEW u \in Seq(T), NEW v \in Seq(T), NEW w \in Seq(T)
      PROVE  (u \o v) \o w = u \o (v \o w)
  BY JoinAssociative, SMTT(30)
<1> DEFINE S == {b \in Seq(Seq(T)) :
                   b # <<>> => FlattenSeq(b) = Head(b) \o FlattenSeq(Tail(b))}
<1>2. <<>> \in S
  OBVIOUS
<1>3. ASSUME NEW b \in S, NEW s \in Seq(T) PROVE Append(b, s) \in S
  <2>1. Append(b, s) \in Seq(Seq(T)) /\ b \in Seq(Seq(T))
    OBVIOUS
  <2>2. FlattenSeq(Append(b, s)) = FlattenSeq(b) \o s
    BY <2>1, FlattenAppend
  <2>3. CASE b = <<>>
    <3>1. Head(Append(b, s)) = s /\ Tail(Append(b, s)) = <<>>
      BY <2>3
    <3>2. <<>> \o s = s /\ s \o <<>> = s
      OBVIOUS
    <3> QED BY <2>1, <2>2, <2>3, <3>1, <3>2, FlattenEmpty
  <2>4. CASE b # <<>>
    <3>1. /\ Head(Append(b, s)) = Head(b) /\ Tail(Append(b, s)) = Append(Tail(b), s)
          /\ Head(b) \in Seq(T) /\ Tail(b) \in Seq(Seq(T))
      BY <2>1, <2>4
    <3>2. FlattenSeq(b) = Head(b) \o FlattenSeq(Tail(b))
      BY <2>4
    <3>3. FlattenSeq(Append(Tail(b), s)) = FlattenSeq(Tail(b)) \o s
      BY <3>1, FlattenAppend
    <3>4. FlattenSeq(Tail(b)) \in Seq(T)
      BY <3>1, FlattenType
    <3> DEFINE u == Head(b)
               v == FlattenSeq(Tail(b))
    <3>5. (u \o v) \o s = u \o (v \o s)
      BY <1>1, <3>1, <3>4
    <3>6. FlattenSeq(Append(b, s)) = (u \o v) \o s
      BY <2>1, <2>2, <3>2
    <3>7. Head(Append(b, s)) \o FlattenSeq(Tail(Append(b, s))) = u \o (v \o s)
      BY <3>1, <3>3
    <3>8. Append(b, s) \in Seq(Seq(T))
      BY <2>1
    <3> HIDE DEF u, v
    <3> QED BY <3>5, <3>6, <3>7, <3>8
  <2> QED BY <2>3, <2>4
<1> HIDE DEF S
<1>4. S = Seq(Seq(T))
  <2>1. S \in SUBSET Seq(Seq(T))
    BY DEF S
  <2> QED BY <1>2, <1>3, <2>1, SequenceInduction
<1> QED BY <1>4 DEF S

(* What is appended to the last sequence comes last.                       *)
LEMMA FlattenLast ==
  ASSUME NEW T, NEW seqs \in Seq(Seq(T)), seqs # <<>>, NEW x \in T
  PROVE  FlattenSeq([seqs EXCEPT ![Len(seqs)] = Append(@, x)])
           = Append(FlattenSeq(seqs), x)
<1> DEFINE n == Len(seqs)
           front == SubSeq(seqs, 1, n - 1)
           z == seqs[n]
           more == [seqs EXCEPT ![n] = Append(@, x)]
<1>1. n \in Nat \ {0} /\ front \in Seq(Seq(T)) /\ Len(front) = n - 1 /\ z \in Seq(T)
      /\ \A i \in 1 .. n - 1 : front[i] = seqs[i]
  <2>1. n \in Nat \ {0} /\ z \in Seq(T)
    OBVIOUS
  <2>2. /\ front = [i \in 1 .. n - 1 |-> seqs[i]]
        /\ \A i \in 1 .. n - 1 : seqs[i] \in Seq(T)
    BY <2>1
  <2> HIDE DEF front
  <2>3. front \in Seq(Seq(T)) /\ Len(front) = n - 1
    BY <2>1, <2>2
  <2> QED BY <2>1, <2>2, <2>3
<1>2. seqs = Append(front, z)
  <2>1. Append(front, z) \in Seq(Seq(T)) /\ Len(Append(front, z)) = n
    BY <1>1
  <2>2. \A i \in 1 .. n : seqs[i] = Append(front, z)[i]
    BY <1>1
  <2> QED BY <2>1, <2>2, SameSequence
<1>3. more = Append(front, Append(z, x))
  <2>1. /\ more \in Seq(Seq(T)) /\ Len(more) = n
        /\ Append(front, Append(z, x)) \in Seq(Seq(T))
        /\ Len(Append(front, Append(z, x))) = n
    BY <1>1
  <2>2. \A i \in 1 .. n : more[i] = Append(front, Append(z, x))[i]
    BY <1>1
  <2> QED BY <2>1, <2>2, SameSequence
<1> HIDE DEF front, z, more
<1>4. FlattenSeq(seqs) = FlattenSeq(front) \o z
  BY <1>1, <1>2, FlattenAppend
<1>5. FlattenSeq(more) = FlattenSeq(front) \o Append(z, x)
  <2>1. Append(z, x) \in Seq(T)
    BY <1>1
  <2> QED BY <1>1, <1>3, <2>1, FlattenAppend
<1>6. FlattenSeq(front) \in Seq(T)
  BY <1>1, FlattenType
<1>7. FlattenSeq(front) \o Append(z, x) = Append(FlattenSeq(front) \o z, x)
  BY <1>1, <1>6, JoinAppend
<1>8. FlattenSeq(more) = Append(FlattenSeq(seqs), x)
  BY <1>4, <1>5, <1>7
<1> QED BY <1>8 DEF more

(* Everything in a flattened sequence is in one of its sequences.          *)
LEMMA FlattenElements ==
  ASSUME NEW T, NEW seqs \in Seq(Seq(T)), NEW x \in ToSet(FlattenSeq(seqs))
  PROVE  \E i \in DOMAIN seqs : x \in ToSet(seqs[i])
<1> DEFINE In(b) == \A y \in ToSet(FlattenSeq(b)) : \E i \in DOMAIN b : y \in ToSet(b[i])
           S == {b \in Seq(Seq(T)) : In(b)}
<1>1. <<>> \in S
  <2>1. ToSet(FlattenSeq(<<>>)) = {}
    BY FlattenEmpty DEF ToSet
  <2> QED BY <2>1
<1>2. ASSUME NEW b \in S, NEW s \in Seq(T) PROVE Append(b, s) \in S
  <2>1. b \in Seq(Seq(T)) /\ In(b)
    OBVIOUS
  <2>2. /\ Append(b, s) \in Seq(Seq(T)) /\ Len(b) \in Nat
        /\ DOMAIN Append(b, s) = 1 .. Len(b) + 1
        /\ \A i \in DOMAIN b : i \in DOMAIN Append(b, s) /\ Append(b, s)[i] = b[i]
        /\ Append(b, s)[Len(b) + 1] = s
    BY <2>1
  <2>3. ToSet(FlattenSeq(Append(b, s))) = ToSet(FlattenSeq(b)) \cup ToSet(s)
    <3>1. FlattenSeq(Append(b, s)) = FlattenSeq(b) \o s
      BY <2>1, FlattenAppend
    <3>2. FlattenSeq(b) \in Seq(T)
      BY <2>1, FlattenType
    <3> QED BY <3>1, <3>2, JoinedElements
  <2> HIDE DEF ToSet
  <2>4. ASSUME NEW y \in ToSet(FlattenSeq(Append(b, s)))
        PROVE  \E i \in DOMAIN Append(b, s) : y \in ToSet(Append(b, s)[i])
    <3>1. CASE y \in ToSet(s)
      <4>1. Len(b) + 1 \in 1 .. Len(b) + 1
        BY <2>2
      <4>2. Len(b) + 1 \in DOMAIN Append(b, s)
        BY <2>2, <4>1, Zenon
      <4>3. y \in ToSet(Append(b, s)[Len(b) + 1])
        BY <2>2, <3>1, Zenon
      <4> QED BY <4>2, <4>3, Zenon
    <3>2. CASE y \in ToSet(FlattenSeq(b))
      BY <2>1, <2>2, <3>2
    <3> QED BY <2>3, <3>1, <3>2
  <2> QED BY <2>2, <2>4
<1> HIDE DEF S
<1>3. S = Seq(Seq(T))
  <2>1. S \in SUBSET Seq(Seq(T))
    BY DEF S
  <2> QED BY <1>1, <1>2, <2>1, SequenceInduction
<1> QED BY <1>3 DEF S
====
