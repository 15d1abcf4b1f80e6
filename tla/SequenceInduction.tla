------------------------- MODULE SequenceInduction -------------------------
(***************************************************************************)
(* What the other proofs need to follow a loop over a sequence: induction  *)
(* over the naturals, the existence of a function that each element of a   *)
(* sequence leads a step further, the type of sequences put together, and  *)
(* what a graph's root leads to in as many steps as the graph has nodes.   *)
(* Induction is stated for the set of numbers that have a property, which  *)
(* takes no operator as a parameter.                                       *)
(***************************************************************************)
EXTENDS SequencesExt, SequenceTheorems, FiniteSetTheorems, WellFoundedInduction, TLAPS

(* Induction over the naturals, for a set instead of a predicate: the      *)
(* least number outside of it has a predecessor inside.                    *)
LEMMA SetInduction ==
  ASSUME NEW S, 0 \in S, \A n \in Nat : n \in S => n + 1 \in S
  PROVE  Nat \subseteq S
<1> DEFINE R == OpToRel(<, Nat)
           T == Nat \ S
<1>1. IsWellFoundedOn(R, Nat) BY NatLessThanWellFounded
<1>2. SUFFICES ASSUME T # {} PROVE FALSE OBVIOUS
<1>3. T \subseteq Nat OBVIOUS
<1> HIDE DEF R, T
<1>4. PICK x \in T : \A y \in T : ~(<<y, x>> \in R) BY <1>1, <1>2, <1>3, WFMin
<1> USE DEF T
<1>5. x \in Nat /\ x # 0 /\ x - 1 \in Nat BY <1>4
<1>6. x - 1 \notin S BY <1>4, <1>5
<1>7. <<x - 1, x>> \in R BY <1>5 DEF R, OpToRel
<1>8. QED BY <1>4, <1>5, <1>6, <1>7

(* Induction up to a bound.                                                *)
LEMMA UpTo ==
  ASSUME NEW n \in Nat, NEW S, 0 \in S, \A i \in 1..n : i - 1 \in S => i \in S
  PROVE  0..n \subseteq S
<1> DEFINE T == {k \in Nat : k <= n => k \in S}
<1>1. 0 \in T OBVIOUS
<1>2. ASSUME NEW k \in Nat, k \in T
      PROVE  k + 1 \in T
  <2>1. SUFFICES ASSUME k + 1 <= n
                 PROVE  k + 1 \in S
    OBVIOUS
  <2>2. k \in S /\ k + 1 \in 1..n /\ (k + 1) - 1 = k BY <1>2, <2>1
  <2>3. QED BY <2>2
<1> HIDE DEF T
<1>3. Nat \subseteq T BY <1>1, <1>2, SetInduction
<1>4. QED BY <1>3 DEF T

(* A function each value of which follows from the one before.             *)
LeadsOn(g, base, n, F) == g[0] = base /\ \A i \in 1..n : g[i] = F[i][g[i - 1]]

Joins(g, n, seqs) == g[0] = <<>> /\ \A i \in 1..n : g[i] = g[i - 1] \o seqs[i]

(* Steps that lead from X to X: there is a function of what they lead to.  *)
LEMMA Iterated ==
  ASSUME NEW X, NEW base \in X, NEW n \in Nat, NEW F \in [1..n -> [X -> X]]
  PROVE  \E g \in [0..n -> X] : LeadsOn(g, base, n, F)
<1> DEFINE Reaches(k) ==
             \E g \in [0..k -> X] : g[0] = base /\ \A i \in 1..k : g[i] = F[i][g[i - 1]]
           S == {k \in Nat : k <= n => Reaches(k)}
<1>1. 0 \in S
  <2> DEFINE g == [i \in 0..0 |-> base]
  <2>1. g \in [0..0 -> X] /\ g[0] = base /\ \A i \in 1..0 : g[i] = F[i][g[i - 1]]
    OBVIOUS
  <2> HIDE DEF g
  <2>2. QED BY <2>1
<1>2. ASSUME NEW k \in Nat, k \in S
      PROVE  k + 1 \in S
  <2>1. SUFFICES ASSUME k + 1 <= n
                 PROVE  Reaches(k + 1)
    OBVIOUS
  <2>2. PICK g \in [0..k -> X] : g[0] = base /\ \A i \in 1..k : g[i] = F[i][g[i - 1]]
    BY <1>2, <2>1
  <2> DEFINE h == [i \in 0..(k + 1) |-> IF i = k + 1 THEN F[k + 1][g[k]] ELSE g[i]]
  <2>3. F[k + 1][g[k]] \in X
    <3>1. k + 1 \in 1..n /\ g[k] \in X BY <2>1
    <3>2. QED BY <3>1
  <2>4. h \in [0..(k + 1) -> X] BY <2>3
  <2>5. h[0] = base BY <2>2
  <2>6. ASSUME NEW i \in 1..(k + 1)
        PROVE  h[i] = F[i][h[i - 1]]
    <3>1. i - 1 \in 0..(k + 1) /\ i - 1 # k + 1 OBVIOUS
    <3>2. h[i - 1] = g[i - 1] BY <3>1
    <3>3. CASE i = k + 1
      <4>1. h[i] = F[k + 1][g[k]] BY <3>3
      <4>2. i - 1 = k BY <3>3
      <4>3. QED BY <3>2, <3>3, <4>1, <4>2
    <3>4. CASE i # k + 1
      <4>1. i \in 1..k /\ h[i] = g[i] BY <3>4
      <4>2. QED BY <2>2, <3>2, <4>1
    <3>5. QED BY <3>3, <3>4
  <2> HIDE DEF h
  <2>7. QED BY <2>4, <2>5, <2>6
<1> HIDE DEF S
<1>3. Nat \subseteq S BY <1>1, <1>2, SetInduction
<1>4. n \in S BY <1>3
<1>5. QED BY <1>4 DEF S, LeadsOn

(* The sequences put together so far.                                      *)
LEMMA Joining ==
  ASSUME NEW S, NEW n \in Nat, NEW seqs, \A i \in 1..n : seqs[i] \in Seq(S)
  PROVE  \E g \in [0..n -> Seq(S)] : Joins(g, n, seqs)
<1> DEFINE F == [i \in 1..n |-> [x \in Seq(S) |-> x \o seqs[i]]]
           X == Seq(S)
<1>1. \A i \in 1..n, x \in X : x \o seqs[i] \in X BY ConcatProperties
<1>2. <<>> \in X OBVIOUS
<1>3. \A i \in 1..n, x \in X : F[i][x] = x \o seqs[i] OBVIOUS
<1>4. F \in [1..n -> [X -> X]] BY <1>1
<1> HIDE DEF F, X
<1>5. PICK g \in [0..n -> X] : LeadsOn(g, <<>>, n, F)
  BY <1>2, <1>4, Iterated
<1>6. \A i \in 1..n : g[i - 1] \in X
  <2>1. \A i \in 1..n : i - 1 \in 0..n OBVIOUS
  <2>2. QED BY <2>1
<1>7. \A i \in 1..n : g[i] = g[i - 1] \o seqs[i] BY <1>3, <1>5, <1>6 DEF LeadsOn
<1>8. QED BY <1>5, <1>7 DEF X, LeadsOn, Joins

(* Whatever goes that way stays in X, and what relates each step to the    *)
(* one before relates each of them to the last.                            *)
LEMMA Followed ==
  ASSUME NEW X, NEW base \in X, NEW n \in Nat, NEW F \in [1..n -> [X -> X]],
         NEW f, LeadsOn(f, base, n, F),
         NEW R, \A x \in X : <<x, x>> \in R,
         \A x \in X, y \in X, z \in X : <<x, y>> \in R /\ <<y, z>> \in R => <<x, z>> \in R,
         \A i \in 1..n, x \in X : <<x, F[i][x]>> \in R
  PROVE  \A i \in 0..n : f[i] \in X /\ <<f[i], f[n]>> \in R
<1> DEFINE S == {k \in 0..n : \A i \in 0..k : f[i] \in X /\ <<f[i], f[k]>> \in R}
<1>1. 0 \in S BY DEF LeadsOn
<1>2. ASSUME NEW k \in 1..n, k - 1 \in S
      PROVE  k \in S
  <2>1. f[k - 1] \in X
    <3>1. k - 1 \in 0..(k - 1) OBVIOUS
    <3>2. QED BY <1>2, <3>1
  <2>2. f[k] = F[k][f[k - 1]] BY DEF LeadsOn
  <2>3. f[k] \in X /\ <<f[k - 1], f[k]>> \in R BY <2>1, <2>2
  <2>4. ASSUME NEW i \in 0..k
        PROVE  f[i] \in X /\ <<f[i], f[k]>> \in R
    <3>1. CASE i = k BY <2>3, <3>1
    <3>2. CASE i # k
      <4>1. i \in 0..(k - 1) BY <3>2
      <4>2. f[i] \in X /\ <<f[i], f[k - 1]>> \in R BY <1>2, <4>1
      <4>3. QED BY <2>1, <2>3, <4>2
    <3>3. QED BY <3>1, <3>2
  <2>5. k \in 0..n OBVIOUS
  <2>6. QED BY <2>4, <2>5
<1> HIDE DEF S
<1>3. 0..n \subseteq S BY <1>1, <1>2, UpTo
<1>4. n \in S BY <1>3
<1>5. QED BY <1>4 DEF S

(* There is only one way of putting sequences together, one by one ...     *)
LEMMA JoinedAlike ==
  ASSUME NEW n \in Nat, NEW seqs, NEW g, Joins(g, n, seqs), NEW h, Joins(h, n, seqs)
  PROVE  \A i \in 0..n : g[i] = h[i]
<1> DEFINE S == {i \in 0..n : g[i] = h[i]}
<1>1. 0 \in S BY DEF Joins
<1>2. ASSUME NEW i \in 1..n, i - 1 \in S
      PROVE  i \in S
  <2>1. i \in 0..n /\ g[i - 1] = h[i - 1] BY <1>2
  <2>2. g[i] = g[i - 1] \o seqs[i] /\ h[i] = h[i - 1] \o seqs[i] BY DEF Joins
  <2>3. QED BY <2>1, <2>2
<1> HIDE DEF S
<1>3. 0..n \subseteq S BY <1>1, <1>2, UpTo
<1>4. QED BY <1>3 DEF S

(* ... which is what FlattenSeq does.                                      *)
LEMMA FlattenedBy ==
  ASSUME NEW S, NEW seqs \in Seq(Seq(S)), NEW g \in [0..Len(seqs) -> Seq(S)],
         Joins(g, Len(seqs), seqs)
  PROVE  FlattenSeq(seqs) = g[Len(seqs)]
<1> DEFINE n == Len(seqs)
<1>1. n \in Nat /\ \A i \in 1..n : seqs[i] \in Seq(S) BY LenProperties, ElementOfSeq
<1>2. CASE n = 0
  <2>1. seqs = <<>> BY <1>2, EmptySeq
  <2>2. QED BY <1>2, <2>1 DEF FlattenSeq, Joins
<1>3. CASE n # 0
  <2> DEFINE IsFlat(f) == f = [i \in 1..n |-> IF i = 1 THEN seqs[i] ELSE f[i - 1] \o seqs[i]]
             flatten == CHOOSE f : IsFlat(f)
             h == [i \in 1..n |-> g[i]]
  <2>1. g[1] = seqs[1]
    <3>1. 1 \in 1..n /\ 1 - 1 = 0 BY <1>1, <1>3
    <3>2. g[1] = g[0] \o seqs[1] /\ seqs[1] \in Seq(S) BY <1>1, <3>1 DEF Joins
    <3>3. g[1] = <<>> \o seqs[1] BY <3>2 DEF Joins
    <3>4. QED BY <3>2, <3>3, ConcatEmptySeq
  <2>2. IsFlat(h)
    <3>1. ASSUME NEW i \in 1..n
          PROVE  h[i] = IF i = 1 THEN seqs[i] ELSE h[i - 1] \o seqs[i]
      <4>1. CASE i = 1 BY <2>1, <4>1
      <4>2. CASE i # 1
        <5>1. i - 1 \in 1..n BY <1>1, <4>2
        <5>2. h[i - 1] = g[i - 1] BY <5>1
        <5>3. QED BY <4>2, <5>2 DEF Joins
      <4>3. QED BY <4>1, <4>2
    <3> HIDE DEF h
    <3>2. h = [i \in 1..n |-> h[i]] BY DEF h
    <3>3. QED BY <3>1, <3>2
  <2> HIDE DEF h
  <2>3. IsFlat(flatten) BY <2>2
  <2> HIDE DEF flatten
  <2> DEFINE all == [i \in 0..n |-> IF i = 0 THEN <<>> ELSE flatten[i]]
  <2>4. all[0] = <<>> /\ \A i \in 1..n : all[i] = flatten[i] BY <1>1
  <2>5. Joins(all, n, seqs)
    <3>1. ASSUME NEW i \in 1..n
          PROVE  all[i] = all[i - 1] \o seqs[i]
      <4>1. CASE i = 1
        <5>1. all[1] = seqs[1] /\ seqs[1] \in Seq(S) BY <1>1, <2>3, <2>4, <4>1
        <5>2. all[1 - 1] = <<>> BY <2>4
        <5>3. <<>> \o seqs[1] = seqs[1] BY <5>1, ConcatEmptySeq
        <5>4. QED BY <4>1, <5>1, <5>2, <5>3
      <4>2. CASE i # 1
        <5>1. i - 1 \in 1..n BY <1>1, <4>2
        <5>2. flatten[i] = flatten[i - 1] \o seqs[i] BY <2>3, <4>2
        <5>3. QED BY <2>4, <5>1, <5>2
      <4>3. QED BY <4>1, <4>2
    <3> HIDE DEF all
    <3>2. QED BY <2>4, <3>1 DEF Joins
  <2> HIDE DEF all
  <2>6. n \in 0..n /\ n \in 1..n BY <1>1, <1>3
  <2>7. g[n] = all[n] BY <1>1, <2>5, <2>6, JoinedAlike
  <2>8. FlattenSeq(seqs) = flatten[n] BY <1>3 DEF FlattenSeq, flatten
  <2>9. QED BY <2>4, <2>6, <2>7, <2>8
<1>4. QED BY <1>2, <1>3

(* Sequences put together have the elements of each.                       *)
LEMMA Flattened ==
  ASSUME NEW S, NEW seqs \in Seq(Seq(S))
  PROVE  /\ FlattenSeq(seqs) \in Seq(S)
         /\ \E g \in [0..Len(seqs) -> Seq(S)] :
              Joins(g, Len(seqs), seqs) /\ FlattenSeq(seqs) = g[Len(seqs)]
<1>1. Len(seqs) \in Nat /\ \A i \in 1..Len(seqs) : seqs[i] \in Seq(S)
  BY LenProperties, ElementOfSeq
<1>2. PICK g \in [0..Len(seqs) -> Seq(S)] : Joins(g, Len(seqs), seqs) BY <1>1, Joining
<1>3. FlattenSeq(seqs) = g[Len(seqs)] BY <1>2, FlattenedBy
<1>4. g[Len(seqs)] \in Seq(S) BY <1>1, <1>2
<1>5. QED BY <1>2, <1>3, <1>4

LEMMA FlattenedOne ==
  ASSUME NEW S, NEW s \in Seq(S)
  PROVE  FlattenSeq(<<s>>) = s
<1> DEFINE g == [i \in 0..1 |-> IF i = 0 THEN <<>> ELSE s]
           seqs == <<s>>
<1>1. seqs \in Seq(Seq(S)) /\ Len(seqs) = 1 /\ seqs[1] = s OBVIOUS
<1>2. g \in [0..1 -> Seq(S)] /\ g[0] = <<>> /\ g[1] = s OBVIOUS
<1>3. <<>> \o s = s BY ConcatEmptySeq
<1> HIDE DEF g, seqs
<1>4. Joins(g, 1, seqs) BY <1>1, <1>2, <1>3 DEF Joins
<1>5. FlattenSeq(seqs) = g[1] BY <1>1, <1>2, <1>4, FlattenedBy
<1>6. QED BY <1>2, <1>5 DEF seqs

LEMMA FlattenedNone == FlattenSeq(<<>>) = <<>>
BY DEF FlattenSeq

(* Two lists of sequences, put together before or after.                   *)
LEMMA FlattenedJoined ==
  ASSUME NEW S, NEW a \in Seq(Seq(S)), NEW b \in Seq(Seq(S))
  PROVE  FlattenSeq(a \o b) = FlattenSeq(a) \o FlattenSeq(b)
<1> DEFINE m == Len(a)
           n == Len(b)
           c == a \o b
<1>1. /\ m \in Nat /\ n \in Nat /\ c \in Seq(Seq(S)) /\ Len(c) = m + n
      /\ \A i \in 1..(m + n) : c[i] = IF i <= m THEN a[i] ELSE b[i - m]
      /\ \A i \in 1..n : b[i] \in Seq(S)
  BY ConcatProperties, LenProperties, ElementOfSeq
<1>2. PICK g \in [0..m -> Seq(S)] : Joins(g, m, a) /\ FlattenSeq(a) = g[m] BY Flattened
<1>3. PICK h \in [0..n -> Seq(S)] : Joins(h, n, b) /\ FlattenSeq(b) = h[n] BY Flattened
<1> DEFINE all == [i \in 0..(m + n) |-> IF i <= m THEN g[i] ELSE g[m] \o h[i - m]]
<1> HIDE DEF m, n, c
<1>4. g[m] \in Seq(S) /\ \A i \in 0..n : h[i] \in Seq(S) BY <1>1, <1>2, <1>3
<1>5. ASSUME NEW i \in 0..(m + n)
      PROVE  all[i] \in Seq(S)
  <2>1. CASE i <= m
    <3>1. i \in 0..m BY <1>1, <2>1
    <3>2. QED BY <1>2, <2>1, <3>1
  <2>2. CASE ~(i <= m)
    <3>1. i - m \in 0..n BY <1>1, <2>2
    <3>2. QED BY <1>4, <2>2, <3>1, ConcatProperties
  <2>3. QED BY <2>1, <2>2
<1>6. all \in [0..(m + n) -> Seq(S)] BY <1>5
<1>7. ASSUME NEW i \in 1..(m + n)
      PROVE  all[i] = all[i - 1] \o c[i]
  <2>1. i \in 0..(m + n) /\ i - 1 \in 0..(m + n) BY <1>1
  <2>2. CASE i <= m
    <3>1. i \in 1..m /\ i - 1 <= m BY <1>1, <2>2
    <3>2. g[i] = g[i - 1] \o a[i] BY <1>2, <3>1 DEF Joins
    <3>3. QED BY <1>1, <2>1, <2>2, <3>1, <3>2
  <2>3. CASE ~(i <= m)
    <3>1. i - m \in 1..n /\ (i - m) - 1 = (i - 1) - m /\ (i - m) - 1 \in 0..n BY <1>1, <2>3
    <3>2. h[i - m] = h[(i - m) - 1] \o b[i - m] BY <1>3, <3>1 DEF Joins
    <3>3. /\ h[(i - m) - 1] \in Seq(S) /\ b[i - m] \in Seq(S) BY <1>1, <1>4, <3>1
    <3>4. g[m] \o h[i - m] = (g[m] \o h[(i - m) - 1]) \o b[i - m]
      <4> DEFINE x == g[m]
                 y == h[(i - m) - 1]
                 z == b[i - m]
      <4>1. x \in Seq(S) /\ y \in Seq(S) /\ z \in Seq(S) BY <1>4, <3>3
      <4>2. h[i - m] = y \o z BY <3>2
      <4> HIDE DEF x, y, z
      <4>3. x \o (y \o z) = (x \o y) \o z BY <4>1, SMTT(30)
      <4>4. QED BY <4>2, <4>3 DEF x, y, z
    <3>5. all[i - 1] = g[m] \o h[(i - m) - 1]
      <4>1. CASE i - 1 <= m
        <5>1. i - 1 = m /\ (i - m) - 1 = 0 BY <1>1, <2>3, <4>1
        <5>2. h[0] = <<>> BY <1>3 DEF Joins
        <5>3. g[m] \o <<>> = g[m] BY <1>4, ConcatEmptySeq
        <5>4. QED BY <2>1, <4>1, <5>1, <5>2, <5>3
      <4>2. CASE ~(i - 1 <= m) BY <2>1, <3>1, <4>2
      <4>3. QED BY <4>1, <4>2
    <3>6. all[i] = g[m] \o h[i - m] BY <2>1, <2>3
    <3>7. c[i] = b[i - m] BY <1>1, <2>3
    <3> HIDE DEF all
    <3>8. QED BY <3>4, <3>5, <3>6, <3>7
  <2>4. QED BY <2>2, <2>3
<1>8. all[0] = <<>>
  <2>1. 0 \in 0..(m + n) /\ 0 <= m BY <1>1
  <2>2. QED BY <1>2, <2>1 DEF Joins
<1>9. all[m + n] = g[m] \o h[n]
  <2>1. m + n \in 0..(m + n) BY <1>1
  <2>2. CASE n = 0
    <3>1. g[m] \o <<>> = g[m] BY <1>4, ConcatEmptySeq
    <3>2. m + n <= m /\ m + n = m BY <1>1, <2>2
    <3>3. QED BY <1>3, <2>1, <2>2, <3>1, <3>2 DEF Joins
  <2>3. CASE n # 0
    <3>1. ~(m + n <= m) /\ (m + n) - m = n BY <1>1, <2>3
    <3>2. QED BY <2>1, <3>1
  <2>4. QED BY <2>2, <2>3
<1> HIDE DEF all
<1>10. Joins(all, m + n, c) BY <1>7, <1>8 DEF Joins
<1>11. FlattenSeq(c) = all[m + n] BY <1>1, <1>6, <1>10, FlattenedBy
<1>12. QED BY <1>2, <1>3, <1>9, <1>11 DEF c

(* The elements of sequences that are extended, put together or reversed.  *)
LEMMA RangeAppended ==
  ASSUME NEW S, NEW s \in Seq(S), NEW x \in S
  PROVE  Range(Append(s, x)) = Range(s) \cup {x}
<1>1. /\ Append(s, x) \in Seq(S) /\ Len(Append(s, x)) = Len(s) + 1 /\ Len(s) \in Nat
      /\ \A i \in 1..Len(s) : Append(s, x)[i] = s[i]
      /\ Append(s, x)[Len(s) + 1] = x
  BY AppendProperties, LenProperties
<1>2. DOMAIN s = 1..Len(s) /\ DOMAIN Append(s, x) = 1..(Len(s) + 1) BY <1>1, LenProperties
<1>3. 1..(Len(s) + 1) = 1..Len(s) \cup {Len(s) + 1} BY <1>1
<1>4. QED BY <1>1, <1>2, <1>3 DEF Range

LEMMA RangeJoined ==
  ASSUME NEW S, NEW s \in Seq(S), NEW t \in Seq(S)
  PROVE  Range(s) \cup Range(t) = Range(s \o t)
<1>1. /\ s \o t \in Seq(S) /\ Len(s \o t) = Len(s) + Len(t)
      /\ Len(s) \in Nat /\ Len(t) \in Nat
  BY ConcatProperties, LenProperties
<1>2. \A i \in 1..(Len(s) + Len(t)) :
        (s \o t)[i] = IF i <= Len(s) THEN s[i] ELSE t[i - Len(s)]
  BY ConcatProperties
<1>3. /\ DOMAIN s = 1..Len(s) /\ DOMAIN t = 1..Len(t)
      /\ DOMAIN (s \o t) = 1..(Len(s) + Len(t))
  BY <1>1, LenProperties
<1>4. ASSUME NEW x \in Range(s)
      PROVE  x \in Range(s \o t)
  <2>1. PICK i \in 1..Len(s) : x = s[i] BY <1>3 DEF Range
  <2>2. i \in 1..(Len(s) + Len(t)) /\ i <= Len(s) BY <1>1, <2>1
  <2>3. QED BY <1>2, <1>3, <2>1, <2>2 DEF Range
<1>5. ASSUME NEW x \in Range(t)
      PROVE  x \in Range(s \o t)
  <2>1. PICK i \in 1..Len(t) : x = t[i] BY <1>3 DEF Range
  <2>2. /\ Len(s) + i \in 1..(Len(s) + Len(t)) /\ ~(Len(s) + i <= Len(s))
        /\ (Len(s) + i) - Len(s) = i
    BY <1>1, <2>1
  <2>3. (s \o t)[Len(s) + i] = t[i] BY <1>2, <2>2
  <2>4. QED BY <1>3, <2>1, <2>2, <2>3 DEF Range
<1>6. ASSUME NEW x \in Range(s \o t)
      PROVE  x \in Range(s) \cup Range(t)
  <2>1. PICK i \in 1..(Len(s) + Len(t)) : x = (s \o t)[i] BY <1>3 DEF Range
  <2>2. CASE i <= Len(s)
    <3>1. i \in 1..Len(s) BY <1>1, <2>1, <2>2
    <3>2. QED BY <1>2, <1>3, <2>1, <2>2, <3>1 DEF Range
  <2>3. CASE ~(i <= Len(s))
    <3>1. i - Len(s) \in 1..Len(t) BY <1>1, <2>1, <2>3
    <3>2. QED BY <1>2, <1>3, <2>1, <2>3, <3>1 DEF Range
  <2>4. QED BY <2>2, <2>3
<1>7. QED BY <1>4, <1>5, <1>6

LEMMA Reversed ==
  ASSUME NEW S, NEW s \in Seq(S)
  PROVE  Reverse(s) \in Seq(S) /\ Len(Reverse(s)) = Len(s) /\ Range(Reverse(s)) = Range(s)
<1> DEFINE n == Len(s)
<1>1. n \in Nat /\ DOMAIN s = 1..n /\ \A i \in 1..n : s[i] \in S
  BY LenProperties, ElementOfSeq
<1>2. \A i \in 1..n : (n - i) + 1 \in 1..n /\ (n - ((n - i) + 1)) + 1 = i BY <1>1
<1>3. Reverse(s) = [i \in 1..n |-> s[(n - i) + 1]] BY DEF Reverse
<1>4. Reverse(s) \in Seq(S) /\ Len(Reverse(s)) = n /\ DOMAIN Reverse(s) = 1..n
  BY <1>1, <1>2, <1>3
<1>5. Range(Reverse(s)) \subseteq Range(s) BY <1>1, <1>2, <1>3 DEF Range
<1>6. ASSUME NEW x \in Range(s)
      PROVE  x \in Range(Reverse(s))
  <2>1. PICK i \in 1..n : x = s[i] BY <1>1 DEF Range
  <2>2. Reverse(s)[(n - i) + 1] = s[i] BY <1>2, <1>3
  <2>3. QED BY <1>2, <1>4, <2>1, <2>2 DEF Range
<1>7. QED BY <1>4, <1>5, <1>6

(* A finite set in some order.                                             *)
LEMMA InOrder ==
  ASSUME NEW A, IsFiniteSet(A)
  PROVE  /\ Cardinality(A) \in Nat /\ SetToSeq(A) \in [1..Cardinality(A) -> A]
         /\ SetToSeq(A) \in Seq(A)
<1>1. \E f \in [1..Cardinality(A) -> A] : IsInjective(f)
  <2>1. ExistsBijection(1..Cardinality(A), A) BY FS_CardinalityType
  <2>2. QED BY <2>1 DEF ExistsBijection, Bijection, Injection
<1>2. SetToSeq(A) \in [1..Cardinality(A) -> A] BY <1>1 DEF SetToSeq
<1>3. Cardinality(A) \in Nat BY FS_CardinalityType
<1>4. QED BY <1>2, <1>3

(* The nodes so many steps away from a root.  Each step that is not the    *)
(* last adds a node, and there are no more than the graph has.             *)
Spreads(f, root, n, C) ==
  f[0] = {root} /\ \A k \in 1..n : f[k] = f[k - 1] \cup UNION {C[x] : x \in f[k - 1]}

LEMMA ClosedAtSize ==
  ASSUME NEW D, IsFiniteSet(D), NEW root \in D, NEW C \in [D -> SUBSET D], NEW f,
         Spreads(f, root, Cardinality(D), C)
  PROVE  /\ f[Cardinality(D)] \subseteq D /\ root \in f[Cardinality(D)]
         /\ \A x \in f[Cardinality(D)] : C[x] \subseteq f[Cardinality(D)]
<1> DEFINE n == Cardinality(D)
           Closed(s) == \A x \in s : C[x] \subseteq s
           S == {k \in 0..n : /\ f[k] \subseteq D /\ root \in f[k]
                              /\ Closed(f[k]) \/ Cardinality(f[k]) >= k + 1}
<1>1. n \in Nat /\ \A k \in 1..n : k - 1 \in 0..n BY FS_CardinalityType
<1>2. 0 \in S
  <2>1. f[0] = {root} BY DEF Spreads
  <2>2. Cardinality({root}) = 1 BY FS_Singleton
  <2>3. {root} \subseteq D /\ root \in {root} /\ Cardinality({root}) >= 0 + 1 BY <2>2
  <2>4. 0 \in 0..n BY <1>1
  <2> HIDE DEF n, Closed
  <2>5. QED BY <2>1, <2>3, <2>4
<1>3. ASSUME NEW k \in 1..n, k - 1 \in S
      PROVE  k \in S
  <2> DEFINE last == f[k - 1]
  <2>1. last \subseteq D /\ root \in last /\ (Closed(last) \/ Cardinality(last) >= k)
    BY <1>1, <1>3
  <2>2. f[k] = last \cup UNION {C[x] : x \in last} BY DEF Spreads
  <2>3. \A x \in last : C[x] \subseteq D BY <2>1
  <2>4. f[k] \subseteq D /\ root \in f[k] /\ last \subseteq f[k] BY <2>1, <2>2, <2>3
  <2>5. CASE Closed(last)
    <3>1. f[k] = last BY <2>2, <2>5
    <3>2. QED BY <1>1, <2>4, <2>5, <3>1
  <2>6. CASE ~Closed(last)
    <3>1. last # f[k] BY <2>2, <2>6
    <3>2. IsFiniteSet(f[k]) BY <2>4, FS_Subset
    <3>3. /\ IsFiniteSet(last) /\ Cardinality(last) <= Cardinality(f[k])
          /\ Cardinality(f[k]) # Cardinality(last)
      BY <2>4, <3>1, <3>2, FS_Subset
    <3>4. Cardinality(last) \in Nat /\ Cardinality(f[k]) \in Nat
      BY <3>2, <3>3, FS_CardinalityType
    <3>5. Cardinality(f[k]) >= k + 1 BY <2>1, <2>6, <3>3, <3>4
    <3>6. QED BY <1>1, <2>4, <3>5
  <2>7. QED BY <2>5, <2>6
<1> HIDE DEF S
<1>4. 0..n \subseteq S BY <1>1, <1>2, <1>3, UpTo
<1>5. n \in S BY <1>1, <1>4
<1>6. /\ f[n] \subseteq D /\ root \in f[n]
      /\ Closed(f[n]) \/ Cardinality(f[n]) >= n + 1
  BY <1>5 DEF S
<1>7. Cardinality(f[n]) <= n /\ Cardinality(f[n]) \in Nat
  BY <1>6, FS_Subset, FS_CardinalityType
<1>8. QED BY <1>1, <1>6, <1>7
===========================================================================
