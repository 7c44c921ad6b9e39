--------------------------- MODULE Recursion_proofs ---------------------------
(***************************************************************************)
(* Induction on the natural numbers for a set of numbers instead of a       *)
(* predicate, and what follows from it about recursive functions: they      *)
(* exist, and what Those and FlattenSeq put into their result.              *)
(***************************************************************************)
EXTENDS Selecting, SequencesExt, SequenceTheorems, WellFoundedInduction, TLAPS

LEMMA LeastNat ==
  ASSUME NEW S \in SUBSET Nat, S # {}
  PROVE  \E n \in S : \A m \in S : n <= m
<1> DEFINE R == OpToRel(<, Nat)
<1>1. \A m, n \in Nat : m < n => <<m, n>> \in R
  BY DEF OpToRel
<1>2. IsWellFoundedOn(R, Nat)
  BY NatLessThanWellFounded
<1> HIDE DEF R
<1>3. PICK n \in S : \A m \in S : ~ (<<m, n>> \in R)
  BY <1>2, WFMin
<1>4. ASSUME NEW m \in S
      PROVE  n <= m
  <2>1. m \in Nat /\ n \in Nat
    OBVIOUS
  <2>2. ~ (m < n)
    BY <1>1, <1>3, <2>1
  <2>3. QED
    BY ONLY <2>1, <2>2
<1>5. QED
  BY <1>4

(* A set of numbers that has 0 and with a number its successor has them all. *)
LEMMA SetInduction ==
  ASSUME NEW T, 0 \in T, \A n \in Nat : n \in T => n + 1 \in T
  PROVE  \A n \in Nat : n \in T
<1> SUFFICES ASSUME Nat \ T # {} PROVE FALSE
  OBVIOUS
<1>1. PICK n \in Nat \ T : \A m \in Nat \ T : n <= m
  BY LeastNat
<1>2. n # 0 /\ n - 1 \in Nat /\ ~(n <= n - 1)
  BY <1>1
<1>3. n - 1 \in T
  BY <1>1, <1>2
<1>4. QED
  BY <1>1, <1>2, <1>3

Recurs(f, a, n, step) == f = [i \in 0..n |-> IF i = 0 THEN a ELSE step[i][f[i - 1]]]

(* A function on 0..n may be defined by its first value and the step from each *)
(* value to the next.                                                          *)
LEMMA RecursiveFunction ==
  ASSUME NEW S, NEW a \in S, NEW n \in Nat, NEW step \in [1..n -> [S -> S]]
  PROVE  \E f \in [0..n -> S] : Recurs(f, a, n, step)
<1> DEFINE Steps(m, f) ==
             /\ f \in [0..m -> S] /\ f[0] = a
             /\ \A i \in 1..m : f[i] = step[i][f[i - 1]]
           T == {m \in Nat : m <= n => \E f : Steps(m, f)}
<1>1. 0 \in T
  <2>1. Steps(0, [i \in 0..0 |-> a])
    OBVIOUS
  <2>2. QED
    BY <2>1
<1>2. ASSUME NEW m \in Nat, m \in T
      PROVE  m + 1 \in T
  <2> SUFFICES ASSUME m + 1 <= n
               PROVE  \E f : Steps(m + 1, f)
    OBVIOUS
  <2>1. PICK f : Steps(m, f)
    BY <1>2
  <2> DEFINE g == [i \in 0..m + 1 |-> IF i = m + 1 THEN step[m + 1][f[m]] ELSE f[i]]
  <2>2. m + 1 \in 1..n /\ m \in 0..m
    OBVIOUS
  <2>3. step[m + 1][f[m]] \in S
    BY <2>1, <2>2
  <2>4. g \in [0..m + 1 -> S]
    <3>1. ASSUME NEW i \in 0..m + 1 PROVE g[i] \in S
      <4>1. CASE i = m + 1
        BY <2>3, <4>1
      <4>2. CASE i # m + 1
        <5>1. i \in 0..m
          BY <4>2
        <5>2. QED
          BY <2>1, <4>2, <5>1
      <4>3. QED
        BY <4>1, <4>2
    <3>2. QED
      BY <3>1
  <2>5. g[0] = a
    BY <2>1
  <2>6. ASSUME NEW i \in 1..m + 1
        PROVE  g[i] = step[i][g[i - 1]]
    <3>1. i \in 0..m + 1 /\ i - 1 \in 0..m + 1 /\ i - 1 # m + 1
      OBVIOUS
    <3>2. g[i - 1] = f[i - 1]
      BY <3>1
    <3>3. CASE i = m + 1
      <4>1. i - 1 = m
        BY <3>3
      <4>2. QED
        BY <3>1, <3>2, <3>3, <4>1
    <3>4. CASE i # m + 1
      <4>1. i \in 1..m
        BY <3>4
      <4>2. QED
        BY <2>1, <3>1, <3>2, <3>4, <4>1
    <3>5. QED
      BY <3>3, <3>4
  <2> HIDE DEF g
  <2>7. Steps(m + 1, g)
    BY <2>4, <2>5, <2>6
  <2>8. QED
    BY <2>7
<1> HIDE DEF T
<1>3. n \in T
  BY <1>1, <1>2, SetInduction
<1>4. PICK f : Steps(n, f)
  BY <1>3 DEF T
<1>5. Recurs(f, a, n, step)
  <2>1. f = [i \in 0..n |-> f[i]]
    BY <1>4
  <2>2. \A i \in 0..n : f[i] = IF i = 0 THEN a ELSE step[i][f[i - 1]]
    BY <1>4
  <2>3. QED
    BY <2>1, <2>2 DEF Recurs
<1>6. QED
  BY <1>4, <1>5

(* What Those has kept of the first i elements. *)
KeptOf(kept, s, T, Q) ==
    /\ \A i \in 0..Len(s) : kept[i] \in Q
    /\ \A i \in 1..Len(s) : kept[i] = IF s[i] \in T THEN Append(kept[i - 1], s[i]) ELSE kept[i - 1]
    /\ Those(s, T) = kept[Len(s)]

LEMMA ThoseSteps ==
  ASSUME NEW S, NEW s \in Seq(S), NEW T
  PROVE  \E kept : KeptOf(kept, s, T, Seq(S \cap T))
<1> DEFINE n == Len(s)
           Q == Seq(S \cap T)
           Def(f) == f = [i \in 0..n |-> IF i = 0 THEN <<>>
                                         ELSE IF s[i] \in T THEN Append(f[i - 1], s[i])
                                         ELSE f[i - 1]]
           step == [i \in 1..n |-> [q \in Q |-> IF s[i] \in T THEN Append(q, s[i]) ELSE q]]
<1>1. n \in Nat /\ <<>> \in Q
  OBVIOUS
<1>2. \A i \in 1..n, q \in Q : s[i] \in T => Append(q, s[i]) \in Q
  BY AppendProperties
<1>3. step \in [1..n -> [Q -> Q]]
  BY <1>2
<1>4. \E f : Def(f)
  <2>0. PICK f \in [0..n -> Q] : Recurs(f, <<>>, n, step)
    <3> HIDE DEF step, Q, n
    <3>1. QED
      BY ONLY <1>1, <1>3, RecursiveFunction
  <2>1. f = [i \in 0..n |-> IF i = 0 THEN <<>> ELSE step[i][f[i - 1]]]
    BY <2>0 DEF Recurs
  <2>2. \A i \in 0..n : i # 0 =>
          step[i][f[i - 1]] = IF s[i] \in T THEN Append(f[i - 1], s[i]) ELSE f[i - 1]
    <3> SUFFICES ASSUME NEW i \in 0..n, i # 0
                 PROVE  step[i][f[i - 1]] = IF s[i] \in T THEN Append(f[i - 1], s[i]) ELSE f[i - 1]
      OBVIOUS
    <3>1. i \in 1..n /\ i - 1 \in 0..n
      BY <1>1
    <3>2. f[i - 1] \in Q
      BY <2>1, <3>1
    <3>3. QED
      BY <3>1, <3>2
  <2> HIDE DEF step
  <2>3. Def(f)
    BY <2>1, <2>2
  <2>4. QED
    BY <2>3
<1> DEFINE upTo == CHOOSE f : Def(f)
<1>5. Def(upTo)
  BY <1>4
<1>6. Those(s, T) = upTo[n]
  BY DEF Those
<1> HIDE DEF upTo, step
<1> DEFINE I == {m \in Nat : m <= n => upTo[m] \in Q}
<1>7. 0 \in I
  BY <1>1, <1>5
<1>8. ASSUME NEW m \in Nat, m \in I
      PROVE  m + 1 \in I
  <2> SUFFICES ASSUME m + 1 <= n PROVE upTo[m + 1] \in Q
    OBVIOUS
  <2>1. upTo[m] \in Q /\ m + 1 \in 1..n /\ m + 1 \in 0..n /\ m + 1 - 1 = m /\ m + 1 # 0
    BY <1>1, <1>8
  <2>2. upTo[m + 1] = IF s[m + 1] \in T THEN Append(upTo[m], s[m + 1]) ELSE upTo[m]
    <3>1. \A i \in 0..n : i # 0 =>
            upTo[i] = IF s[i] \in T THEN Append(upTo[i - 1], s[i]) ELSE upTo[i - 1]
      BY <1>5
    <3> HIDE DEF Def, n
    <3>2. QED
      BY <2>1, <3>1
  <2> HIDE DEF Q, n
  <2>3. QED
    BY <1>2, <2>1, <2>2
<1> HIDE DEF I
<1>9. \A m \in Nat : m \in I
  BY <1>7, <1>8, SetInduction
<1>10. \A i \in 0..n : upTo[i] \in Q
  BY <1>1, <1>9 DEF I
<1>11. \A i \in 1..n : upTo[i] = IF s[i] \in T THEN Append(upTo[i - 1], s[i]) ELSE upTo[i - 1]
  <2>1. \A i \in 1..n : i \in 0..n /\ i # 0
    BY <1>1
  <2>2. QED
    BY <1>5, <2>1
<1>12. QED
  BY <1>6, <1>10, <1>11 DEF KeptOf

(* What Those leaves is in the set, and was in the sequence. *)
LEMMA ThoseElements ==
  ASSUME NEW S, NEW s \in Seq(S), NEW T
  PROVE  Those(s, T) \in Seq(S \cap T)
<1>1. PICK kept : KeptOf(kept, s, T, Seq(S \cap T))
  BY ThoseSteps
<1>2. Len(s) \in 0..Len(s)
  OBVIOUS
<1>3. QED
  BY <1>1, <1>2 DEF KeptOf

(* Those leaves every element that is in the set. *)
LEMMA ThoseAll ==
  ASSUME NEW S, NEW s \in Seq(S), NEW T, NEW i \in 1..Len(s), s[i] \in T
  PROVE  \E j \in 1..Len(Those(s, T)) : Those(s, T)[j] = s[i]
<1> DEFINE Q == Seq(S \cap T)
<1>1. PICK kept : KeptOf(kept, s, T, Q)
  BY ThoseSteps
<1>2. \A m \in 0..Len(s) : kept[m] \in Q
  BY <1>1 DEF KeptOf
<1> DEFINE Has(m) == \E j \in 1..Len(kept[m]) : kept[m][j] = s[i]
           I == {d \in Nat : i + d <= Len(s) => Has(i + d)}
<1>3. 0 \in I
  <2>1. kept[i] = Append(kept[i - 1], s[i]) /\ i - 1 \in 0..Len(s)
    <3>1. kept[i] = IF s[i] \in T THEN Append(kept[i - 1], s[i]) ELSE kept[i - 1]
      <4> HIDE DEF Q
      <4>1. QED
        BY <1>1 DEF KeptOf
    <3>2. i - 1 \in 0..Len(s)
      OBVIOUS
    <3>3. QED
      BY <3>1, <3>2
  <2>2. kept[i - 1] \in Q
    BY <1>2, <2>1
  <2>3. /\ Len(kept[i]) = Len(kept[i - 1]) + 1 /\ kept[i][Len(kept[i - 1]) + 1] = s[i]
        /\ Len(kept[i - 1]) \in Nat
    BY <2>1, <2>2
  <2>4. Len(kept[i - 1]) + 1 \in 1..Len(kept[i])
    BY <2>3
  <2>5. Has(i) /\ i + 0 = i
    BY <2>3, <2>4
  <2>6. QED
    BY <2>5
<1>4. ASSUME NEW d \in Nat, d \in I
      PROVE  d + 1 \in I
  <2> SUFFICES ASSUME i + (d + 1) <= Len(s) PROVE Has(i + (d + 1))
    OBVIOUS
  <2>1. PICK m \in 0..Len(s) : m = i + d /\ m + 1 \in 1..Len(s) /\ m + 1 - 1 = m /\ m + 1 = i + (d + 1)
    OBVIOUS
  <2>2. PICK j \in 1..Len(kept[m]) : kept[m][j] = s[i]
    BY <1>4, <2>1
  <2>3. kept[m + 1] = (IF s[m + 1] \in T THEN Append(kept[m], s[m + 1]) ELSE kept[m]) /\ kept[m] \in Q
    <3>1. PICK k \in 1..Len(s) : k = m + 1 /\ k - 1 = m
      BY <2>1
    <3>2. kept[k] = IF s[k] \in T THEN Append(kept[k - 1], s[k]) ELSE kept[k - 1]
      BY <1>1, <3>1 DEF KeptOf
    <3>3. QED
      BY <1>2, <2>1, <3>1, <3>2
  <2>4. j \in 1..Len(kept[m + 1]) /\ kept[m + 1][j] = s[i]
    BY <2>2, <2>3
  <2>5. Has(m + 1)
    BY <2>4
  <2> HIDE DEF Has
  <2>6. QED
    BY <2>1, <2>5
<1>5. Len(s) - i \in Nat /\ i + (Len(s) - i) = Len(s)
  OBVIOUS
<1> HIDE DEF I
<1>6. Len(s) - i \in I
  BY <1>3, <1>4, <1>5, SetInduction
<1>7. Has(Len(s))
  BY <1>5, <1>6 DEF I
<1>8. QED
  BY <1>1, <1>7 DEF KeptOf

(* The first i sequences, one after the other. *)
JoinOf(join, s, Q) ==
    /\ join[1] = s[1]
    /\ \A i \in 1..Len(s) : join[i] \in Q
    /\ \A i \in 2..Len(s) : join[i] = join[i - 1] \o s[i]
    /\ FlattenSeq(s) = join[Len(s)]

LEMMA FlattenSteps ==
  ASSUME NEW S, NEW s \in Seq(Seq(S)), Len(s) # 0
  PROVE  \E join : JoinOf(join, s, Seq(S))
<1> DEFINE n == Len(s)
           Q == Seq(S)
           Def(f) == f = [i \in 1..n |-> IF i = 1 THEN s[i] ELSE f[i - 1] \o s[i]]
<1>1. n \in Nat /\ \A i \in 1..n : s[i] \in Q
  OBVIOUS
<1>3. n # 0
  OBVIOUS
<1>4. \E join : JoinOf(join, s, Q)
  <2> DEFINE step == [i \in 1..n - 1 |-> [q \in Q |-> q \o s[i + 1]]]
  <2>1. \A i \in 1..n, q \in Q : q \o s[i] \in Q
    BY <1>1, ConcatProperties
  <2>2. step \in [1..n - 1 -> [Q -> Q]] /\ n - 1 \in Nat /\ s[1] \in Q
    <3>1. \A i \in 1..n - 1 : i + 1 \in 1..n
      BY <1>1
    <3>2. QED
      BY <1>1, <1>3, <2>1, <3>1
  <2>0. PICK g \in [0..n - 1 -> Q] : Recurs(g, s[1], n - 1, step)
    <3> HIDE DEF step, Q, n
    <3>1. QED
      BY ONLY <2>2, RecursiveFunction
  <2>3. g = [i \in 0..n - 1 |-> IF i = 0 THEN s[1] ELSE step[i][g[i - 1]]]
    BY <2>0 DEF Recurs
  <2> DEFINE h == [i \in 1..n |-> g[i - 1]]
  <2>4. \A i \in 1..n : h[i] = IF i = 1 THEN s[i] ELSE h[i - 1] \o s[i]
    <3> SUFFICES ASSUME NEW i \in 1..n
                 PROVE  h[i] = IF i = 1 THEN s[i] ELSE h[i - 1] \o s[i]
      OBVIOUS
    <3>1. CASE i = 1
      <4>1. 0 \in 0..n - 1 /\ i - 1 = 0
        BY <1>1, <1>3, <3>1
      <4>2. QED
        BY <2>3, <3>1, <4>1
    <3>2. CASE i # 1
      <4>1. /\ i - 1 \in 1..n /\ i - 1 \in 0..n - 1 /\ i - 1 # 0 /\ i - 1 \in 1..n - 1
            /\ i - 1 - 1 \in 0..n - 1 /\ (i - 1) + 1 = i
        BY <1>1, <3>2
      <4>2. g[i - 1] = step[i - 1][g[i - 1 - 1]] /\ g[i - 1 - 1] \in Q
        BY <2>3, <4>1
      <4>3. step[i - 1][g[i - 1 - 1]] = g[i - 1 - 1] \o s[i]
        BY <4>1, <4>2
      <4>4. h[i] = g[i - 1] /\ h[i - 1] = g[i - 1 - 1]
        BY <4>1
      <4> HIDE DEF h, step
      <4>5. QED
        BY <3>2, <4>2, <4>3, <4>4
    <3>3. QED
      BY <3>1, <3>2
  <2>5. Def(h)
    <3>1. h = [i \in 1..n |-> h[i]]
      OBVIOUS
    <3> HIDE DEF h
    <3>2. QED
      BY <2>4, <3>1
  <2> DEFINE flatten == CHOOSE f : Def(f)
  <2>6. Def(flatten)
    <3> HIDE DEF h
    <3>1. QED
      BY <2>5
  <2>7. FlattenSeq(s) = flatten[n]
    BY <1>3 DEF FlattenSeq
  <2> HIDE DEF flatten, step, h
  <2> DEFINE I == {m \in Nat : m + 1 <= n => flatten[m + 1] \in Q}
  <2>8. 0 \in I
    <3>1. 0 + 1 = 1 /\ 1 \in 1..n
      BY <1>1, <1>3
    <3>2. QED
      BY <1>1, <2>6, <3>1
  <2>9. ASSUME NEW m \in Nat, m \in I
        PROVE  m + 1 \in I
    <3> SUFFICES ASSUME m + 1 + 1 <= n PROVE flatten[m + 1 + 1] \in Q
      OBVIOUS
    <3>1. /\ flatten[m + 1] \in Q /\ m + 1 + 1 \in 1..n /\ m + 1 + 1 - 1 = m + 1
          /\ m + 1 + 1 # 1
      BY <1>1, <2>9
    <3>2. flatten[m + 1 + 1] = flatten[m + 1] \o s[m + 1 + 1]
      <4>1. \A i \in 1..n : i # 1 => flatten[i] = flatten[i - 1] \o s[i]
        BY <2>6
      <4> HIDE DEF Def, n
      <4>2. PICK i \in 1..n : i = m + 1 + 1 /\ i # 1 /\ i - 1 = m + 1
        BY <3>1
      <4>3. flatten[i] = flatten[i - 1] \o s[i]
        BY <4>1, <4>2
      <4>4. QED
        BY <4>2, <4>3
    <3> HIDE DEF Q, n
    <3>3. QED
      BY <2>1, <3>1, <3>2
  <2> HIDE DEF I
  <2>10. \A m \in Nat : m \in I
    BY <2>8, <2>9, SetInduction
  <2>11. ASSUME NEW i \in 1..n
         PROVE  flatten[i] \in Q
    <3>1. i - 1 \in I /\ (i - 1) + 1 = i
      BY <1>1, <2>10
    <3>2. QED
      BY <3>1 DEF I
  <2>12. flatten[1] = s[1] /\ \A i \in 2..n : flatten[i] = flatten[i - 1] \o s[i]
    <3>1. 1 \in 1..n /\ \A i \in 2..n : i \in 1..n /\ i # 1
      BY <1>1, <1>3
    <3>2. \A i \in 1..n : flatten[i] = IF i = 1 THEN s[i] ELSE flatten[i - 1] \o s[i]
      BY <2>6
    <3> HIDE DEF Def, n
    <3>3. QED
      BY <3>1, <3>2
  <2>13. JoinOf(flatten, s, Q)
    BY <2>7, <2>11, <2>12 DEF JoinOf
  <2>14. QED
    BY <2>13
<1>5. QED
  BY <1>4

(* Flattening sequences over a set gives a sequence over it. *)
LEMMA FlattenElements ==
  ASSUME NEW S, NEW s \in Seq(Seq(S))
  PROVE  FlattenSeq(s) \in Seq(S)
<1>1. CASE Len(s) = 0
  <2>1. FlattenSeq(s) = s /\ s = <<>>
    BY <1>1 DEF FlattenSeq
  <2>2. QED
    BY <2>1
<1>2. CASE Len(s) # 0
  <2>1. PICK join : JoinOf(join, s, Seq(S))
    BY <1>2, FlattenSteps
  <2>2. Len(s) \in 1..Len(s)
    BY <1>2
  <2>3. QED
    BY <2>1, <2>2 DEF JoinOf
<1>3. QED
  BY <1>1, <1>2

(* Both sequences are in their concatenation. *)
LEMMA ConcatIndices ==
  ASSUME NEW S, NEW a \in Seq(S), NEW b \in Seq(S)
  PROVE  /\ a \o b \in Seq(S) /\ Len(a \o b) = Len(a) + Len(b)
         /\ \A k \in 1..Len(a) : k \in 1..Len(a \o b) /\ (a \o b)[k] = a[k]
         /\ \A k \in 1..Len(b) : Len(a) + k \in 1..Len(a \o b) /\ (a \o b)[Len(a) + k] = b[k]
  OBVIOUS

(* Flattening keeps every element of every sequence. *)
LEMMA FlattenAll ==
  ASSUME NEW S, NEW s \in Seq(Seq(S)), NEW i \in 1..Len(s), NEW x \in 1..Len(s[i])
  PROVE  \E k \in 1..Len(FlattenSeq(s)) : FlattenSeq(s)[k] = s[i][x]
<1>1. PICK join : JoinOf(join, s, Seq(S))
  BY FlattenSteps
<1> DEFINE Q == Seq(S)
           Has(m) == \E k \in 1..Len(join[m]) : join[m][k] = s[i][x]
           I == {d \in Nat : i + d <= Len(s) => Has(i + d)}
<1>2. (\A m \in 1..Len(s) : join[m] \in Q /\ s[m] \in Q) /\ join[1] = s[1]
  BY <1>1 DEF JoinOf
<1>3. \A m \in 2..Len(s) : join[m] = join[m - 1] \o s[m]
  BY <1>1 DEF JoinOf
<1>4. 0 \in I
  <2>1. CASE i = 1
    <3>1. Has(i) /\ i + 0 = i
      BY <1>2, <2>1
    <3>2. QED
      BY <3>1
  <2>2. CASE i # 1
    <3>1. PICK h \in 1..Len(s) : h = i - 1 /\ i \in 2..Len(s)
      BY <2>2
    <3>2. join[i] = join[h] \o s[i] /\ join[h] \in Q /\ s[i] \in Q
      BY <1>2, <1>3, <3>1
    <3>3. Len(join[h]) + x \in 1..Len(join[i]) /\ join[i][Len(join[h]) + x] = s[i][x]
      <4> DEFINE a == join[h]
                 b == s[i]
      <4>0. a \in Seq(S) /\ b \in Seq(S)
        BY <3>2
      <4> HIDE DEF a, b
      <4>1. \A y \in 1..Len(b) : Len(a) + y \in 1..Len(a \o b) /\ (a \o b)[Len(a) + y] = b[y]
        BY ONLY <4>0, ConcatIndices
      <4>2. QED
        BY <3>2, <4>1, Zenon DEF a, b
    <3>4. Has(i) /\ i + 0 = i
      BY <3>3
    <3>5. QED
      BY <3>4
  <2>3. QED
    BY <2>1, <2>2
<1>5. ASSUME NEW d \in Nat, d \in I
      PROVE  d + 1 \in I
  <2> SUFFICES ASSUME i + (d + 1) <= Len(s) PROVE Has(i + (d + 1))
    OBVIOUS
  <2>1. PICK m \in 1..Len(s), h \in 2..Len(s) :
          m = i + d /\ h = i + (d + 1) /\ m = h - 1
    <3>1. i + d \in 1..Len(s) /\ i + (d + 1) \in 2..Len(s) /\ i + d = (i + (d + 1)) - 1
      OBVIOUS
    <3>2. QED
      BY <3>1
  <2>2. PICK k \in 1..Len(join[m]) : join[m][k] = s[i][x]
    BY <1>5, <2>1
  <2>3. join[h] = join[m] \o s[h] /\ join[m] \in Q /\ s[h] \in Q
    <3> HIDE DEF Q
    <3>1. h \in 1..Len(s)
      OBVIOUS
    <3>2. QED
      BY <1>2, <1>3, <2>1, <3>1
  <2>4. k \in 1..Len(join[h]) /\ join[h][k] = s[i][x]
    <3> DEFINE a == join[m]
               b == s[h]
    <3>0. a \in Seq(S) /\ b \in Seq(S)
      BY <2>3
    <3> HIDE DEF a, b
    <3>1. \A y \in 1..Len(a) : y \in 1..Len(a \o b) /\ (a \o b)[y] = a[y]
      BY ONLY <3>0, ConcatIndices
    <3>2. QED
      BY <2>2, <2>3, <3>1, Zenon DEF a, b
  <2>5. Has(h)
    BY <2>4
  <2> HIDE DEF Has
  <2>6. QED
    BY <2>1, <2>5
<1>6. Len(s) - i \in Nat /\ i + (Len(s) - i) = Len(s)
  OBVIOUS
<1> HIDE DEF I
<1>7. Len(s) - i \in I
  BY <1>4, <1>5, <1>6, SetInduction
<1>8. Has(Len(s))
  BY <1>6, <1>7 DEF I
<1>9. QED
  BY <1>1, <1>8 DEF JoinOf

(* What flattening pairs gives, place by place. *)
LEMMA FlattenPairs ==
  ASSUME NEW S, NEW s \in Seq(Seq(S)), \A i \in 1 .. Len(s) : Len(s[i]) = 2
  PROVE  /\ Len(FlattenSeq(s)) = 2 * Len(s)
         /\ \A i \in 1 .. Len(s) : /\ FlattenSeq(s)[2 * i - 1] = s[i][1]
                                   /\ FlattenSeq(s)[2 * i] = s[i][2]
<1>1. CASE Len(s) = 0
  <2>1. FlattenSeq(s) = s
    BY <1>1 DEF FlattenSeq
  <2>2. QED
    BY <1>1, <2>1
<1>2. CASE Len(s) # 0
  <2> DEFINE Q == Seq(S)
             n == Len(s)
  <2>1. PICK join : JoinOf(join, s, Q)
    BY <1>2, FlattenSteps
  <2>0. n \in Nat /\ n # 0 /\ \A m \in 1 .. n : s[m] \in Q /\ Len(s[m]) = 2
    BY <1>2
  <2>2. /\ n \in Nat /\ n # 0 /\ join[1] = s[1] /\ FlattenSeq(s) = join[n]
        /\ \A m \in 1 .. n : join[m] \in Q /\ s[m] \in Q /\ Len(s[m]) = 2
        /\ \A m \in 2 .. n : join[m] = join[m - 1] \o s[m]
    <3> HIDE DEF Q
    <3>1. QED
      BY ONLY <2>0, <2>1 DEF JoinOf, n
  <2> DEFINE Flat(m) == /\ Len(join[m]) = 2 * m
                        /\ \A i \in 1 .. m : join[m][2 * i - 1] = s[i][1] /\ join[m][2 * i] = s[i][2]
             I == {d \in Nat : d + 1 <= n => Flat(d + 1)}
  <2> HIDE DEF n, Q
  <2>3. 0 \in I
    <3>1. 1 \in 1 .. n /\ join[1] = s[1] /\ Len(s[1]) = 2
      BY <2>2
    <3>2. \A i \in 1 .. 1 : 2 * i - 1 = 1 /\ 2 * i = 2 /\ i = 1
      OBVIOUS
    <3>3. Flat(1)
      BY <3>1, <3>2
    <3>4. QED
      BY <3>3
  <2>4. ASSUME NEW d \in Nat, d \in I
        PROVE  d + 1 \in I
    <3> SUFFICES ASSUME d + 1 + 1 <= n PROVE Flat(d + 1 + 1)
      OBVIOUS
    <3>1. PICK m \in 1 .. n, h \in 2 .. n : m = d + 1 /\ h = d + 1 + 1 /\ h = m + 1 /\ m = h - 1
      <4>1. d + 1 \in 1 .. n /\ d + 1 + 1 \in 2 .. n
        BY <2>2
      <4>2. QED
        BY <4>1
    <3>2. Flat(m)
      BY <2>4, <3>1
    <3> DEFINE a == join[m]
               b == s[h]
    <3>3. join[h] = a \o b /\ a \in Q /\ b \in Q /\ Len(a) = 2 * m /\ Len(b) = 2
      <4>1. h \in 1 .. n
        BY <2>2
      <4>2. QED
        BY <2>2, <3>1, <3>2, <4>1
    <3> HIDE DEF a, b
    <3>4. /\ Len(a \o b) = Len(a) + Len(b)
          /\ \A k \in 1 .. Len(a) : (a \o b)[k] = a[k]
          /\ \A k \in 1 .. Len(b) : (a \o b)[Len(a) + k] = b[k]
      <4>1. a \in Seq(S) /\ b \in Seq(S)
        BY <3>3 DEF Q
      <4>2. QED
        BY ONLY <4>1, ConcatIndices
    <3>5. Len(join[h]) = 2 * h /\ join[h][2 * m + 1] = b[1] /\ join[h][2 * m + 2] = b[2]
      <4>1. 1 \in 1 .. Len(b) /\ 2 \in 1 .. Len(b)
        BY <3>3
      <4>2. QED
        BY <3>1, <3>3, <3>4, <4>1
    <3>6. ASSUME NEW i \in 1 .. h
          PROVE  join[h][2 * i - 1] = s[i][1] /\ join[h][2 * i] = s[i][2]
      <4>1. CASE i = h
        <5>1. 2 * i - 1 = 2 * m + 1 /\ 2 * i = 2 * m + 2
          BY <3>1, <4>1
        <5>2. QED
          BY <3>5, <4>1, <5>1 DEF b
      <4>2. CASE i # h
        <5>1. i \in 1 .. m /\ 2 * i - 1 \in 1 .. 2 * m /\ 2 * i \in 1 .. 2 * m
          BY <3>1, <4>2
        <5>2. a[2 * i - 1] = s[i][1] /\ a[2 * i] = s[i][2]
          BY <3>2, <5>1 DEF a
        <5>3. join[h][2 * i - 1] = a[2 * i - 1] /\ join[h][2 * i] = a[2 * i]
          BY <3>3, <3>4, <5>1
        <5>4. QED
          BY <5>2, <5>3
      <4>3. QED
        BY <4>1, <4>2
    <3>7. Flat(h)
      BY <3>5, <3>6
    <3> HIDE DEF Flat
    <3>8. QED
      BY <3>1, <3>7
  <2>5. n - 1 \in Nat /\ n - 1 + 1 = n /\ n <= n
    BY <2>2
  <2> HIDE DEF I, Flat
  <2>6. n - 1 \in I
    BY <2>3, <2>4, <2>5, SetInduction
  <2>7. Flat(n)
    BY <2>5, <2>6 DEF I
  <2>8. QED
    BY <2>2, <2>7 DEF Flat, n
<1>3. QED
  BY <1>1, <1>2
====
