-------------------------- MODULE PageToolsProofs --------------------------
(***************************************************************************)
(* Proofs about PageTools, for documents of any length, any number of      *)
(* files, and fields with any number of groups: what is handed out is what *)
(* was asked for, what is logged is what was handed out, and no sound      *)
(* request is refused.                                                     *)
(***************************************************************************)
EXTENDS PageTools, TLAPS, WellFoundedInduction, FiniteSetTheorems, SequenceTheorems

-----------------------------------------------------------------------------
\* Induction over the naturals, as facts about sets.

\* A set of naturals has a least one.
LEMMA LeastNatural ==
    ASSUME NEW T \in SUBSET Nat, T # {}
    PROVE  \E m \in T : \A k \in T : m <= k
<1> DEFINE R == OpToRel(<, Nat)
<1>1. IsWellFoundedOn(R, Nat)  BY NatLessThanWellFounded
<1>2. PICK m \in T : \A k \in T : <<k, m>> \notin R
  <2> HIDE DEF R
  <2> QED  BY <1>1, WFMin
<1>3. \A k \in T : ~ (k < m)  BY <1>2 DEF OpToRel
<1> QED  BY <1>3

\* A set with 0 and the successor of each of its naturals has them all.
LEMMA SetInduction ==
    ASSUME NEW S, 0 \in S, \A n \in Nat : n \in S => n + 1 \in S
    PROVE  \A n \in Nat : n \in S
<1> DEFINE T == Nat \ S
<1>1. SUFFICES ASSUME T # {} PROVE FALSE  OBVIOUS
<1>2. PICK m \in T : \A k \in T : m <= k  BY <1>1, LeastNatural
<1>3. m # 0 /\ m \in Nat  OBVIOUS
<1>4. m - 1 \in Nat /\ m - 1 \notin T  BY <1>2, <1>3
<1> QED  BY <1>4

\* f starts with base and goes on by step.
Steps(f, V, base, step, last) ==
    /\ f \in [0..last -> V]
    /\ f[0] = base
    /\ \A n \in 1..last : f[n] = step[<<n, f[n - 1]>>]

\* What is computed from one number to the next exists.
LEMMA StepByStep ==
    ASSUME NEW V, NEW base \in V, NEW step \in [Nat \X V -> V], NEW last \in Nat
    PROVE  \E f : Steps(f, V, base, step, last)
<1> DEFINE S == {n \in Nat : \E f : Steps(f, V, base, step, n)}
<1>1. 0 \in S
  <2> DEFINE f == [n \in 0..0 |-> base]
  <2>1. Steps(f, V, base, step, 0)  BY DEF Steps
  <2> QED  BY <2>1
<1>2. ASSUME NEW n \in Nat, n \in S  PROVE n + 1 \in S
  <2>1. PICK f : Steps(f, V, base, step, n)  BY <1>2
  <2> DEFINE g == [k \in 0..(n + 1) |-> IF k = n + 1 THEN step[<<k, f[n]>>] ELSE f[k]]
  <2>2. g \in [0..(n + 1) -> V]  BY <2>1 DEF Steps
  <2>3. g[0] = base /\ \A k \in 1..(n + 1) : g[k] = step[<<k, g[k - 1]>>]
    BY <2>1 DEF Steps
  <2> HIDE DEF g
  <2>4. Steps(g, V, base, step, n + 1)  BY <2>2, <2>3 DEF Steps
  <2> QED  BY <2>4
<1> HIDE DEF S
<1>3. \A n \in Nat : n \in S  BY <1>1, <1>2, SetInduction
<1> QED  BY <1>3 DEF S

-----------------------------------------------------------------------------
\* PagesIn and FlattenSeq.

\* sum holds the lengths of the first 0, 1, ... sequences together.
Sums(sum, docs) ==
    /\ sum \in [0..Len(docs) -> Nat]
    /\ sum[0] = 0
    /\ \A n \in 1..Len(docs) : sum[n] = sum[n - 1] + Len(docs[n])

\* PagesIn adds the lengths up one by one.
LEMMA PagesInSums ==
    ASSUME NEW V, NEW docs \in Seq(Seq(V))
    PROVE  \E sum : Sums(sum, docs) /\ PagesIn(docs) = sum[Len(docs)]
<1> DEFINE last == Len(docs)
           Is(f) == f = [n \in 0..last |-> IF n = 0 THEN 0 ELSE f[n - 1] + Len(docs[n])]
           sum == CHOOSE f : Is(f)
           step == [x \in Nat \X Nat |->
                      IF x[1] \in 1..last THEN x[2] + Len(docs[x[1]]) ELSE 0]
<1>1. last \in Nat /\ \A n \in 1..last : Len(docs[n]) \in Nat  OBVIOUS
<1> HIDE DEF last
<1>2. \E f : Is(f)
  <2>1. step \in [Nat \X Nat -> Nat]  BY <1>1
  <2> HIDE DEF step
  <2>2. 0 \in Nat  OBVIOUS
  <2>3. PICK f : Steps(f, Nat, 0, step, last)
    BY <1>1, <2>1, <2>2, StepByStep
  <2>4. ASSUME NEW n \in 1..last  PROVE f[n] = f[n - 1] + Len(docs[n])
    <3>1. n \in Nat /\ n - 1 \in 0..last /\ f[n - 1] \in Nat  BY <1>1, <2>3 DEF Steps
    <3>2. f[n] = step[<<n, f[n - 1]>>]  BY <2>3 DEF Steps
    <3> QED  BY <3>1, <3>2 DEF step
  <2>5. Is(f)  BY <1>1, <2>3, <2>4 DEF Steps
  <2> QED  BY <2>5
<1>3. Is(sum)  BY <1>2
<1>4. PagesIn(docs) = sum[last]  BY DEF PagesIn, last
<1> HIDE DEF sum
<1>5. sum[0] = 0 /\ \A n \in 1..last : sum[n] = sum[n - 1] + Len(docs[n])
  <2>1. \A n \in 0..last : sum[n] = IF n = 0 THEN 0 ELSE sum[n - 1] + Len(docs[n])
    BY <1>3
  <2> QED  BY <1>1, <2>1
<1>6. sum = [n \in 0..last |-> sum[n]]  BY <1>3
<1> HIDE DEF Is
<1>7. \A n \in Nat : n <= last => sum[n] \in Nat
  <2> DEFINE S == {m \in Nat : m <= last => sum[m] \in Nat}
  <2>1. 0 \in S  BY <1>5
  <2>2. ASSUME NEW n \in Nat, n \in S  PROVE n + 1 \in S
    <3> SUFFICES ASSUME n + 1 <= last PROVE sum[n + 1] \in Nat  OBVIOUS
    <3>1. n + 1 \in 1..last /\ sum[n] \in Nat  BY <1>1, <2>2
    <3> QED  BY <1>1, <1>5, <3>1
  <2> HIDE DEF S
  <2>3. \A n \in Nat : n \in S  BY <2>1, <2>2, SetInduction
  <2> QED  BY <2>3 DEF S
<1>8. sum \in [0..last -> Nat]  BY <1>1, <1>6, <1>7
<1> QED  BY <1>4, <1>5, <1>8 DEF Sums, last

\* Only the lengths count, and those of the first sequences do not depend on the others.
LEMMA SumsAgree ==
    ASSUME NEW docs, NEW front, NEW f, NEW g, Sums(f, front), Sums(g, docs),
           Len(docs) \in Nat, Len(front) \in Nat, Len(front) <= Len(docs),
           \A n \in 1..Len(front) : Len(front[n]) = Len(docs[n])
    PROVE  f[Len(front)] = g[Len(front)]
<1> DEFINE S == {n \in Nat : n <= Len(front) => f[n] = g[n]}
<1>1. 0 \in S  BY DEF Sums
<1>2. ASSUME NEW n \in Nat, n \in S  PROVE n + 1 \in S
  <2> SUFFICES ASSUME n + 1 <= Len(front) PROVE f[n + 1] = g[n + 1]  OBVIOUS
  <2>1. n + 1 \in 1..Len(front) /\ n + 1 \in 1..Len(docs) /\ (n + 1) - 1 = n  OBVIOUS
  <2>2. f[n + 1] = f[n] + Len(front[n + 1])  BY <2>1 DEF Sums
  <2>3. g[n + 1] = g[n] + Len(docs[n + 1])  BY <2>1 DEF Sums
  <2>4. f[n] = g[n]  BY <1>2
  <2> QED  BY <2>1, <2>2, <2>3, <2>4
<1> HIDE DEF S
<1>3. \A n \in Nat : n \in S  BY <1>1, <1>2, SetInduction
<1> QED  BY <1>3 DEF S

\* flat holds the first 0, 1, ... sequences, one after another.
Flattens(flat, V, seqs) ==
    /\ flat \in [0..Len(seqs) -> Seq(V)]
    /\ flat[0] = <<>>
    /\ \A n \in 1..Len(seqs) : flat[n] = flat[n - 1] \o seqs[n]

\* FlattenSeq appends the sequences one by one.
LEMMA FlattenSeqFlattens ==
    ASSUME NEW V, NEW seqs \in Seq(Seq(V))
    PROVE  \E flat : Flattens(flat, V, seqs) /\ FlattenSeq(seqs) = flat[Len(seqs)]
<1> DEFINE last == Len(seqs)
           Is(f) == f = [i \in 1..last |-> IF i = 1 THEN seqs[i] ELSE f[i - 1] \o seqs[i]]
           flatten == CHOOSE f : Is(f)
           step == [x \in Nat \X Seq(V) |->
                      IF x[1] \in 1..last THEN x[2] \o seqs[x[1]] ELSE <<>>]
<1>1. last \in Nat /\ \A n \in 1..last : seqs[n] \in Seq(V)  OBVIOUS
<1>2. last = 0 => seqs = <<>>  OBVIOUS
<1>3. FlattenSeq(seqs) = IF last = 0 THEN seqs ELSE flatten[last]  BY DEF FlattenSeq
<1> HIDE DEF last, flatten
<1>4. PICK flat : Steps(flat, Seq(V), <<>>, step, last)
  <2>1. step \in [Nat \X Seq(V) -> Seq(V)]  BY <1>1
  <2>2. <<>> \in Seq(V)  OBVIOUS
  <2> HIDE DEF step
  <2> QED  BY <1>1, <2>1, <2>2, StepByStep, Zenon
<1>5. ASSUME NEW n \in 1..last
      PROVE  /\ flat[n] = flat[n - 1] \o seqs[n]
             /\ flat[n - 1] \in Seq(V) /\ seqs[n] \in Seq(V)
  <2>1. n \in Nat /\ n - 1 \in 0..last  BY <1>1
  <2>2. flat[n - 1] \in Seq(V)  BY <1>4, <2>1 DEF Steps
  <2>3. flat[n] = step[<<n, flat[n - 1]>>]  BY <1>4 DEF Steps
  <2>4. <<n, flat[n - 1]>> \in Nat \X Seq(V)  BY <2>1, <2>2
  <2> QED  BY <1>1, <2>2, <2>3, <2>4
<1> HIDE DEF step
<1>6. Flattens(flat, V, seqs)  BY <1>4, <1>5 DEF Steps, Flattens, last
<1>7. CASE last = 0
  BY <1>2, <1>3, <1>4, <1>6, <1>7 DEF Steps, last
<1>8. CASE last # 0
  <2>1. flat[1] = seqs[1]
    <3>1. 1 \in 1..last /\ 1 - 1 = 0  BY <1>1, <1>8
    <3>2. flat[1] = <<>> \o seqs[1]  BY <1>4, <1>5, <3>1 DEF Steps
    <3> QED  BY <1>5, <3>1, <3>2, ConcatEmptySeq
  <2>2. \E f : Is(f)
    <3> DEFINE g == [i \in 1..last |-> flat[i]]
    <3>1. ASSUME NEW i \in 1..last
          PROVE  g[i] = IF i = 1 THEN seqs[i] ELSE g[i - 1] \o seqs[i]
      <4>1. CASE i = 1  BY <2>1, <4>1
      <4>2. CASE i # 1
        <5>1. i - 1 \in 1..last  BY <1>1, <4>2
        <5>2. flat[i] = flat[i - 1] \o seqs[i]  BY <1>5
        <5>3. g[i] = flat[i] /\ g[i - 1] = flat[i - 1]  BY <5>1
        <5> HIDE DEF g
        <5> QED  BY <4>2, <5>2, <5>3
      <4> QED  BY <4>1, <4>2
    <3>2. g = [i \in 1..last |-> g[i]]  OBVIOUS
    <3> HIDE DEF g
    <3>3. Is(g)  BY <3>1, <3>2
    <3> QED  BY <3>3
  <2>3. Is(flatten)  BY <2>2 DEF flatten
  <2>4. ASSUME NEW i \in 1..last
        PROVE  flatten[i] = IF i = 1 THEN seqs[i] ELSE flatten[i - 1] \o seqs[i]
    BY <2>3, Zenon
  <2> HIDE DEF Is
  <2> DEFINE S == {n \in Nat : n + 1 <= last => flatten[n + 1] = flat[n + 1]}
  <2>5. 0 \in S
    <3>1. 1 \in 1..last  BY <1>1, <1>8
    <3>2. flatten[1] = seqs[1]  BY <2>4, <3>1
    <3> QED  BY <2>1, <3>2
  <2>6. ASSUME NEW n \in Nat, n \in S  PROVE n + 1 \in S
    <3> SUFFICES ASSUME (n + 1) + 1 <= last
                 PROVE  flatten[(n + 1) + 1] = flat[(n + 1) + 1]
      OBVIOUS
    <3> DEFINE m == (n + 1) + 1
    <3>1. m \in 1..last /\ m # 1 /\ m - 1 = n + 1  BY <1>1
    <3>2. flatten[n + 1] = flat[n + 1]  BY <1>1, <2>6
    <3> HIDE DEF m, S
    <3>3. flatten[m] = flatten[m - 1] \o seqs[m]  BY <2>4, <3>1
    <3>4. flat[m] = flat[m - 1] \o seqs[m]  BY <1>5, <3>1
    <3>5. flatten[m] = flat[m]  BY <3>1, <3>2, <3>3, <3>4
    <3> QED  BY <3>5 DEF m
  <2> HIDE DEF S
  <2>7. \A n \in Nat : n \in S  BY <2>5, <2>6, SetInduction
  <2>8. flatten[last] = flat[last]
    <3>1. last - 1 \in S /\ (last - 1) + 1 = last  BY <1>1, <1>8, <2>7
    <3> QED  BY <3>1 DEF S
  <2> QED  BY <1>3, <1>6, <1>8, <2>8 DEF last
<1> QED  BY <1>7, <1>8

-----------------------------------------------------------------------------
\* What is in a flattened sequence, and where.

\* What is flattened so far is as long as its sequences together.
LEMMA FlatLengths ==
    ASSUME NEW V, NEW seqs \in Seq(Seq(V)),
           NEW flat, Flattens(flat, V, seqs), NEW sum, Sums(sum, seqs)
    PROVE  \A n \in 0..Len(seqs) : Len(flat[n]) = sum[n]
<1> DEFINE last == Len(seqs)
           S == {n \in Nat : n <= last => Len(flat[n]) = sum[n]}
<1>1. last \in Nat /\ \A n \in 1..last : seqs[n] \in Seq(V)  OBVIOUS
<1>2. 0 \in S  BY DEF Flattens, Sums
<1>3. ASSUME NEW n \in Nat, n \in S  PROVE n + 1 \in S
  <2> SUFFICES ASSUME n + 1 <= last PROVE Len(flat[n + 1]) = sum[n + 1]  OBVIOUS
  <2>1. n + 1 \in 1..last /\ n \in 0..last /\ (n + 1) - 1 = n  BY <1>1
  <2>2. flat[n + 1] = flat[n] \o seqs[n + 1] /\ flat[n] \in Seq(V)
    BY <2>1 DEF Flattens
  <2>3. sum[n + 1] = sum[n] + Len(seqs[n + 1])  BY <2>1 DEF Sums
  <2>4. Len(flat[n]) = sum[n]  BY <1>3, <2>1
  <2>5. Len(flat[n] \o seqs[n + 1]) = Len(flat[n]) + Len(seqs[n + 1])
    BY <1>1, <2>1, <2>2, ConcatProperties
  <2> QED  BY <2>2, <2>3, <2>4, <2>5
<1> HIDE DEF S
<1>4. \A n \in Nat : n \in S  BY <1>2, <1>3, SetInduction
<1> QED  BY <1>1, <1>4 DEF S

\* Sequence k stands behind those before it.
LEMMA FlatPlaces ==
    ASSUME NEW V, NEW seqs \in Seq(Seq(V)),
           NEW flat, Flattens(flat, V, seqs), NEW sum, Sums(sum, seqs)
    PROVE  \A n \in 0..Len(seqs) : \A k \in 1..n : \A i \in 1..Len(seqs[k]) :
              sum[k - 1] + i <= sum[n] /\ flat[n][sum[k - 1] + i] = seqs[k][i]
<1> DEFINE last == Len(seqs)
           Placed(n) == \A k \in 1..n : \A i \in 1..Len(seqs[k]) :
              sum[k - 1] + i <= sum[n] /\ flat[n][sum[k - 1] + i] = seqs[k][i]
           S == {n \in Nat : n <= last => Placed(n)}
<1>1. last \in Nat /\ \A n \in 1..last : seqs[n] \in Seq(V)  OBVIOUS
<1>2. 0 \in S  OBVIOUS
<1>3. ASSUME NEW n \in Nat, n \in S  PROVE n + 1 \in S
  <2> SUFFICES ASSUME n + 1 <= last PROVE Placed(n + 1)  OBVIOUS
  <2>1. n + 1 \in 1..last /\ n \in 0..last /\ (n + 1) - 1 = n  BY <1>1
  <2>2. flat[n + 1] = flat[n] \o seqs[n + 1] /\ flat[n] \in Seq(V)
    BY <2>1 DEF Flattens
  <2>3. sum[n + 1] = sum[n] + Len(seqs[n + 1]) /\ sum[n] \in Nat
    BY <2>1 DEF Sums
  <2>4. Len(flat[n]) = sum[n]  BY <2>1, FlatLengths
  <2>5. seqs[n + 1] \in Seq(V)  BY <1>1, <2>1
  <2>6. \A i \in 1..(sum[n] + Len(seqs[n + 1])) :
           flat[n + 1][i] = IF i <= sum[n] THEN flat[n][i] ELSE seqs[n + 1][i - sum[n]]
    <3>1. \A i \in 1..(Len(flat[n]) + Len(seqs[n + 1])) :
             (flat[n] \o seqs[n + 1])[i] =
                IF i <= Len(flat[n]) THEN flat[n][i] ELSE seqs[n + 1][i - Len(flat[n])]
      BY <2>2, <2>5, ConcatProperties
    <3> QED  BY <2>2, <2>4, <3>1
  <2>7. Placed(n)  BY <1>3, <2>1
  <2>8. Len(seqs[n + 1]) \in Nat  BY <2>5
  <2> SUFFICES ASSUME NEW k \in 1..(n + 1), NEW i \in 1..Len(seqs[k])
               PROVE  sum[k - 1] + i <= sum[n + 1] /\ flat[n + 1][sum[k - 1] + i] = seqs[k][i]
    OBVIOUS
  <2>9. CASE k = n + 1
    <3>1. sum[k - 1] = sum[n] /\ i \in 1..Len(seqs[n + 1])  BY <2>1, <2>9
    <3>2. sum[n] + i \in 1..(sum[n] + Len(seqs[n + 1])) /\ ~ (sum[n] + i <= sum[n])
          /\ (sum[n] + i) - sum[n] = i
      BY <2>3, <2>8, <3>1
    <3>3. flat[n + 1][sum[n] + i] = seqs[n + 1][i]  BY <2>6, <3>2
    <3> QED  BY <2>3, <2>8, <2>9, <3>1, <3>2, <3>3
  <2>10. CASE k # n + 1
    <3>1. k \in 1..n /\ k - 1 \in 0..last /\ k \in 1..last  BY <2>1, <2>10
    <3>2. sum[k - 1] \in Nat  BY <3>1 DEF Sums
    <3>3. sum[k - 1] + i <= sum[n] /\ flat[n][sum[k - 1] + i] = seqs[k][i]
      BY <2>7, <3>1
    <3>4. sum[k - 1] + i \in 1..(sum[n] + Len(seqs[n + 1]))
      BY <2>3, <2>8, <3>2, <3>3
    <3> QED  BY SMTT(30), <2>3, <2>6, <2>8, <3>3, <3>4
  <2> QED  BY <2>9, <2>10
<1> HIDE DEF S
<1>4. \A n \in Nat : n \in S  BY <1>2, <1>3, SetInduction
<1> QED  BY <1>1, <1>4 DEF S

\* As many pages as the sequences have together.
LEMMA FlattenLength ==
    ASSUME NEW V, NEW seqs \in Seq(Seq(V))
    PROVE  /\ FlattenSeq(seqs) \in Seq(V)
           /\ Len(FlattenSeq(seqs)) = PagesIn(seqs) /\ PagesIn(seqs) \in Nat
<1>1. PICK flat : Flattens(flat, V, seqs) /\ FlattenSeq(seqs) = flat[Len(seqs)]
  BY FlattenSeqFlattens
<1>2. PICK sum : Sums(sum, seqs) /\ PagesIn(seqs) = sum[Len(seqs)]
  BY PagesInSums
<1>3. Len(seqs) \in 0..Len(seqs)  OBVIOUS
<1>4. Len(flat[Len(seqs)]) = sum[Len(seqs)]  BY <1>1, <1>2, <1>3, FlatLengths
<1> QED  BY <1>1, <1>2, <1>3, <1>4 DEF Flattens, Sums

\* Where FlattenSeq puts the elements of each sequence.
LEMMA FlattenPlaces ==
    ASSUME NEW V, NEW seqs \in Seq(Seq(V)),
           NEW k \in 1..Len(seqs), NEW i \in 1..Len(seqs[k])
    PROVE  /\ FlattenSeq(seqs)[PagesIn(SubSeq(seqs, 1, k - 1)) + i] = seqs[k][i]
           /\ PagesIn(SubSeq(seqs, 1, k - 1)) + i <= PagesIn(seqs)
           /\ PagesIn(SubSeq(seqs, 1, k - 1)) \in Nat
<1> DEFINE front == SubSeq(seqs, 1, k - 1)
<1>1. PICK flat : Flattens(flat, V, seqs) /\ FlattenSeq(seqs) = flat[Len(seqs)]
  BY FlattenSeqFlattens
<1>2. PICK sum : Sums(sum, seqs) /\ PagesIn(seqs) = sum[Len(seqs)]
  BY PagesInSums
<1>3. front \in Seq(Seq(V)) /\ Len(front) = k - 1
      /\ \A n \in 1..Len(front) : front[n] = seqs[n]
  OBVIOUS
<1> HIDE DEF front
<1>4. PICK g : Sums(g, front) /\ PagesIn(front) = g[Len(front)]
  BY <1>3, PagesInSums
<1>5. Len(seqs) \in Nat /\ k \in Nat /\ k - 1 \in 0..Len(seqs)  OBVIOUS
<1>6. g[k - 1] = sum[k - 1]
  <2>1. Len(front) \in Nat /\ Len(front) <= Len(seqs)  BY <1>3, <1>5
  <2>2. Sums(g, front) /\ Sums(sum, seqs)  BY <1>2, <1>4
  <2>3. \A n \in 1..Len(front) : Len(front[n]) = Len(seqs[n])  BY <1>3
  <2>4. Len(seqs) \in Nat  BY <1>5
  <2>5. g[Len(front)] = sum[Len(front)]
    BY <2>1, <2>2, <2>3, <2>4, SumsAgree
  <2> QED  BY <1>3, <2>5
<1>7. sum[k - 1] + i <= sum[Len(seqs)] /\ flat[Len(seqs)][sum[k - 1] + i] = seqs[k][i]
  <2>1. Len(seqs) \in 0..Len(seqs)  BY <1>5
  <2>2. Flattens(flat, V, seqs) /\ Sums(sum, seqs)  BY <1>1, <1>2
  <2>3. \A n \in 0..Len(seqs) : \A m \in 1..n : \A j \in 1..Len(seqs[m]) :
           sum[m - 1] + j <= sum[n] /\ flat[n][sum[m - 1] + j] = seqs[m][j]
    BY <2>2, FlatPlaces
  <2> QED  BY <2>1, <2>3
<1>8. sum[k - 1] \in Nat  BY <1>2, <1>5 DEF Sums
<1> QED  BY <1>1, <1>2, <1>3, <1>4, <1>6, <1>7, <1>8 DEF front

\* Documents of the same lengths have as many pages together.
LEMMA SameLengths ==
    ASSUME NEW V, NEW W, NEW docs \in Seq(Seq(V)), NEW seqs \in Seq(Seq(W)),
           Len(docs) = Len(seqs), \A n \in 1..Len(docs) : Len(docs[n]) = Len(seqs[n])
    PROVE  PagesIn(docs) = PagesIn(seqs)
<1>1. PICK f : Sums(f, docs) /\ PagesIn(docs) = f[Len(docs)]  BY PagesInSums
<1>2. PICK g : Sums(g, seqs) /\ PagesIn(seqs) = g[Len(seqs)]  BY PagesInSums
<1>3. Len(docs) \in Nat /\ Len(seqs) \in Nat /\ Len(docs) <= Len(seqs)  OBVIOUS
<1>4. f[Len(docs)] = g[Len(docs)]
  <2>1. Sums(f, docs) /\ Sums(g, seqs)  BY <1>1, <1>2
  <2>2. \A n \in 1..Len(docs) : Len(docs[n]) = Len(seqs[n])  OBVIOUS
  <2> QED  BY <1>3, <2>1, <2>2, SumsAgree
<1> QED  BY <1>1, <1>2, <1>4

\* One document has as many pages as it is long, and each of several no more than all.
LEMMA PagesInOne ==
    ASSUME NEW V, NEW doc \in Seq(V)
    PROVE  PagesIn(<<doc>>) = Len(doc)
<1>1. <<doc>> \in Seq(Seq(V)) /\ Len(<<doc>>) = 1 /\ <<doc>>[1] = doc /\ Len(doc) \in Nat
  OBVIOUS
<1> DEFINE docs == <<doc>>
<1>2. docs \in Seq(Seq(V)) /\ Len(docs) = 1 /\ docs[1] = doc  BY <1>1
<1> HIDE DEF docs
<1>3. PICK sum : Sums(sum, docs) /\ PagesIn(docs) = sum[Len(docs)]  BY <1>2, PagesInSums
<1>4. sum[1] = sum[0] + Len(docs[1]) /\ sum[0] = 0  BY <1>2, <1>3 DEF Sums
<1>5. PagesIn(docs) = Len(doc)  BY <1>1, <1>2, <1>3, <1>4
<1> QED  BY <1>5 DEF docs

\* No document has more pages than all of them.
LEMMA NoLongerThanAll ==
    ASSUME NEW V, NEW docs \in Seq(Seq(V)), NEW k \in 1..Len(docs)
    PROVE  Len(docs[k]) <= PagesIn(docs)
<1>1. docs[k] \in Seq(V) /\ Len(docs[k]) \in Nat /\ PagesIn(docs) \in Nat
  BY FlattenLength
<1>2. CASE Len(docs[k]) = 0  BY <1>1, <1>2
<1>3. CASE Len(docs[k]) # 0
  <2> DEFINE i == Len(docs[k])
  <2>1. i \in 1..Len(docs[k])  BY <1>1, <1>3
  <2>2. /\ PagesIn(SubSeq(docs, 1, k - 1)) + i <= PagesIn(docs)
        /\ PagesIn(SubSeq(docs, 1, k - 1)) \in Nat
    BY <2>1, FlattenPlaces
  <2> QED  BY <1>1, <2>2
<1> QED  BY <1>2, <1>3

\* Nothing is in it that is in no sequence.
LEMMA FlattenRange ==
    ASSUME NEW V, NEW seqs \in Seq(Seq(V))
    PROVE  ToSet(FlattenSeq(seqs)) = UNION {ToSet(seqs[k]) : k \in 1..Len(seqs)}
<1> DEFINE last == Len(seqs)
<1>1. PICK flat : Flattens(flat, V, seqs) /\ FlattenSeq(seqs) = flat[last]
  BY FlattenSeqFlattens
<1>2. last \in Nat /\ \A n \in 1..last : seqs[n] \in Seq(V)  OBVIOUS
<1> DEFINE S == {n \in Nat : n <= last => ToSet(flat[n]) = UNION {ToSet(seqs[k]) : k \in 1..n}}
<1>3. 0 \in S
  <2>1. flat[0] = <<>>  BY <1>1 DEF Flattens
  <2>2. ToSet(<<>>) = {}  BY DEF ToSet
  <2> QED  BY <2>1, <2>2
<1>4. ASSUME NEW n \in Nat, n \in S  PROVE n + 1 \in S
  <2> SUFFICES ASSUME n + 1 <= last
               PROVE  ToSet(flat[n + 1]) = UNION {ToSet(seqs[k]) : k \in 1..(n + 1)}
    OBVIOUS
  <2>1. n + 1 \in 1..last /\ n \in 0..last /\ (n + 1) - 1 = n  BY <1>2
  <2>2. flat[n + 1] = flat[n] \o seqs[n + 1] /\ flat[n] \in Seq(V)
    BY <1>1, <2>1 DEF Flattens
  <2>3. seqs[n + 1] \in Seq(V)  BY <1>2, <2>1
  <2>4. \A s, t \in Seq(V) : ToSet(s \o t) = ToSet(s) \cup ToSet(t)
    <3> SUFFICES ASSUME NEW s \in Seq(V), NEW t \in Seq(V)
                 PROVE  ToSet(s \o t) = ToSet(s) \cup ToSet(t)
      OBVIOUS
    <3>1. /\ s \o t \in Seq(V) /\ Len(s \o t) = Len(s) + Len(t)
          /\ \A i \in 1..(Len(s) + Len(t)) :
                (s \o t)[i] = IF i <= Len(s) THEN s[i] ELSE t[i - Len(s)]
      BY ConcatProperties
    <3>2. /\ DOMAIN (s \o t) = 1..(Len(s) + Len(t)) /\ Len(s) \in Nat /\ Len(t) \in Nat
          /\ DOMAIN s = 1..Len(s) /\ DOMAIN t = 1..Len(t)
      BY <3>1
    <3>3. ASSUME NEW i \in 1..(Len(s) + Len(t))
          PROVE  (s \o t)[i] \in ToSet(s) \cup ToSet(t)
      <4>1. CASE i <= Len(s)
        <5>1. i \in DOMAIN s  BY <3>2, <4>1
        <5> QED  BY <3>1, <4>1, <5>1 DEF ToSet
      <4>2. CASE ~ (i <= Len(s))
        <5>1. i - Len(s) \in DOMAIN t  BY <3>2, <4>2
        <5> QED  BY <3>1, <4>2, <5>1 DEF ToSet
      <4> QED  BY <4>1, <4>2
    <3>4. ASSUME NEW i \in DOMAIN s  PROVE s[i] \in ToSet(s \o t)
      <4>1. i \in 1..(Len(s) + Len(t)) /\ i <= Len(s)  BY <3>2
      <4>2. (s \o t)[i] = s[i]  BY <3>1, <4>1
      <4> QED  BY <3>2, <4>1, <4>2 DEF ToSet
    <3>5. ASSUME NEW i \in DOMAIN t  PROVE t[i] \in ToSet(s \o t)
      <4>1. /\ Len(s) + i \in 1..(Len(s) + Len(t)) /\ ~ (Len(s) + i <= Len(s))
            /\ (Len(s) + i) - Len(s) = i
        BY <3>2
      <4>2. (s \o t)[Len(s) + i] = t[i]  BY <3>1, <4>1
      <4> QED  BY <3>2, <4>1, <4>2 DEF ToSet
    <3> QED  BY <3>2, <3>3, <3>4, <3>5 DEF ToSet
  <2>5. ToSet(flat[n + 1]) = ToSet(flat[n]) \cup ToSet(seqs[n + 1])
    BY <2>2, <2>3, <2>4
  <2>6. ToSet(flat[n]) = UNION {ToSet(seqs[k]) : k \in 1..n}  BY <1>4, <2>1
  <2>7. 1..(n + 1) = (1..n) \cup {n + 1}  OBVIOUS
  <2> QED  BY <2>5, <2>6, <2>7
<1> HIDE DEF S
<1>5. \A n \in Nat : n \in S  BY <1>3, <1>4, SetInduction
<1>6. last \in S  BY <1>2, <1>5
<1> QED  BY <1>1, <1>6 DEF S

-----------------------------------------------------------------------------
\* How often something is in a flattened sequence.

Places(s, p) == {i \in 1..Len(s) : s[i] = p}
Count(s, p) == Cardinality(Places(s, p))
NoRepeats(s) == \A i, j \in 1..Len(s) : s[i] = s[j] => i = j

\* A sequence has an element at finitely many places.
LEMMA PlacesFinite ==
    ASSUME NEW s, NEW p, Len(s) \in Nat
    PROVE  IsFiniteSet(Places(s, p)) /\ Count(s, p) \in Nat
<1>1. IsFiniteSet(1..Len(s))  BY FS_Interval
<1>2. Places(s, p) \in SUBSET (1..Len(s))  BY DEF Places
<1>3. IsFiniteSet(Places(s, p))  BY <1>1, <1>2, FS_Subset
<1> QED  BY <1>3, FS_CardinalityType DEF Count

\* Appending a list without repetitions counts each of its elements once more.
LEMMA CountConcat ==
    ASSUME NEW V, NEW s \in Seq(V), NEW t \in Seq(V), NoRepeats(t), NEW p
    PROVE  Count(s \o t, p) = Count(s, p) + (IF p \in ToSet(t) THEN 1 ELSE 0)
<1>1. /\ Len(s \o t) = Len(s) + Len(t)
      /\ \A i \in 1..(Len(s) + Len(t)) :
            (s \o t)[i] = IF i <= Len(s) THEN s[i] ELSE t[i - Len(s)]
  BY ConcatProperties
<1>2. Len(s) \in Nat /\ Len(t) \in Nat /\ DOMAIN t = 1..Len(t)  OBVIOUS
<1>3. IsFiniteSet(Places(s, p)) /\ Count(s, p) \in Nat  BY <1>2, PlacesFinite
<1>4. Places(s, p) \subseteq Places(s \o t, p)
  BY <1>1, <1>2 DEF Places
<1>5. ASSUME NEW i \in Places(s \o t, p), i \notin Places(s, p)
      PROVE  i - Len(s) \in 1..Len(t) /\ t[i - Len(s)] = p
  <2>1. i \in 1..(Len(s) + Len(t)) /\ (s \o t)[i] = p  BY <1>1 DEF Places
  <2>2. ~ (i <= Len(s))
    <3> SUFFICES ASSUME i <= Len(s) PROVE FALSE  OBVIOUS
    <3>1. i \in 1..Len(s) /\ s[i] = p  BY <1>1, <1>2, <2>1
    <3> QED  BY <1>5, <3>1 DEF Places
  <2> QED  BY <1>1, <1>2, <2>1, <2>2
<1>6. CASE p \notin ToSet(t)
  <2>1. Places(s \o t, p) = Places(s, p)  BY <1>2, <1>4, <1>5, <1>6 DEF ToSet
  <2> QED  BY <1>3, <1>6, <2>1 DEF Count
<1>7. CASE p \in ToSet(t)
  <2>1. PICK j \in 1..Len(t) : t[j] = p  BY <1>2, <1>7 DEF ToSet
  <2>2. Len(s) + j \in Places(s \o t, p) /\ Len(s) + j \notin Places(s, p)
    <3>1. /\ Len(s) + j \in 1..(Len(s) + Len(t)) /\ ~ (Len(s) + j <= Len(s))
          /\ (Len(s) + j) - Len(s) = j
      BY <1>2
    <3>2. (s \o t)[Len(s) + j] = p  BY <1>1, <2>1, <3>1
    <3> QED  BY <1>1, <1>2, <3>1, <3>2 DEF Places
  <2>3. ASSUME NEW i \in Places(s \o t, p), i \notin Places(s, p)  PROVE i = Len(s) + j
    <3>1. i - Len(s) = j  BY <1>5, <2>1, <2>3 DEF NoRepeats
    <3>2. i \in Int  BY <1>1, <1>2 DEF Places
    <3> QED  BY <1>2, <3>1, <3>2
  <2>4. Places(s \o t, p) = Places(s, p) \cup {Len(s) + j}
    BY <1>4, <2>2, <2>3
  <2>5. Cardinality(Places(s, p) \cup {Len(s) + j}) = Cardinality(Places(s, p)) + 1
    BY <1>3, <2>2, FS_AddElement
  <2> QED  BY <1>7, <2>4, <2>5 DEF Count
<1> QED  BY <1>6, <1>7

\* Once for every sequence it is in, when none repeats it.
Holding(seqs, n, p) == {k \in 1..n : p \in ToSet(seqs[k])}

\* In a flattened sequence an element is counted once for each sequence that holds it.
LEMMA FlattenCount ==
    ASSUME NEW V, NEW seqs \in Seq(Seq(V)), \A k \in 1..Len(seqs) : NoRepeats(seqs[k]), NEW p
    PROVE  Count(FlattenSeq(seqs), p) = Cardinality(Holding(seqs, Len(seqs), p))
<1> DEFINE last == Len(seqs)
<1>1. PICK flat : Flattens(flat, V, seqs) /\ FlattenSeq(seqs) = flat[last]
  BY FlattenSeqFlattens
<1>2. last \in Nat /\ \A n \in 1..last : seqs[n] \in Seq(V)  OBVIOUS
<1> DEFINE S == {n \in Nat : n <= last => Count(flat[n], p) = Cardinality(Holding(seqs, n, p))}
<1>3. 0 \in S
  <2>1. flat[0] = <<>>  BY <1>1 DEF Flattens
  <2>2. Places(<<>>, p) = {} /\ Holding(seqs, 0, p) = {}  BY DEF Places, Holding
  <2>3. Count(flat[0], p) = Cardinality(Holding(seqs, 0, p))  BY <2>1, <2>2 DEF Count
  <2> QED  BY <2>3
<1>4. ASSUME NEW n \in Nat, n \in S  PROVE n + 1 \in S
  <2> SUFFICES ASSUME n + 1 <= last
               PROVE  Count(flat[n + 1], p) = Cardinality(Holding(seqs, n + 1, p))
    OBVIOUS
  <2>1. n + 1 \in 1..last /\ n \in 0..last /\ (n + 1) - 1 = n  BY <1>2
  <2>2. flat[n + 1] = flat[n] \o seqs[n + 1] /\ flat[n] \in Seq(V)
    BY <1>1, <2>1 DEF Flattens
  <2>3. seqs[n + 1] \in Seq(V) /\ NoRepeats(seqs[n + 1])  BY <1>2, <2>1
  <2>4. Count(flat[n + 1], p) = Count(flat[n], p) + (IF p \in ToSet(seqs[n + 1]) THEN 1 ELSE 0)
    BY <2>2, <2>3, CountConcat
  <2>5. Count(flat[n], p) = Cardinality(Holding(seqs, n, p))  BY <1>4, <2>1
  <2>6. IsFiniteSet(Holding(seqs, n, p)) /\ n + 1 \notin Holding(seqs, n, p)
    <3>1. Holding(seqs, n, p) \in SUBSET (1..n)  BY DEF Holding
    <3>2. IsFiniteSet(1..n)  BY FS_Interval
    <3> QED  BY <3>1, <3>2, FS_Subset
  <2>7. Cardinality(Holding(seqs, n, p)) \in Nat  BY <2>6, FS_CardinalityType
  <2>8. Holding(seqs, n + 1, p) =
        IF p \in ToSet(seqs[n + 1]) THEN Holding(seqs, n, p) \cup {n + 1} ELSE Holding(seqs, n, p)
    <3>1. 1..(n + 1) = (1..n) \cup {n + 1}  OBVIOUS
    <3> QED  BY <3>1 DEF Holding
  <2>9. Cardinality(Holding(seqs, n, p) \cup {n + 1}) = Cardinality(Holding(seqs, n, p)) + 1
    BY <2>6, FS_AddElement
  <2> QED  BY <2>4, <2>5, <2>7, <2>8, <2>9
<1> HIDE DEF S
<1>5. \A n \in Nat : n \in S  BY <1>3, <1>4, SetInduction
<1>6. last \in S  BY <1>2, <1>5
<1> QED  BY <1>1, <1>6 DEF S

\* A list without repetitions is as long as the set of what is in it; any list is at
\* least as long.
LEMMA RangeSize ==
    ASSUME NEW V, NEW s \in Seq(V)
    PROVE  /\ IsFiniteSet(ToSet(s)) /\ Cardinality(ToSet(s)) \in Nat
           /\ Cardinality(ToSet(s)) <= Len(s)
           /\ NoRepeats(s) => Cardinality(ToSet(s)) = Len(s)
<1>1. s \in [1..Len(s) -> ToSet(s)] /\ DOMAIN s = 1..Len(s) /\ Len(s) \in Nat
  BY DEF ToSet
<1>2. s \in Surjection(1..Len(s), ToSet(s))
  BY <1>1 DEF Surjection, ToSet
<1>3. IsFiniteSet(1..Len(s)) /\ Cardinality(1..Len(s)) = Len(s)
  <2>1. /\ IsFiniteSet(1..Len(s))
        /\ Cardinality(1..Len(s)) = IF 1 > Len(s) THEN 0 ELSE Len(s) - 1 + 1
    BY <1>1, FS_Interval
  <2> QED  BY <1>1, <2>1
<1>4. /\ IsFiniteSet(ToSet(s))
      /\ Cardinality(ToSet(s)) <= Cardinality(1..Len(s))
      /\ Cardinality(ToSet(s)) = Cardinality(1..Len(s)) <=> s \in Injection(1..Len(s), ToSet(s))
  BY <1>2, <1>3, FS_Surjection
<1>5. NoRepeats(s) => s \in Injection(1..Len(s), ToSet(s))
  BY <1>1 DEF NoRepeats, Injection, IsInjective
<1> QED  BY <1>3, <1>4, <1>5, FS_CardinalityType

-----------------------------------------------------------------------------
\* The fields of a request.

\* The pages from one end of a group to the other.
Within(group) == {page \in Int : \E a, b \in ToSet(group) : a <= page /\ page <= b}

\* _parse_group: every page from one end to the other, once, in order.
LEMMA GroupParsed ==
    ASSUME NEW count \in Nat, NEW group \in Seq(Int), Len(group) \in 1..2,
           \A i \in DOMAIN group : ParsePage(group[i], count)
    PROVE  /\ ParseGroup(group) \in Seq(1..count)
           /\ ParseGroup(group) # <<>> /\ NoRepeats(ParseGroup(group))
           /\ ToSet(ParseGroup(group)) = Within(group)
           /\ ParseGroup(group)[1] = group[1]
           /\ ParseGroup(group)[Len(ParseGroup(group))] = Last(group)
           /\ \A i \in 1..(Len(ParseGroup(group)) - 1) :
                 ParseGroup(group)[i + 1] - ParseGroup(group)[i] =
                 IF group[1] < Last(group) THEN 1 ELSE -1
<1> DEFINE g == ParseGroup(group)
<1>1. DOMAIN group = 1..Len(group) /\ Last(group) = group[Len(group)]  BY DEF Last
<1>2. \A i \in 1..Len(group) : group[i] \in 1..count
  <2> SUFFICES ASSUME NEW i \in 1..Len(group) PROVE group[i] \in 1..count  OBVIOUS
  <2>1. group[i] \in Int /\ ParsePage(group[i], count)  BY <1>1
  <2> QED  BY <2>1 DEF ParsePage
<1>3. CASE Len(group) = 1
  <2>1. g = group  BY <1>3 DEF ParseGroup
  <2>2. group \in Seq(1..count)
    <3>1. group = <<group[1]>>  BY <1>3
    <3>2. group[1] \in 1..count  BY <1>2, <1>3
    <3>3. <<group[1]>> \in Seq(1..count)  BY <3>2
    <3> QED  BY <3>1, <3>3
  <2>3. ToSet(group) = {group[1]}  BY <1>1, <1>3 DEF ToSet
  <2>4. Within(group) = {group[1]}
    <3>1. group[1] \in Int  BY <1>3
    <3> QED  BY <2>3, <3>1 DEF Within
  <2>5. NoRepeats(group)  BY <1>3 DEF NoRepeats
  <2>6. group # <<>> /\ Last(group) = group[1] /\ 1..(Len(group) - 1) = {}
    <3>1. Len(group) # Len(<<>>)  BY <1>3
    <3>2. Len(group) - 1 = 0  BY <1>3
    <3>3. 1..0 = {}  OBVIOUS
    <3>4. Last(group) = group[1]  BY <1>1, <1>3
    <3> QED  BY <3>1, <3>2, <3>3, <3>4, Zenon
  <2> HIDE DEF g
  <2>7. /\ g \in Seq(1..count) /\ g # <<>> /\ NoRepeats(g) /\ ToSet(g) = Within(group)
        /\ g[1] = group[1] /\ g[Len(g)] = Last(group) /\ 1..(Len(g) - 1) = {}
    BY <1>1, <2>1, <2>2, <2>3, <2>4, <2>5, <2>6
  <2> QED  BY <2>7 DEF g
<1>4. CASE Len(group) = 2
  <2> DEFINE start == group[1]  end == group[2]
             step == IF end >= start THEN 1 ELSE -1
             size == (end - start) * step + 1
  <2>1. start \in 1..count /\ end \in 1..count  BY <1>2, <1>4
  <2>2. g = [i \in 1..size |-> start + (i - 1) * step]  BY <1>4 DEF ParseGroup
  <2>3. ToSet(group) = {start, end} /\ Last(group) = end
    BY <1>1, <1>4 DEF ToSet
  <2>4. Within(group) = {page \in Int : \E a, b \in {start, end} : a <= page /\ page <= b}
    BY <2>3 DEF Within
  <2> HIDE DEF start, end, g
  <2>5. CASE end >= start
    <3>1. size = end - start + 1 /\ step = 1 /\ size \in Nat \ {0}  BY <2>1, <2>5
    <3> HIDE DEF size, step
    <3>2. g = [i \in 1..size |-> start + (i - 1)]  BY <2>1, <2>2, <3>1
    <3>3. /\ Len(g) = size /\ DOMAIN g = 1..size
          /\ \A i \in 1..size : g[i] = start + (i - 1)
      BY <3>1, <3>2
    <3>4. g \in Seq(1..count)  BY <2>1, <3>1, <3>2
    <3>5. ToSet(g) = start..end
      <4>1. \A i \in 1..size : g[i] \in start..end  BY <2>1, <3>1, <3>3
      <4>2. ASSUME NEW page \in start..end  PROVE \E i \in 1..size : g[i] = page
        <5>1. page - start + 1 \in 1..size  BY <2>1, <3>1
        <5>2. g[page - start + 1] = start + ((page - start + 1) - 1)  BY <3>3, <5>1
        <5>3. g[page - start + 1] = page  BY <2>1, <5>2
        <5> QED  BY <5>1, <5>3
      <4> QED  BY ZenonT(40), <3>3, <4>1, <4>2 DEF ToSet
    <3>6. Within(group) = start..end  BY <2>1, <2>4, <2>5
    <3>7. NoRepeats(g)  BY <2>1, <3>1, <3>3 DEF NoRepeats
    <3>8. g # <<>>  BY <3>1, <3>3
    <3>9. g[1] = start /\ g[Len(g)] = end  BY <2>1, <3>1, <3>3
    <3>10. \A i \in 1..(Len(g) - 1) : g[i + 1] - g[i] = IF start < end THEN 1 ELSE -1
      <4> SUFFICES ASSUME NEW i \in 1..(size - 1)
                   PROVE  g[i + 1] - g[i] = IF start < end THEN 1 ELSE -1
        BY <3>3
      <4>1. i \in 1..size /\ i + 1 \in 1..size  BY <3>1
      <4>2. g[i] = start + (i - 1) /\ g[i + 1] = start + ((i + 1) - 1)  BY <3>3, <4>1
      <4> QED  BY <2>1, <3>1, <4>1, <4>2
    <3> QED  BY <2>3, <3>4, <3>5, <3>6, <3>7, <3>8, <3>9, <3>10 DEF start, g
  <2>6. CASE ~ (end >= start)
    <3>1. size = start - end + 1 /\ step = -1 /\ size \in Nat \ {0}  BY <2>1, <2>6
    <3> HIDE DEF size, step
    <3>2. g = [i \in 1..size |-> start - (i - 1)]  BY <2>1, <2>2, <3>1
    <3>3. /\ Len(g) = size /\ DOMAIN g = 1..size
          /\ \A i \in 1..size : g[i] = start - (i - 1)
      BY <3>1, <3>2
    <3>4. g \in Seq(1..count)  BY <2>1, <3>1, <3>2
    <3>5. ToSet(g) = end..start
      <4>1. \A i \in 1..size : g[i] \in end..start  BY <2>1, <3>1, <3>3
      <4>2. ASSUME NEW page \in end..start  PROVE \E i \in 1..size : g[i] = page
        <5>1. start - page + 1 \in 1..size  BY <2>1, <3>1
        <5>2. g[start - page + 1] = start - ((start - page + 1) - 1)  BY <3>3, <5>1
        <5>3. g[start - page + 1] = page  BY <2>1, <5>2
        <5> QED  BY <5>1, <5>3
      <4> QED  BY <3>3, <4>1, <4>2 DEF ToSet
    <3>6. Within(group) = end..start  BY <2>1, <2>4, <2>6
    <3>7. NoRepeats(g)  BY <2>1, <3>1, <3>3 DEF NoRepeats
    <3>8. g # <<>>  BY <3>1, <3>3
    <3>9. g[1] = start /\ g[Len(g)] = end  BY <2>1, <3>1, <3>3
    <3>10. \A i \in 1..(Len(g) - 1) : g[i + 1] - g[i] = IF start < end THEN 1 ELSE -1
      <4> SUFFICES ASSUME NEW i \in 1..(size - 1)
                   PROVE  g[i + 1] - g[i] = IF start < end THEN 1 ELSE -1
        BY <3>3
      <4>1. i \in 1..size /\ i + 1 \in 1..size  BY <3>1
      <4>2. g[i] = start - (i - 1) /\ g[i + 1] = start - ((i + 1) - 1)  BY <3>3, <4>1
      <4> QED  BY <2>1, <2>6, <3>1, <4>1, <4>2
    <3> QED  BY <2>3, <3>4, <3>5, <3>6, <3>7, <3>8, <3>9, <3>10 DEF start, g
  <2> QED  BY <2>5, <2>6
<1> QED  BY <1>3, <1>4

\* What parse_ranges and _parse_pages make of a field they accept.
SpecOk(spec) == spec \in Seq(Seq(Int)) /\ \A group \in ToSet(spec) : Len(group) \in 1..2

\* The groups of the field that a page lies in.
Naming(spec, page) ==
    {g \in DOMAIN spec : \E a, b \in ToSet(spec[g]) : a <= page /\ page <= b}

\* parse_ranges: one list of pages for each group.
LEMMA RangesParsed ==
    ASSUME NEW count \in Nat, NEW spec, SpecOk(spec), AcceptsRanges(spec, count)
    PROVE  /\ ParseRanges(spec) \in Seq(Seq(1..count))
           /\ Len(ParseRanges(spec)) = Len(spec) /\ Len(spec) \in Nat \ {0}
           /\ DOMAIN spec = 1..Len(spec) /\ DOMAIN ParseRanges(spec) = 1..Len(spec)
           /\ \A k \in 1..Len(spec) :
                 /\ ParseRanges(spec)[k] = ParseGroup(spec[k])
                 /\ spec[k] \in Seq(Int) /\ Len(spec[k]) \in 1..2
                 /\ \A i \in DOMAIN spec[k] : ParsePage(spec[k][i], count)
<1>1. /\ DOMAIN spec = 1..Len(spec) /\ Len(spec) \in Nat \ {0}
      /\ \A k \in 1..Len(spec) : spec[k] \in Seq(Int)
  BY BoundsAssumption DEF SpecOk, AcceptsRanges
<1>2. ASSUME NEW k \in 1..Len(spec)
      PROVE  Len(spec[k]) \in 1..2 /\ \A i \in DOMAIN spec[k] : ParsePage(spec[k][i], count)
  BY <1>1 DEF SpecOk, ToSet, AcceptsRanges
<1>3. ASSUME NEW k \in 1..Len(spec)  PROVE ParseGroup(spec[k]) \in Seq(1..count)
  BY <1>1, <1>2, GroupParsed
<1>4. ParseRanges(spec) = [k \in 1..Len(spec) |-> ParseGroup(spec[k])]
  BY <1>1 DEF ParseRanges
<1>5. ParseRanges(spec) \in [1..Len(spec) -> Seq(1..count)]  BY <1>3, <1>4
<1>6. /\ ParseRanges(spec) \in Seq(Seq(1..count)) /\ Len(ParseRanges(spec)) = Len(spec)
      /\ DOMAIN ParseRanges(spec) = 1..Len(spec)
  BY <1>1, <1>5
<1> QED  BY <1>1, <1>2, <1>4, <1>6

\* _parse_pages: the pages in some group, each as often as a group has it.
LEMMA PagesParsed ==
    ASSUME NEW count \in Nat, NEW spec, SpecOk(spec), AcceptsRanges(spec, count)
    PROVE  /\ ParsePages(spec) \in Seq(1..count)
           /\ ToSet(ParsePages(spec)) = {page \in 1..count : Naming(spec, page) # {}}
           /\ \A page \in 1..count : Count(ParsePages(spec), page) = Cardinality(Naming(spec, page))
<1> DEFINE groups == ParseRanges(spec)
<1>1. /\ groups \in Seq(Seq(1..count)) /\ Len(groups) = Len(spec) /\ Len(spec) \in Nat
      /\ DOMAIN spec = 1..Len(spec)
      /\ \A k \in 1..Len(spec) :
            /\ groups[k] = ParseGroup(spec[k])
            /\ spec[k] \in Seq(Int) /\ Len(spec[k]) \in 1..2
            /\ \A i \in DOMAIN spec[k] : ParsePage(spec[k][i], count)
  BY RangesParsed
<1>2. ASSUME NEW k \in 1..Len(spec)
      PROVE  NoRepeats(groups[k]) /\ ToSet(groups[k]) = Within(spec[k])
  BY <1>1, GroupParsed
<1>3. ParsePages(spec) = FlattenSeq(groups)  BY DEF ParsePages
<1> HIDE DEF groups
<1>4. ParsePages(spec) \in Seq(1..count)  BY <1>1, <1>3, FlattenLength
<1>5. ASSUME NEW page \in 1..count
      PROVE  Naming(spec, page) = Holding(groups, Len(groups), page)
  <2>1. ASSUME NEW k \in 1..Len(spec)
        PROVE  (\E a, b \in ToSet(spec[k]) : a <= page /\ page <= b) <=> page \in ToSet(groups[k])
    <3>1. page \in Int  OBVIOUS
    <3>2. ToSet(groups[k]) = Within(spec[k])  BY <1>2
    <3>3. page \in Within(spec[k]) <=> \E a, b \in ToSet(spec[k]) : a <= page /\ page <= b
      BY <3>1 DEF Within
    <3> QED  BY <3>2, <3>3
  <2> QED  BY <1>1, <2>1 DEF Naming, Holding
<1>6. ToSet(ParsePages(spec)) = UNION {ToSet(groups[k]) : k \in 1..Len(groups)}
  BY <1>1, <1>3, FlattenRange
<1>7. ToSet(ParsePages(spec)) \subseteq 1..count  BY <1>4 DEF ToSet
<1>8. ToSet(ParsePages(spec)) = {page \in 1..count : Naming(spec, page) # {}}
  BY <1>5, <1>6, <1>7 DEF Holding
<1>9. \A page \in 1..count : Count(ParsePages(spec), page) = Cardinality(Naming(spec, page))
  BY <1>1, <1>2, <1>3, <1>5, FlattenCount
<1> QED  BY <1>4, <1>8, <1>9

-----------------------------------------------------------------------------
\* rotate_pages: a page is turned as often as the list has it.

Quarters == {90, 180, 270}

\* A quarter turn more is one of the four positions.
LEMMA QuarterTurns ==
    ASSUME NEW turn \in {0, 90, 180, 270}, NEW degrees \in Quarters
    PROVE  (turn + degrees) % 360 \in {0, 90, 180, 270}
BY Z3 DEF Quarters

\* Turning step by step is turning at once.
LEMMA TurnOneMore ==
    ASSUME NEW turn \in {0, 90, 180, 270}, NEW degrees \in Quarters, NEW n \in Nat
    PROVE  (((turn + n * degrees) % 360) + degrees) % 360 = (turn + (n + 1) * degrees) % 360
<1>1. n * degrees \in Int /\ (n + 1) * degrees = n * degrees + degrees
  <2>1. CASE degrees = 90  BY <2>1
  <2>2. CASE degrees = 180  BY <2>2
  <2>3. CASE degrees = 270  BY <2>3
  <2> QED  BY <2>1, <2>2, <2>3 DEF Quarters
<1>2. \A x \in Int : ((x % 360) + degrees) % 360 = (x + degrees) % 360  BY DEF Quarters
<1>3. turn + n * degrees \in Int  BY <1>1
<1>4. (turn + n * degrees) + degrees = turn + (n + 1) * degrees  BY <1>1 DEF Quarters
<1> QED  BY <1>2, <1>3, <1>4

TurnedBy(page, n, degrees) == [page EXCEPT !.turn = (@ + n * degrees) % 360]

\* Turning a page once more adds one to how often it was turned.
LEMMA TurnPage ==
    ASSUME NEW page \in Page, NEW degrees \in Quarters, NEW n \in Nat
    PROVE  /\ TurnedBy(page, 0, degrees) = page
           /\ TurnedBy(page, n, degrees) \in Page
           /\ [TurnedBy(page, n, degrees) EXCEPT !.turn = (@ + degrees) % 360]
                = TurnedBy(page, n + 1, degrees)
<1>1. page.turn \in {0, 90, 180, 270}  BY DEF Page
<1> DEFINE t == (page.turn + n * degrees) % 360
           u == (page.turn + (n + 1) * degrees) % 360
<1>2. (page.turn + 0 * degrees) % 360 = page.turn  BY <1>1 DEF Quarters
<1>3. t \in {0, 90, 180, 270}
  <2> DEFINE S == {k \in Nat : (page.turn + k * degrees) % 360 \in {0, 90, 180, 270}}
  <2>1. 0 \in S  BY <1>1 DEF Quarters
  <2>2. ASSUME NEW k \in Nat, k \in S  PROVE k + 1 \in S
    <3> DEFINE v == (page.turn + k * degrees) % 360
    <3>1. v \in {0, 90, 180, 270}  BY <2>2
    <3>2. (v + degrees) % 360 = (page.turn + (k + 1) * degrees) % 360  BY <1>1, TurnOneMore
    <3> HIDE DEF v
    <3>3. (v + degrees) % 360 \in {0, 90, 180, 270}  BY <3>1, QuarterTurns
    <3> QED  BY <3>2, <3>3
  <2> HIDE DEF S
  <2>3. \A k \in Nat : k \in S  BY <2>1, <2>2, SetInduction
  <2> QED  BY <2>3 DEF S
<1>4. (t + degrees) % 360 = u  BY <1>1, TurnOneMore
<1>5. TurnedBy(page, n, degrees) = [page EXCEPT !.turn = t]  BY DEF TurnedBy
<1>6. TurnedBy(page, n + 1, degrees) = [page EXCEPT !.turn = u]  BY DEF TurnedBy
<1>7. TurnedBy(page, 0, degrees) = [page EXCEPT !.turn = page.turn]  BY <1>2 DEF TurnedBy
<1> HIDE DEF t, u
<1>8. /\ [page EXCEPT !.turn = page.turn] = page
      /\ [page EXCEPT !.turn = t].turn = t
      /\ [[page EXCEPT !.turn = t] EXCEPT !.turn = u] = [page EXCEPT !.turn = u]
      /\ t \in {0, 90, 180, 270} => [page EXCEPT !.turn = t] \in Page
  BY ZenonT(40) DEF Page
<1>9. TurnedBy(page, n, degrees).turn = t  BY <1>5, <1>8, Zenon
<1>10. [TurnedBy(page, n, degrees) EXCEPT !.turn = u] = TurnedBy(page, n + 1, degrees)
  BY <1>5, <1>6, <1>8, Zenon
<1>11. [TurnedBy(page, n, degrees) EXCEPT !.turn = (@ + degrees) % 360]
         = TurnedBy(page, n + 1, degrees)
  BY <1>4, <1>9, <1>10, Zenon
<1> QED  BY <1>3, <1>5, <1>7, <1>11, <1>8, Zenon

\* How often the first n entries are p.
Upto(s, n, p) == {i \in 1..n : s[i] = p}

\* One entry more counts one more when it is p.
LEMMA UptoGrows ==
    ASSUME NEW s, NEW n \in Nat, NEW p
    PROVE  /\ Cardinality(Upto(s, n, p)) \in Nat
           /\ Cardinality(Upto(s, 0, p)) = 0
           /\ Cardinality(Upto(s, n + 1, p)) =
                IF s[n + 1] = p THEN Cardinality(Upto(s, n, p)) + 1 ELSE Cardinality(Upto(s, n, p))
<1>1. IsFiniteSet(Upto(s, n, p))
  <2>1. IsFiniteSet(1..n)  BY FS_Interval
  <2>2. Upto(s, n, p) \in SUBSET (1..n)  BY DEF Upto
  <2> QED  BY <2>1, <2>2, FS_Subset
<1>2. Upto(s, 0, p) = {}  BY DEF Upto
<1>3. 1..(n + 1) = (1..n) \cup {n + 1} /\ n + 1 \notin 1..n  OBVIOUS
<1>4. Upto(s, n + 1, p) = IF s[n + 1] = p THEN Upto(s, n, p) \cup {n + 1} ELSE Upto(s, n, p)
  BY <1>3 DEF Upto
<1>5. n + 1 \notin Upto(s, n, p)  BY <1>3 DEF Upto
<1>6. Cardinality(Upto(s, n, p) \cup {n + 1}) = Cardinality(Upto(s, n, p)) + 1
  BY <1>1, <1>5, FS_AddElement
<1>7. Cardinality({}) = 0  BY FS_EmptySet
<1>8. Cardinality(Upto(s, n, p)) \in Nat  BY <1>1, FS_CardinalityType
<1> QED  BY <1>2, <1>4, <1>6, <1>7, <1>8

\* The same for the entry that comes next, being p or not.
LEMMA UptoTurned ==
    ASSUME NEW s, NEW n \in Nat, NEW p
    PROVE  /\ s[n + 1] = p => Cardinality(Upto(s, n + 1, p)) = Cardinality(Upto(s, n, p)) + 1
           /\ s[n + 1] # p => Cardinality(Upto(s, n + 1, p)) = Cardinality(Upto(s, n, p))
  BY UptoGrows

\* The pages after the first n turns.
TurnedUpto(doc, pages, degrees, n) ==
    [p \in 1..Len(doc) |-> TurnedBy(doc[p], Cardinality(Upto(pages, n, p)), degrees)]

\* rotate_pages goes from each list of turned pages to the next.
LEMMA NextTurn ==
    ASSUME NEW doc \in Seq(Page), NEW pages \in Seq(1..Len(doc)),
           NEW degrees \in Quarters, NEW n \in Nat, n + 1 <= Len(pages)
    PROVE  [TurnedUpto(doc, pages, degrees, n) EXCEPT ![pages[n + 1]].turn = (@ + degrees) % 360]
             = TurnedUpto(doc, pages, degrees, n + 1)
<1> DEFINE q == pages[n + 1]
           before == TurnedUpto(doc, pages, degrees, n)
           after == TurnedUpto(doc, pages, degrees, n + 1)
<1>1. q \in 1..Len(doc)
  <2>1. n + 1 \in 1..Len(pages)  OBVIOUS
  <2> QED  BY <2>1
<1>2. ASSUME NEW p \in 1..Len(doc)
      PROVE  after[p] = IF p = q THEN [before[p] EXCEPT !.turn = (@ + degrees) % 360] ELSE before[p]
  <2> DEFINE k == Cardinality(Upto(pages, n, p))
             m == Cardinality(Upto(pages, n + 1, p))
  <2>1. k \in Nat  BY UptoGrows
  <2>2. m = IF q = p THEN k + 1 ELSE k
    <3>1. CASE q = p  BY <3>1, UptoTurned
    <3>2. CASE q # p  BY <3>2, UptoTurned
    <3> QED  BY <3>1, <3>2
  <2>3. before[p] = TurnedBy(doc[p], k, degrees) /\ after[p] = TurnedBy(doc[p], m, degrees)
    BY DEF TurnedUpto
  <2>4. doc[p] \in Page  OBVIOUS
  <2> HIDE DEF k, m, q, before, after
  <2>5. [TurnedBy(doc[p], k, degrees) EXCEPT !.turn = (@ + degrees) % 360]
          = TurnedBy(doc[p], k + 1, degrees)
    BY <2>1, <2>4, TurnPage
  <2>6. CASE p = q
    <3>1. m = k + 1  BY <2>1, <2>2, <2>6
    <3> QED  BY <2>3, <2>5, <2>6, <3>1, Zenon
  <2>7. CASE p # q
    <3>1. m = k  BY <2>1, <2>2, <2>7
    <3> QED  BY <2>3, <2>7, <3>1, Zenon
  <2> QED  BY <2>6, <2>7
<1>3. before = [p \in 1..Len(doc) |-> before[p]] /\ after = [p \in 1..Len(doc) |-> after[p]]
  BY DEF TurnedUpto
<1> HIDE DEF before, after, q
<1>4. [before EXCEPT ![q] = [before[q] EXCEPT !.turn = (before[q].turn + degrees) % 360]] = after
  BY ZenonT(40), <1>1, <1>2, <1>3
<1> QED  BY <1>4 DEF before, after, q

\* Every page named is turned as often as it is named, the others not at all.
LEMMA Rotated ==
    ASSUME NEW doc \in Seq(Page), NEW pages \in Seq(1..Len(doc)), NEW degrees \in Quarters
    PROVE  /\ RotatePages(doc, pages, degrees) \in Seq(Page)
           /\ Len(RotatePages(doc, pages, degrees)) = Len(doc)
           /\ \A p \in 1..Len(doc) :
                 RotatePages(doc, pages, degrees)[p] = TurnedBy(doc[p], Count(pages, p), degrees)
<1> DEFINE last == Len(pages)
           Turn(now, n) == [now EXCEPT ![pages[n]].turn = (@ + degrees) % 360]
           Is(f) == f = [n \in 0..last |-> IF n = 0 THEN doc ELSE Turn(f[n - 1], n)]
           turned == CHOOSE f : Is(f)
           closed == [n \in 0..last |-> TurnedUpto(doc, pages, degrees, n)]
<1>1. last \in Nat  OBVIOUS
<1>2. TurnedUpto(doc, pages, degrees, 0) = doc
  <2>1. ASSUME NEW p \in 1..Len(doc)
        PROVE  TurnedBy(doc[p], Cardinality(Upto(pages, 0, p)), degrees) = doc[p]
    <3>1. Cardinality(Upto(pages, 0, p)) = 0  BY UptoGrows
    <3>2. doc[p] \in Page  OBVIOUS
    <3>3. TurnedBy(doc[p], 0, degrees) = doc[p]
      <4>1. 0 \in Nat  OBVIOUS
      <4> QED  BY <3>2, <4>1, TurnPage, Zenon
    <3> QED  BY <3>1, <3>3
  <2>2. doc = [p \in 1..Len(doc) |-> doc[p]]  OBVIOUS
  <2> QED  BY <2>1, <2>2 DEF TurnedUpto
<1>3. ASSUME NEW n \in Nat, n + 1 <= last
      PROVE  Turn(TurnedUpto(doc, pages, degrees, n), n + 1)
               = TurnedUpto(doc, pages, degrees, n + 1)
  BY <1>3, NextTurn
<1>4. RotatePages(doc, pages, degrees) = turned[last]  BY DEF RotatePages
<1> HIDE DEF Turn, last, turned
<1>5. \E f : Is(f)
  <2>1. ASSUME NEW n \in 0..last
        PROVE  closed[n] = IF n = 0 THEN doc ELSE Turn(closed[n - 1], n)
    <3>1. CASE n = 0  BY <1>2, <3>1
    <3>2. CASE n # 0
      <4> DEFINE m == n - 1
      <4>1. m \in Nat /\ m + 1 = n /\ m \in 0..last /\ m + 1 <= last  BY <1>1, <3>2
      <4>2. closed[n - 1] = TurnedUpto(doc, pages, degrees, m)  BY <4>1
      <4>3. closed[n] = TurnedUpto(doc, pages, degrees, m + 1)  BY <4>1
      <4> HIDE DEF m, closed
      <4>4. Turn(TurnedUpto(doc, pages, degrees, m), m + 1) = TurnedUpto(doc, pages, degrees, m + 1)
        BY <1>3, <4>1
      <4> QED  BY <3>2, <4>1, <4>2, <4>3, <4>4
    <3> QED  BY <3>1, <3>2
  <2>2. closed = [n \in 0..last |-> closed[n]]  OBVIOUS
  <2> HIDE DEF closed
  <2>3. Is(closed)  BY <2>1, <2>2
  <2> QED  BY <2>3
<1>6. Is(turned)  BY <1>5 DEF turned
<1>7. \A n \in 0..last : turned[n] = IF n = 0 THEN doc ELSE Turn(turned[n - 1], n)
  BY <1>6
<1> HIDE DEF Is
<1> DEFINE S == {n \in Nat : n <= last => turned[n] = TurnedUpto(doc, pages, degrees, n)}
<1>8. 0 \in S
  <2>1. 0 \in 0..last  BY <1>1
  <2> QED  BY <1>2, <1>7, <2>1
<1>9. ASSUME NEW n \in Nat, n \in S  PROVE n + 1 \in S
  <2> SUFFICES ASSUME n + 1 <= last
               PROVE  turned[n + 1] = TurnedUpto(doc, pages, degrees, n + 1)
    OBVIOUS
  <2>1. n + 1 \in 0..last /\ n + 1 # 0 /\ (n + 1) - 1 = n /\ n <= last  BY <1>1
  <2>2. turned[n] = TurnedUpto(doc, pages, degrees, n)  BY <1>9, <2>1
  <2>3. turned[n + 1] = Turn(turned[(n + 1) - 1], n + 1)  BY <1>7, <2>1
  <2> QED  BY <1>3, <2>1, <2>2, <2>3
<1> HIDE DEF S
<1>10. \A n \in Nat : n \in S  BY <1>8, <1>9, SetInduction
<1>11. RotatePages(doc, pages, degrees) = TurnedUpto(doc, pages, degrees, Len(pages))
  BY <1>1, <1>4, <1>10 DEF S, last
<1>12. ASSUME NEW p \in 1..Len(doc)
       PROVE  /\ RotatePages(doc, pages, degrees)[p] = TurnedBy(doc[p], Count(pages, p), degrees)
              /\ RotatePages(doc, pages, degrees)[p] \in Page
  <2>1. Count(pages, p) = Cardinality(Upto(pages, Len(pages), p))  BY DEF Count, Places, Upto
  <2>2. RotatePages(doc, pages, degrees)[p] = TurnedBy(doc[p], Count(pages, p), degrees)
    BY <1>11, <2>1 DEF TurnedUpto
  <2>3. Count(pages, p) \in Nat /\ doc[p] \in Page
    <3>1. Len(pages) \in Nat  OBVIOUS
    <3> QED  BY <3>1, PlacesFinite
  <2>4. TurnedBy(doc[p], Count(pages, p), degrees) \in Page  BY <2>3, TurnPage, Zenon
  <2> QED  BY <2>2, <2>4
<1>13. RotatePages(doc, pages, degrees) \in [1..Len(doc) -> Page]
  <2>1. RotatePages(doc, pages, degrees) =
        [p \in 1..Len(doc) |-> RotatePages(doc, pages, degrees)[p]]
    BY <1>11 DEF TurnedUpto
  <2> QED  BY <1>12, <2>1
<1>14. Len(doc) \in Nat  OBVIOUS
<1> QED  BY <1>12, <1>13, <1>14

-----------------------------------------------------------------------------
\* delete_pages: from the last page to the first, no deletion moves a page still to go.

\* RemoveAt: what is behind moves up by one.
LEMMA Removed ==
    ASSUME NEW V, NEW s \in Seq(V), NEW i \in 1..Len(s)
    PROVE  /\ RemoveAt(s, i) \in Seq(V) /\ Len(RemoveAt(s, i)) = Len(s) - 1
           /\ \A j \in 1..(Len(s) - 1) : RemoveAt(s, i)[j] = IF j < i THEN s[j] ELSE s[j + 1]
<1> DEFINE front == SubSeq(s, 1, i - 1)
           back == SubSeq(s, i + 1, Len(s))
<1>1. /\ front \in Seq(V) /\ Len(front) = i - 1
      /\ \A j \in 1..(i - 1) : front[j] = s[j]
  OBVIOUS
<1>2. /\ back \in Seq(V) /\ Len(back) = Len(s) - i
      /\ \A j \in 1..(Len(s) - i) : back[j] = s[i + j]
  OBVIOUS
<1>3. RemoveAt(s, i) = front \o back  BY DEF RemoveAt
<1>4. Len(s) \in Nat /\ i \in Nat  OBVIOUS
<1> HIDE DEF front, back
<1>5. /\ front \o back \in Seq(V) /\ Len(front \o back) = Len(front) + Len(back)
      /\ \A j \in 1..(Len(front) + Len(back)) :
            (front \o back)[j] = IF j <= Len(front) THEN front[j] ELSE back[j - Len(front)]
  BY <1>1, <1>2, ConcatProperties
<1>6. ASSUME NEW j \in 1..(Len(s) - 1)
      PROVE  (front \o back)[j] = IF j < i THEN s[j] ELSE s[j + 1]
  <2>1. j \in 1..(Len(front) + Len(back)) /\ j \in Nat  BY <1>1, <1>2, <1>4
  <2>2. CASE j < i
    <3>1. j <= Len(front) /\ j \in 1..(i - 1)  BY <1>1, <1>4, <2>1, <2>2
    <3> QED  BY <1>1, <1>5, <2>1, <2>2, <3>1
  <2>3. CASE ~ (j < i)
    <3>1. ~ (j <= Len(front)) /\ j - Len(front) \in 1..(Len(s) - i)
          /\ i + (j - Len(front)) = j + 1
      BY <1>1, <1>4, <2>1, <2>3
    <3> QED  BY <1>2, <1>5, <2>1, <2>3, <3>1
  <2> QED  BY <2>2, <2>3
<1>7. Len(front) + Len(back) = Len(s) - 1  BY <1>1, <1>2, <1>4
<1> QED  BY <1>3, <1>5, <1>6, <1>7

\* s is what is left of doc when the pages in gone from this one on are deleted.
Left(s, doc, gone, page) ==
    /\ s \in Seq(Page)
    /\ Len(s) = Len(doc) - Cardinality({q \in gone : q >= page}) /\ page - 1 <= Len(s)
    /\ \A q \in 1..(page - 1) : s[q] = doc[q]
    /\ \A i \in page..Len(s) : \E q \in (page..Len(doc)) \ gone : s[i] = doc[q]
    /\ \A q \in (page..Len(doc)) \ gone : \E i \in page..Len(s) : s[i] = doc[q]
    /\ \A i, j \in 1..Len(s) : i < j => s[i].from < s[j].from

\* A page that stays joins those behind it.
LEMMA PageStays ==
    ASSUME NEW doc \in Seq(Page), NEW gone \in SUBSET (1..Len(doc)), NEW page \in 1..Len(doc),
           NEW s, Left(s, doc, gone, page + 1), page \notin gone
    PROVE  Left(s, doc, gone, page)
<1>1. Len(s) \in Nat /\ page \in Nat /\ (page + 1) - 1 = page /\ page <= Len(s)
      /\ s \in Seq(Page) /\ Len(doc) \in Nat
  BY DEF Left
<1>2. {q \in gone : q >= page} = {q \in gone : q >= page + 1}
  <2>1. ASSUME NEW q \in gone  PROVE q >= page <=> q >= page + 1
    <3>1. q \in Int /\ q # page  OBVIOUS
    <3> QED  BY <1>1, <3>1
  <2> QED  BY <2>1
<1>3. s[page] = doc[page] /\ page \in (page..Len(doc)) \ gone /\ page \in page..Len(s)
  BY <1>1 DEF Left
<1>4. \A q \in 1..(page - 1) : s[q] = doc[q]  BY <1>1 DEF Left
<1>5. ASSUME NEW i \in page..Len(s)  PROVE \E q \in (page..Len(doc)) \ gone : s[i] = doc[q]
  <2>1. CASE i = page  BY <1>3, <2>1
  <2>2. CASE i # page
    <3>1. i \in (page + 1)..Len(s)  BY <1>1, <2>2
    <3>2. PICK q \in ((page + 1)..Len(doc)) \ gone : s[i] = doc[q]  BY <3>1 DEF Left
    <3>3. q \in (page..Len(doc)) \ gone  BY <1>1
    <3> QED  BY <3>2, <3>3
  <2> QED  BY <2>1, <2>2
<1>6. ASSUME NEW q \in (page..Len(doc)) \ gone  PROVE \E i \in page..Len(s) : s[i] = doc[q]
  <2>1. CASE q = page  BY <1>3, <2>1
  <2>2. CASE q # page
    <3>1. q \in ((page + 1)..Len(doc)) \ gone  BY <1>1, <2>2
    <3>2. PICK i \in (page + 1)..Len(s) : s[i] = doc[q]  BY <3>1 DEF Left
    <3>3. i \in page..Len(s)  BY <1>1
    <3> QED  BY <3>2, <3>3
  <2> QED  BY <2>1, <2>2
<1>7. Len(s) = Len(doc) - Cardinality({q \in gone : q >= page})  BY <1>2 DEF Left
<1>8. \A i, j \in 1..Len(s) : i < j => s[i].from < s[j].from  BY DEF Left
<1>9. page - 1 <= Len(s)  BY <1>1
<1> QED  BY <1>1, <1>4, <1>5, <1>6, <1>7, <1>8, <1>9, Zenon DEF Left

\* A page that goes moves only those behind it.
LEMMA PageGoes ==
    ASSUME NEW doc \in Seq(Page), NEW gone \in SUBSET (1..Len(doc)), NEW page \in 1..Len(doc),
           NEW s, Left(s, doc, gone, page + 1), page \in gone
    PROVE  page \in 1..Len(s) /\ Left(RemoveAt(s, page), doc, gone, page)
<1> DEFINE t == RemoveAt(s, page)
<1>1. Len(s) \in Nat /\ page \in Nat /\ (page + 1) - 1 = page /\ page <= Len(s)
      /\ s \in Seq(Page) /\ Len(doc) \in Nat /\ page >= 1
  BY DEF Left
<1>2. page \in 1..Len(s)  BY <1>1
<1>3. /\ t \in Seq(Page) /\ Len(t) = Len(s) - 1
      /\ \A j \in 1..(Len(s) - 1) : t[j] = IF j < page THEN s[j] ELSE s[j + 1]
  BY <1>1, <1>2, Removed
<1> HIDE DEF t
<1>4. Cardinality({q \in gone : q >= page}) = Cardinality({q \in gone : q >= page + 1}) + 1
      /\ Cardinality({q \in gone : q >= page + 1}) \in Nat
  <2>1. {q \in gone : q >= page} = {q \in gone : q >= page + 1} \cup {page}
    <3>1. ASSUME NEW q \in gone  PROVE q >= page <=> q >= page + 1 \/ q = page
      <4>1. q \in Int  OBVIOUS
      <4> QED  BY <1>1, <4>1
    <3> QED  BY <3>1
  <2>2. page \notin {q \in gone : q >= page + 1}  BY <1>1
  <2>3. IsFiniteSet({q \in gone : q >= page + 1})
    <3>1. IsFiniteSet(1..Len(doc))  BY FS_Interval
    <3>2. {q \in gone : q >= page + 1} \in SUBSET (1..Len(doc))  OBVIOUS
    <3> QED  BY <3>1, <3>2, FS_Subset
  <2> QED  BY <2>1, <2>2, <2>3, FS_AddElement, FS_CardinalityType
<1>5. Len(s) = Len(doc) - Cardinality({q \in gone : q >= page + 1})  BY DEF Left
<1>6. Len(t) = Len(doc) - Cardinality({q \in gone : q >= page}) /\ page - 1 <= Len(t)
  BY <1>1, <1>3, <1>4, <1>5
<1>7. ASSUME NEW q \in 1..(page - 1)  PROVE t[q] = doc[q]
  <2>1. q < page /\ q \in 1..(Len(s) - 1) /\ q \in 1..((page + 1) - 1)  BY <1>1
  <2>2. s[q] = doc[q]  BY <2>1 DEF Left
  <2> QED  BY <1>3, <2>1, <2>2
<1>8. ASSUME NEW i \in page..Len(t)  PROVE \E q \in (page..Len(doc)) \ gone : t[i] = doc[q]
  <2>1. i + 1 \in (page + 1)..Len(s) /\ ~ (i < page) /\ i \in 1..(Len(s) - 1)  BY <1>1, <1>3
  <2>2. PICK q \in ((page + 1)..Len(doc)) \ gone : s[i + 1] = doc[q]  BY <2>1 DEF Left
  <2>3. q \in (page..Len(doc)) \ gone  BY <1>1
  <2>4. t[i] = s[i + 1]  BY <1>3, <2>1
  <2> QED  BY <2>2, <2>3, <2>4
<1>9. ASSUME NEW q \in (page..Len(doc)) \ gone  PROVE \E i \in page..Len(t) : t[i] = doc[q]
  <2>1. q \in ((page + 1)..Len(doc)) \ gone  BY <1>1
  <2>2. PICK i \in (page + 1)..Len(s) : s[i] = doc[q]  BY <2>1 DEF Left
  <2> DEFINE j == i - 1
  <2>3. j \in page..Len(t) /\ j \in 1..(Len(s) - 1) /\ ~ (j < page) /\ j + 1 = i  BY <1>1, <1>3
  <2> HIDE DEF j
  <2>4. t[j] = s[j + 1]  BY <1>3, <2>3
  <2>5. t[j] = doc[q]  BY <2>2, <2>3, <2>4
  <2> QED  BY <2>3, <2>5
<1>10. ASSUME NEW i \in 1..Len(t), NEW j \in 1..Len(t), i < j  PROVE t[i].from < t[j].from
  <2> DEFINE at(k) == IF k < page THEN k ELSE k + 1
  <2>1. \A k \in 1..Len(t) : at(k) \in 1..Len(s) /\ t[k] = s[at(k)]  BY <1>1, <1>3
  <2>2. at(i) < at(j)  BY <1>1, <1>3, <1>10
  <2>3. at(i) \in 1..Len(s) /\ at(j) \in 1..Len(s) /\ t[i] = s[at(i)] /\ t[j] = s[at(j)]
    BY <2>1
  <2> HIDE DEF at
  <2>4. s[at(i)].from < s[at(j)].from  BY <2>2, <2>3 DEF Left
  <2> QED  BY <2>3, <2>4
<1> QED  BY <1>2, <1>3, <1>6, <1>7, <1>8, <1>9, <1>10 DEF Left, t

\* What delete_pages leaves: the pages not named, in their order.
LEMMA Deleted ==
    ASSUME NEW doc \in Seq(Page), \A p \in 1..Len(doc) : doc[p].from = p,
           NEW pages \in Seq(1..Len(doc))
    PROVE  /\ DeletePages(doc, pages) \in Seq(Page)
           /\ Len(DeletePages(doc, pages)) = Len(doc) - Cardinality(ToSet(pages))
           /\ ToSet(DeletePages(doc, pages)) = {doc[p] : p \in (1..Len(doc)) \ ToSet(pages)}
           /\ \A i, j \in 1..Len(DeletePages(doc, pages)) :
                 i < j => DeletePages(doc, pages)[i].from < DeletePages(doc, pages)[j].from
<1> DEFINE last == Len(doc)
           gone == ToSet(pages)
           Cut(now, page) == IF page \in gone THEN RemoveAt(now, page) ELSE now
           Is(f) == f = [page \in 1..(last + 1) |-> IF page > last THEN doc ELSE Cut(f[page + 1], page)]
           left == CHOOSE f : Is(f)
<1>1. last \in Nat /\ gone \in SUBSET (1..last)  BY DEF ToSet
<1>2. DeletePages(doc, pages) = left[1]
  <2>1. \A now, page : Cut(now, page) = IF page \in ToSet(pages) THEN RemoveAt(now, page) ELSE now
    OBVIOUS
  <2> QED  BY DEF DeletePages
<1>3. Left(doc, doc, gone, last + 1)
  <2>1. {q \in gone : q >= last + 1} = {}
    <3>1. ASSUME NEW q \in gone  PROVE ~ (q >= last + 1)
      <4>1. q \in 1..last  BY <1>1
      <4> QED  BY <1>1, <4>1
    <3> QED  BY <3>1
  <2>2. Cardinality({}) = 0  BY FS_EmptySet
  <2>3. last = last - Cardinality({q \in gone : q >= last + 1})
    <3>1. Cardinality({q \in gone : q >= last + 1}) = 0  BY <2>1, <2>2, Zenon
    <3> HIDE DEF last
    <3>2. last - 0 = last  BY <1>1
    <3> QED  BY <3>1, <3>2
  <2>4. (last + 1) - 1 <= last /\ (last + 1)..last = {}  BY <1>1
  <2>5. \A i, j \in 1..last : i < j => doc[i].from < doc[j].from  OBVIOUS
  <2> HIDE DEF gone
  <2> QED  BY <2>3, <2>4, <2>5 DEF Left
<1>4. ASSUME NEW page \in 1..last, NEW now, Left(now, doc, gone, page + 1)
      PROVE  Left(Cut(now, page), doc, gone, page)
  BY <1>1, <1>4, PageStays, PageGoes
<1> HIDE DEF left, Cut
<1>5. \E f : Is(f)
  <2> DEFINE step == [x \in Nat \X Seq(Page) |->
                        IF x[1] \in 1..last /\ Cut(x[2], (last + 1) - x[1]) \in Seq(Page)
                        THEN Cut(x[2], (last + 1) - x[1]) ELSE <<>>]
  <2>1. PICK f : Steps(f, Seq(Page), doc, step, last)
    <3>1. step \in [Nat \X Seq(Page) -> Seq(Page)]
      <4>1. <<>> \in Seq(Page)  OBVIOUS
      <4> QED  BY <4>1
    <3> HIDE DEF step
    <3> QED  BY <1>1, <3>1, StepByStep
  <2> DEFINE S == {n \in Nat : n <= last =>
                     /\ Left(f[n], doc, gone, (last + 1) - n)
                     /\ n # 0 => f[n] = Cut(f[n - 1], (last + 1) - n)}
  <2>2. 0 \in S  BY <1>1, <1>3, <2>1 DEF Steps
  <2>3. ASSUME NEW n \in Nat, n \in S  PROVE n + 1 \in S
    <3> SUFFICES ASSUME n + 1 <= last
                 PROVE  /\ Left(f[n + 1], doc, gone, (last + 1) - (n + 1))
                        /\ f[n + 1] = Cut(f[n], (last + 1) - (n + 1))
      OBVIOUS
    <3> DEFINE page == (last + 1) - (n + 1)
    <3>1. n + 1 \in 1..last /\ (n + 1) - 1 = n /\ page \in 1..last /\ page + 1 = (last + 1) - n
          /\ n \in 0..last /\ n + 1 \in Nat
      BY <1>1
    <3>2. Left(f[n], doc, gone, page + 1)  BY <2>3, <3>1
    <3>3. Left(Cut(f[n], page), doc, gone, page)  BY <1>4, <3>1, <3>2
    <3>4. Cut(f[n], page) \in Seq(Page) /\ f[n] \in Seq(Page)  BY <3>2, <3>3 DEF Left
    <3>5. f[n + 1] = step[<<n + 1, f[n]>>]  BY <2>1, <3>1 DEF Steps
    <3>6. <<n + 1, f[n]>> \in Nat \X Seq(Page)  BY <3>1, <3>4
    <3>7. f[n + 1] = Cut(f[n], page)  BY <3>1, <3>4, <3>5, <3>6
    <3> QED  BY <3>3, <3>7
  <2> HIDE DEF S, step
  <2>4. \A n \in Nat : n \in S  BY <2>2, <2>3, SetInduction
  <2> DEFINE g == [page \in 1..(last + 1) |-> f[(last + 1) - page]]
  <2>5. ASSUME NEW page \in 1..(last + 1)
        PROVE  g[page] = IF page > last THEN doc ELSE Cut(g[page + 1], page)
    <3>1. CASE page > last
      <4>1. (last + 1) - page = 0  BY <1>1, <3>1
      <4>2. f[0] = doc  BY <2>1 DEF Steps
      <4> QED  BY <3>1, <4>1, <4>2
    <3>2. CASE ~ (page > last)
      <4> DEFINE n == (last + 1) - page
      <4>1. n \in Nat /\ n # 0 /\ n <= last /\ page = (last + 1) - n
            /\ page + 1 \in 1..(last + 1) /\ (last + 1) - (page + 1) = n - 1
        BY <1>1, <3>2
      <4>2. g[page] = f[n] /\ g[page + 1] = f[n - 1]  BY <4>1
      <4> HIDE DEF n, g
      <4>3. f[n] = Cut(f[n - 1], (last + 1) - n)  BY <2>4, <4>1 DEF S
      <4>4. f[n] = Cut(f[n - 1], page)  BY <4>1, <4>3
      <4> QED  BY <3>2, <4>2, <4>4
    <3> QED  BY <3>1, <3>2
  <2>6. g = [page \in 1..(last + 1) |-> g[page]]  OBVIOUS
  <2> HIDE DEF g
  <2>7. Is(g)  BY <2>5, <2>6
  <2> QED  BY <2>7
<1>6. Is(left)  BY <1>5 DEF left
<1> HIDE DEF last, gone
<1>7. \A page \in 1..(last + 1) :
         left[page] = IF page > last THEN doc ELSE Cut(left[page + 1], page)
  BY <1>6, Zenon
<1> HIDE DEF Is
<1> DEFINE S == {n \in Nat : n <= last => Left(left[(last + 1) - n], doc, gone, (last + 1) - n)}
<1>8. 0 \in S
  <2>1. last + 1 \in 1..(last + 1) /\ last + 1 > last /\ (last + 1) - 0 = last + 1  BY <1>1
  <2>2. left[last + 1] = doc  BY <1>7, <2>1
  <2> QED  BY <1>3, <2>1, <2>2
<1>9. ASSUME NEW n \in Nat, n \in S  PROVE n + 1 \in S
  <2> DEFINE page == (last + 1) - (n + 1)
  <2> SUFFICES ASSUME n + 1 <= last  PROVE Left(left[page], doc, gone, page)
    OBVIOUS
  <2>1. page \in 1..last /\ page \in 1..(last + 1) /\ ~ (page > last) /\ page + 1 = (last + 1) - n
        /\ n <= last
    BY <1>1
  <2>2. Left(left[page + 1], doc, gone, page + 1)  BY <1>9, <2>1
  <2> HIDE DEF page
  <2>3. left[page] = Cut(left[page + 1], page)  BY <1>7, <2>1
  <2> QED  BY <1>4, <2>1, <2>2, <2>3
<1> HIDE DEF S
<1>10. \A n \in Nat : n \in S  BY <1>8, <1>9, SetInduction
<1>11. Left(left[1], doc, gone, 1)
  <2>1. CASE last = 0
    <3>1. Left(left[last + 1], doc, gone, last + 1)  BY <1>7, <1>3, <2>1
    <3> QED  BY <2>1, <3>1
  <2>2. CASE last # 0
    <3>1. last \in S /\ (last + 1) - last = 1  BY <1>1, <1>10
    <3> QED  BY <1>1, <3>1 DEF S
  <2> QED  BY <2>1, <2>2
<1>12. {q \in gone : q >= 1} = gone
  <2>1. ASSUME NEW q \in gone  PROVE q >= 1
    <3>1. q \in 1..last  BY <1>1
    <3> QED  BY <3>1
  <2> QED  BY <2>1
<1> DEFINE result == left[1]
<1>13. DOMAIN result = 1..Len(result) /\ result \in Seq(Page)  BY <1>11 DEF Left
<1>14. Len(result) = last - Cardinality(gone)  BY <1>11, <1>12 DEF Left, last
<1>15. ToSet(result) = {doc[p] : p \in (1..last) \ gone}
  <2>1. \A i \in 1..Len(result) : \E p \in (1..last) \ gone : result[i] = doc[p]
    BY <1>11 DEF Left, last
  <2>2. \A p \in (1..last) \ gone : \E i \in 1..Len(result) : result[i] = doc[p]
    BY <1>11 DEF Left, last
  <2> HIDE DEF result
  <2> QED  BY <1>13, <2>1, <2>2 DEF ToSet
<1>16. \A i, j \in 1..Len(result) : i < j => result[i].from < result[j].from
  BY <1>11 DEF Left
<1> QED  BY <1>2, <1>13, <1>14, <1>15, <1>16 DEF last, gone

-----------------------------------------------------------------------------
\* The answer to a request.

IInv ==
    /\ request \in Requests
    /\ answer = Waiting \/ answer = Produce(request)

\* What people send.
LEMMA Asked ==
    ASSUME NEW r \in Requests
    PROVE  /\ r.tool \in Tools /\ SpecOk(r.spec) /\ r.order \in Seq(Int)
           /\ r.degrees \in Int /\ r.number \in Int
           /\ r.files \in Seq(Upload) /\ Len(r.files) \in Nat \ {0} /\ DOMAIN r.files = 1..Len(r.files)
           /\ \A i \in 1..Len(r.files) :
                 /\ r.files[i].pages \in Seq(Page)
                 /\ \A p \in 1..Len(r.files[i].pages) : r.files[i].pages[p].from = p
<1>1. /\ r.tool \in Tools /\ r.files \in Seq(Upload) \ {<<>>}
      /\ \A f \in ToSet(r.files) : \A p \in DOMAIN f.pages : f.pages[p].from = p
      /\ r.spec \in Seq(Seq(Int)) /\ \A group \in ToSet(r.spec) : Len(group) \in 1..2
      /\ r.order \in Seq(Int) /\ r.degrees \in Int /\ r.number \in Int
  BY RequestsAssumption
<1>2. DOMAIN r.files = 1..Len(r.files) /\ Len(r.files) \in Nat \ {0}  BY <1>1
<1>3. ASSUME NEW i \in 1..Len(r.files)
      PROVE  /\ r.files[i].pages \in Seq(Page)
             /\ \A p \in 1..Len(r.files[i].pages) : r.files[i].pages[p].from = p
  <2>1. r.files[i] \in Upload /\ r.files[i] \in ToSet(r.files)  BY <1>1, <1>2 DEF ToSet
  <2>2. r.files[i].pages \in Seq(Page)  BY <2>1 DEF Upload
  <2>3. DOMAIN r.files[i].pages = 1..Len(r.files[i].pages)  BY <2>2
  <2> QED  BY <1>1, <2>1, <2>2, <2>3
<1> QED  BY <1>1, <1>2, <1>3 DEF SpecOk

\* The fields of the answers.
LEMMA Answers ==
    /\ Refused.status = "refused" /\ Early.status = "early" /\ Waiting.status = "waiting"
    /\ \A parts, logged : /\ Done(parts, logged).status = "ok"
                          /\ Done(parts, logged).parts = parts
                          /\ Done(parts, logged).logged = logged
BY DEF Refused, Early, Waiting, Done

\* Which endpoint made a result.
LEMMA Served ==
    ASSUME IInv, Ok
    PROVE  /\ request.tool = "merge" => answer = Merge(request.files)
           /\ request.tool # "merge" => Inspect(request.files[1])
           /\ request.tool = "rotate" => answer = Rotate(request.files[1], request)
           /\ request.tool = "delete" => answer = Trim(request.files[1], request)
           /\ request.tool = "reorder" => answer = Reorder(request.files[1], request)
           /\ request.tool = "compress" => answer = Compress(request.files[1], request)
           /\ request.tool = "split" => answer = Split(request.files[1], request)
           /\ request.tool = "text" => answer = AddTextTo(request.files[1], request)
<1>1. answer = Produce(request)  BY Answers DEF IInv, Ok
<1>2. answer # Refused /\ answer # Early  BY Answers DEF Ok
<1> QED  BY <1>1, <1>2 DEF Produce

\* What the file of a request looks like once inspect has passed it.
LEMMA Inspected ==
    ASSUME IInv, Ok, request.tool # "merge"
    PROVE  /\ request \in Requests /\ Doc \in Seq(Page) /\ Doc = request.files[1].pages
           /\ Len(Doc) \in Nat \ {0} /\ DOMAIN Doc = 1..Len(Doc)
           /\ \A p \in 1..Len(Doc) : Doc[p].from = p
<1>1. request \in Requests  BY DEF IInv
<1>2. 1 \in 1..Len(request.files)  BY <1>1, Asked
<1>3. Doc \in Seq(Page) /\ \A p \in 1..Len(Doc) : Doc[p].from = p
  BY <1>1, <1>2, Asked DEF Doc
<1>4. Inspect(request.files[1])  BY Served
<1>5. Len(Doc) \in 1..MaxPages  BY <1>4 DEF Inspect, Doc
<1> QED  BY <1>1, <1>3, <1>5, BoundsAssumption DEF Doc

\* One document handed out, and its pages logged.
LEMMA OneHandedOut ==
    ASSUME NEW doc \in Seq(Page), doc # <<>>, answer = Done(<<doc>>, Len(doc))
    PROVE  LoggedPagesHandedOut /\ answer.parts[1] = doc
<1>1. answer.parts = <<doc>> /\ answer.logged = Len(doc)  BY Answers
<1>2. PagesIn(<<doc>>) = Len(doc)  BY PagesInOne
<1>3. DOMAIN <<doc>> = {1} /\ <<doc>>[1] = doc  OBVIOUS
<1> QED  BY <1>1, <1>2, <1>3 DEF LoggedPagesHandedOut

\* The groups that name a page are those that mention it.
LEMMA NamedIsNaming ==
    /\ Named = {page \in 1..Len(Doc) : Naming(request.spec, page) # {}}
    /\ \A p : Mentions(p) = Cardinality(Naming(request.spec, p))
BY DEF Named, Mentions, Naming

\* The rotate endpoint.
LEMMA RotateResult ==
    ASSUME IInv, Ok, request.tool = "rotate"
    PROVE  Turned /\ LoggedPagesHandedOut
<1> DEFINE pages == ParsePages(request.spec)
           result == RotatePages(Doc, pages, request.degrees)
<1>1. /\ request \in Requests /\ Doc \in Seq(Page) /\ Doc = request.files[1].pages
      /\ Len(Doc) \in Nat \ {0} /\ DOMAIN Doc = 1..Len(Doc)
  BY Inspected
<1>2. answer = Rotate(request.files[1], request) /\ answer # Refused  BY Served, Answers DEF Ok
<1>3. /\ AcceptsRanges(request.spec, Len(Doc)) /\ request.degrees \in Quarters
      /\ answer = Done(<<result>>, Len(Doc))
  BY <1>1, <1>2 DEF Rotate, Quarters
<1>4. SpecOk(request.spec)  BY <1>1, Asked
<1>5. /\ pages \in Seq(1..Len(Doc))
      /\ \A p \in 1..Len(Doc) : Count(pages, p) = Cardinality(Naming(request.spec, p))
  BY <1>1, <1>3, <1>4, PagesParsed
<1> HIDE DEF pages
<1>6. /\ result \in Seq(Page) /\ Len(result) = Len(Doc)
      /\ \A p \in 1..Len(Doc) : result[p] = TurnedBy(Doc[p], Count(pages, p), request.degrees)
  <2>1. Doc \in Seq(Page) /\ pages \in Seq(1..Len(Doc)) /\ request.degrees \in Quarters
    BY <1>1, <1>3, <1>5
  <2> QED  BY <2>1, Rotated
<1> HIDE DEF result
<1>7. result # <<>>  BY <1>1, <1>6
<1>8. LoggedPagesHandedOut /\ answer.parts[1] = result
  BY <1>3, <1>6, <1>7, OneHandedOut
<1>9. ASSUME NEW p \in 1..Len(Doc)
      PROVE  result[p] = [Doc[p] EXCEPT !.turn = (@ + Mentions(p) * request.degrees) % 360]
  <2>1. Count(pages, p) = Mentions(p)  BY <1>5, NamedIsNaming
  <2>2. result[p] = TurnedBy(Doc[p], Mentions(p), request.degrees)  BY <1>6, <2>1
  <2> QED  BY <2>2 DEF TurnedBy
<1> QED  BY <1>1, <1>6, <1>8, <1>9, ZenonT(30) DEF Turned

\* The delete endpoint.
LEMMA DeleteResult ==
    ASSUME IInv, Ok, request.tool = "delete"
    PROVE  Trimmed /\ LoggedPagesHandedOut
<1> DEFINE pages == ParsePages(request.spec)
           result == DeletePages(Doc, pages)
<1>1. /\ request \in Requests /\ Doc \in Seq(Page) /\ Doc = request.files[1].pages
      /\ Len(Doc) \in Nat \ {0} /\ DOMAIN Doc = 1..Len(Doc)
      /\ \A p \in 1..Len(Doc) : Doc[p].from = p
  BY Inspected
<1>2. answer = Trim(request.files[1], request) /\ answer # Refused  BY Served, Answers DEF Ok
<1>3. /\ AcceptsRanges(request.spec, Len(Doc)) /\ Len(pages) < Len(Doc)
      /\ answer = Done(<<result>>, Len(Doc) - Cardinality(ToSet(pages)))
  BY <1>1, <1>2 DEF Trim
<1>4. SpecOk(request.spec)  BY <1>1, Asked
<1>5. /\ pages \in Seq(1..Len(Doc))
      /\ ToSet(pages) = {page \in 1..Len(Doc) : Naming(request.spec, page) # {}}
  BY <1>1, <1>3, <1>4, PagesParsed
<1> HIDE DEF pages
<1>6. /\ result \in Seq(Page)
      /\ Len(result) = Len(Doc) - Cardinality(ToSet(pages))
      /\ ToSet(result) = {Doc[p] : p \in (1..Len(Doc)) \ ToSet(pages)}
      /\ \A i, j \in 1..Len(result) : i < j => result[i].from < result[j].from
  BY <1>1, <1>5, Deleted
<1>7. Cardinality(ToSet(pages)) \in Nat /\ Cardinality(ToSet(pages)) <= Len(pages)
      /\ Len(pages) \in Nat
  <2>1. pages \in Seq(1..Len(Doc))  BY <1>5
  <2>2. Len(pages) \in Nat  BY <2>1
  <2> QED  BY <2>1, <2>2, RangeSize, Zenon
<1> HIDE DEF result
<1>8. result # <<>>
  <2>1. Len(result) # 0  BY <1>1, <1>3, <1>6, <1>7
  <2> QED  BY <2>1
<1>9. LoggedPagesHandedOut /\ answer.parts[1] = result
  BY <1>3, <1>6, <1>8, OneHandedOut
<1>10. Named = ToSet(pages)  BY <1>5, NamedIsNaming
<1>11. DOMAIN result = 1..Len(result)  BY <1>6
<1> QED  BY <1>1, <1>6, <1>9, <1>10, <1>11 DEF Trimmed

\* The reorder endpoint.
LEMMA ReorderResult ==
    ASSUME IInv, Ok, request.tool = "reorder"
    PROVE  Reordered /\ LoggedPagesHandedOut
<1> DEFINE result == SelectPages(Doc, request.order)
<1>1. /\ request \in Requests /\ Doc \in Seq(Page) /\ Doc = request.files[1].pages
      /\ Len(Doc) \in Nat \ {0} /\ DOMAIN Doc = 1..Len(Doc)
  BY Inspected
<1>2. answer = Reorder(request.files[1], request) /\ answer # Refused  BY Served, Answers DEF Ok
<1>3. /\ Len(request.order) = Len(Doc) /\ ToSet(request.order) = 1..Len(Doc)
      /\ answer = Done(<<result>>, Len(Doc))
  BY <1>1, <1>2 DEF Reorder
<1>4. request.order \in Seq(Int) /\ DOMAIN request.order = 1..Len(Doc)
  BY <1>1, <1>3, Asked
<1>5. \A i \in 1..Len(Doc) : request.order[i] \in 1..Len(Doc)
  BY <1>3, <1>4 DEF ToSet
<1>6. result = [i \in 1..Len(Doc) |-> Doc[request.order[i]]]
  BY <1>4 DEF SelectPages
<1>7. result \in [1..Len(Doc) -> Page]  BY <1>1, <1>5, <1>6
<1>8. result \in Seq(Page) /\ Len(result) = Len(Doc)  BY <1>1, <1>7
<1>9. \A i \in 1..Len(Doc) : result[i] = Doc[request.order[i]]  BY <1>6
<1> HIDE DEF result
<1>10. result # <<>>  BY <1>1, <1>8
<1>11. LoggedPagesHandedOut /\ answer.parts[1] = result
  BY <1>3, <1>8, <1>10, OneHandedOut
<1>12. \A p \in 1..Len(Doc) : \E i \in 1..Len(Doc) : request.order[i] = p /\ result[i] = Doc[p]
  BY <1>3, <1>4, <1>9 DEF ToSet
<1> QED  BY <1>1, <1>4, <1>8, <1>11, <1>12 DEF Reordered

\* The compress endpoint.
LEMMA CompressResult ==
    ASSUME IInv, Ok, request.tool = "compress"
    PROVE  answer.parts = <<Doc>> /\ LoggedPagesHandedOut
<1>1. /\ Doc \in Seq(Page) /\ Doc = request.files[1].pages /\ Len(Doc) \in Nat \ {0}
  BY Inspected
<1>2. answer = Done(<<Doc>>, Len(Doc))  BY <1>1, Served DEF Compress
<1>3. Doc # <<>>  BY <1>1
<1> QED  BY <1>1, <1>2, <1>3, Answers, OneHandedOut

\* The text endpoint.
LEMMA TextResult ==
    ASSUME IInv, Ok, request.tool = "text"
    PROVE  Stamped /\ LoggedPagesHandedOut
<1> DEFINE number == request.number
           result == AddText(Doc, number)
<1>1. /\ Doc \in Seq(Page) /\ Doc = request.files[1].pages /\ Len(Doc) \in Nat \ {0}
      /\ DOMAIN Doc = 1..Len(Doc)
  BY Inspected
<1>2. answer = AddTextTo(request.files[1], request) /\ answer # Refused  BY Served, Answers DEF Ok
<1>3. number \in 1..Len(Doc) /\ answer = Done(<<result>>, Len(Doc))
  BY <1>1, <1>2 DEF AddTextTo
<1> HIDE DEF number
<1>4. ASSUME NEW p \in 1..Len(Doc)
      PROVE  /\ result[p] = [Doc[p] EXCEPT !.stamped = @ \/ p = number]
             /\ result[p] \in Page
  <2>1. Doc[p] \in Page  BY <1>1
  <2>2. [Doc[p] EXCEPT !.stamped = TRUE] \in Page  BY <2>1 DEF Page
  <2>3. [Doc[p] EXCEPT !.stamped = Doc[p].stamped] = Doc[p]  BY <2>1 DEF Page
  <2>4. Doc[p].stamped \in BOOLEAN  BY <2>1 DEF Page
  <2>5. result[p] = IF p = number THEN [Doc[p] EXCEPT !.stamped = TRUE] ELSE Doc[p]
    BY <1>1, <1>3, Zenon DEF AddText
  <2> HIDE DEF result
  <2>6. CASE p = number
    <3>1. (Doc[p].stamped \/ p = number) = TRUE  BY <2>6
    <3> QED  BY <2>2, <2>5, <2>6, <3>1, Zenon
  <2>7. CASE p # number
    <3>1. (Doc[p].stamped \/ p = number) = Doc[p].stamped  BY <2>4, <2>7, Zenon
    <3> QED  BY <2>1, <2>3, <2>5, <2>7, <3>1, Zenon
  <2> QED  BY <2>6, <2>7
<1>5. result = [p \in 1..Len(Doc) |-> result[p]]  BY <1>1, Zenon DEF AddText
<1> HIDE DEF result
<1>6. result \in [1..Len(Doc) -> Page]  BY <1>4, <1>5
<1>7. result \in Seq(Page) /\ Len(result) = Len(Doc) /\ result # <<>>  BY <1>1, <1>6
<1>8. LoggedPagesHandedOut /\ answer.parts[1] = result
  BY <1>3, <1>7, OneHandedOut
<1> QED  BY <1>1, <1>4, <1>8, Zenon DEF Stamped, number

\* The split endpoint: each part runs from one end of its range to the other.
LEMMA SplitResult ==
    ASSUME IInv, Ok, request.tool = "split"
    PROVE  Divided /\ LoggedPagesHandedOut
<1> DEFINE spec == request.spec
           last == Len(spec)
           groups == ParseRanges(spec)
           parts == [g \in DOMAIN groups |-> ExtractPages(Doc, groups[g])]
<1>1. /\ request \in Requests /\ Doc \in Seq(Page) /\ Doc = request.files[1].pages
      /\ Len(Doc) \in Nat \ {0} /\ DOMAIN Doc = 1..Len(Doc)
      /\ \A p \in 1..Len(Doc) : Doc[p].from = p
  BY Inspected
<1>2. answer = Split(request.files[1], request) /\ answer # Refused  BY Served, Answers DEF Ok
<1>3. AcceptsRanges(spec, Len(Doc)) /\ answer = Done(parts, PagesIn(groups))
  BY <1>1, <1>2 DEF Split
<1>4. SpecOk(spec)  BY <1>1, Asked
<1>5. /\ groups \in Seq(Seq(1..Len(Doc))) /\ Len(groups) = last /\ last \in Nat
      /\ DOMAIN spec = 1..last /\ DOMAIN groups = 1..last
      /\ \A k \in 1..last :
            /\ groups[k] = ParseGroup(spec[k])
            /\ spec[k] \in Seq(Int) /\ Len(spec[k]) \in 1..2
            /\ \A i \in DOMAIN spec[k] : ParsePage(spec[k][i], Len(Doc))
  BY <1>1, <1>3, <1>4, RangesParsed
<1>6. ASSUME NEW k \in 1..last
      PROVE  /\ groups[k] \in Seq(1..Len(Doc)) /\ groups[k] # <<>>
             /\ groups[k][1] = spec[k][1] /\ groups[k][Len(groups[k])] = Last(spec[k])
             /\ \A i \in 1..(Len(groups[k]) - 1) :
                   groups[k][i + 1] - groups[k][i] = IF spec[k][1] < Last(spec[k]) THEN 1 ELSE -1
  <2> DEFINE group == spec[k]
  <2>1. /\ group \in Seq(Int) /\ Len(group) \in 1..2 /\ groups[k] = ParseGroup(group)
        /\ \A i \in DOMAIN group : ParsePage(group[i], Len(Doc))
    BY <1>5
  <2>2. Len(Doc) \in Nat  BY <1>1
  <2> HIDE DEF group, groups
  <2>3. /\ ParseGroup(group) \in Seq(1..Len(Doc)) /\ ParseGroup(group) # <<>>
        /\ ParseGroup(group)[1] = group[1]
        /\ ParseGroup(group)[Len(ParseGroup(group))] = Last(group)
        /\ \A i \in 1..(Len(ParseGroup(group)) - 1) :
              ParseGroup(group)[i + 1] - ParseGroup(group)[i] =
              IF group[1] < Last(group) THEN 1 ELSE -1
    BY <2>1, <2>2, GroupParsed
  <2> QED  BY <2>1, <2>3 DEF group
<1>7. \A k \in 1..last : parts[k] = ExtractPages(Doc, groups[k])  BY <1>5
<1>8. parts = [k \in 1..last |-> parts[k]]  BY <1>5
<1> HIDE DEF groups, parts, spec
<1>9. ASSUME NEW k \in 1..last
      PROVE  /\ parts[k] \in Seq(Page) /\ Len(parts[k]) = Len(groups[k]) /\ parts[k] # <<>>
             /\ \A i \in 1..Len(groups[k]) : parts[k][i] = Doc[groups[k][i]]
  <2> DEFINE group == groups[k]
             part == parts[k]
  <2>1. group \in Seq(1..Len(Doc)) /\ group # <<>>  BY <1>6
  <2>2. part = ExtractPages(Doc, group)  BY <1>7
  <2> HIDE DEF group, part
  <2>3. DOMAIN group = 1..Len(group) /\ Len(group) \in Nat \ {0}
        /\ \A i \in 1..Len(group) : group[i] \in 1..Len(Doc)
    BY <2>1
  <2>4. part = [i \in 1..Len(group) |-> Doc[group[i]]]  BY <2>2, <2>3 DEF ExtractPages
  <2>5. part \in [1..Len(group) -> Page]  BY <1>1, <2>3, <2>4
  <2>6. part \in Seq(Page) /\ Len(part) = Len(group)  BY <2>3, <2>5
  <2>7. part # <<>>  BY <2>3, <2>6
  <2>8. \A i \in 1..Len(group) : part[i] = Doc[group[i]]  BY <2>4
  <2> QED  BY <2>6, <2>7, <2>8 DEF group, part
<1>10. parts \in [1..last -> Seq(Page)]  BY <1>8, <1>9
<1>11. parts \in Seq(Seq(Page)) /\ Len(parts) = last /\ DOMAIN parts = 1..last
  <2>1. last \in Nat  BY <1>5
  <2> HIDE DEF last
  <2> QED  BY <1>10, <2>1
<1>12. PagesIn(parts) = PagesIn(groups)
  <2>1. \A n \in 1..Len(parts) : Len(parts[n]) = Len(groups[n])  BY <1>9, <1>11
  <2>2. Len(parts) = Len(groups)  BY <1>5, <1>11
  <2>3. parts \in Seq(Seq(Page)) /\ groups \in Seq(Seq(1..Len(Doc)))  BY <1>5, <1>11
  <2> QED  BY <2>1, <2>2, <2>3, SameLengths
<1>13. answer.parts = parts /\ answer.logged = PagesIn(groups)  BY <1>3, Answers
<1>14. LoggedPagesHandedOut  BY <1>9, <1>11, <1>12, <1>13 DEF LoggedPagesHandedOut
<1>15. ASSUME NEW k \in 1..last  PROVE RunsFrom(parts[k], spec[k][1], Last(spec[k]))
  <2> DEFINE group == groups[k]
             part == parts[k]
             a == spec[k][1]
             b == Last(spec[k])
             size == Len(group)
  <2>1. /\ group \in Seq(1..Len(Doc)) /\ group # <<>> /\ group[1] = a /\ group[size] = b
        /\ \A i \in 1..(size - 1) : group[i + 1] - group[i] = IF a < b THEN 1 ELSE -1
    BY <1>6
  <2>2. Len(part) = size /\ \A i \in 1..size : part[i] = Doc[group[i]]  BY <1>9
  <2> HIDE DEF group, part, a, b
  <2>3. size \in Nat \ {0} /\ \A i \in 1..size : group[i] \in 1..Len(Doc)  BY <2>1
  <2>4. part[1] = Doc[a] /\ part[Len(part)] = Doc[b]
    <3>1. 1 \in 1..size /\ size \in 1..size  BY <2>3
    <3> QED  BY <2>1, <2>2, <3>1
  <2>5. ASSUME NEW i \in 1..(size - 1)
        PROVE  part[i + 1].from - part[i].from = IF a < b THEN 1 ELSE -1
    <3>1. i \in 1..size /\ i + 1 \in 1..size  BY <2>3
    <3>2. part[i].from = group[i] /\ part[i + 1].from = group[i + 1]
      BY <1>1, <2>2, <2>3, <3>1
    <3> QED  BY <2>1, <3>2
  <2>6. RunsFrom(part, a, b)  BY <2>2, <2>4, <2>5 DEF RunsFrom
  <2> QED  BY <2>6 DEF part, a, b
<1>16. Divided
  <2>1. Len(answer.parts) = Len(request.spec)  BY <1>11, <1>13 DEF spec
  <2>2. DOMAIN request.spec = 1..Len(request.spec)  BY <1>5 DEF spec
  <2>3. \A g \in 1..Len(request.spec) :
           RunsFrom(answer.parts[g], request.spec[g][1], Last(request.spec[g]))
    BY <1>13, <1>15 DEF spec
  <2> QED  BY <2>1, <2>2, <2>3, Zenon DEF Divided
<1> QED  BY <1>14, <1>16

\* The merge endpoint: one file after another.
LEMMA MergeResult ==
    ASSUME IInv, Ok, request.tool = "merge"
    PROVE  Joined /\ LoggedPagesHandedOut
<1> DEFINE files == request.files
           docs == [k \in DOMAIN files |-> files[k].pages]
           result == FlattenSeq(docs)
<1>1. request \in Requests  BY DEF IInv
<1>2. /\ Len(files) \in Nat \ {0} /\ DOMAIN files = 1..Len(files)
      /\ \A i \in 1..Len(files) : files[i].pages \in Seq(Page)
  BY <1>1, Asked
<1>3. answer = Merge(files) /\ answer # Refused /\ answer # Early  BY Served, Answers DEF Ok
<1>4. /\ \A i \in DOMAIN files : Inspect(files[i])
      /\ PagesIn(docs) <= MaxPages /\ answer = Done(<<result>>, PagesIn(docs))
  BY <1>3 DEF Merge
<1>5. docs \in [1..Len(files) -> Seq(Page)]  BY <1>2
<1>6. \A k \in 1..Len(files) : docs[k] = files[k].pages  BY <1>2
<1>7. docs \in Seq(Seq(Page)) /\ Len(docs) = Len(files) /\ DOMAIN docs = 1..Len(files)
  BY <1>2, <1>5
<1> HIDE DEF docs
<1>8. /\ result \in Seq(Page) /\ Len(result) = PagesIn(docs) /\ PagesIn(docs) \in Nat
  BY <1>7, FlattenLength
<1>9. ASSUME NEW k \in DOMAIN docs, NEW i \in DOMAIN docs[k]
      PROVE  result[PagesIn(SubSeq(docs, 1, k - 1)) + i] = docs[k][i]
  <2>1. k \in 1..Len(docs)  BY <1>7
  <2>2. DOMAIN docs[k] = 1..Len(docs[k])  BY <1>7, <2>1
  <2> QED  BY SMTT(30), <1>7, <2>1, <2>2, FlattenPlaces
<1>10. result # <<>>
  <2>1. 1 \in 1..Len(docs)  BY <1>2, <1>7
  <2>2. Len(docs[1]) <= PagesIn(docs)  BY <1>7, <2>1, NoLongerThanAll
  <2>3. Len(docs[1]) \in 1..MaxPages  BY <1>2, <1>4, <1>6, <1>7, <2>1 DEF Inspect
  <2>4. Len(result) # 0  BY <1>8, <2>2, <2>3, BoundsAssumption
  <2> QED  BY <2>4
<1> HIDE DEF result
<1>11. LoggedPagesHandedOut /\ answer.parts[1] = result
  BY <1>4, <1>8, <1>10, OneHandedOut
<1>12. Len(answer.parts[1]) = PagesIn(docs) /\ PagesIn(docs) <= MaxPages
  BY <1>4, <1>8, <1>11
<1>13. \A k \in DOMAIN docs : \A i \in DOMAIN docs[k] :
          answer.parts[1][PagesIn(SubSeq(docs, 1, k - 1)) + i] = docs[k][i]
  BY <1>9, <1>11
<1> QED  BY <1>11, <1>12, <1>13, Zenon DEF Joined, docs

-----------------------------------------------------------------------------
\* No sound request is refused.

\* A list in which nothing is counted twice has no repetitions.
LEMMA CountedOnce ==
    ASSUME NEW V, NEW s \in Seq(V), \A p \in V : Count(s, p) <= 1
    PROVE  NoRepeats(s)
<1> SUFFICES ASSUME NEW i \in 1..Len(s), NEW j \in 1..Len(s), s[i] = s[j], i # j  PROVE FALSE
  BY DEF NoRepeats
<1> DEFINE p == s[i]
<1>1. p \in V /\ Len(s) \in Nat  OBVIOUS
<1>2. {i, j} \in SUBSET Places(s, p)  BY DEF Places
<1>3. IsFiniteSet(Places(s, p)) /\ Count(s, p) \in Nat  BY <1>1, PlacesFinite
<1>4. Cardinality({i, j}) <= Cardinality(Places(s, p))  BY <1>2, <1>3, FS_Subset
<1>5. Cardinality({i, j}) = 2
  <2> DEFINE one == {i}
  <2>1. IsFiniteSet(one) /\ Cardinality(one) = 1  BY FS_Singleton
  <2>2. {i, j} = one \cup {j} /\ j \notin one  OBVIOUS
  <2> HIDE DEF one
  <2>3. Cardinality(one \cup {j}) = Cardinality(one) + 1  BY <2>1, <2>2, FS_AddElement
  <2>4. Cardinality({i, j}) = Cardinality(one \cup {j})  BY <2>2, Zenon
  <2> QED  BY <2>1, <2>3, <2>4
<1> HIDE DEF p
<1>6. Count(s, p) <= 1  BY <1>1
<1> QED  BY <1>3, <1>4, <1>5, <1>6 DEF Count

\* The conditions of SoundRequestsGranted.
SoundRequest ==
    /\ \A i \in DOMAIN request.files : request.files[i].kind = "pdf"
    /\ PagesIn([i \in DOMAIN request.files |-> request.files[i].pages]) <= MaxPages
    /\ \A i \in DOMAIN request.files : request.files[i].pages # <<>>
    /\ Reasonable

\* Each file of a sound request passes inspect.
LEMMA SoundFiles ==
    ASSUME request \in Requests, SoundRequest
    PROVE  /\ \A i \in DOMAIN request.files : Inspect(request.files[i])
           /\ Inspect(request.files[1])
           /\ Doc \in Seq(Page) /\ Doc = request.files[1].pages
           /\ Len(Doc) \in Nat \ {0} /\ DOMAIN Doc = 1..Len(Doc)
<1> DEFINE files == request.files
           docs == [k \in DOMAIN files |-> files[k].pages]
<1>1. /\ Len(files) \in Nat \ {0} /\ DOMAIN files = 1..Len(files)
      /\ \A i \in 1..Len(files) : files[i].pages \in Seq(Page)
  BY Asked
<1>2. docs \in [1..Len(files) -> Seq(Page)]  BY <1>1
<1>3. \A k \in 1..Len(files) : docs[k] = files[k].pages  BY <1>1
<1>4. /\ PagesIn(docs) <= MaxPages
      /\ \A i \in 1..Len(files) : files[i].kind = "pdf" /\ files[i].pages # <<>>
  BY <1>1 DEF SoundRequest
<1> HIDE DEF docs
<1>5. docs \in Seq(Seq(Page)) /\ Len(docs) = Len(files)  BY <1>1, <1>2
<1>6. ASSUME NEW i \in 1..Len(files)  PROVE Inspect(files[i]) /\ Len(files[i].pages) \in Nat \ {0}
  <2>1. Len(docs[i]) <= PagesIn(docs) /\ PagesIn(docs) \in Nat
    BY <1>5, NoLongerThanAll, FlattenLength
  <2>2. Len(files[i].pages) \in Nat /\ Len(files[i].pages) # 0  BY <1>1, <1>4
  <2>3. Len(files[i].pages) \in 1..MaxPages  BY <1>3, <1>4, <2>1, <2>2, BoundsAssumption
  <2> QED  BY <1>4, <2>2, <2>3 DEF Inspect
<1>7. 1 \in 1..Len(files)  BY <1>1
<1>8. Doc \in Seq(Page) /\ Doc = files[1].pages  BY <1>1, <1>7 DEF Doc
<1>9. DOMAIN Doc = 1..Len(Doc)  BY <1>8
<1> QED  BY <1>1, <1>6, <1>7, <1>8, <1>9

\* Every number of a sound field is a page.
LEMMA SoundFieldAccepted ==
    ASSUME request \in Requests, SoundRequest, request.tool \in {"rotate", "delete", "split"}
    PROVE  AcceptsRanges(request.spec, Len(Doc)) /\ SpecOk(request.spec)
<1>1. Len(Doc) \in Nat \ {0} /\ DOMAIN Doc = 1..Len(Doc)  BY SoundFiles
<1>2. SpecOk(request.spec)  BY Asked
<1>3. /\ Len(request.spec) \in 1..MaxRanges
      /\ \A g \in DOMAIN request.spec : ToSet(request.spec[g]) \subseteq 1..Len(Doc)
  BY <1>1 DEF SoundRequest, Reasonable
<1>4. ASSUME NEW g \in DOMAIN request.spec, NEW i \in DOMAIN request.spec[g]
      PROVE  ParsePage(request.spec[g][i], Len(Doc))
  <2>1. request.spec[g][i] \in 1..Len(Doc)  BY <1>3 DEF ToSet
  <2> QED  BY <1>1, <2>1 DEF ParsePage, NotDigits
<1> QED  BY <1>2, <1>3, <1>4 DEF AcceptsRanges

\* A deletion that names no page twice and leaves one is not refused for its length.
LEMMA DeletionLeavesOne ==
    ASSUME request \in Requests, SoundRequest, request.tool = "delete"
    PROVE  Len(ParsePages(request.spec)) < Len(Doc)
<1> DEFINE pages == ParsePages(request.spec)
<1>1. Len(Doc) \in Nat \ {0} /\ DOMAIN Doc = 1..Len(Doc)  BY SoundFiles
<1>2. AcceptsRanges(request.spec, Len(Doc)) /\ SpecOk(request.spec)  BY SoundFieldAccepted
<1>3. /\ pages \in Seq(1..Len(Doc))
      /\ ToSet(pages) = {page \in 1..Len(Doc) : Naming(request.spec, page) # {}}
      /\ \A page \in 1..Len(Doc) : Count(pages, page) = Cardinality(Naming(request.spec, page))
  BY <1>1, <1>2, PagesParsed
<1> HIDE DEF pages
<1>4. Named # 1..Len(Doc) /\ \A p \in 1..Len(Doc) : Mentions(p) <= 1
  BY <1>1 DEF SoundRequest, Reasonable
<1>5. NoRepeats(pages)
  <2>1. \A p \in 1..Len(Doc) : Count(pages, p) <= 1  BY <1>3, <1>4, NamedIsNaming
  <2> QED  BY <1>3, <2>1, CountedOnce
<1>6. Cardinality(ToSet(pages)) = Len(pages)
  <2>1. pages \in Seq(1..Len(Doc))  BY <1>3
  <2> QED  BY <1>5, <2>1, RangeSize, Zenon
<1>7. ToSet(pages) # 1..Len(Doc) /\ ToSet(pages) \in SUBSET (1..Len(Doc))
  BY <1>3, <1>4, NamedIsNaming
<1>8. IsFiniteSet(1..Len(Doc)) /\ Cardinality(1..Len(Doc)) = Len(Doc)
  <2>1. /\ IsFiniteSet(1..Len(Doc))
        /\ Cardinality(1..Len(Doc)) = IF 1 > Len(Doc) THEN 0 ELSE Len(Doc) - 1 + 1
    BY <1>1, FS_Interval
  <2> QED  BY <1>1, <2>1
<1>9. /\ Cardinality(ToSet(pages)) <= Cardinality(1..Len(Doc))
      /\ Cardinality(1..Len(Doc)) = Cardinality(ToSet(pages)) => 1..Len(Doc) = ToSet(pages)
  BY <1>7, <1>8, FS_Subset
<1>10. Len(pages) \in Nat  BY <1>3
<1> QED  BY <1>1, <1>6, <1>7, <1>8, <1>9, <1>10 DEF pages

\* A sound request is answered with a result.
LEMMA SoundGranted ==
    ASSUME IInv, SoundRequest, answer = Produce(request)
    PROVE  answer.status = "ok"
<1> DEFINE f == request.files[1]
<1>1. request \in Requests  BY DEF IInv
<1>2. request.tool \in Tools  BY <1>1, Asked
<1>3. /\ \A i \in DOMAIN request.files : Inspect(request.files[i])
      /\ Inspect(f) /\ Doc = f.pages /\ DOMAIN Doc = 1..Len(Doc)
  BY <1>1, SoundFiles
<1> HIDE DEF f
<1>4. CASE request.tool = "merge"
  <2>1. /\ Len(request.files) \in 2..MaxFiles
        /\ PagesIn([i \in DOMAIN request.files |-> request.files[i].pages]) <= MaxPages
    BY <1>4 DEF SoundRequest, Reasonable
  <2>2. answer = Merge(request.files)  BY <1>4 DEF Produce
  <2> QED  BY <1>3, <2>1, <2>2, Answers DEF Merge
<1>5. CASE request.tool = "rotate"
  <2>1. answer = Rotate(f, request)  BY <1>3, <1>5 DEF Produce, f
  <2>2. request.degrees \in {90, 180, 270}  BY <1>5 DEF SoundRequest, Reasonable
  <2>3. AcceptsRanges(request.spec, Len(f.pages))  BY <1>1, <1>3, <1>5, SoundFieldAccepted
  <2> QED  BY <2>1, <2>2, <2>3, Answers DEF Rotate
<1>6. CASE request.tool = "delete"
  <2>1. answer = Trim(f, request)  BY <1>3, <1>6 DEF Produce, f
  <2>2. AcceptsRanges(request.spec, Len(f.pages))  BY <1>1, <1>3, <1>6, SoundFieldAccepted
  <2>3. Len(ParsePages(request.spec)) < Len(f.pages)  BY <1>1, <1>3, <1>6, DeletionLeavesOne
  <2> QED  BY <2>1, <2>2, <2>3, Answers DEF Trim
<1>7. CASE request.tool = "reorder"
  <2>1. answer = Reorder(f, request)  BY <1>3, <1>7 DEF Produce, f
  <2>2. Len(request.order) = Len(Doc) /\ ToSet(request.order) = DOMAIN Doc
    BY <1>7 DEF SoundRequest, Reasonable
  <2> QED  BY <1>3, <2>1, <2>2, Answers DEF Reorder
<1>8. CASE request.tool = "compress"
  <2>1. answer = Compress(f, request)  BY <1>3, <1>8 DEF Produce, f
  <2> QED  BY <2>1, Answers DEF Compress
<1>9. CASE request.tool = "split"
  <2>1. answer = Split(f, request)  BY <1>3, <1>9 DEF Produce, f
  <2>2. AcceptsRanges(request.spec, Len(f.pages))  BY <1>1, <1>3, <1>9, SoundFieldAccepted
  <2> QED  BY <2>1, <2>2, Answers DEF Split
<1>10. CASE request.tool = "text"
  <2>1. request.number \in DOMAIN f.pages  BY <1>3, <1>10 DEF SoundRequest, Reasonable
  <2>2. ~ request.number < 1
    <3>1. DOMAIN f.pages = 1..Len(f.pages) /\ Len(f.pages) \in Nat  BY <1>1, <1>3 DEF f
    <3> QED  BY <2>1, <3>1
  <2>3. answer = AddTextTo(f, request)  BY <1>3, <1>10, <2>2 DEF Produce, f
  <2> QED  BY <2>1, <2>3, Answers DEF AddTextTo
<1> QED  BY <1>2, <1>4, <1>5, <1>6, <1>7, <1>8, <1>9, <1>10 DEF Tools

-----------------------------------------------------------------------------
\* What every reachable state satisfies.

\* The answer is none yet, or the one the endpoint makes of the request.
LEMMA AnswerIsProduced == Spec => []IInv
<1>1. Init => IInv  BY DEF Init, IInv
<1>2. IInv /\ [Serve]_vars => IInv'
  <2> SUFFICES ASSUME IInv, [Serve]_vars  PROVE IInv'  OBVIOUS
  <2>1. CASE Serve  BY <2>1 DEF IInv, Serve
  <2>2. CASE UNCHANGED vars
    <3>1. request' = request /\ answer' = answer  BY <2>2 DEF vars
    <3> QED  BY <3>1 DEF IInv
  <2> QED  BY <2>1, <2>2
<1> QED  BY <1>1, <1>2, PTL DEF Spec

\* Every tool hands out exactly the pages asked for (operations.py): turned as often as
\* they were named, without the named ones, in the order given, a part for each range,
\* one file after another, or stamped on the one page.
THEOREM ResultAsAsked == Spec => []ResultIsWhatWasAsked
<1>1. IInv => ResultIsWhatWasAsked
  <2> SUFFICES ASSUME IInv, Ok
               PROVE  CASE request.tool = "rotate" -> Turned
                        [] request.tool = "delete" -> Trimmed
                        [] request.tool = "reorder" -> Reordered
                        [] request.tool = "split" -> Divided
                        [] request.tool = "merge" -> Joined
                        [] request.tool = "text" -> Stamped
                        [] OTHER -> answer.parts = <<Doc>>
    BY DEF ResultIsWhatWasAsked
  <2>1. request.tool \in Tools  BY Asked DEF IInv
  <2>2. CASE request.tool = "rotate"  BY <2>2, RotateResult
  <2>3. CASE request.tool = "delete"  BY <2>3, DeleteResult
  <2>4. CASE request.tool = "reorder"  BY <2>4, ReorderResult
  <2>5. CASE request.tool = "compress"  BY <2>5, CompressResult
  <2>6. CASE request.tool = "split"  BY <2>6, SplitResult
  <2>7. CASE request.tool = "merge"  BY <2>7, MergeResult
  <2>8. CASE request.tool = "text"  BY <2>8, TextResult
  <2> QED  BY <2>1, <2>2, <2>3, <2>4, <2>5, <2>6, <2>7, <2>8 DEF Tools
<1> QED  BY <1>1, AnswerIsProduced, PTL

\* The page count written to usage_logs is the number of pages handed out, and nothing
\* handed out is empty (pdf.py).
THEOREM LoggedAsHandedOut == Spec => []LoggedPagesHandedOut
<1>1. IInv => LoggedPagesHandedOut
  <2> SUFFICES ASSUME IInv, Ok  PROVE LoggedPagesHandedOut
    BY DEF LoggedPagesHandedOut
  <2>1. request.tool \in Tools  BY Asked DEF IInv
  <2> QED  BY <2>1, RotateResult, DeleteResult, ReorderResult, CompressResult, SplitResult,
              MergeResult, TextResult DEF Tools
<1> QED  BY <1>1, AnswerIsProduced, PTL

\* A request that makes sense for a file within the limits is never refused.
THEOREM SoundRequestsServed == Spec => []SoundRequestsGranted
<1>1. IInv => SoundRequestsGranted
  <2> SUFFICES ASSUME IInv, SoundRequest  PROVE answer.status \in {"waiting", "ok"}
    BY DEF SoundRequestsGranted, SoundRequest
  <2>1. CASE answer = Waiting  BY <2>1, Answers
  <2>2. CASE answer = Produce(request)  BY <2>2, SoundGranted
  <2> QED  BY <2>1, <2>2 DEF IInv
<1> QED  BY <1>1, AnswerIsProduced, PTL
=============================================================================
