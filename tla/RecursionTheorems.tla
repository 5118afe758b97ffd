------------------------- MODULE RecursionTheorems --------------------------
(***************************************************************************)
(* Induction over the natural numbers, and what a function or a sequence   *)
(* defined by recursion computes.                                          *)
(*                                                                         *)
(* A set stands for the property that is proved by induction, and          *)
(* functions for the steps of a recursion, so that each fact here is about *)
(* constants.                                                              *)
(***************************************************************************)
EXTENDS Integers, FiniteSets, SequencesExt, FiniteSetTheorems, SequenceTheorems,
        WellFoundedInduction, TLAPS

(* A set of natural numbers has a least one.                               *)
LEMMA LeastElement ==
    ASSUME NEW T, T \subseteq Nat, T # {}
    PROVE  \E x \in T : \A y \in T : x <= y
  <1> DEFINE R == OpToRel(<, Nat)
  <1>1. \A x, y \in Nat : y < x => <<y, x>> \in R
    BY DEF OpToRel
  <1>2. IsWellFoundedOn(R, Nat)
    BY NatLessThanWellFounded
  <1> HIDE DEF R
  <1>3. PICK x \in T : \A y \in T : ~(<<y, x>> \in R)
    BY <1>2, WFMin
  <1>4. \A y \in T : x \in Nat /\ y \in Nat
    OBVIOUS
  <1>5. \A y \in T : ~(y < x)
    BY <1>1, <1>3, <1>4
  <1>6. \A y \in T : x <= y
    BY <1>4, <1>5
  <1> QED
    BY <1>6

(* What holds of 0 and is kept by each successor holds of all numbers.     *)
LEMMA Induction ==
    ASSUME NEW T, 0 \in T, \A n \in Nat : n \in T => n + 1 \in T
    PROVE  Nat \subseteq T
  <1> SUFFICES ASSUME Nat \ T # {}
               PROVE  FALSE
    OBVIOUS
  <1> DEFINE missing == Nat \ T
  <1>1. missing \subseteq Nat /\ missing # {}
    OBVIOUS
  <1> HIDE DEF missing
  <1>2. PICK x \in missing : \A y \in missing : x <= y
    BY <1>1, LeastElement
  <1>3. x \in Nat \ {0} /\ x \notin T
    BY <1>2 DEF missing
  <1>4. x - 1 \in Nat /\ x - 1 \notin missing
    BY <1>2, <1>3
  <1>5. x - 1 \in T
    BY <1>4 DEF missing
  <1>6. (x - 1) + 1 \in T
    BY <1>4, <1>5
  <1> QED
    BY <1>3, <1>6

(* What holds at the beginning of an interval and is kept by each step in  *)
(* it holds throughout.                                                    *)
LEMMA InductionUpTo ==
    ASSUME NEW n \in Nat, NEW T, 0 \in T, \A i \in 0..(n - 1) : i \in T => i + 1 \in T
    PROVE  0..n \subseteq T
  <1> DEFINE U == {i \in Nat : i <= n => i \in T}
  <1>1. 0 \in U
    OBVIOUS
  <1>2. ASSUME NEW i \in Nat, i \in U
        PROVE  i + 1 \in U
    BY <1>2
  <1> HIDE DEF U
  <1>3. Nat \subseteq U
    BY <1>1, <1>2, Induction
  <1> QED
    BY <1>3 DEF U
-----------------------------------------------------------------------------
(* A function defined by recursion on an interval.                         *)
Follows(f, n, base, step) == f[0] = base /\ \A i \in 1..n : f[i] = step[i][f[i - 1]]

(* There is a function that follows any steps.                             *)
LEMMA RecursionExists ==
    ASSUME NEW S, NEW base \in S, NEW n \in Nat, NEW step \in [1..n -> [S -> S]]
    PROVE  \E f \in [0..n -> S] : Follows(f, n, base, step)
  <1> DEFINE T == {m \in 0..n : \E f \in [0..m -> S] : Follows(f, m, base, step)}
  <1>1. 0 \in T
    <2> DEFINE f == [i \in 0..0 |-> base]
    <2>1. f \in [0..0 -> S] /\ Follows(f, 0, base, step)
      BY DEF Follows
    <2> QED
      BY <2>1
  <1>2. ASSUME NEW m \in 0..(n - 1), m \in T
        PROVE  m + 1 \in T
    <2>0. m \in Nat /\ m + 1 \in 1..n
      OBVIOUS
    <2>1. PICK f \in [0..m -> S] : Follows(f, m, base, step)
      BY <1>2
    <2> DEFINE g == [i \in 0..(m + 1) |-> IF i = m + 1 THEN step[m + 1][f[m]] ELSE f[i]]
    <2>2. f[m] \in S /\ step[m + 1] \in [S -> S]
      BY <2>0, <2>1
    <2>3. g \in [0..(m + 1) -> S]
      BY <2>0, <2>2
    <2>4. g[0] = base
      BY <2>0, <2>1 DEF Follows
    <2>5. ASSUME NEW i \in 1..(m + 1)
          PROVE  g[i] = step[i][g[i - 1]]
      <3>1. CASE i = m + 1
        BY <2>0, <3>1
      <3>2. CASE i \in 1..m
        BY <2>0, <2>1, <3>2 DEF Follows
      <3> QED
        BY <2>0, <3>1, <3>2
    <2>6. Follows(g, m + 1, base, step)
      <3> HIDE DEF g
      <3> QED
        BY <2>4, <2>5 DEF Follows
    <2>7. m + 1 \in 0..n
      BY <2>0
    <2> HIDE DEF g
    <2> QED
      BY <2>3, <2>6, <2>7
  <1> HIDE DEF T
  <1>3. \A m \in 0..(n - 1) : m \in T => m + 1 \in T
    BY <1>2
  <1>4. 0..n \subseteq T
    BY <1>1, <1>3, InductionUpTo
  <1>5. n \in T
    BY <1>4
  <1> QED
    BY <1>5 DEF T
-----------------------------------------------------------------------------
(* Sequences one after another: what they are after each of them.          *)
LEMMA FlattenFollows ==
    ASSUME NEW V, NEW seqs \in Seq(Seq(V))
    PROVE  \E g \in [0..Len(seqs) -> Seq(V)] :
                /\ g[0] = <<>>
                /\ \A i \in 1..Len(seqs) : g[i] = g[i - 1] \o seqs[i]
                /\ FlattenSeq(seqs) = g[Len(seqs)]
  <1> DEFINE n == Len(seqs)
             Body(f) == [i \in 1..n |-> IF i = 1 THEN seqs[i] ELSE f[i - 1] \o seqs[i]]
             flatten == CHOOSE f : f = Body(f)
             step == [i \in 1..n |-> [s \in Seq(V) |-> s \o seqs[i]]]
  <1>0. n \in Nat /\ \A i \in 1..n : seqs[i] \in Seq(V)
    BY LenProperties, ElementOfSeq
  <1>1. step \in [1..n -> [Seq(V) -> Seq(V)]]
    BY <1>0, ConcatProperties
  <1>2. <<>> \in Seq(V)
    BY EmptySeq
  <1>3. \A i \in 1..n : \A s \in Seq(V) : step[i][s] = s \o seqs[i]
    OBVIOUS
  <1> HIDE DEF step, n
  <1>4. PICK h \in [0..n -> Seq(V)] : Follows(h, n, <<>>, step)
    BY <1>0, <1>1, <1>2, RecursionExists
  <1>5. /\ h[0] = <<>>
        /\ \A i \in 1..n : h[i - 1] \in Seq(V) /\ h[i] = h[i - 1] \o seqs[i]
    <2>1. h[0] = <<>>
      BY <1>4 DEF Follows
    <2>2. ASSUME NEW i \in 1..n
          PROVE  h[i - 1] \in Seq(V) /\ h[i] = h[i - 1] \o seqs[i]
      <3>1. i - 1 \in 0..n
        BY <1>0
      <3>2. h[i - 1] \in Seq(V)
        BY <1>4, <3>1
      <3>3. h[i] = step[i][h[i - 1]]
        BY <1>4 DEF Follows
      <3> QED
        BY <1>3, <3>2, <3>3
    <2> QED
      BY <2>1, <2>2
  <1>10. 1 \in 1..n => h[1] = seqs[1]
    <2>1. 1 - 1 = 0
      OBVIOUS
    <2>2. 1 \in 1..n => h[1] = <<>> \o seqs[1] /\ seqs[1] \in Seq(V)
      BY <1>0, <1>5, <2>1
    <2> QED
      BY <2>2, ConcatEmptySeq
  <1>6. \E f : f = Body(f)
    <2> DEFINE f == [i \in 1..n |-> h[i]]
    <2>1. ASSUME NEW i \in 1..n
          PROVE  f[i] = IF i = 1 THEN seqs[i] ELSE f[i - 1] \o seqs[i]
      <3>1. CASE i = 1
        BY <1>10, <3>1
      <3>2. CASE i # 1
        <4>1. i - 1 \in 1..n
          BY <1>0, <3>2
        <4>2. f[i - 1] = h[i - 1] /\ f[i] = h[i]
          BY <4>1
        <4> QED
          BY <1>5, <3>2, <4>2
      <3> QED
        BY <3>1, <3>2
    <2>2. f = Body(f)
      BY <2>1
    <2> QED
      BY <2>2
  <1>7. flatten = Body(flatten)
    <2> HIDE DEF Body
    <2> QED
      BY <1>6
  <1> DEFINE g == [i \in 0..n |-> IF i = 0 THEN <<>> ELSE flatten[i]]
  <1>8. CASE n = 0
    <2>1. seqs = <<>>
      BY <1>8, EmptySeq DEF n
    <2>2. FlattenSeq(seqs) = <<>>
      BY <2>1, EmptySeq DEF FlattenSeq
    <2> QED
      BY <1>5, <1>8, <2>2, <1>4 DEF n
  <1>9. CASE n # 0
    <2>1. FlattenSeq(seqs) = flatten[n]
      BY <1>9 DEF FlattenSeq, n
    <2> HIDE DEF flatten
    <2>2. \A i \in 1..n : flatten[i] = IF i = 1 THEN seqs[i] ELSE flatten[i - 1] \o seqs[i]
      BY <1>7
    <2> DEFINE T == {i \in 0..n : i = 0 \/ flatten[i] = h[i]}
    <2>3. 0 \in T
      BY <1>0
    <2>4. ASSUME NEW i \in 0..(n - 1), i \in T
          PROVE  i + 1 \in T
      <3>0. i + 1 \in 1..n /\ (i + 1) - 1 = i
        BY <1>0
      <3>1. CASE i = 0
        <4>1. i + 1 = 1 /\ 1 \in 1..n
          BY <3>0, <3>1
        <4>2. flatten[1] = seqs[1]
          BY <2>2, <4>1
        <4> QED
          BY <1>0, <1>10, <3>0, <4>1, <4>2
      <3>2. CASE i # 0
        <4>1. flatten[i] = h[i] /\ i + 1 # 1
          BY <2>4, <3>2
        <4>2. flatten[i + 1] = flatten[i] \o seqs[i + 1]
          BY <2>2, <3>0, <4>1
        <4>3. h[i + 1] = h[i] \o seqs[i + 1]
          BY <1>5, <3>0
        <4>4. flatten[i + 1] = h[i + 1]
          BY <4>1, <4>2, <4>3
        <4>5. i + 1 \in 0..n
          BY <1>0, <3>0
        <4> QED
          BY <4>4, <4>5
      <3> QED
        BY <3>1, <3>2
    <2> HIDE DEF T
    <2>5. \A i \in 0..(n - 1) : i \in T => i + 1 \in T
      BY <2>4
    <2>6. 0..n \subseteq T
      BY <1>0, <2>3, <2>5, InductionUpTo
    <2>7. n \in T
      BY <1>0, <2>6
    <2>8. flatten[n] = h[n]
      BY <1>9, <2>7 DEF T
    <2> QED
      BY <1>4, <1>5, <2>1, <2>8 DEF n
  <1> QED
    BY <1>8, <1>9

(* The elements of two sets in pairs, each in one of them.                 *)
Pairs(b, S, T) ==
    /\ b \in [S -> T]
    /\ \A x, y \in S : b[x] = b[y] => x = y
    /\ \A y \in T : \E x \in S : b[x] = y

(* Sets of which the elements are in pairs are equally large.              *)
LEMMA PairsCount ==
    ASSUME NEW S, NEW T, NEW b, IsFiniteSet(S), Pairs(b, S, T)
    PROVE  IsFiniteSet(T) /\ Cardinality(T) = Cardinality(S)
  <1>1. b \in Bijection(S, T)
    BY DEF Pairs, Bijection, Injection, Surjection, IsInjective
  <1>2. ExistsBijection(S, T)
    BY <1>1 DEF ExistsBijection
  <1> QED
    BY <1>2, FS_Bijection

(* Sequences of one element or none: what is left are the elements of those *)
(* that are not empty, in their order.                                     *)
LEMMA FlattenSingles ==
    ASSUME NEW V, NEW seqs \in Seq(Seq(V)), \A i \in 1..Len(seqs) : Len(seqs[i]) <= 1
    PROVE  /\ FlattenSeq(seqs) \in Seq(V)
           /\ \E b : /\ Pairs(b, 1..Len(FlattenSeq(seqs)),
                                {i \in 1..Len(seqs) : seqs[i] # <<>>})
                     /\ \A j \in 1..Len(FlattenSeq(seqs)) :
                            FlattenSeq(seqs)[j] = seqs[b[j]][1]
  <1> DEFINE n == Len(seqs)
             Full(k) == {i \in 1..k : seqs[i] # <<>>}
  <1>0. n \in Nat /\ \A i \in 1..n : seqs[i] \in Seq(V)
    BY LenProperties, ElementOfSeq
  <1>1. PICK g \in [0..n -> Seq(V)] :
            /\ g[0] = <<>>
            /\ \A i \in 1..n : g[i] = g[i - 1] \o seqs[i]
            /\ FlattenSeq(seqs) = g[n]
    BY FlattenFollows
  <1> DEFINE Picks(b, k) == /\ Pairs(b, 1..Len(g[k]), Full(k))
                            /\ \A j \in 1..Len(g[k]) : g[k][j] = seqs[b[j]][1]
             T == {k \in 0..n : \E b : Picks(b, k)}
  <1> HIDE DEF n
  <1>2. 0 \in T
    <2> DEFINE b == [j \in {} |-> j]
    <2>1. Full(0) = {} /\ 1..Len(g[0]) = {}
      BY <1>1, EmptySeq
    <2>2. Pairs(b, 1..Len(g[0]), Full(0))
      BY <2>1 DEF Pairs
    <2>3. \A j \in 1..Len(g[0]) : g[0][j] = seqs[b[j]][1]
      BY <2>1
    <2> HIDE DEF b
    <2>4. Picks(b, 0) /\ 0 \in 0..n
      BY <1>0, <2>2, <2>3
    <2> HIDE DEF Picks
    <2> QED
      BY <2>4
  <1>3. ASSUME NEW k \in 0..(n - 1), k \in T
        PROVE  k + 1 \in T
    <2>0. k \in Nat /\ k + 1 \in 1..n /\ k \in 0..n /\ (k + 1) - 1 = k /\ k + 1 \in 0..n
      BY <1>0
    <2>1. PICK b : Picks(b, k)
      BY <1>3
    <2> DEFINE L == Len(g[k])
               last == seqs[k + 1]
    <2>2. /\ g[k] \in Seq(V) /\ last \in Seq(V) /\ g[k + 1] = g[k] \o last
          /\ L \in Nat /\ Len(last) \in {0, 1}
      <3>1. g[k] \in Seq(V) /\ last \in Seq(V) /\ g[k + 1] = g[k] \o last
        BY <1>0, <1>1, <2>0
      <3>2. L \in Nat /\ Len(last) \in Nat /\ Len(last) <= 1
        BY <2>0, <3>1, LenProperties DEF n
      <3> HIDE DEF last, L
      <3>3. \A l \in Nat : l <= 1 => l \in {0, 1}
        OBVIOUS
      <3> QED
        BY <3>1, <3>2, <3>3
    <2> HIDE DEF last
    <2>3. CASE last = <<>>
      <3>1. g[k + 1] = g[k]
        BY <2>2, <2>3, ConcatEmptySeq
      <3>2. Full(k + 1) = Full(k)
        BY <2>0, <2>3 DEF last
      <3>3. Picks(b, k + 1)
        BY <2>1, <3>1, <3>2
      <3> QED
        BY <2>0, <3>3
    <2>4. CASE last # <<>>
      <3> DEFINE c == [j \in 1..(L + 1) |-> IF j = L + 1 THEN k + 1 ELSE b[j]]
      <3>1. Len(last) = 1
        BY <2>2, <2>4, EmptySeq
      <3>2. /\ Len(g[k + 1]) = L + 1
            /\ \A j \in 1..(L + 1) : g[k + 1][j] = IF j = L + 1 THEN last[1] ELSE g[k][j]
        <4>1. /\ Len(g[k + 1]) = L + 1
              /\ \A j \in 1..(L + 1) : g[k + 1][j] = IF j <= L THEN g[k][j] ELSE last[j - L]
          <5> HIDE DEF c
          <5>1. /\ Len(g[k] \o last) = L + 1
                /\ \A j \in 1..(L + 1) : (g[k] \o last)[j] = IF j <= L THEN g[k][j]
                                                             ELSE last[j - L]
            <6>1. /\ Len(g[k] \o last) = Len(g[k]) + Len(last)
                  /\ \A j \in 1..(Len(g[k]) + Len(last)) :
                        (g[k] \o last)[j] = IF j <= Len(g[k]) THEN g[k][j]
                                           ELSE last[j - Len(g[k])]
              BY <2>2, ConcatProperties
            <6> QED
              BY <3>1, <6>1
          <5> QED
            BY <2>2, <5>1
        <4>2. ASSUME NEW j \in 1..(L + 1)
              PROVE  /\ j = L + 1 => j - L = 1 /\ ~(j <= L)
                     /\ j # L + 1 => j <= L
          BY <2>2
        <4> QED
          BY <4>1, <4>2
      <3>3. Full(k + 1) = Full(k) \cup {k + 1} /\ k + 1 \notin Full(k)
        BY <2>0, <2>4 DEF last
      <3>4. /\ b \in [1..L -> Full(k)]
            /\ \A i, j \in 1..L : b[i] = b[j] => i = j
            /\ \A m \in Full(k) : \E j \in 1..L : b[j] = m
            /\ \A j \in 1..L : g[k][j] = seqs[b[j]][1]
        <4> HIDE DEF c, Full
        <4> QED
          BY <2>1 DEF Pairs
      <3> HIDE DEF Full, L
      <3>5. /\ L + 1 \in 1..(L + 1) /\ 1..L \subseteq 1..(L + 1)
            /\ \A j \in 1..(L + 1) : j # L + 1 <=> j \in 1..L
        BY <2>2
      <3>6. c \in [1..(L + 1) -> Full(k + 1)]
        BY <3>3, <3>4, <3>5
      <3>7. \A i, j \in 1..(L + 1) : c[i] = c[j] => i = j
        BY <3>3, <3>4, <3>5
      <3>8. \A m \in Full(k + 1) : \E j \in 1..(L + 1) : c[j] = m
        BY <3>3, <3>4, <3>5
      <3>9. \A j \in 1..(L + 1) : g[k + 1][j] = seqs[c[j]][1]
        BY <3>2, <3>4, <3>5 DEF last
      <3> HIDE DEF c
      <3>10. Pairs(c, 1..(L + 1), Full(k + 1))
        BY <3>6, <3>7, <3>8 DEF Pairs
      <3>11. Picks(c, k + 1)
        BY <3>2, <3>9, <3>10
      <3> QED
        BY <2>0, <3>11
    <2> QED
      BY <2>3, <2>4
  <1> HIDE DEF T
  <1>4. \A k \in 0..(n - 1) : k \in T => k + 1 \in T
    BY <1>3
  <1>5. 0..n \subseteq T
    BY <1>0, <1>2, <1>4, InductionUpTo
  <1>6. n \in T
    BY <1>0, <1>5
  <1>7. PICK b : Picks(b, n)
    BY <1>6 DEF T
  <1>8. g[n] \in Seq(V) /\ FlattenSeq(seqs) = g[n] /\ Full(n) = {i \in 1..Len(seqs) : seqs[i] # <<>>}
    BY <1>0, <1>1 DEF n
  <1> HIDE DEF Full
  <1> QED
    BY <1>7, <1>8
=============================================================================
