--------------------------- MODULE InductionLemmas ---------------------------
(***************************************************************************)
(* Induction over the natural numbers as a fact about sets, and what it     *)
(* gives for operators of the community modules that are defined by         *)
(* recursion or by CHOOSE.                                                  *)
(***************************************************************************)
EXTENDS SequencesExt, FiniteSetTheorems, SequenceTheorems, TLAPS

\* Every set of numbers that is not empty has a least one.
LEMMA LeastNumber ==
    ASSUME NEW T \in SUBSET Nat, T # {}
    PROVE  \E x \in T : \A y \in T : x <= y
<1> DEFINE Below == {pair \in Nat \X Nat : pair[1] < pair[2]}
<1>1. IsWellFoundedOn(Below, Nat)
  <2>1. OpToRel(<, Nat) = Below
    BY DEF OpToRel
  <2> QED
    BY <2>1, NatLessThanWellFounded
<1>2. \A x, y \in Nat : y < x => <<y, x>> \in Below
  OBVIOUS
<1> HIDE DEF Below
<1>3. PICK x \in T : \A y \in T : <<y, x>> \notin Below
  BY <1>1, WFMin
<1>4. ASSUME NEW y \in T PROVE x <= y
  <2>1. ~(y < x)
    BY <1>2, <1>3, Zenon
  <2> QED
    BY <2>1
<1> QED
  BY <1>4

\* What holds of 0, and of each number's successor, holds of all of them.
LEMMA Induction ==
    ASSUME NEW T, 0 \in T, \A n \in Nat : n \in T => n + 1 \in T
    PROVE  Nat \subseteq T
<1> SUFFICES ASSUME Nat \ T # {} PROVE FALSE
  OBVIOUS
<1>1. PICK x \in Nat \ T : \A y \in Nat \ T : x <= y
  BY LeastNumber
<1>2. x # 0 /\ x - 1 \in Nat /\ x - 1 \in T
  BY <1>1
<1> QED
  BY <1>1, <1>2

\* A set of numbers that has a bound has a greatest one.
LEMMA GreatestNumber ==
    ASSUME NEW n \in Nat, NEW I, I \subseteq 1..n, I # {}
    PROVE  Max(I) \in I /\ \A i \in I : i <= Max(I)
<1> DEFINE Room == {m \in Nat : n - m \in I}
<1>1. PICK x \in Room : \A y \in Room : x <= y
  <2>1. Room # {}
    <3>1. PICK i \in I : TRUE
      OBVIOUS
    <3>2. n - i \in Nat /\ n - (n - i) = i
      BY <3>1
    <3> QED
      BY <3>1, <3>2
  <2> QED
    BY <2>1, LeastNumber
<1>2. n - x \in I /\ \A i \in I : n - x >= i
  <2>1. ASSUME NEW i \in I PROVE n - x >= i
    <3>1. n - i \in Nat /\ n - (n - i) = i
      OBVIOUS
    <3>2. n - i \in Room
      BY <3>1
    <3>3. x \in Nat /\ x <= n - i
      BY <1>1, <3>2
    <3> HIDE DEF Room
    <3> QED
      BY <3>1, <3>3
  <2> QED
    BY <1>1, <2>1
<1> QED
  BY <1>2 DEF Max

\* And a set of numbers that is not empty, a least one.
LEMMA LeastOfSet ==
    ASSUME NEW I \in SUBSET Nat, I # {}
    PROVE  Min(I) \in I /\ \A i \in I : Min(I) <= i
<1>1. PICK x \in I : \A y \in I : x <= y
  BY LeastNumber
<1> QED
  BY <1>1 DEF Min

\* What holds of the empty sequence, and of each longer by one, holds of all.
LEMMA SequenceInduction ==
    ASSUME NEW S, NEW T, <<>> \in T,
           \A s \in Seq(S) : \A c \in S : s \in T => Append(s, c) \in T
    PROVE  Seq(S) \subseteq T
<1> DEFINE Lengths == {n \in Nat : \A s \in Seq(S) : Len(s) = n => s \in T}
<1>1. 0 \in Lengths
  <2>1. \A s \in Seq(S) : Len(s) = 0 => s = <<>>
    OBVIOUS
  <2> QED
    BY <2>1
<1>2. ASSUME NEW n \in Nat, n \in Lengths PROVE n + 1 \in Lengths
  <2>1. ASSUME NEW s \in Seq(S), Len(s) = n + 1 PROVE s \in T
    <3>1. s # <<>>
      BY <2>1
    <3>2. PICK r \in Seq(S), c \in S : s = Append(r, c)
      BY <3>1, SequenceEmptyOrAppend
    <3>3. Len(r) = n
      <4>1. Len(Append(r, c)) = Len(r) + 1 /\ Len(r) \in Nat
        BY AppendProperties
      <4> QED
        BY <2>1, <3>2, <4>1
    <3> QED
      BY <1>2, <3>2, <3>3
  <2> QED
    BY <2>1
<1>3. Nat \subseteq Lengths
  <2> HIDE DEF Lengths
  <2> QED
    BY <1>1, <1>2, Induction
<1> QED
  BY <1>3

\* What is where in two sequences put one after the other.
LEMMA ConcatParts ==
    ASSUME NEW S, NEW s \in Seq(S), NEW t \in Seq(S)
    PROVE  /\ s \o t \in Seq(S) /\ Len(s \o t) = Len(s) + Len(t)
           /\ \A i \in 1..Len(s) : (s \o t)[i] = s[i]
           /\ \A i \in 1..Len(t) : (s \o t)[Len(s) + i] = t[i]
OBVIOUS

\* f begins with base, and step leads from each value to the next.
Recurs(f, n, S, base, step) ==
    f \in [0..n -> S] /\ f[0] = base /\ \A i \in 1..n : f[i] = step[i][f[i - 1]]

\* A function may be defined by recursion up to a bound.
LEMMA Recursion ==
    ASSUME NEW n \in Nat, NEW S, NEW base \in S, NEW step \in [1..n -> [S -> S]]
    PROVE  \E f : Recurs(f, n, S, base, step)
<1> DEFINE Fits(f, m) == f[0] = base /\ \A i \in 1..m : f[i] = step[i][f[i - 1]]
           Some == {m \in Nat : m <= n => \E f \in [0..m -> S] : Fits(f, m)}
<1>1. 0 \in Some
  <2> DEFINE f == [i \in 0..0 |-> base]
  <2>1. f \in [0..0 -> S] /\ Fits(f, 0)
    OBVIOUS
  <2> HIDE DEF f, Fits
  <2> QED
    BY <2>1
<1>2. ASSUME NEW m \in Nat, m \in Some PROVE m + 1 \in Some
  <2> SUFFICES ASSUME m + 1 <= n PROVE \E f \in [0..m + 1 -> S] : Fits(f, m + 1)
    OBVIOUS
  <2>1. PICK g \in [0..m -> S] : Fits(g, m)
    BY <1>2
  <2>2. m + 1 \in 1..n /\ g[m] \in S
    OBVIOUS
  <2>3. step[m + 1][g[m]] \in S
    BY <2>2
  <2> DEFINE f == [i \in 0..m + 1 |-> IF i <= m THEN g[i] ELSE step[m + 1][g[m]]]
  <2>4. f \in [0..m + 1 -> S]
    <3>1. ASSUME NEW i \in 0..m + 1, i <= m PROVE g[i] \in S
      BY <3>1
    <3> QED
      BY <2>3, <3>1
  <2>5. f[0] = base
    BY <2>1
  <2>6. ASSUME NEW i \in 1..m + 1 PROVE f[i] = step[i][f[i - 1]]
    <3>1. CASE i <= m
      <4>1. i \in 1..m /\ f[i] = g[i] /\ f[i - 1] = g[i - 1]
        BY <3>1
      <4> HIDE DEF f
      <4> QED
        BY <2>1, <4>1
    <3>2. CASE i = m + 1
      <4>1. f[i] = step[m + 1][g[m]] /\ f[i - 1] = g[m]
        BY <3>2
      <4> HIDE DEF f
      <4> QED
        BY <3>2, <4>1
    <3> QED
      BY <3>1, <3>2
  <2> HIDE DEF f
  <2> QED
    BY <2>4, <2>5, <2>6
<1>3. Nat \subseteq Some
  <2> HIDE DEF Some
  <2> QED
    BY <1>1, <1>2, Induction
<1>4. PICK f \in [0..n -> S] : Fits(f, n)
  BY <1>3
<1> QED
  BY <1>4 DEF Recurs

\* The function that FlattenSeq and its recursion define.
FlatUpTo(seqs) ==
    CHOOSE f : f = [i \in 1..Len(seqs) |-> IF i = 1 THEN seqs[i] ELSE f[i - 1] \o seqs[i]]

LEMMA FlattenRecursion ==
    ASSUME NEW S, NEW seqs \in Seq(Seq(S)), Len(seqs) # 0
    PROVE  /\ FlattenSeq(seqs) = FlatUpTo(seqs)[Len(seqs)]
           /\ FlatUpTo(seqs)[1] = seqs[1]
           /\ \A n \in Nat : n + 2 <= Len(seqs) =>
                FlatUpTo(seqs)[n + 2] = FlatUpTo(seqs)[n + 1] \o seqs[n + 2]
<1> DEFINE Flat(f, n) == f = [i \in 1..n |-> IF i = 1 THEN seqs[i] ELSE f[i - 1] \o seqs[i]]
           flat == CHOOSE f : Flat(f, Len(seqs))
           Some == {n \in Nat : \E f1 : Flat(f1, n)}
<1>1. Nat \subseteq Some
  <2>1. 0 \in Some
    <3>1. Flat([i \in 1..0 |-> 0], 0)
      OBVIOUS
    <3> QED
      BY <3>1
  <2>2. ASSUME NEW n \in Nat, n \in Some PROVE n + 1 \in Some
    <3>1. PICK g : Flat(g, n)
      BY <2>2
    <3> DEFINE h == [i \in 1..(n + 1) |->
                        IF i <= n THEN g[i] ELSE IF i = 1 THEN seqs[i] ELSE g[i - 1] \o seqs[i]]
    <3>2. ASSUME NEW i \in 1..(n + 1)
          PROVE  h[i] = IF i = 1 THEN seqs[i] ELSE h[i - 1] \o seqs[i]
      <4>1. CASE i <= n
        <5>1. h[i] = g[i] /\ (i # 1 => h[i - 1] = g[i - 1])
          BY <4>1
        <5>2. i \in 1..n
          BY <4>1
        <5>3. g[i] = IF i = 1 THEN seqs[i] ELSE g[i - 1] \o seqs[i]
          BY <3>1, <5>2
        <5> QED
          BY <5>1, <5>3
      <4>2. CASE i = n + 1
        <5>1. i # 1 => h[i - 1] = g[i - 1]
          BY <4>2
        <5> QED
          BY <4>2, <5>1
      <4> QED
        BY <4>1, <4>2
    <3>3. Flat(h, n + 1)
      <4>1. DOMAIN h = 1..(n + 1) /\ h = [i \in 1..(n + 1) |-> h[i]]
        OBVIOUS
      <4> HIDE DEF h
      <4> QED
        BY <3>2, <4>1
    <3> HIDE DEF Flat, h
    <3> QED
      BY <3>3
  <2> QED
    BY <2>1, <2>2, Induction
<1>2. Flat(flat, Len(seqs))
  <2>1. Len(seqs) \in Nat
    OBVIOUS
  <2>2. \E f1 : Flat(f1, Len(seqs))
    BY <1>1, <2>1
  <2> HIDE DEF Flat
  <2> QED
    BY <2>2
<1>3. /\ flat[1] = seqs[1]
      /\ \A n \in Nat : n + 2 <= Len(seqs) => flat[n + 2] = flat[n + 1] \o seqs[n + 2]
  <2> HIDE DEF flat
  <2>1. \A i \in 1..Len(seqs) : flat[i] = IF i = 1 THEN seqs[i] ELSE flat[i - 1] \o seqs[i]
    BY <1>2
  <2>2. ASSUME NEW n \in Nat, n + 2 <= Len(seqs) PROVE flat[n + 2] = flat[n + 1] \o seqs[n + 2]
    <3>1. n + 2 \in 1..Len(seqs) /\ n + 2 # 1 /\ (n + 2) - 1 = n + 1
      BY <2>2
    <3> QED
      BY <2>1, <3>1
  <2>3. 1 \in 1..Len(seqs)
    OBVIOUS
  <2> HIDE DEF Flat, Some
  <2> QED
    BY <2>1, <2>2, <2>3
<1>4. FlattenSeq(seqs) = flat[Len(seqs)]
  BY DEF FlattenSeq
<1> QED
  BY <1>3, <1>4 DEF FlatUpTo

\* Sequences put one after the other consist of their elements.
LEMMA FlattenSeqType ==
    ASSUME NEW S, NEW seqs \in Seq(Seq(S))
    PROVE  FlattenSeq(seqs) \in Seq(S)
<1>1. CASE Len(seqs) = 0
  BY <1>1 DEF FlattenSeq
<1>2. CASE Len(seqs) # 0
  <2> DEFINE flat == FlatUpTo(seqs)
             Good == {n \in Nat : n + 1 <= Len(seqs) => flat[n + 1] \in Seq(S)}
  <2>1. /\ FlattenSeq(seqs) = flat[Len(seqs)] /\ flat[1] = seqs[1]
        /\ \A n \in Nat : n + 2 <= Len(seqs) => flat[n + 2] = flat[n + 1] \o seqs[n + 2]
    BY <1>2, FlattenRecursion
  <2> HIDE DEF flat
  <2>2. \A n \in Nat : n + 1 <= Len(seqs) => seqs[n + 1] \in Seq(S)
    OBVIOUS
  <2>3. 0 \in Good
    BY <2>1, <2>2
  <2>4. ASSUME NEW n \in Nat, n \in Good PROVE n + 1 \in Good
    <3> SUFFICES ASSUME n + 2 <= Len(seqs) PROVE flat[n + 2] \in Seq(S)
      OBVIOUS
    <3>1. flat[n + 1] \in Seq(S) /\ seqs[n + 2] \in Seq(S)
      BY <2>2, <2>4
    <3>2. flat[n + 2] = flat[n + 1] \o seqs[n + 2]
      BY <2>1
    <3> QED
      BY <3>1, <3>2
  <2>5. Nat \subseteq Good
    <3> HIDE DEF Good
    <3> QED
      BY <2>3, <2>4, Induction
  <2>6. Len(seqs) \in Nat /\ Len(seqs) - 1 \in Nat
    BY <1>2
  <2>7. Len(seqs) - 1 \in Good
    BY <2>5, <2>6
  <2> QED
    BY <2>1, <2>6, <2>7
<1> QED
  BY <1>1, <1>2

\* The last of them comes last.
LEMMA FlattenSeqAppend ==
    ASSUME NEW S, NEW seqs \in Seq(Seq(S)), NEW last \in Seq(S)
    PROVE  FlattenSeq(Append(seqs, last)) = FlattenSeq(seqs) \o last
<1> DEFINE long == Append(seqs, last)
           N == Len(seqs)
           f == FlatUpTo(seqs)
           g == FlatUpTo(long)
<1>1. /\ long \in Seq(Seq(S)) /\ Len(long) = N + 1 /\ N \in Nat /\ long[N + 1] = last
      /\ \A i \in 1..N : long[i] = seqs[i]
  BY AppendProperties
<1> HIDE DEF long, g
<1>2. /\ FlattenSeq(long) = g[N + 1] /\ g[1] = long[1]
      /\ \A n \in Nat : n + 2 <= N + 1 => g[n + 2] = g[n + 1] \o long[n + 2]
  <2>1. long \in Seq(Seq(S)) /\ Len(long) # 0
    BY <1>1
  <2>2. /\ FlattenSeq(long) = FlatUpTo(long)[Len(long)] /\ FlatUpTo(long)[1] = long[1]
        /\ \A n \in Nat : n + 2 <= Len(long) =>
              FlatUpTo(long)[n + 2] = FlatUpTo(long)[n + 1] \o long[n + 2]
    BY <2>1, FlattenRecursion
  <2> QED
    BY <1>1, <2>2 DEF g
<1>3. CASE N = 0
  <2>1. FlattenSeq(seqs) = <<>>
    BY <1>3 DEF FlattenSeq
  <2>2. FlattenSeq(long) = last
    BY <1>1, <1>2, <1>3
  <2> QED
    BY <2>1, <2>2 DEF long
<1>4. CASE N # 0
  <2>1. /\ FlattenSeq(seqs) = f[N] /\ f[1] = seqs[1]
        /\ \A n \in Nat : n + 2 <= N => f[n + 2] = f[n + 1] \o seqs[n + 2]
    BY <1>4, FlattenRecursion
  <2> HIDE DEF f
  <2> DEFINE Same == {n \in Nat : n + 1 <= N => f[n + 1] = g[n + 1]}
  <2>2. 0 \in Same
    BY <1>1, <1>2, <1>4, <2>1
  <2>3. ASSUME NEW n \in Nat, n \in Same PROVE n + 1 \in Same
    <3> SUFFICES ASSUME n + 2 <= N PROVE f[n + 2] = g[n + 2]
      OBVIOUS
    <3>1. f[n + 1] = g[n + 1] /\ n + 2 \in 1..N /\ n + 2 <= N + 1
      BY <1>1, <2>3
    <3> QED
      BY <1>1, <1>2, <2>1, <3>1
  <2>4. Nat \subseteq Same
    <3> HIDE DEF Same
    <3> QED
      BY <2>2, <2>3, Induction
  <2>5. N - 1 \in Nat /\ (N - 1) + 2 = N + 1 /\ (N - 1) + 1 = N
    BY <1>1, <1>4
  <2>6. f[N] = g[N]
    <3>1. N - 1 \in Same
      BY <2>4, <2>5
    <3> QED
      BY <1>1, <2>5, <3>1
  <2>7. g[N + 1] = g[N] \o long[N + 1]
    <3> DEFINE M == N - 1
    <3>1. M \in Nat /\ M + 2 = N + 1 /\ M + 1 = N
      BY <2>5
    <3>2. \A n \in Nat : n + 2 <= N + 1 => g[n + 2] = g[n + 1] \o long[n + 2]
      BY <1>2
    <3> HIDE DEF M, N
    <3>3. M + 2 <= N + 1
      BY <1>1, <3>1
    <3>4. g[M + 2] = g[M + 1] \o long[M + 2]
      BY <3>1, <3>2, <3>3, Zenon
    <3> QED
      BY <3>1, <3>4
  <2> QED
    BY <1>1, <1>2, <2>1, <2>6, <2>7 DEF long
<1> QED
  BY <1>3, <1>4
=============================================================================
