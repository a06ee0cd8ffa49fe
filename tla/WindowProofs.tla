----------------------------- MODULE WindowProofs -----------------------------
(***************************************************************************)
(* Theorems about the rows of the window: how utl::tty cuts a line.  They    *)
(* are by induction over lines, one cell after the other.                    *)
(***************************************************************************)
EXTENDS LoggingProofs

-----------------------------------------------------------------------------
(* The cells of a line at some of its places, one cell further. *)

\* The function that Cells and its recursion define.
CellsUpTo(line, places) ==
    CHOOSE upTo : upTo = [n \in 0..Len(line) |->
                            IF n = 0 THEN <<>>
                            ELSE IF n \in places THEN Append(upTo[n - 1], line[n])
                            ELSE upTo[n - 1]]

\* What the recursion does with the cells it has.
CellsStep(S, line, places) ==
    [n \in 1..Len(line) |-> [r \in Seq(S) |-> IF n \in places THEN Append(r, line[n]) ELSE r]]

LEMMA CellsRecursion ==
    ASSUME NEW S, NEW line \in Seq(S), NEW places
    PROVE  /\ Cells(line, places) = CellsUpTo(line, places)[Len(line)]
           /\ CellsUpTo(line, places) \in [0..Len(line) -> Seq(S)]
           /\ CellsUpTo(line, places)[0] = <<>>
           /\ \A n \in 1..Len(line) :
                CellsUpTo(line, places)[n]
                = IF n \in places THEN Append(CellsUpTo(line, places)[n - 1], line[n])
                  ELSE CellsUpTo(line, places)[n - 1]
<1> DEFINE Fits(f) == f = [n \in 0..Len(line) |->
                            IF n = 0 THEN <<>>
                            ELSE IF n \in places THEN Append(f[n - 1], line[n])
                            ELSE f[n - 1]]
           step == CellsStep(S, line, places)
           upTo == CellsUpTo(line, places)
<1>1. Len(line) \in Nat /\ \A n \in 1..Len(line) : line[n] \in S
  OBVIOUS
<1>2. step \in [1..Len(line) -> [Seq(S) -> Seq(S)]]
  BY <1>1 DEF CellsStep
<1>3. <<>> \in Seq(S)
  OBVIOUS
<1>4. PICK f : Recurs(f, Len(line), Seq(S), <<>>, step)
  <2> HIDE DEF step
  <2> QED
    BY <1>1, <1>2, <1>3, Recursion
<1>5. /\ f \in [0..Len(line) -> Seq(S)] /\ f[0] = <<>>
      /\ \A n \in 1..Len(line) :
            f[n] = IF n \in places THEN Append(f[n - 1], line[n]) ELSE f[n - 1]
  <2>1. /\ f \in [0..Len(line) -> Seq(S)] /\ f[0] = <<>>
        /\ \A n \in 1..Len(line) : f[n] = step[n][f[n - 1]]
    BY <1>4 DEF Recurs
  <2>2. ASSUME NEW n \in 1..Len(line)
        PROVE  step[n][f[n - 1]] = IF n \in places THEN Append(f[n - 1], line[n]) ELSE f[n - 1]
    <3>1. n - 1 \in 0..Len(line)
      BY <1>1
    <3> QED
      BY <2>1, <3>1 DEF CellsStep
  <2> HIDE DEF step
  <2> QED
    BY <2>1, <2>2
<1>6. Fits(f)
  <2>1. \A n \in 0..Len(line) : n = 0 \/ n \in 1..Len(line)
    BY <1>1
  <2> QED
    BY <1>5, <2>1
<1>7. Fits(upTo)
  <2>1. upTo = CHOOSE g : Fits(g)
    BY DEF CellsUpTo
  <2> HIDE DEF Fits
  <2> QED
    BY <1>6, <2>1
<1>8. Cells(line, places) = upTo[Len(line)]
  BY DEF Cells, CellsUpTo
<1> HIDE DEF upTo
<1>9. upTo[0] = <<>> /\ \A n \in 1..Len(line) :
        upTo[n] = IF n \in places THEN Append(upTo[n - 1], line[n]) ELSE upTo[n - 1]
  <2>1. \A n \in 0..Len(line) :
            upTo[n] = IF n = 0 THEN <<>>
                      ELSE IF n \in places THEN Append(upTo[n - 1], line[n]) ELSE upTo[n - 1]
    BY <1>7
  <2>2. 0 \in 0..Len(line) /\ \A n \in 1..Len(line) : n \in 0..Len(line) /\ n # 0
    BY <1>1
  <2> HIDE DEF Fits
  <2> QED
    BY <2>1, <2>2
<1>10. upTo = f
  <2> DEFINE Same == {n \in Nat : n <= Len(line) => upTo[n] = f[n]}
  <2>2. 0 \in Same
    BY <1>5, <1>9
  <2>3. ASSUME NEW n \in Nat, n \in Same PROVE n + 1 \in Same
    <3> SUFFICES ASSUME n + 1 <= Len(line) PROVE upTo[n + 1] = f[n + 1]
      OBVIOUS
    <3>1. n + 1 \in 1..Len(line) /\ (n + 1) - 1 = n /\ upTo[n] = f[n]
      BY <1>1, <2>3
    <3> QED
      BY <1>5, <1>9, <3>1
  <2>4. Nat \subseteq Same
    <3> HIDE DEF Same
    <3> QED
      BY <2>2, <2>3, Induction
  <2>5. \A n \in 0..Len(line) : upTo[n] = f[n]
    BY <2>4
  <2>6. DOMAIN upTo = 0..Len(line) /\ upTo = [n \in DOMAIN upTo |-> upTo[n]]
    BY <1>7
  <2>7. DOMAIN f = 0..Len(line) /\ f = [n \in DOMAIN f |-> f[n]]
    BY <1>5
  <2> QED
    BY <2>5, <2>6, <2>7
<1> QED
  BY <1>5, <1>8, <1>9, <1>10 DEF upTo

LEMMA CellsEmpty ==
    ASSUME NEW S, NEW places PROVE Cells(<<>>, places) = <<>>
<1>1. ASSUME NEW line \in Seq(S), Len(line) = 0 PROVE Cells(line, places) = <<>>
  <2>1. /\ Cells(line, places) = CellsUpTo(line, places)[Len(line)]
        /\ CellsUpTo(line, places)[0] = <<>>
    BY CellsRecursion
  <2> QED
    BY <1>1, <2>1
<1>2. <<>> \in Seq(S) /\ Len(<<>>) = 0
  OBVIOUS
<1> QED
  BY <1>1, <1>2

LEMMA CellsAppend ==
    ASSUME NEW S, NEW line \in Seq(S), NEW c \in S, NEW places
    PROVE  /\ Cells(line, places) \in Seq(S)
           /\ Cells(Append(line, c), places)
              = IF Len(line) + 1 \in places THEN Append(Cells(line, places), c)
                ELSE Cells(line, places)
<1> DEFINE long == Append(line, c)
           n == Len(line)
           f == CellsUpTo(line, places)
           g == CellsUpTo(long, places)
<1>1. /\ n \in Nat /\ long \in Seq(S) /\ Len(long) = n + 1 /\ long[n + 1] = c
      /\ \A i \in 1..n : long[i] = line[i]
  BY AppendProperties
<1> HIDE DEF long
<1>2. /\ Cells(line, places) = f[n] /\ f[0] = <<>> /\ f \in [0..n -> Seq(S)]
      /\ \A i \in 1..n : f[i] = IF i \in places THEN Append(f[i - 1], line[i]) ELSE f[i - 1]
  <2>1. /\ Cells(line, places) = f[Len(line)] /\ f[0] = <<>> /\ f \in [0..Len(line) -> Seq(S)]
        /\ \A i \in 1..Len(line) :
                f[i] = IF i \in places THEN Append(f[i - 1], line[i]) ELSE f[i - 1]
    BY CellsRecursion
  <2> HIDE DEF f
  <2> QED
    BY <2>1
<1>3. /\ Cells(long, places) = g[n + 1] /\ g[0] = <<>>
      /\ \A i \in 1..n + 1 : g[i] = IF i \in places THEN Append(g[i - 1], long[i]) ELSE g[i - 1]
  <2>1. /\ Cells(long, places) = g[Len(long)] /\ g[0] = <<>>
        /\ \A i \in 1..Len(long) :
                g[i] = IF i \in places THEN Append(g[i - 1], long[i]) ELSE g[i - 1]
    <3>1. long \in Seq(S)
      BY <1>1
    <3> QED
      BY <3>1, CellsRecursion
  <2> HIDE DEF g
  <2> QED
    BY <1>1, <2>1
<1> HIDE DEF n, f, g
<1> DEFINE Same == {i \in Nat : i <= n => f[i] = g[i]}
<1>4. 0 \in Same
  BY <1>2, <1>3
<1>5. ASSUME NEW i \in Nat, i \in Same PROVE i + 1 \in Same
  <2> SUFFICES ASSUME i + 1 <= n PROVE f[i + 1] = g[i + 1]
    OBVIOUS
  <2>1. i + 1 \in 1..n /\ i + 1 \in 1..n + 1 /\ (i + 1) - 1 = i /\ f[i] = g[i]
    BY <1>1, <1>5
  <2> QED
    BY <1>1, <1>2, <1>3, <2>1
<1>6. Nat \subseteq Same
  <2> HIDE DEF Same
  <2> QED
    BY <1>4, <1>5, Induction
<1>7. f[n] = g[n] /\ n + 1 \in 1..n + 1 /\ (n + 1) - 1 = n
  BY <1>1, <1>6
<1>8. g[n + 1] = IF n + 1 \in places THEN Append(g[n], c) ELSE g[n]
  BY <1>1, <1>3, <1>7
<1>9. f[n] \in Seq(S)
  BY <1>1, <1>2
<1> QED
  BY <1>2, <1>3, <1>7, <1>8, <1>9 DEF n, long

\* Places beyond the line's end do not count.
LEMMA CellsWithin ==
    ASSUME NEW S, NEW line \in Seq(S), NEW P, NEW Q,
           \A i \in 1..Len(line) : i \in P <=> i \in Q
    PROVE  Cells(line, P) = Cells(line, Q)
<1> DEFINE T == {s \in Seq(S) : (\A i \in 1..Len(s) : i \in P <=> i \in Q)
                                => Cells(s, P) = Cells(s, Q)}
<1>1. <<>> \in T
  BY CellsEmpty
<1>2. ASSUME NEW s \in Seq(S), NEW c \in S, s \in T PROVE Append(s, c) \in T
  <2>1. /\ Append(s, c) \in Seq(S) /\ Len(Append(s, c)) = Len(s) + 1 /\ Len(s) \in Nat
    BY AppendProperties
  <2> SUFFICES ASSUME \A i \in 1..Len(s) + 1 : i \in P <=> i \in Q
               PROVE  Cells(Append(s, c), P) = Cells(Append(s, c), Q)
    BY <2>1
  <2>2. Cells(s, P) = Cells(s, Q) /\ (Len(s) + 1 \in P <=> Len(s) + 1 \in Q)
    BY <1>2, <2>1
  <2>3. /\ Cells(Append(s, c), P) = IF Len(s) + 1 \in P THEN Append(Cells(s, P), c) ELSE Cells(s, P)
        /\ Cells(Append(s, c), Q) = IF Len(s) + 1 \in Q THEN Append(Cells(s, Q), c) ELSE Cells(s, Q)
    BY CellsAppend
  <2> QED
    BY <2>2, <2>3
<1>3. Seq(S) \subseteq T
  <2> HIDE DEF T
  <2> QED
    BY <1>1, <1>2, SequenceInduction
<1> QED
  BY <1>3

\* With the line's new end and without it.
LEMMA CellsGrow ==
    ASSUME NEW S, NEW line \in Seq(S), NEW c \in S, NEW P, P \subseteq 1..Len(line)
    PROVE  /\ Cells(Append(line, c), P \cup {Len(line) + 1}) = Append(Cells(line, P), c)
           /\ Cells(Append(line, c), P) = Cells(line, P)
<1>1. Len(line) \in Nat /\ Len(line) + 1 \notin P
  OBVIOUS
<1>2. Cells(line, P \cup {Len(line) + 1}) = Cells(line, P)
  <2>1. \A i \in 1..Len(line) : i \in P \cup {Len(line) + 1} <=> i \in P
    BY <1>1
  <2> QED
    BY <2>1, CellsWithin
<1>3. \A R : Cells(Append(line, c), R) = IF Len(line) + 1 \in R THEN Append(Cells(line, R), c)
                                         ELSE Cells(line, R)
  BY CellsAppend
<1> QED
  BY <1>1, <1>2, <1>3

-----------------------------------------------------------------------------
(* Widths and escapes, one cell further. *)

LEMMA EscapesGrow ==
    ASSUME NEW S, NEW line \in Seq(S), NEW c \in S
    PROVE  /\ Escapes(line) \subseteq 1..Len(line)
           /\ Escapes(Append(line, c)) = IF c \in Csi THEN Escapes(line) \cup {Len(line) + 1}
                                         ELSE Escapes(line)
<1> DEFINE n == Len(line)
<1>1. /\ DOMAIN Append(line, c) = 1..n + 1 /\ Append(line, c)[n + 1] = c /\ n \in Nat
      /\ \A i \in 1..n : Append(line, c)[i] = line[i]
      /\ DOMAIN line = 1..n
  BY AppendProperties
<1>2. \A i : i \in 1..n + 1 <=> i \in 1..n \/ i = n + 1
  BY <1>1
<1> HIDE DEF n
<1> QED
  BY <1>1, <1>2 DEF Escapes, n

LEMMA WidthEmpty == Width(<<>>) = 0
<1>1. DOMAIN <<>> \ Escapes(<<>>) = {}
  OBVIOUS
<1> QED
  BY <1>1, FS_EmptySet DEF Width

LEMMA WidthGrow ==
    ASSUME NEW S, NEW line \in Seq(S), NEW c \in S
    PROVE  /\ Width(line) \in Nat
           /\ Width(Append(line, c)) = IF c \in Csi THEN Width(line) ELSE Width(line) + 1
<1> DEFINE n == Len(line)
           seen1 == DOMAIN line \ Escapes(line)
           seen2 == DOMAIN Append(line, c) \ Escapes(Append(line, c))
<1>1. n \in Nat /\ DOMAIN line = 1..n /\ DOMAIN Append(line, c) = 1..n + 1
  BY AppendProperties
<1>2. seen1 \subseteq 1..n
  BY <1>1
<1>3. seen2 = IF c \in Csi THEN seen1 ELSE seen1 \cup {n + 1}
  <2>1. /\ Escapes(line) \subseteq 1..n
        /\ Escapes(Append(line, c)) = IF c \in Csi THEN Escapes(line) \cup {n + 1}
                                      ELSE Escapes(line)
    BY EscapesGrow
  <2>2. \A i : i \in 1..n + 1 <=> i \in 1..n \/ i = n + 1
    BY <1>1
  <2>3. n + 1 \notin 1..n
    BY <1>1
  <2> HIDE DEF n
  <2> QED
    BY <1>1, <2>1, <2>2, <2>3
<1>4. Width(line) = Cardinality(seen1) /\ Width(Append(line, c)) = Cardinality(seen2)
  BY DEF Width
<1> HIDE DEF n, seen1, seen2
<1>5. Cardinality(seen1) \in 0..n /\ Cardinality(seen1 \cup {n + 1}) = Cardinality(seen1) + 1
  BY <1>1, <1>2, OneMore
<1> QED
  BY <1>1, <1>3, <1>4, <1>5

LEMMA WidthConcat ==
    ASSUME NEW S, NEW left \in Seq(S), NEW right \in Seq(S)
    PROVE  Width(left \o right) = Width(left) + Width(right)
<1> DEFINE T == {s \in Seq(S) : Width(left \o s) = Width(left) + Width(s)}
<1>1. <<>> \in T
  <2>1. left \o <<>> = left /\ Width(left) \in Nat
    <3>1. CASE S = {}
      <4>1. left = <<>>
        BY <3>1
      <4> QED
        BY <4>1, WidthEmpty
    <3>2. CASE S # {}
      <4>1. PICK c \in S : TRUE
        BY <3>2
      <4> QED
        BY <4>1, WidthGrow
    <3> QED
      BY <3>1, <3>2
  <2> QED
    BY <2>1, WidthEmpty
<1>2. ASSUME NEW s \in Seq(S), NEW c \in S, s \in T PROVE Append(s, c) \in T
  <2>1. left \o Append(s, c) = Append(left \o s, c) /\ left \o s \in Seq(S)
    OBVIOUS
  <2>2. /\ Width(left \o s) \in Nat /\ Width(s) \in Nat /\ Width(left) \in Nat
        /\ Width(Append(left \o s, c)) = IF c \in Csi THEN Width(left \o s) ELSE Width(left \o s) + 1
        /\ Width(Append(s, c)) = IF c \in Csi THEN Width(s) ELSE Width(s) + 1
    BY <2>1, WidthGrow
  <2>3. Width(left \o s) = Width(left) + Width(s) /\ Append(s, c) \in Seq(S)
    BY <1>2
  <2>4. Width(left \o Append(s, c)) = Width(left) + Width(Append(s, c))
    <3>1. CASE c \in Csi
      BY <2>1, <2>2, <2>3, <3>1
    <3>2. CASE c \notin Csi
      <4>1. Width(Append(left \o s, c)) = Width(left) + Width(s) + 1
        BY <2>2, <2>3, <3>2
      <4>2. Width(Append(s, c)) = Width(s) + 1
        BY <2>2, <3>2
      <4> QED
        BY <2>1, <2>2, <4>1, <4>2
    <3> QED
      BY <3>1, <3>2
  <2> QED
    BY <2>3, <2>4
<1>3. Seq(S) \subseteq T
  <2> HIDE DEF T
  <2> QED
    BY <1>1, <1>2, SequenceInduction
<1> QED
  BY <1>3

\* A cell after two lines is a cell after the second of them.
AppendsToSecond(left, right, c) == Append(left \o right, c) = left \o Append(right, c)

LEMMA AppendToSecond ==
    ASSUME NEW S, NEW left \in Seq(S), NEW right \in Seq(S), NEW c \in S
    PROVE  AppendsToSecond(left, right, c)
BY DEF AppendsToSecond

\* The escapes of a line, in its order.
EscapeCells(line) == Cells(line, Escapes(line))

LEMMA EscapeCellsGrow ==
    ASSUME NEW S, NEW line \in Seq(S), NEW c \in S
    PROVE  /\ EscapeCells(line) \in Seq(S)
           /\ EscapeCells(Append(line, c)) = IF c \in Csi THEN Append(EscapeCells(line), c)
                                             ELSE EscapeCells(line)
<1>1. /\ Escapes(line) \subseteq 1..Len(line)
      /\ Escapes(Append(line, c)) = IF c \in Csi THEN Escapes(line) \cup {Len(line) + 1}
                                    ELSE Escapes(line)
  BY EscapesGrow
<1>2. Cells(line, Escapes(line)) \in Seq(S)
  BY CellsAppend
<1>3. /\ Cells(Append(line, c), Escapes(line) \cup {Len(line) + 1})
         = Append(Cells(line, Escapes(line)), c)
      /\ Cells(Append(line, c), Escapes(line)) = Cells(line, Escapes(line))
  <2> DEFINE P == Escapes(line)
  <2>1. P \subseteq 1..Len(line)
    BY <1>1
  <2> HIDE DEF P
  <2>2. /\ Cells(Append(line, c), P \cup {Len(line) + 1}) = Append(Cells(line, P), c)
        /\ Cells(Append(line, c), P) = Cells(line, P)
    BY <2>1, CellsGrow, Zenon
  <2> QED
    BY <2>2 DEF P
<1> QED
  BY <1>1, <1>2, <1>3 DEF EscapeCells

LEMMA EscapeCellsConcat ==
    ASSUME NEW S, NEW left \in Seq(S), NEW right \in Seq(S), S # {}
    PROVE  EscapeCells(left \o right) = EscapeCells(left) \o EscapeCells(right)
<1> DEFINE T == {s \in Seq(S) : EscapeCells(left \o s) = EscapeCells(left) \o EscapeCells(s)}
<1>1. <<>> \in T
  <2>1. PICK c \in S : TRUE
    OBVIOUS
  <2>2. EscapeCells(left) \in Seq(S)
    BY <2>1, EscapeCellsGrow
  <2>3. EscapeCells(<<>>) = <<>>
    BY CellsEmpty DEF EscapeCells
  <2>4. left \o <<>> = left /\ EscapeCells(left) \o <<>> = EscapeCells(left)
    BY <2>2
  <2>5. EscapeCells(left \o <<>>) = EscapeCells(left) \o EscapeCells(<<>>)
    BY <2>3, <2>4
  <2> QED
    BY <2>5
<1>2. ASSUME NEW s \in Seq(S), NEW c \in S, s \in T PROVE Append(s, c) \in T
  <2>1. /\ left \o Append(s, c) = Append(left \o s, c) /\ left \o s \in Seq(S)
        /\ Append(s, c) \in Seq(S)
    OBVIOUS
  <2>2. /\ EscapeCells(left) \in Seq(S) /\ EscapeCells(s) \in Seq(S)
        /\ EscapeCells(Append(left \o s, c))
           = IF c \in Csi THEN Append(EscapeCells(left \o s), c) ELSE EscapeCells(left \o s)
        /\ EscapeCells(Append(s, c)) = IF c \in Csi THEN Append(EscapeCells(s), c)
                                       ELSE EscapeCells(s)
    BY <2>1, EscapeCellsGrow
  <2>3. EscapeCells(left \o s) = EscapeCells(left) \o EscapeCells(s)
    BY <1>2
  <2>4. Append(EscapeCells(left) \o EscapeCells(s), c) = EscapeCells(left) \o Append(EscapeCells(s), c)
    <3>1. AppendsToSecond(EscapeCells(left), EscapeCells(s), c)
      BY <2>2, AppendToSecond
    <3> QED
      BY <3>1 DEF AppendsToSecond
  <2> QED
    BY <2>1, <2>2, <2>3, <2>4
<1>3. Seq(S) \subseteq T
  <2> HIDE DEF T
  <2> QED
    BY <1>1, <1>2, SequenceInduction
<1> QED
  BY <1>3

-----------------------------------------------------------------------------
(* The cut. *)

\* What comes before the cut, and the escapes that come behind it.
Kept(line, cut) == Cells(line, Before(line, cut))
Rest(line, cut) == Cells(line, Behind(line, cut))

\* The line's beginnings, one cell further.
LEMMA BeginningsGrow ==
    ASSUME NEW S, NEW line \in Seq(S), NEW c \in S
    PROVE  /\ \A i \in 1..Len(line) : SubSeq(Append(line, c), 1, i) = SubSeq(line, 1, i)
           /\ SubSeq(Append(line, c), 1, Len(line) + 1) = Append(line, c)
<1> DEFINE long == Append(line, c)
<1>1. /\ long \in Seq(S) /\ Len(long) = Len(line) + 1 /\ Len(line) \in Nat
      /\ \A i \in 1..Len(line) : long[i] = line[i] /\ line[i] \in S
  BY AppendProperties
<1> HIDE DEF long
<1>2. ASSUME NEW i \in 1..Len(line) PROVE SubSeq(long, 1, i) = SubSeq(line, 1, i)
  <2>1. i \in Int /\ 1 <= i /\ i - 1 + 1 = i /\ \A j \in 1..i : long[j] = line[j] /\ line[j] \in S
    BY <1>1
  <2>2. /\ SubSeq(line, 1, i) \in Seq(S) /\ Len(SubSeq(line, 1, i)) = i
        /\ \A j \in 1..i : SubSeq(line, 1, i)[j] = line[1 + j - 1]
    BY <2>1, SubSeqProperties
  <2>3. /\ SubSeq(long, 1, i) \in Seq(S) /\ Len(SubSeq(long, 1, i)) = i
        /\ \A j \in 1..i : SubSeq(long, 1, i)[j] = long[1 + j - 1]
    BY <2>1, SubSeqProperties
  <2>4. \A j \in 1..i : SubSeq(long, 1, i)[j] = SubSeq(line, 1, i)[j]
    <3>1. \A j \in 1..i : 1 + j - 1 = j
      BY <2>1
    <3> QED
      BY <2>1, <2>2, <2>3, <3>1
  <2> QED
    BY <2>2, <2>3, <2>4, SeqEqual
<1>3. SubSeq(long, 1, Len(long)) = long
  BY <1>1, SubSeqFull
<1> QED
  BY <1>1, <1>2, <1>3 DEF long

LEMMA OneMorePlace ==
    ASSUME NEW n \in Nat, NEW A, NEW B, A \subseteq 1..n, B \subseteq 1..n + 1,
           \A i \in 1..n : i \in B <=> i \in A
    PROVE  B = IF n + 1 \in B THEN A \cup {n + 1} ELSE A
<1>1. \A i : i \in 1..n + 1 <=> i \in 1..n \/ i = n + 1
  OBVIOUS
<1>2. CASE n + 1 \in B
  <2>1. B = A \cup {n + 1}
    BY <1>1, <1>2
  <2> QED
    BY <1>2, <2>1
<1>3. CASE n + 1 \notin B
  <2>1. B = A
    BY <1>1, <1>3
  <2> QED
    BY <1>3, <2>1
<1> QED
  BY <1>2, <1>3

LEMMA PlacesGrow ==
    ASSUME NEW S, NEW line \in Seq(S), NEW c \in S, NEW cut \in Nat
    PROVE  /\ Before(line, cut) \subseteq 1..Len(line)
           /\ Behind(line, cut) \subseteq 1..Len(line)
           /\ Before(Append(line, c), cut) = IF Width(line) < cut
                                            THEN Before(line, cut) \cup {Len(line) + 1}
                                            ELSE Before(line, cut)
           /\ Behind(Append(line, c), cut) = IF c \in Csi /\ ~(Width(line) < cut)
                                            THEN Behind(line, cut) \cup {Len(line) + 1}
                                            ELSE Behind(line, cut)
<1> DEFINE n == Len(line)
           long == Append(line, c)
           old(i) == Width(SubSeq(line, 1, i))
           new(i) == Width(SubSeq(long, 1, i))
<1>1. n \in Nat /\ DOMAIN line = 1..n /\ DOMAIN long = 1..n + 1
  BY AppendProperties
<1>2. \A i : i \in 1..n + 1 <=> i \in 1..n \/ i = n + 1
  BY <1>1
<1>3. n + 1 \notin 1..n
  BY <1>1
<1>4. /\ \A i \in 1..n : new(i) = old(i)
      /\ new(n + 1) = Width(long)
  BY BeginningsGrow
<1>5. Width(line) \in Nat /\ Width(long) = IF c \in Csi THEN Width(line) ELSE Width(line) + 1
  BY WidthGrow
<1>6. /\ Escapes(line) \subseteq 1..n
      /\ Escapes(long) = IF c \in Csi THEN Escapes(line) \cup {n + 1} ELSE Escapes(line)
  BY EscapesGrow
<1>7. /\ Before(line, cut) = {i \in 1..n : IF i \in Escapes(line) THEN old(i) < cut ELSE old(i) <= cut}
      /\ Before(long, cut) = {i \in 1..n + 1 : IF i \in Escapes(long) THEN new(i) < cut ELSE new(i) <= cut}
      /\ Behind(line, cut) = {i \in Escapes(line) : old(i) >= cut}
      /\ Behind(long, cut) = {i \in Escapes(long) : new(i) >= cut}
  BY <1>1 DEF Before, Behind
<1> HIDE DEF n, long, old, new
<1>8. \A i \in 1..n : (i \in Before(long, cut) <=> i \in Before(line, cut))
                     /\ (i \in Behind(long, cut) <=> i \in Behind(line, cut))
  BY <1>2, <1>3, <1>4, <1>6, <1>7
<1>9. n + 1 \in Before(long, cut) <=> Width(line) < cut
  <2>1. n + 1 \in Escapes(long) <=> c \in Csi
    BY <1>3, <1>6
  <2>2. n + 1 \in Before(long, cut) <=> IF c \in Csi THEN Width(long) < cut ELSE Width(long) <= cut
    BY <1>2, <1>4, <1>7, <2>1
  <2>3. Width(line) + 1 <= cut <=> Width(line) < cut
    BY <1>5
  <2> QED
    BY <1>5, <2>2, <2>3
<1>10. n + 1 \in Behind(long, cut) <=> c \in Csi /\ ~(Width(line) < cut)
  <2>1. n + 1 \in Escapes(long) <=> c \in Csi
    BY <1>3, <1>6
  <2>2. n + 1 \in Behind(long, cut) <=> c \in Csi /\ Width(long) >= cut
    BY <1>4, <1>7, <2>1
  <2> QED
    BY <1>5, <2>2
<1>11. /\ Before(line, cut) \subseteq 1..n /\ Behind(line, cut) \subseteq 1..n
       /\ Before(long, cut) \subseteq 1..n + 1 /\ Behind(long, cut) \subseteq 1..n + 1
  BY <1>2, <1>6, <1>7
<1>12. Before(long, cut) = IF Width(line) < cut THEN Before(line, cut) \cup {n + 1}
                           ELSE Before(line, cut)
  <2>1. Before(long, cut) = IF n + 1 \in Before(long, cut) THEN Before(line, cut) \cup {n + 1}
                            ELSE Before(line, cut)
    BY <1>1, <1>8, <1>11, OneMorePlace
  <2> QED
    BY <1>9, <2>1
<1>13. Behind(long, cut) = IF c \in Csi /\ ~(Width(line) < cut)
                           THEN Behind(line, cut) \cup {n + 1} ELSE Behind(line, cut)
  <2>1. Behind(long, cut) = IF n + 1 \in Behind(long, cut) THEN Behind(line, cut) \cup {n + 1}
                            ELSE Behind(line, cut)
    BY <1>1, <1>8, <1>11, OneMorePlace
  <2> QED
    BY <1>10, <2>1
<1> QED
  BY <1>11, <1>12, <1>13 DEF n, long

LEMMA CutGrows ==
    ASSUME NEW S, NEW line \in Seq(S), NEW c \in S, NEW cut \in Nat
    PROVE  /\ Kept(line, cut) \in Seq(S) /\ Rest(line, cut) \in Seq(S)
           /\ Kept(Append(line, c), cut) = IF Width(line) < cut THEN Append(Kept(line, cut), c)
                                          ELSE Kept(line, cut)
           /\ Rest(Append(line, c), cut) = IF c \in Csi /\ ~(Width(line) < cut)
                                          THEN Append(Rest(line, cut), c) ELSE Rest(line, cut)
<1> DEFINE P == Before(line, cut)
           Q == Behind(line, cut)
<1>1. /\ P \subseteq 1..Len(line) /\ Q \subseteq 1..Len(line)
      /\ Before(Append(line, c), cut) = IF Width(line) < cut THEN P \cup {Len(line) + 1} ELSE P
      /\ Behind(Append(line, c), cut) = IF c \in Csi /\ ~(Width(line) < cut)
                                       THEN Q \cup {Len(line) + 1} ELSE Q
  BY PlacesGrow
<1>2. Kept(line, cut) = Cells(line, P) /\ Rest(line, cut) = Cells(line, Q)
  BY DEF Kept, Rest
<1> HIDE DEF P, Q
<1>3. Cells(line, P) \in Seq(S) /\ Cells(line, Q) \in Seq(S)
  BY CellsAppend
<1>4. /\ Cells(Append(line, c), P \cup {Len(line) + 1}) = Append(Cells(line, P), c)
      /\ Cells(Append(line, c), P) = Cells(line, P)
  BY <1>1, CellsGrow, Zenon
<1>5. /\ Cells(Append(line, c), Q \cup {Len(line) + 1}) = Append(Cells(line, Q), c)
      /\ Cells(Append(line, c), Q) = Cells(line, Q)
  BY <1>1, CellsGrow, Zenon
<1> QED
  BY <1>1, <1>2, <1>3, <1>4, <1>5 DEF Kept, Rest

\* Before the cut there is no more than the cut, behind it nothing visible,
\* and together they have the line's escapes in its order.
CutWell(line, cut) ==
    /\ Width(Kept(line, cut)) <= cut /\ Width(Kept(line, cut)) <= Width(line)
    /\ Width(Rest(line, cut)) = 0
    /\ Width(line) < cut => Rest(line, cut) = <<>>
    /\ EscapeCells(Kept(line, cut)) \o EscapeCells(Rest(line, cut)) = EscapeCells(line)

LEMMA CutIsWell ==
    ASSUME NEW S, NEW line \in Seq(S), NEW cut \in Nat
    PROVE  CutWell(line, cut)
<1> DEFINE T == {s \in Seq(S) : CutWell(s, cut)}
<1>1. <<>> \in T
  <2>1. /\ Kept(<<>>, cut) = <<>> /\ Rest(<<>>, cut) = <<>> /\ EscapeCells(<<>>) = <<>>
        /\ Width(<<>>) = 0
    BY CellsEmpty, WidthEmpty DEF Kept, Rest, EscapeCells
  <2>2. CutWell(<<>>, cut)
    <3>1. <<>> \o <<>> = <<>> /\ 0 <= cut /\ 0 <= 0
      OBVIOUS
    <3> QED
      BY <2>1, <3>1, Zenon DEF CutWell
  <2> QED
    BY <2>2
<1>2. ASSUME NEW s \in Seq(S), NEW c \in S, s \in T PROVE Append(s, c) \in T
  <2> DEFINE long == Append(s, c)
             kept == Kept(s, cut)
             rest == Rest(s, cut)
  <2>1. /\ kept \in Seq(S) /\ rest \in Seq(S) /\ long \in Seq(S)
        /\ Kept(long, cut) = IF Width(s) < cut THEN Append(kept, c) ELSE kept
        /\ Rest(long, cut) = IF c \in Csi /\ ~(Width(s) < cut) THEN Append(rest, c) ELSE rest
    BY CutGrows
  <2>2. /\ Width(kept) <= cut /\ Width(kept) <= Width(s) /\ Width(rest) = 0
        /\ Width(s) < cut => rest = <<>>
        /\ EscapeCells(kept) \o EscapeCells(rest) = EscapeCells(s)
    BY <1>2 DEF CutWell
  <2>3. /\ Width(s) \in Nat /\ Width(long) = IF c \in Csi THEN Width(s) ELSE Width(s) + 1
        /\ EscapeCells(s) \in Seq(S)
        /\ EscapeCells(long) = IF c \in Csi THEN Append(EscapeCells(s), c) ELSE EscapeCells(s)
    BY WidthGrow, EscapeCellsGrow
  <2> HIDE DEF kept, rest, long
  <2>4. /\ Width(kept) \in Nat /\ Width(Append(kept, c)) = IF c \in Csi THEN Width(kept) ELSE Width(kept) + 1
        /\ EscapeCells(kept) \in Seq(S)
        /\ EscapeCells(Append(kept, c)) = IF c \in Csi THEN Append(EscapeCells(kept), c)
                                          ELSE EscapeCells(kept)
    BY <2>1, WidthGrow, EscapeCellsGrow
  <2>5. /\ Width(Append(rest, c)) = IF c \in Csi THEN Width(rest) ELSE Width(rest) + 1
        /\ EscapeCells(rest) \in Seq(S)
        /\ EscapeCells(Append(rest, c)) = IF c \in Csi THEN Append(EscapeCells(rest), c)
                                          ELSE EscapeCells(rest)
    BY <2>1, WidthGrow, EscapeCellsGrow
  <2>6. CASE Width(s) < cut
    <3>1. Kept(long, cut) = Append(kept, c) /\ Rest(long, cut) = <<>>
      BY <2>1, <2>2, <2>6
    <3>2. EscapeCells(<<>>) = <<>> /\ Width(<<>>) = 0
      BY CellsEmpty, WidthEmpty DEF EscapeCells
    <3>3. EscapeCells(kept) = EscapeCells(s)
      <4>1. EscapeCells(kept) \o <<>> = EscapeCells(kept)
        BY <2>4, ConcatEmptySeq
      <4> QED
        BY <2>2, <2>6, <3>2, <4>1
    <3>4. EscapeCells(Append(kept, c)) = EscapeCells(long)
      BY <2>3, <2>4, <3>3
    <3>5. EscapeCells(Append(kept, c)) \o <<>> = EscapeCells(Append(kept, c))
      <4>1. EscapeCells(Append(kept, c)) \in Seq(S)
        BY <2>4
      <4> QED
        BY <4>1, ConcatEmptySeq
    <3>6. Width(Append(kept, c)) <= cut /\ Width(Append(kept, c)) <= Width(long)
      BY <2>2, <2>3, <2>4, <2>6
    <3>7. CutWell(long, cut)
      BY <3>1, <3>2, <3>4, <3>5, <3>6 DEF CutWell
    <3> QED
      BY <2>1, <3>7 DEF long
  <2>7. CASE ~(Width(s) < cut) /\ c \in Csi
    <3>1. Kept(long, cut) = kept /\ Rest(long, cut) = Append(rest, c) /\ Width(long) = Width(s)
      BY <2>1, <2>3, <2>7
    <3>2. EscapeCells(kept) \o EscapeCells(Append(rest, c)) = EscapeCells(long)
      <4>1. AppendsToSecond(EscapeCells(kept), EscapeCells(rest), c)
        BY <2>4, <2>5, AppendToSecond
      <4>2. /\ EscapeCells(Append(rest, c)) = Append(EscapeCells(rest), c)
            /\ EscapeCells(long) = Append(EscapeCells(s), c)
        BY <2>3, <2>5, <2>7
      <4> QED
        BY <2>2, <4>1, <4>2 DEF AppendsToSecond
    <3>3. Width(Append(rest, c)) = 0
      BY <2>2, <2>5, <2>7
    <3>4. CutWell(long, cut)
      BY <2>2, <2>7, <3>1, <3>2, <3>3 DEF CutWell
    <3> QED
      BY <2>1, <3>4 DEF long
  <2>8. CASE ~(Width(s) < cut) /\ c \notin Csi
    <3>1. Kept(long, cut) = kept /\ Rest(long, cut) = rest /\ Width(long) = Width(s) + 1
      BY <2>1, <2>3, <2>8
    <3>2. Width(kept) <= Width(long) /\ ~(Width(long) < cut) /\ EscapeCells(long) = EscapeCells(s)
      BY <2>2, <2>3, <2>4, <2>8, <3>1
    <3>3. CutWell(long, cut)
      BY <2>2, <3>1, <3>2 DEF CutWell
    <3> QED
      BY <2>1, <3>3 DEF long
  <2> QED
    BY <2>6, <2>7, <2>8
<1>3. Seq(S) \subseteq T
  <2> HIDE DEF T
  <2> QED
    BY <1>1, <1>2, SequenceInduction
<1> QED
  BY <1>3

\* For any line and width: what cap_visible_width leaves is not wider than
\* asked for, or than the dots, and it has the line's escapes in its order.
LEMMA CapIsRight ==
    ASSUME NEW S, NEW line \in Seq(S), "." \in S, NEW max \in Nat
    PROVE  /\ Cap(line, max) \in Seq(S)
           /\ Width(Cap(line, max)) <= Larger(max, Len(Dots))
           /\ EscapeCells(Cap(line, max)) = EscapeCells(line)
<1>1. Dots \in Seq(S) /\ Len(Dots) = 3
  BY DEF Dots
<1>2. Width(line) \in Nat /\ EscapeCells(line) \in Seq(S)
  BY WidthGrow, EscapeCellsGrow
<1>3. CASE Width(line) <= max
  <2>1. Cap(line, max) = line
    BY <1>3 DEF Cap
  <2> QED
    BY <1>1, <1>2, <1>3, <2>1 DEF Larger
<1>4. CASE ~(Width(line) <= max)
  <2> DEFINE cut == Budget(max)
             kept == Kept(line, cut)
             rest == Rest(line, cut)
  <2>1. cut \in Nat /\ cut + 3 = Larger(max, 3)
    BY <1>1 DEF Budget, Larger
  <2>2. Cap(line, max) = kept \o Dots \o rest
    BY <1>4 DEF Cap, Kept, Rest
  <2> HIDE DEF cut
  <2>3. kept \in Seq(S) /\ rest \in Seq(S)
    BY <2>1, CutGrows
  <2>4. /\ Width(kept) <= cut /\ Width(rest) = 0
        /\ EscapeCells(kept) \o EscapeCells(rest) = EscapeCells(line)
    BY <2>1, CutIsWell DEF CutWell
  <2> HIDE DEF kept, rest
  <2>5. Width(Dots) = 3 /\ EscapeCells(Dots) = <<>>
    <3> DEFINE none == <<>>
               one == Append(none, ".")
               two == Append(one, ".")
    <3>1. /\ none \in Seq(S) /\ one \in Seq(S) /\ two \in Seq(S)
          /\ Dots = Append(two, ".")
      BY DEF Dots
    <3>2. Width(none) = 0 /\ EscapeCells(none) = <<>>
      BY WidthEmpty, CellsEmpty DEF EscapeCells
    <3>3. "." \notin Csi
      BY LoggingAssumption
    <3> HIDE DEF none
    <3>4. Width(one) = 1 /\ EscapeCells(one) = <<>>
      BY <3>1, <3>2, <3>3, WidthGrow, EscapeCellsGrow
    <3> HIDE DEF one
    <3>5. Width(two) = 2 /\ EscapeCells(two) = <<>>
      BY <3>1, <3>3, <3>4, WidthGrow, EscapeCellsGrow
    <3> HIDE DEF two
    <3> QED
      BY <3>1, <3>3, <3>5, WidthGrow, EscapeCellsGrow
  <2>6. kept \o Dots \in Seq(S) /\ (kept \o Dots) \o rest \in Seq(S)
    BY <1>1, <2>3
  <2>7. Width(kept) \in Nat /\ EscapeCells(kept) \in Seq(S)
    BY <2>3, WidthGrow, EscapeCellsGrow
  <2>8. Width((kept \o Dots) \o rest) <= cut + 3
    <3>1. /\ Width(kept \o Dots) = Width(kept) + 3
          /\ Width((kept \o Dots) \o rest) = Width(kept \o Dots) + 0
      BY <1>1, <2>3, <2>4, <2>5, <2>6, WidthConcat
    <3> QED
      BY <2>1, <2>4, <2>7, <3>1
  <2>9. EscapeCells((kept \o Dots) \o rest) = EscapeCells(line)
    <3>1. S # {}
      OBVIOUS
    <3>2. EscapeCells(kept \o Dots) = EscapeCells(kept) \o <<>>
      BY <1>1, <2>3, <2>5, <3>1, EscapeCellsConcat
    <3>3. EscapeCells(kept) \o <<>> = EscapeCells(kept)
      BY <2>7, ConcatEmptySeq
    <3>4. EscapeCells((kept \o Dots) \o rest) = EscapeCells(kept \o Dots) \o EscapeCells(rest)
      BY <2>3, <2>6, <3>1, EscapeCellsConcat
    <3> QED
      BY <2>4, <3>2, <3>3, <3>4
  <2> QED
    BY <1>1, <2>1, <2>2, <2>6, <2>8, <2>9
<1> QED
  BY <1>3, <1>4

-----------------------------------------------------------------------------
(* strip_ansi, one cell further. *)

\* The function that Strip and its recursion define, and where it ends.
ScanUpTo(line) ==
    CHOOSE upTo : upTo = [n \in 0..Len(line) |->
                            IF n = 0 THEN [osc |-> FALSE, text |-> <<>>]
                            ELSE Scan(upTo[n - 1], line[n])]
Scanned(line) == ScanUpTo(line)[Len(line)]
Scans(S) == [osc : BOOLEAN, text : Seq(S)]
Unscanned == [osc |-> FALSE, text |-> <<>>]

LEMMA ScanType ==
    ASSUME NEW S, NEW r \in Scans(S), NEW c \in S
    PROVE  Scan(r, c) \in Scans(S)
<1>1. /\ r.osc \in BOOLEAN /\ r.text \in Seq(S) /\ r = [osc |-> r.osc, text |-> r.text]
      /\ Append(r.text, c) \in Seq(S)
  BY DEF Scans
<1>2. \/ \E b \in BOOLEAN : Scan(r, c) = [osc |-> b, text |-> r.text]
      \/ Scan(r, c) = [osc |-> r.osc, text |-> Append(r.text, c)]
  <2>1. CASE r.osc
    <3>1. Scan(r, c) = [osc |-> c # OscEnd, text |-> r.text]
      BY <1>1, <2>1 DEF Scan
    <3> QED
      BY <3>1
  <2>2. CASE ~r.osc
    BY <1>1, <2>2 DEF Scan
  <2> QED
    BY <2>1, <2>2
<1> QED
  BY <1>1, <1>2 DEF Scans

LEMMA ScanRecursion ==
    ASSUME NEW S, NEW line \in Seq(S)
    PROVE  /\ Strip(line) = Scanned(line).text
           /\ ScanUpTo(line)[0] = Unscanned
           /\ \A n \in 1..Len(line) : ScanUpTo(line)[n] = Scan(ScanUpTo(line)[n - 1], line[n])
<1> DEFINE Fits(f) == f = [n \in 0..Len(line) |->
                            IF n = 0 THEN [osc |-> FALSE, text |-> <<>>]
                            ELSE Scan(f[n - 1], line[n])]
           step == [n \in 1..Len(line) |-> [r \in Scans(S) |-> Scan(r, line[n])]]
           upTo == ScanUpTo(line)
<1>1. Len(line) \in Nat /\ \A n \in 1..Len(line) : line[n] \in S
  OBVIOUS
<1>2. step \in [1..Len(line) -> [Scans(S) -> Scans(S)]]
  BY <1>1, ScanType
<1>3. Unscanned \in Scans(S)
  BY DEF Unscanned, Scans
<1>4. PICK f : Recurs(f, Len(line), Scans(S), Unscanned, step)
  <2> HIDE DEF step
  <2> QED
    BY <1>1, <1>2, <1>3, Recursion
<1>5. /\ f \in [0..Len(line) -> Scans(S)] /\ f[0] = Unscanned
      /\ \A n \in 1..Len(line) : f[n] = Scan(f[n - 1], line[n])
  <2>1. /\ f \in [0..Len(line) -> Scans(S)] /\ f[0] = Unscanned
        /\ \A n \in 1..Len(line) : f[n] = step[n][f[n - 1]]
    BY <1>4 DEF Recurs
  <2>2. ASSUME NEW n \in 1..Len(line) PROVE step[n][f[n - 1]] = Scan(f[n - 1], line[n])
    <3>1. n - 1 \in 0..Len(line)
      BY <1>1
    <3> QED
      BY <2>1, <3>1
  <2> HIDE DEF step
  <2> QED
    BY <2>1, <2>2
<1>6. Fits(f)
  <2>1. \A n \in 0..Len(line) : n = 0 \/ n \in 1..Len(line)
    BY <1>1
  <2> QED
    BY <1>5, <2>1 DEF Unscanned
<1>7. Fits(upTo)
  <2>1. upTo = CHOOSE g : Fits(g)
    BY DEF ScanUpTo
  <2> HIDE DEF Fits
  <2> QED
    BY <1>6, <2>1
<1>8. Strip(line) = upTo[Len(line)].text
  BY DEF Strip, ScanUpTo
<1> HIDE DEF upTo
<1>9. upTo[0] = Unscanned /\ \A n \in 1..Len(line) : upTo[n] = Scan(upTo[n - 1], line[n])
  <2>1. \A n \in 0..Len(line) : upTo[n] = IF n = 0 THEN [osc |-> FALSE, text |-> <<>>]
                                         ELSE Scan(upTo[n - 1], line[n])
    BY <1>7
  <2>2. 0 \in 0..Len(line) /\ \A n \in 1..Len(line) : n \in 0..Len(line) /\ n # 0
    BY <1>1
  <2> HIDE DEF Fits
  <2> QED
    BY <2>1, <2>2 DEF Unscanned
<1> QED
  BY <1>8, <1>9 DEF upTo, Scanned

LEMMA ScanGrow ==
    ASSUME NEW S, NEW line \in Seq(S), NEW c \in S
    PROVE  Scanned(Append(line, c)) = Scan(Scanned(line), c)
<1> DEFINE long == Append(line, c)
           n == Len(line)
           f == ScanUpTo(line)
           g == ScanUpTo(long)
<1>1. /\ n \in Nat /\ long \in Seq(S) /\ Len(long) = n + 1 /\ long[n + 1] = c
      /\ \A i \in 1..n : long[i] = line[i]
  BY AppendProperties
<1> HIDE DEF long
<1>2. f[0] = Unscanned /\ \A i \in 1..Len(line) : f[i] = Scan(f[i - 1], line[i])
  BY ScanRecursion
<1>3. g[0] = Unscanned /\ \A i \in 1..Len(long) : g[i] = Scan(g[i - 1], long[i])
  BY <1>1, ScanRecursion
<1>4. Scanned(line) = f[n] /\ Scanned(long) = g[n + 1]
  BY <1>1 DEF Scanned
<1> HIDE DEF n, f, g
<1> DEFINE Same == {i \in Nat : i <= n => f[i] = g[i]}
<1>5. 0 \in Same
  BY <1>2, <1>3
<1>6. ASSUME NEW i \in Nat, i \in Same PROVE i + 1 \in Same
  <2> SUFFICES ASSUME i + 1 <= n PROVE f[i + 1] = g[i + 1]
    OBVIOUS
  <2>1. i + 1 \in 1..n /\ i + 1 \in 1..n + 1 /\ (i + 1) - 1 = i /\ f[i] = g[i]
    BY <1>1, <1>6
  <2>2. f[i + 1] = Scan(f[i], line[i + 1]) /\ g[i + 1] = Scan(g[i], long[i + 1])
    BY <1>1, <1>2, <1>3, <2>1 DEF n
  <2> QED
    BY <1>1, <2>1, <2>2
<1>7. Nat \subseteq Same
  <2> HIDE DEF Same
  <2> QED
    BY <1>5, <1>6, Induction
<1>8. f[n] = g[n] /\ n + 1 \in 1..n + 1 /\ (n + 1) - 1 = n
  BY <1>1, <1>7
<1>9. g[n + 1] = Scan(g[n], c)
  BY <1>1, <1>3, <1>8
<1> QED
  BY <1>4, <1>8, <1>9 DEF long

\* A line has as many characters for the eye as it is wide, or fewer: what
\* strip_ansi takes away beyond the CSI sequences counts as visible.
LEMMA StripFits ==
    ASSUME NEW S, NEW line \in Seq(S)
    PROVE  Strip(line) \in Seq(S) /\ Len(Strip(line)) <= Width(line)
<1> DEFINE T == {s \in Seq(S) : Scanned(s) \in Scans(S) /\ Len(Scanned(s).text) <= Width(s)}
<1>1. <<>> \in T
  <2>1. ASSUME NEW s \in Seq(S), Len(s) = 0 PROVE Scanned(s) = Unscanned
    <3>1. ScanUpTo(s)[0] = Unscanned
      BY ScanRecursion
    <3> QED
      BY <2>1, <3>1 DEF Scanned
  <2>2. <<>> \in Seq(S) /\ Len(<<>>) = 0
    OBVIOUS
  <2>3. Scanned(<<>>) = Unscanned
    BY <2>1, <2>2
  <2>4. Unscanned \in Scans(S) /\ Len(Unscanned.text) = 0
    BY DEF Unscanned, Scans
  <2> QED
    BY <2>2, <2>3, <2>4, WidthEmpty
<1>2. ASSUME NEW s \in Seq(S), NEW c \in S, s \in T PROVE Append(s, c) \in T
  <2> DEFINE r == Scanned(s)
  <2>1. Scanned(Append(s, c)) = Scan(r, c) /\ Append(s, c) \in Seq(S)
    BY ScanGrow
  <2>2. r \in Scans(S) /\ Len(r.text) <= Width(s)
    BY <1>2
  <2>3. /\ Width(s) \in Nat
        /\ Width(Append(s, c)) = IF c \in Csi THEN Width(s) ELSE Width(s) + 1
    BY WidthGrow
  <2> HIDE DEF r
  <2>4. Scan(r, c) \in Scans(S)
    BY <2>2, ScanType
  <2>5. Len(r.text) \in Nat /\ Len(Append(r.text, c)) = Len(r.text) + 1
    BY <2>2 DEF Scans
  <2>6. \/ Scan(r, c).text = r.text
        \/ Scan(r, c).text = Append(r.text, c) /\ c \notin Csi
    BY <2>2 DEF Scan, Scans
  <2>7. Len(Scan(r, c).text) <= Width(Append(s, c))
    BY <2>2, <2>3, <2>5, <2>6
  <2> QED
    BY <2>1, <2>4, <2>7
<1>3. Seq(S) \subseteq T
  <2> HIDE DEF T
  <2> QED
    BY <1>1, <1>2, SequenceInduction
<1>4. Scanned(line) \in Scans(S) /\ Len(Scanned(line).text) <= Width(line)
  BY <1>3
<1>5. Strip(line) = Scanned(line).text
  BY ScanRecursion
<1> QED
  BY <1>4, <1>5 DEF Scans

-----------------------------------------------------------------------------
(* The rows of the window. *)

\* The inductive invariant: the rows are the last lines of the buffer, cut.
Rows ==
    view = "window" =>
        drawn = [i \in DOMAIN LastOf(buffer, VisibleLines) |->
                    Cap(Text[LastOf(buffer, VisibleLines)[i]], TermWidth - 1)]

\* An empty buffer has no rows.
LEMMA NoRows ==
    [i \in DOMAIN LastOf(<<>>, VisibleLines) |->
        Cap(Text[LastOf(<<>>, VisibleLines)[i]], TermWidth - 1)] = <<>>
<1>1. <<>> \in Seq({}) /\ Len(<<>>) = 0
  OBVIOUS
<1>2. /\ LastOf(<<>>, VisibleLines) \in Seq({})
      /\ Len(LastOf(<<>>, VisibleLines)) = Smaller(0, VisibleLines)
  BY <1>1, LastOfType, Bounds
<1>3. Smaller(0, VisibleLines) = 0
  BY Bounds DEF Smaller
<1>4. LastOf(<<>>, VisibleLines) = <<>>
  BY <1>2, <1>3
<1>5. [i \in {} |-> Cap(Text[LastOf(<<>>, VisibleLines)[i]], TermWidth - 1)] = <<>>
  OBVIOUS
<1>6. DOMAIN <<>> = {}
  OBVIOUS
<1> QED
  BY <1>4, <1>5, <1>6

LEMMA RowsStep == Typed /\ Rows /\ [Next]_vars => Rows'
<1> SUFFICES ASSUME Typed, Rows, [Next]_vars, view' = "window" PROVE Rows'
  BY DEF Rows
<1>1. CASE UNCHANGED <<view, buffer, drawn>>
  BY <1>1 DEF Rows
<1>2. ASSUME NEW e \in Calls, Call(e), UNCHANGED view, e.kind # "log" PROVE Rows'
  <2>1. buffer' = <<>> /\ drawn' = <<>>
    BY <1>2 DEF Call
  <2> QED
    BY <2>1, NoRows DEF Rows
<1>3. ASSUME NEW e \in Calls, Call(e), UNCHANGED view, e.kind = "log" PROVE Rows'
  <2>1. UNCHANGED <<buffer, drawn>> \/ WindowMsg(Recorded(e))
    BY <1>3 DEF Call, Record, sink
  <2> QED
    BY <1>1, <1>3, <2>1 DEF WindowMsg, Rows
<1> QED
  BY <1>1, <1>2, <1>3, TaskSteps

\* For any lines, colours, sizes of the terminal and of the window: the rows
\* below the cursor are the last lines the window has, none of them wraps, so
\* that cursor_up goes up one row for each, and each has all the escapes of its
\* line (window::msg, cap_visible_width).
THEOREM RowsCanBeRedrawn == Spec => []WindowIsRedrawn
<1>1. Init => Rows
  BY NoRows DEF Init, Rows
<1>2. Typed /\ Rows => WindowIsRedrawn
  <2> SUFFICES ASSUME Typed, Rows, view = "window" PROVE WindowIsRedrawn
    BY DEF WindowIsRedrawn
  <2> DEFINE visible == LastOf(buffer, VisibleLines)
             wide == TermWidth - 1
  <2>1. visible \in Seq(Lines) /\ Len(visible) = Smaller(Len(buffer), VisibleLines)
    <3>1. buffer \in Seq(Lines)
      BY DEF Typed
    <3> QED
      BY <3>1, LastOfType, Bounds
  <2>2. drawn = [i \in DOMAIN visible |-> Cap(Text[visible[i]], wide)]
    BY DEF Rows
  <2>3. wide \in Nat
    BY LoggingAssumption
  <2> HIDE DEF visible, wide
  <2>4. Len(drawn) = Len(visible) /\ DOMAIN drawn = DOMAIN visible
    BY <2>1, <2>2
  <2>5. ASSUME NEW i \in DOMAIN drawn
        PROVE  /\ Len(Strip(drawn[i])) <= Larger(wide, Len(Dots))
               /\ Cells(drawn[i], Escapes(drawn[i])) = Cells(Text[visible[i]], Escapes(Text[visible[i]]))
    <3> DEFINE text == Text[visible[i]]
               S == Range(text) \cup {"."}
    <3>1. visible[i] \in Lines /\ drawn[i] = Cap(text, wide)
      BY <2>1, <2>2, <2>4
    <3>2. text \in Seq(Range(text))
      BY <3>1, LoggingAssumption
    <3> HIDE DEF text
    <3>3. text \in Seq(S) /\ "." \in S
      BY <3>2
    <3> HIDE DEF S
    <3>4. /\ Cap(text, wide) \in Seq(S)
          /\ Width(Cap(text, wide)) <= Larger(wide, Len(Dots))
          /\ EscapeCells(Cap(text, wide)) = EscapeCells(text)
      BY <2>3, <3>3, CapIsRight
    <3>5. /\ Strip(drawn[i]) \in Seq(S) /\ Len(Strip(drawn[i])) <= Width(drawn[i])
          /\ Width(drawn[i]) \in Nat
      BY <3>1, <3>3, <3>4, StripFits, WidthGrow
    <3>6. Larger(wide, Len(Dots)) \in Nat /\ Len(Strip(drawn[i])) \in Nat
      <4>1. Len(Dots) = 3
        BY DEF Dots
      <4> QED
        BY <2>3, <3>5, <4>1 DEF Larger
    <3>7. Len(Strip(drawn[i])) <= Larger(wide, Len(Dots))
      BY <3>1, <3>4, <3>5, <3>6
    <3> QED
      BY <3>1, <3>4, <3>7 DEF EscapeCells, text
  <2> QED
    BY <2>1, <2>4, <2>5 DEF WindowIsRedrawn, visible, wide
<1> QED
  BY <1>1, <1>2, RowsStep, TypedInvariant, PTL DEF Spec
=============================================================================
