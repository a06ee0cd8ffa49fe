-------------------------- MODULE InvocationProofs --------------------------
(***************************************************************************)
(* Theorems about Invocation: the command line that build_container_argv    *)
(* makes of the options, and what parse_args makes of it again.             *)
(***************************************************************************)
EXTENDS Invocation, InductionLemmas

-----------------------------------------------------------------------------
(* Parts of a command line. *)

\* Wherever x is among the words, y is the next.
Follows(words, x, y) ==
    \A i \in 1..Len(words) : words[i] = x => i + 1 <= Len(words) /\ words[i + 1] = y

LEMMA FollowsConcat ==
    ASSUME NEW S, NEW s \in Seq(S), NEW t \in Seq(S), NEW x, NEW y,
           Follows(s, x, y), Follows(t, x, y)
    PROVE  Follows(s \o t, x, y)
<1> DEFINE m == Len(s)
           n == Len(t)
           words == s \o t
<1>1. /\ m \in Nat /\ n \in Nat /\ Len(words) = m + n
      /\ \A i \in 1..m : words[i] = s[i]
      /\ \A i \in 1..n : words[m + i] = t[i]
  BY ConcatParts
<1> HIDE DEF words
<1> SUFFICES ASSUME NEW i \in 1..(m + n), words[i] = x
             PROVE  i + 1 <= m + n /\ words[i + 1] = y
  BY <1>1 DEF Follows, words
<1>2. CASE i <= m
  <2>1. i \in 1..m /\ s[i] = x
    BY <1>1, <1>2
  <2>2. i + 1 <= m /\ s[i + 1] = y
    BY <2>1 DEF Follows
  <2>3. i + 1 \in 1..m
    BY <1>1, <2>1, <2>2
  <2> QED
    BY <1>1, <2>2, <2>3
<1>3. CASE ~(i <= m)
  <2> DEFINE j == i - m
  <2>1. j \in 1..n /\ m + j = i
    BY <1>1, <1>3
  <2>2. t[j] = x
    BY <1>1, <2>1
  <2>3. j + 1 <= n /\ t[j + 1] = y
    BY <2>1, <2>2 DEF Follows
  <2>4. j + 1 \in 1..n /\ m + (j + 1) = i + 1
    BY <1>1, <2>1, <2>3
  <2> HIDE DEF j
  <2> QED
    BY <1>1, <2>3, <2>4
<1> QED
  BY <1>2, <1>3

LEMMA ContainsConcat ==
    ASSUME NEW S, NEW s \in Seq(S), NEW t \in Seq(S), NEW x
    PROVE  Contains(s \o t, x) <=> Contains(s, x) \/ Contains(t, x)
<1> DEFINE m == Len(s)
           n == Len(t)
           words == s \o t
<1>1. /\ m \in Nat /\ n \in Nat /\ Len(words) = m + n
      /\ \A i \in 1..m : words[i] = s[i]
      /\ \A i \in 1..n : words[m + i] = t[i]
  BY ConcatParts
<1> HIDE DEF words
<1>2. ASSUME Contains(words, x) PROVE Contains(s, x) \/ Contains(t, x)
  <2>1. PICK i \in 1..(m + n) : words[i] = x
    BY <1>1, <1>2 DEF Contains
  <2>2. CASE i <= m
    BY <1>1, <2>1, <2>2 DEF Contains
  <2>3. CASE ~(i <= m)
    <3>1. i - m \in 1..n /\ m + (i - m) = i
      BY <1>1, <2>1, <2>3
    <3>2. t[i - m] = x
      BY <1>1, <2>1, <3>1
    <3> QED
      BY <3>1, <3>2 DEF Contains
  <2> QED
    BY <2>2, <2>3
<1>3. ASSUME Contains(s, x) PROVE Contains(words, x)
  BY <1>1, <1>3 DEF Contains
<1>4. ASSUME Contains(t, x) PROVE Contains(words, x)
  <2>1. PICK i \in 1..n : t[i] = x
    BY <1>4 DEF Contains
  <2>2. m + i \in 1..(m + n)
    BY <1>1, <2>1
  <2> QED
    BY <1>1, <2>1, <2>2 DEF Contains
<1> QED
  BY <1>2, <1>3, <1>4 DEF words

\* The value of an option is the word that follows it everywhere.
LEMMA ValueIs ==
    ASSUME NEW S, NEW words \in Seq(S), NEW flag, NEW value, NEW default,
           Follows(words, <<flag>>, <<value>>)
    PROVE  ValueOf(words, flag, default)
           = IF Contains(words, <<flag>>) THEN value ELSE default
<1> DEFINE I == {i \in 1..Len(words) : words[i] = <<flag>>}
<1>1. CASE Contains(words, <<flag>>)
  <2>1. I # {} /\ I \in SUBSET Nat
    BY <1>1 DEF Contains
  <2>2. Min(I) \in I
    BY <2>1, LeastOfSet
  <2> DEFINE n == Min(I)
  <2>4. ValueOf(words, flag, default) = words[1 + n][1]
    BY <1>1, <2>1 DEF ValueOf, Has, SelectInSeq
  <2>5. n \in Nat /\ words[n + 1] = <<value>>
    <3> DEFINE x == <<flag>>
               y == <<value>>
    <3>1. Follows(words, x, y) /\ n \in {i \in 1..Len(words) : words[i] = x}
      BY <2>2
    <3> HIDE DEF x, y, n
    <3>2. n \in Nat /\ words[n + 1] = y
      BY <3>1 DEF Follows
    <3> QED
      BY <3>2 DEF y
  <2> HIDE DEF n
  <2>6. words[1 + n] = <<value>>
    BY <2>5
  <2> QED
    BY <1>1, <2>4, <2>6
<1>2. CASE ~Contains(words, <<flag>>)
  BY <1>2 DEF ValueOf, Has
<1> QED
  BY <1>1, <1>2

\* Words that are pairs are defines.
Defining(words, defines) ==
    \A i \in 1..Len(words) : Len(words[i]) = 2 => \E k \in Names : words[i] = <<k, defines[k]>>

LEMMA DefiningConcat ==
    ASSUME NEW S, NEW s \in Seq(S), NEW t \in Seq(S), NEW defines,
           Defining(s, defines), Defining(t, defines)
    PROVE  Defining(s \o t, defines)
<1> DEFINE m == Len(s)
           n == Len(t)
           words == s \o t
<1>1. /\ m \in Nat /\ n \in Nat /\ Len(words) = m + n
      /\ \A i \in 1..m : words[i] = s[i]
      /\ \A i \in 1..n : words[m + i] = t[i]
  BY ConcatParts
<1> HIDE DEF words
<1> SUFFICES ASSUME NEW i \in 1..(m + n), Len(words[i]) = 2
             PROVE  \E k \in Names : words[i] = <<k, defines[k]>>
  BY <1>1 DEF Defining, words
<1>2. CASE i <= m
  <2>1. i \in 1..m /\ words[i] = s[i]
    BY <1>1, <1>2
  <2> QED
    BY <2>1 DEF Defining
<1>3. CASE ~(i <= m)
  <2>1. i - m \in 1..n /\ m + (i - m) = i
    BY <1>1, <1>3
  <2>2. words[i] = t[i - m]
    BY <1>1, <2>1
  <2> QED
    BY <2>1, <2>2 DEF Defining
<1> QED
  BY <1>2, <1>3

\* All the defines there are, are parsed.
LEMMA DefinesAre ==
    ASSUME NEW S, NEW words \in Seq(S), NEW defines, Defining(words, defines),
           \A k \in Names : defines[k] # Absent => Contains(words, <<k, defines[k]>>),
           NEW k \in Names
    PROVE  DefinesIn(words)[k] = defines[k]
<1> DEFINE I == {i \in 1..Len(words) : Len(words[i]) = 2 /\ words[i][1] = k}
           last == SelectLastInSeq(words, LAMBDA w : Len(w) = 2 /\ w[1] = k)
<1>1. last = IF I # {} THEN Max(I) ELSE 0
  BY DEF SelectLastInSeq
<1>2. DefinesIn(words)[k] = IF last = 0 THEN Absent ELSE words[last][2]
  BY DEF DefinesIn
<1>3. CASE I = {}
  <2>1. defines[k] = Absent
    <3> SUFFICES ASSUME Contains(words, <<k, defines[k]>>) PROVE FALSE
      OBVIOUS
    <3>1. PICK i \in 1..Len(words) : words[i] = <<k, defines[k]>>
      BY DEF Contains
    <3>2. Len(words[i]) = 2 /\ words[i][1] = k
      BY <3>1
    <3> QED
      BY <1>3, <3>2
  <2> QED
    BY <1>1, <1>2, <1>3, <2>1
<1>4. CASE I # {}
  <2>1. I \subseteq 1..Len(words) /\ Len(words) \in Nat
    OBVIOUS
  <2>2. Max(I) \in I
    BY <1>4, <2>1, GreatestNumber
  <2> HIDE DEF last
  <2>3. last = Max(I) /\ last # 0
    BY <1>1, <1>4, <2>2
  <2>4. last \in 1..Len(words) /\ Len(words[last]) = 2 /\ words[last][1] = k
    BY <2>2, <2>3
  <2>5. PICK j \in Names : words[last] = <<j, defines[j]>>
    BY <2>4 DEF Defining
  <2>6. j = k /\ words[last][2] = defines[j]
    BY <2>4, <2>5
  <2> QED
    BY <1>2, <2>3, <2>6
<1> QED
  BY <1>3, <1>4

-----------------------------------------------------------------------------
(* What build_container_argv puts together. *)

\* The options but for -D, whose values are the pairs.
Switches == Options \ {"-D"}

\* A part of the command line that says the same as opts, and has these flags.
Piece(S, opts, words, flags) ==
    /\ words \in Seq(S)
    /\ Follows(words, <<"-p">>, <<"/workspace">>)
    /\ Follows(words, <<"-b">>, <<opts.type>>)
    /\ Follows(words, <<"--build-dir">>, <<opts.dir>>)
    /\ Follows(words, <<"-t">>, <<opts.target>>)
    /\ Defining(words, opts.defines)
    /\ \A g \in Switches : Contains(words, <<g>>) <=> g \in flags

LEMMA PieceConcat ==
    ASSUME NEW S, NEW opts, NEW s, NEW t, NEW F, NEW G, Piece(S, opts, s, F), Piece(S, opts, t, G)
    PROVE  Piece(S, opts, s \o t, F \cup G)
<1>1. s \in Seq(S) /\ t \in Seq(S)
  BY DEF Piece
<1>2. s \o t \in Seq(S)
  BY <1>1, ConcatParts
<1>3. ASSUME NEW x, NEW y, Follows(s, x, y), Follows(t, x, y) PROVE Follows(s \o t, x, y)
  BY <1>1, <1>3, FollowsConcat
<1>4. Defining(s \o t, opts.defines)
  <2>1. Defining(s, opts.defines) /\ Defining(t, opts.defines)
    BY DEF Piece
  <2> QED
    BY <1>1, <2>1, DefiningConcat
<1>5. ASSUME NEW g \in Switches PROVE Contains(s \o t, <<g>>) <=> g \in F \cup G
  <2>1. Contains(s \o t, <<g>>) <=> Contains(s, <<g>>) \/ Contains(t, <<g>>)
    BY <1>1, ContainsConcat
  <2>2. (Contains(s, <<g>>) <=> g \in F) /\ (Contains(t, <<g>>) <=> g \in G)
    BY DEF Piece
  <2> QED
    BY <2>1, <2>2
<1>6. /\ Follows(s \o t, <<"-p">>, <<"/workspace">>)
      /\ Follows(s \o t, <<"-b">>, <<opts.type>>)
      /\ Follows(s \o t, <<"--build-dir">>, <<opts.dir>>)
      /\ Follows(s \o t, <<"-t">>, <<opts.target>>)
  BY <1>3 DEF Piece
<1> QED
  BY <1>2, <1>4, <1>5, <1>6 DEF Piece

LEMMA NoPiece ==
    ASSUME NEW S, NEW opts PROVE Piece(S, opts, <<>>, {})
<1>1. <<>> \in Seq(S) /\ Len(<<>>) = 0
  OBVIOUS
<1>2. 1..0 = {}
  OBVIOUS
<1>3. \A x, y : Follows(<<>>, x, y)
  BY <1>1, <1>2 DEF Follows
<1>4. Defining(<<>>, opts.defines) /\ \A x : ~Contains(<<>>, x)
  BY <1>1, <1>2 DEF Defining, Contains
<1> QED
  BY <1>1, <1>3, <1>4 DEF Piece

\* A word by itself.
LEMMA WordPiece ==
    ASSUME NEW S, NEW opts, NEW v, <<v>> \in S, v \notin {"-p", "-b", "--build-dir", "-t"}
    PROVE  Piece(S, opts, <<<<v>>>>, {v})
<1> DEFINE w == <<v>>
           words == <<w>>
<1>1. Len(w) = 1 /\ w \in S /\ \A g : w = <<g>> <=> g = v
  OBVIOUS
<1>2. w # <<"-p">> /\ w # <<"-b">> /\ w # <<"--build-dir">> /\ w # <<"-t">>
  BY <1>1
<1> HIDE DEF w
<1>3. words \in Seq(S) /\ Len(words) = 1 /\ words[1] = w
  BY <1>1
<1>4. \A i \in 1..Len(words) : words[i] = w
  BY <1>3
<1> HIDE DEF words
<1>5. ASSUME NEW x, NEW y, w # x PROVE Follows(words, x, y)
  BY <1>4, <1>5 DEF Follows
<1>6. Defining(words, opts.defines)
  <2>1. Len(w) # 2
    BY <1>1
  <2>2. \A i \in 1..Len(words) : Len(words[i]) # 2
    BY <1>4, <2>1, Zenon
  <2> QED
    BY <2>2 DEF Defining
<1>7. ASSUME NEW g PROVE Contains(words, <<g>>) <=> g \in {v}
  <2>1. Contains(words, <<g>>) <=> w = <<g>>
    BY <1>3, <1>4 DEF Contains
  <2> QED
    BY <1>1, <2>1
<1>8. Piece(S, opts, words, {v})
  BY <1>2, <1>3, <1>5, <1>6, <1>7 DEF Piece
<1> QED
  BY <1>8 DEF words, w

\* An option with its value.
LEMMA OptionPiece ==
    ASSUME NEW S, NEW opts, NEW f, NEW v, <<f>> \in S, <<v>> \in S, v \notin Options,
           \/ f = "-p" /\ v = "/workspace"
           \/ f = "-b" /\ v = opts.type
           \/ f = "--build-dir" /\ v = opts.dir
           \/ f = "-t" /\ v = opts.target
    PROVE  Piece(S, opts, <<<<f>>, <<v>>>>, {f})
<1> DEFINE a == <<f>>
           b == <<v>>
           words == <<a, b>>
<1>1. /\ Len(a) = 1 /\ a \in S /\ \A g : a = <<g>> <=> g = f
      /\ Len(b) = 1 /\ b \in S /\ \A g : b = <<g>> <=> g = v
  OBVIOUS
<1>2. \A g \in Options : b # <<g>>
  BY <1>1
<1>3. /\ a = <<"-p">> => b = <<"/workspace">>
      /\ a = <<"-b">> => b = <<opts.type>>
      /\ a = <<"--build-dir">> => b = <<opts.dir>>
      /\ a = <<"-t">> => b = <<opts.target>>
  BY <1>1
<1>4. /\ b # <<"-p">> /\ b # <<"-b">> /\ b # <<"--build-dir">> /\ b # <<"-t">>
  BY <1>2 DEF Options
<1> HIDE DEF a, b
<1>5. words \in Seq(S) /\ Len(words) = 2 /\ words[1] = a /\ words[2] = b
  BY <1>1
<1>6. \A i \in 1..Len(words) : i = 1 \/ i = 2
  BY <1>5
<1> HIDE DEF words
<1>7. ASSUME NEW x, NEW y, a = x => b = y, b # x PROVE Follows(words, x, y)
  <2> SUFFICES ASSUME NEW i \in 1..Len(words), words[i] = x
               PROVE  i + 1 <= Len(words) /\ words[i + 1] = y
    BY DEF Follows
  <2>1. i = 1
    BY <1>5, <1>6, <1>7
  <2> QED
    BY <1>5, <1>7, <2>1
<1>8. Defining(words, opts.defines)
  BY <1>1, <1>5, <1>6 DEF Defining
<1>9. ASSUME NEW g \in Switches PROVE Contains(words, <<g>>) <=> g \in {f}
  <2>1. Contains(words, <<g>>) <=> a = <<g>> \/ b = <<g>>
    BY <1>5, <1>6 DEF Contains
  <2>2. b # <<g>>
    BY <1>2 DEF Switches
  <2> QED
    BY <1>1, <2>1, <2>2
<1>10. /\ Follows(words, <<"-p">>, <<"/workspace">>)
       /\ Follows(words, <<"-b">>, <<opts.type>>)
       /\ Follows(words, <<"--build-dir">>, <<opts.dir>>)
       /\ Follows(words, <<"-t">>, <<opts.target>>)
  BY <1>3, <1>4, <1>7
<1>11. Piece(S, opts, words, {f})
  BY <1>5, <1>8, <1>9, <1>10 DEF Piece
<1> QED
  BY <1>11 DEF words, a, b

\* A define.
LEMMA DefinePiece ==
    ASSUME NEW S, NEW opts, NEW k \in Names, <<"-D">> \in S, <<k, opts.defines[k]>> \in S
    PROVE  /\ Piece(S, opts, <<<<"-D">>, <<k, opts.defines[k]>>>>, {})
           /\ Contains(<<<<"-D">>, <<k, opts.defines[k]>>>>, <<k, opts.defines[k]>>)
<1> DEFINE a == <<"-D">>
           b == <<k, opts.defines[k]>>
           words == <<a, b>>
<1>1. /\ Len(a) = 1 /\ a \in S /\ \A g : a = <<g>> <=> g = "-D"
      /\ Len(b) = 2 /\ b \in S /\ \A g : b # <<g>>
  <2>1. ASSUME NEW g PROVE b # <<g>>
    <3>1. Len(<<g>>) = 1 /\ Len(b) = 2
      OBVIOUS
    <3> QED
      BY <3>1
  <2> QED
    BY <2>1
<1>2. /\ a # <<"-p">> /\ a # <<"-b">> /\ a # <<"--build-dir">> /\ a # <<"-t">>
      /\ b # <<"-p">> /\ b # <<"-b">> /\ b # <<"--build-dir">> /\ b # <<"-t">>
  BY <1>1
<1>3. \E j \in Names : b = <<j, opts.defines[j]>>
  OBVIOUS
<1> HIDE DEF a, b
<1>4. words \in Seq(S) /\ Len(words) = 2 /\ words[1] = a /\ words[2] = b
  BY <1>1
<1>5. \A i \in 1..Len(words) : i = 1 \/ i = 2
  BY <1>4
<1> HIDE DEF words
<1>6. ASSUME NEW x, NEW y, a # x, b # x PROVE Follows(words, x, y)
  BY <1>4, <1>5, <1>6 DEF Follows
<1>7. Defining(words, opts.defines)
  BY <1>1, <1>3, <1>4, <1>5 DEF Defining
<1>8. ASSUME NEW g \in Switches PROVE ~Contains(words, <<g>>)
  <2>1. Contains(words, <<g>>) <=> a = <<g>> \/ b = <<g>>
    BY <1>4, <1>5 DEF Contains
  <2> QED
    BY <1>1, <2>1 DEF Switches
<1>9. /\ Follows(words, <<"-p">>, <<"/workspace">>)
      /\ Follows(words, <<"-b">>, <<opts.type>>)
      /\ Follows(words, <<"--build-dir">>, <<opts.dir>>)
      /\ Follows(words, <<"-t">>, <<opts.target>>)
  BY <1>2, <1>6
<1>10. Piece(S, opts, words, {})
  BY <1>4, <1>7, <1>8, <1>9 DEF Piece
<1>11. Contains(words, b)
  BY <1>4 DEF Contains
<1> QED
  BY <1>10, <1>11 DEF words, a, b

\* Parts without a flag, put together: all they have is there.
LEMMA FlattenedPieces ==
    ASSUME NEW S, NEW opts, NEW Segments,
           \A w \in Segments : w \in Seq(S) /\ Piece(S, opts, w, {}),
           NEW parts \in Seq(Segments)
    PROVE  /\ Piece(S, opts, FlattenSeq(parts), {})
           /\ \A i \in 1..Len(parts), x \in S :
                 Contains(parts[i], x) => Contains(FlattenSeq(parts), x)
<1> DEFINE Holds(q) == \A i \in 1..Len(q), x \in S : Contains(q[i], x) => Contains(FlattenSeq(q), x)
           T == {q \in Seq(Segments) : Piece(S, opts, FlattenSeq(q), {}) /\ Holds(q)}
<1>1. <<>> \in T
  <2>1. <<>> \in Seq(Segments) /\ Len(<<>>) = 0 /\ 1..0 = {}
    OBVIOUS
  <2>2. FlattenSeq(<<>>) = <<>>
    BY DEF FlattenSeq
  <2> QED
    BY <2>1, <2>2, NoPiece
<1>2. ASSUME NEW q \in Seq(Segments), NEW c \in Segments, q \in T PROVE Append(q, c) \in T
  <2> DEFINE long == Append(q, c)
             flat == FlattenSeq(q)
  <2>1. /\ q \in Seq(Seq(S)) /\ c \in Seq(S)
    OBVIOUS
  <2>2. FlattenSeq(long) = flat \o c
    BY <2>1, FlattenSeqAppend
  <2>3. flat \in Seq(S)
    BY <2>1, FlattenSeqType
  <2>4. Piece(S, opts, flat \o c, {})
    <3>1. Piece(S, opts, flat, {}) /\ Piece(S, opts, c, {})
      BY <1>2
    <3>2. Piece(S, opts, flat \o c, {} \cup {})
      BY <3>1, PieceConcat
    <3> QED
      BY <3>2
  <2>5. /\ long \in Seq(Segments) /\ Len(long) = Len(q) + 1 /\ long[Len(q) + 1] = c
        /\ Len(q) \in Nat /\ \A i \in 1..Len(q) : long[i] = q[i]
    OBVIOUS
  <2>6. ASSUME NEW i \in 1..Len(long), NEW x \in S, Contains(long[i], x)
        PROVE  Contains(flat \o c, x)
    <3>1. Contains(flat, x) \/ Contains(c, x)
      <4> HIDE DEF long
      <4>1. CASE i = Len(q) + 1
        BY <2>5, <2>6, <4>1
      <4>2. CASE i # Len(q) + 1
        <5>1. i \in 1..Len(q) /\ long[i] = q[i]
          BY <2>5, <4>2
        <5> QED
          BY <1>2, <2>6, <5>1
      <4> QED
        BY <4>1, <4>2
    <3> QED
      BY <2>1, <2>3, <3>1, ContainsConcat
  <2> QED
    BY <2>2, <2>4, <2>5, <2>6
<1>3. Seq(Segments) \subseteq T
  <2> HIDE DEF T
  <2> QED
    BY <1>1, <1>2, SequenceInduction
<1> QED
  BY <1>3

-----------------------------------------------------------------------------
(* The whole command line. *)

WordsOf(opts, path) ==
    {<<v>> : v \in Options \cup {path, opts.command, "/workspace", opts.type, opts.dir, opts.target}}
    \cup {<<k, opts.defines[k]>> : k \in Names} \cup Range(opts.forwarded)

DirWords(opts) == If(opts.dir # Absent, <<<<"--build-dir">>, <<opts.dir>>>>)
CleanWords(opts) == If(opts.clean, <<<<"--clean">>>>)
PairsOf(opts) ==
    [i \in 1..Len(NameSeq) |->
        If(opts.defines[NameSeq[i]] # Absent, <<<<"-D">>, <<NameSeq[i], opts.defines[NameSeq[i]]>>>>)]
TargetWords(opts) == If(opts.target # Absent, <<<<"-t">>, <<opts.target>>>>)
DebugWords(opts) == If(opts.command = "run" /\ opts.debug, <<<<"--debug">>>>)
Forwarding(opts) == If(opts.forwarded # <<>>, <<<<"--">>>> \o opts.forwarded)

\* What comes before the forwarded words, and after the binary's path.
OwnWords(opts) ==
    <<<<opts.command>>, <<"-p">>, <<"/workspace">>>> \o TypeWords(opts) \o DirWords(opts)
    \o CleanWords(opts) \o FlattenSeq(PairsOf(opts)) \o TargetWords(opts) \o DebugWords(opts)

\* The flags of opts.
OnlyIf(cond, flag) == IF cond THEN {flag} ELSE {}
SwitchesOf(opts) ==
    {opts.command, "-p"} \cup OnlyIf(opts.explicit, "-b") \cup OnlyIf(opts.dir # Absent, "--build-dir")
    \cup OnlyIf(opts.clean, "--clean") \cup {} \cup OnlyIf(opts.target # Absent, "-t")
    \cup OnlyIf(opts.command = "run" /\ opts.debug, "--debug")

LEMMA PairsPiece ==
    ASSUME NEW opts, NEW path
    PROVE  /\ Piece(WordsOf(opts, path), opts, FlattenSeq(PairsOf(opts)), {})
           /\ \A k \in Names : opts.defines[k] # Absent =>
                 Contains(FlattenSeq(PairsOf(opts)), <<k, opts.defines[k]>>)
<1> DEFINE S == WordsOf(opts, path)
           Pair(k) == If(opts.defines[k] # Absent, <<<<"-D">>, <<k, opts.defines[k]>>>>)
           Segments == {Pair(k) : k \in Names}
           pairs == PairsOf(opts)
<1>1. /\ NameSeq \in Seq(Names)
      /\ \A k \in Names : \E i \in 1..Len(NameSeq) : NameSeq[i] = k
  BY InvocationAssumption
<1>2. /\ \A k \in Names : <<k, opts.defines[k]>> \in S
      /\ <<"-D">> \in S
  BY DEF WordsOf, Options
<1>3. ASSUME NEW k \in Names
      PROVE  /\ Pair(k) \in Seq(S) /\ Piece(S, opts, Pair(k), {})
             /\ opts.defines[k] # Absent => Contains(Pair(k), <<k, opts.defines[k]>>)
  <2> HIDE DEF S
  <2>1. CASE opts.defines[k] = Absent
    BY <2>1, NoPiece DEF If
  <2>2. CASE opts.defines[k] # Absent
    <3>1. Pair(k) = <<<<"-D">>, <<k, opts.defines[k]>>>>
      BY <2>2 DEF If
    <3>2. /\ Piece(S, opts, <<<<"-D">>, <<k, opts.defines[k]>>>>, {})
          /\ Contains(<<<<"-D">>, <<k, opts.defines[k]>>>>, <<k, opts.defines[k]>>)
      BY <1>2, DefinePiece
    <3> QED
      BY <3>1, <3>2 DEF Piece
  <2> QED
    BY <2>1, <2>2
<1>4. /\ pairs = [i \in 1..Len(NameSeq) |-> Pair(NameSeq[i])]
      /\ \A i \in 1..Len(NameSeq) : NameSeq[i] \in Names
  BY <1>1 DEF PairsOf
<1> HIDE DEF Pair
<1>5. pairs \in Seq(Segments) /\ Len(pairs) = Len(NameSeq)
  BY <1>1, <1>4
<1> HIDE DEF S, pairs
<1>6. \A w \in Segments : w \in Seq(S) /\ Piece(S, opts, w, {})
  BY <1>3
<1> HIDE DEF Segments
<1>7. /\ Piece(S, opts, FlattenSeq(pairs), {})
      /\ \A i \in 1..Len(pairs), x \in S : Contains(pairs[i], x) => Contains(FlattenSeq(pairs), x)
  BY <1>5, <1>6, FlattenedPieces
<1>8. ASSUME NEW k \in Names, opts.defines[k] # Absent
      PROVE  Contains(FlattenSeq(pairs), <<k, opts.defines[k]>>)
  <2>1. PICK i \in 1..Len(NameSeq) : NameSeq[i] = k
    BY <1>1
  <2>2. pairs[i] = Pair(k) /\ i \in 1..Len(pairs)
    BY <1>4, <1>5, <2>1
  <2>3. Contains(Pair(k), <<k, opts.defines[k]>>) /\ <<k, opts.defines[k]>> \in S
    BY <1>2, <1>3, <1>8
  <2> DEFINE x == <<k, opts.defines[k]>>
  <2> HIDE DEF x
  <2>4. Contains(pairs[i], x) /\ x \in S
    BY <2>2, <2>3 DEF x
  <2>5. Contains(FlattenSeq(pairs), x)
    BY <1>7, <2>2, <2>4
  <2> QED
    BY <2>5 DEF x
<1> QED
  BY <1>7, <1>8 DEF S, pairs

LEMMA OneAndTwo ==
    ASSUME NEW x, NEW y, NEW z PROVE <<x>> \o <<y, z>> = <<x, y, z>>
<1> DEFINE whole == <<x>> \o <<y, z>>
           W == {x, y, z}
<1>1. <<x>> \in Seq(W) /\ <<y, z>> \in Seq(W) /\ <<x, y, z>> \in Seq(W)
  OBVIOUS
<1>2. /\ Len(<<x>>) = 1 /\ Len(<<y, z>>) = 2 /\ Len(<<x, y, z>>) = 3
      /\ <<x>>[1] = x /\ <<y, z>>[1] = y /\ <<y, z>>[2] = z
      /\ <<x, y, z>>[1] = x /\ <<x, y, z>>[2] = y /\ <<x, y, z>>[3] = z
  OBVIOUS
<1>3. /\ whole \in Seq(W) /\ Len(whole) = 3
      /\ whole[1] = x /\ whole[2] = y /\ whole[3] = z
  <2>1. /\ whole \in Seq(W) /\ Len(whole) = 1 + 2
        /\ \A i \in 1..1 : whole[i] = <<x>>[i]
        /\ \A i \in 1..2 : whole[1 + i] = <<y, z>>[i]
    BY <1>1, <1>2, ConcatParts
  <2> HIDE DEF whole
  <2>2. whole[1] = <<x>>[1] /\ whole[1 + 1] = <<y, z>>[1] /\ whole[1 + 2] = <<y, z>>[2]
    BY <2>1
  <2> QED
    BY <1>2, <2>1, <2>2
<1> HIDE DEF whole
<1>4. \A i \in 1..3 : i = 1 \/ i = 2 \/ i = 3
  OBVIOUS
<1>5. \A i \in 1..3 : whole[i] = <<x, y, z>>[i]
  BY <1>2, <1>3, <1>4
<1>6. whole = <<x, y, z>>
  BY <1>1, <1>2, <1>3, <1>5
<1> QED
  BY <1>6 DEF whole

LEMMA OwnPiece ==
    ASSUME NEW opts, NEW path, Parseable(opts), Accepted(opts)
    PROVE  /\ Piece(WordsOf(opts, path), opts, OwnWords(opts), SwitchesOf(opts))
           /\ \A k \in Names : opts.defines[k] # Absent =>
                 Contains(OwnWords(opts), <<k, opts.defines[k]>>)
           /\ OwnWords(opts)[1] = <<opts.command>>
           /\ \A words \in {TypeWords(opts), DirWords(opts), CleanWords(opts), DebugWords(opts),
                            FlattenSeq(PairsOf(opts)), TargetWords(opts)} :
                 words \in Seq(WordsOf(opts, path))
<1> DEFINE S == WordsOf(opts, path)
           H == <<<<opts.command>>, <<"-p">>, <<"/workspace">>>>
           P(words, flags) == Piece(S, opts, words, flags)
<1>1. /\ \A v \in Options : <<v>> \in S
      /\ {<<path>>, <<opts.command>>, <<"/workspace">>, <<opts.type>>, <<opts.dir>>, <<opts.target>>}
            \subseteq S
  BY DEF WordsOf
<1>2. /\ opts.type \notin Options /\ opts.dir \notin Options /\ opts.target \notin Options
      /\ opts.command \in {"build", "run"}
  BY DEF Parseable, Accepted
<1>3. /\ "-p" \in Options /\ "-b" \in Options /\ "--build-dir" \in Options /\ "-t" \in Options
      /\ "--clean" \in Options /\ "--debug" \in Options /\ "/workspace" \notin Options
  BY DEF Options
<1> HIDE DEF S
<1>4. P(H, {opts.command, "-p"})
  <2>1. P(<<<<opts.command>>>>, {opts.command})
    BY <1>1, <1>2, WordPiece
  <2>2. P(<<<<"-p">>, <<"/workspace">>>>, {"-p"})
    BY <1>1, <1>3, OptionPiece
  <2>3. P(<<<<opts.command>>>> \o <<<<"-p">>, <<"/workspace">>>>, {opts.command} \cup {"-p"})
    BY <2>1, <2>2, PieceConcat
  <2>4. <<<<opts.command>>>> \o <<<<"-p">>, <<"/workspace">>>> = H
    BY OneAndTwo
  <2>5. {opts.command} \cup {"-p"} = {opts.command, "-p"}
    OBVIOUS
  <2> QED
    BY <2>3, <2>4, <2>5
<1>5. P(TypeWords(opts), OnlyIf(opts.explicit, "-b"))
  <2>1. P(<<<<"-b">>, <<opts.type>>>>, {"-b"})
    BY <1>1, <1>2, <1>3, OptionPiece
  <2>2. P(<<>>, {})
    BY NoPiece
  <2> QED
    BY <2>1, <2>2 DEF TypeWords, OnlyIf, If
<1>6. P(DirWords(opts), OnlyIf(opts.dir # Absent, "--build-dir"))
  <2>1. P(<<<<"--build-dir">>, <<opts.dir>>>>, {"--build-dir"})
    BY <1>1, <1>2, <1>3, OptionPiece
  <2>2. P(<<>>, {})
    BY NoPiece
  <2> QED
    BY <2>1, <2>2 DEF DirWords, OnlyIf, If
<1>7. P(CleanWords(opts), OnlyIf(opts.clean, "--clean"))
  <2>1. P(<<<<"--clean">>>>, {"--clean"})
    BY <1>1, <1>3, WordPiece
  <2>2. P(<<>>, {})
    BY NoPiece
  <2> QED
    BY <2>1, <2>2 DEF CleanWords, OnlyIf, If
<1>8. P(FlattenSeq(PairsOf(opts)), {})
  BY PairsPiece DEF S
<1>9. P(TargetWords(opts), OnlyIf(opts.target # Absent, "-t"))
  <2>1. P(<<<<"-t">>, <<opts.target>>>>, {"-t"})
    BY <1>1, <1>2, <1>3, OptionPiece
  <2>2. P(<<>>, {})
    BY NoPiece
  <2> QED
    BY <2>1, <2>2 DEF TargetWords, OnlyIf, If
<1>10. P(DebugWords(opts), OnlyIf(opts.command = "run" /\ opts.debug, "--debug"))
  <2>1. P(<<<<"--debug">>>>, {"--debug"})
    BY <1>1, <1>3, WordPiece
  <2>2. P(<<>>, {})
    BY NoPiece
  <2> QED
    BY <2>1, <2>2 DEF DebugWords, OnlyIf, If
<1> DEFINE a == TypeWords(opts)
           b == DirWords(opts)
           c == CleanWords(opts)
           d == FlattenSeq(PairsOf(opts))
           e == TargetWords(opts)
           f == DebugWords(opts)
           A == OnlyIf(opts.explicit, "-b")
           B == OnlyIf(opts.dir # Absent, "--build-dir")
           C == OnlyIf(opts.clean, "--clean")
           E == OnlyIf(opts.target # Absent, "-t")
           F == OnlyIf(opts.command = "run" /\ opts.debug, "--debug")
           G == {opts.command, "-p"}
<1>11. /\ OwnWords(opts) = H \o a \o b \o c \o d \o e \o f
       /\ SwitchesOf(opts) = G \cup A \cup B \cup C \cup {} \cup E \cup F
  BY DEF OwnWords, SwitchesOf
<1>12. P(H, G) /\ P(a, A) /\ P(b, B) /\ P(c, C) /\ P(d, {}) /\ P(e, E) /\ P(f, F)
  BY <1>4, <1>5, <1>6, <1>7, <1>8, <1>9, <1>10
<1>13. Len(H) = 3 /\ H[1] = <<opts.command>>
  OBVIOUS
<1> HIDE DEF H, P, a, b, c, d, e, f, A, B, C, E, F, G
<1>14. ASSUME NEW s, NEW t, NEW X, NEW Y, P(s, X), P(t, Y) PROVE P(s \o t, X \cup Y)
  BY <1>14, PieceConcat DEF P
<1>15. P(H \o a, G \cup A)
  BY <1>12, <1>14
<1>16. P(H \o a \o b, G \cup A \cup B)
  BY <1>12, <1>14, <1>15
<1>17. P(H \o a \o b \o c, G \cup A \cup B \cup C)
  BY <1>12, <1>14, <1>16
<1>18. P(H \o a \o b \o c \o d, G \cup A \cup B \cup C \cup {})
  BY <1>12, <1>14, <1>17
<1>19. P(H \o a \o b \o c \o d \o e, G \cup A \cup B \cup C \cup {} \cup E)
  BY <1>12, <1>14, <1>18
<1>20. P(H \o a \o b \o c \o d \o e \o f, G \cup A \cup B \cup C \cup {} \cup E \cup F)
  BY <1>12, <1>14, <1>19
<1>21. ASSUME NEW s, NEW X, P(s, X) PROVE s \in Seq(S)
  BY <1>21 DEF P, Piece
<1>22. ASSUME NEW k \in Names, opts.defines[k] # Absent
       PROVE  Contains(OwnWords(opts), <<k, opts.defines[k]>>)
  <2> DEFINE x == <<k, opts.defines[k]>>
  <2>1. Contains(d, x)
    BY <1>22, PairsPiece DEF d
  <2> HIDE DEF x
  <2>2. Contains(H \o a \o b \o c \o d, x)
    BY <1>12, <1>17, <1>21, <2>1, ContainsConcat
  <2>3. Contains(H \o a \o b \o c \o d \o e, x)
    BY <1>12, <1>18, <1>21, <2>2, ContainsConcat
  <2>4. Contains(H \o a \o b \o c \o d \o e \o f, x)
    BY <1>12, <1>19, <1>21, <2>3, ContainsConcat
  <2> QED
    BY <1>11, <2>4 DEF x
<1>23. ASSUME NEW s \in Seq(S), NEW t \in Seq(S), Len(s) >= 3, s[1] = H[1]
       PROVE  s \o t \in Seq(S) /\ Len(s \o t) >= 3 /\ (s \o t)[1] = H[1]
  <2>1. /\ s \o t \in Seq(S) /\ Len(s \o t) = Len(s) + Len(t)
        /\ \A i \in 1..Len(s) : (s \o t)[i] = s[i]
    BY ConcatParts
  <2> QED
    BY <1>23, <2>1
<1>24. Len(OwnWords(opts)) >= 3 /\ OwnWords(opts)[1] = H[1]
  <2> DEFINE First(s) == s \in Seq(S) /\ Len(s) >= 3 /\ s[1] = H[1]
  <2>1. First(H)
    BY <1>12, <1>13, <1>21
  <2>2. /\ a \in Seq(S) /\ b \in Seq(S) /\ c \in Seq(S) /\ d \in Seq(S)
        /\ e \in Seq(S) /\ f \in Seq(S)
    BY <1>12, <1>21
  <2>3. ASSUME NEW s, NEW t \in Seq(S), First(s) PROVE First(s \o t)
    BY <1>23, <2>3
  <2> HIDE DEF First
  <2>4. First(H \o a \o b)
    BY <2>1, <2>2, <2>3
  <2>5. First(H \o a \o b \o c \o d)
    BY <2>2, <2>3, <2>4
  <2>6. First(H \o a \o b \o c \o d \o e \o f)
    BY <2>2, <2>3, <2>5
  <2> QED
    BY <1>11, <2>6 DEF First
<1>25. \A words \in {a, b, c, f, d, e} : words \in Seq(S)
  BY <1>12, <1>21
<1> QED
  BY <1>11, <1>13, <1>20, <1>22, <1>24, <1>25 DEF P, S, a, b, c, d, e, f

LEMMA TailConcat ==
    ASSUME NEW S, NEW s \in Seq(S), NEW t \in Seq(S), s # <<>>
    PROVE  s \o t \in Seq(S) /\ s \o t # <<>> /\ Tail(s \o t) = Tail(s) \o t
<1> DEFINE whole == s \o t
           m == Len(s)
           n == Len(t)
<1>1. /\ m \in Nat /\ n \in Nat /\ m >= 1 /\ whole \in Seq(S) /\ Len(whole) = m + n
      /\ \A i \in 1..m : whole[i] = s[i]
      /\ \A i \in 1..n : whole[m + i] = t[i]
  BY ConcatParts
<1> HIDE DEF whole
<1>2. whole # <<>>
  BY <1>1
<1>3. /\ Tail(s) \in Seq(S) /\ Len(Tail(s)) = m - 1
      /\ \A i \in 1..(m - 1) : Tail(s)[i] = s[i + 1]
  BY <1>1, HeadTailProperties
<1>4. /\ Tail(whole) \in Seq(S) /\ Len(Tail(whole)) = (m + n) - 1
      /\ \A i \in 1..((m + n) - 1) : Tail(whole)[i] = whole[i + 1]
  BY <1>1, <1>2, HeadTailProperties
<1> DEFINE other == Tail(s) \o t
<1>5. /\ other \in Seq(S) /\ Len(other) = (m - 1) + n
      /\ \A i \in 1..(m - 1) : other[i] = Tail(s)[i]
      /\ \A i \in 1..n : other[(m - 1) + i] = t[i]
  BY <1>3, ConcatParts
<1> HIDE DEF other
<1>6. ASSUME NEW i \in 1..((m + n) - 1) PROVE Tail(whole)[i] = other[i]
  <2>1. CASE i <= m - 1
    <3>1. i \in 1..(m - 1) /\ i + 1 \in 1..m
      BY <1>1, <2>1
    <3> QED
      BY <1>1, <1>3, <1>4, <1>5, <3>1
  <2>2. CASE ~(i <= m - 1)
    <3> DEFINE j == i - (m - 1)
    <3>1. j \in 1..n /\ m + j = i + 1 /\ (m - 1) + j = i
      BY <1>1, <2>2
    <3> HIDE DEF j
    <3>2. whole[m + j] = t[j] /\ other[(m - 1) + j] = t[j]
      BY <1>1, <1>5, <3>1
    <3> QED
      BY <1>4, <3>1, <3>2
  <2> QED
    BY <2>1, <2>2
<1>7. Tail(whole) = other
  BY <1>1, <1>4, <1>5, <1>6
<1> QED
  BY <1>1, <1>2, <1>7 DEF whole, other

\* The words forwarded are those behind the first "--".
LEMMA SplitAt ==
    ASSUME NEW S, NEW own \in Seq(S), ~Contains(own, <<"--">>)
    PROVE  /\ Split(own) = [own |-> own, forwarded |-> <<>>]
           /\ \A rest \in Seq(S) : <<"--">> \in S =>
                  Split(own \o (<<<<"--">>>> \o rest)) = [own |-> own, forwarded |-> rest]
<1> DEFINE dashes == <<"--">>
           I(argv) == {i \in 1..Len(argv) : argv[i] = dashes}
           At(argv) == IF I(argv) # {} THEN Min(I(argv)) ELSE 0
<1>1. \A argv : Split(argv) = IF At(argv) = 0 THEN [own |-> argv, forwarded |-> <<>>]
                ELSE [own |-> SubSeq(argv, 1, At(argv) - 1),
                      forwarded |-> SubSeq(argv, At(argv) + 1, Len(argv))]
  BY DEF Split, SelectInSeq
<1> HIDE DEF dashes
<1>2. I(own) = {}
  BY DEF Contains, dashes
<1>3. ASSUME NEW rest \in Seq(S), NEW behind \in Seq(S), Len(behind) = 1 + Len(rest),
             behind[1] = dashes, \A i \in 1..Len(rest) : behind[1 + i] = rest[i]
      PROVE  Split(own \o behind) = [own |-> own, forwarded |-> rest]
  <2> DEFINE all == own \o behind
             m == Len(own)
             n == Len(rest)
  <2>1. m \in Nat /\ n \in Nat
    OBVIOUS
  <2>2. /\ all \in Seq(S) /\ Len(all) = m + (1 + n)
        /\ \A i \in 1..m : all[i] = own[i]
        /\ \A i \in 1..(1 + n) : all[m + i] = behind[i]
    <3>1. /\ own \o behind \in Seq(S) /\ Len(own \o behind) = Len(own) + Len(behind)
          /\ \A i \in 1..Len(own) : (own \o behind)[i] = own[i]
          /\ \A i \in 1..Len(behind) : (own \o behind)[Len(own) + i] = behind[i]
      BY ConcatParts
    <3> QED
      BY <1>3, <3>1
  <2> HIDE DEF all
  <2>3. all[m + 1] = dashes /\ m + 1 \in 1..Len(all)
    BY <1>3, <2>1, <2>2
  <2>4. \A i \in 1..m : all[i] # dashes
    BY <1>2, <2>2
  <2>5. I(all) \in SUBSET Nat /\ m + 1 \in I(all) /\ \A i \in I(all) : i >= m + 1
    BY <2>1, <2>2, <2>3, <2>4
  <2>6. At(all) = m + 1
    <3> HIDE DEF I
    <3>1. Min(I(all)) \in I(all) /\ \A i \in I(all) : Min(I(all)) <= i
      BY <2>5, LeastOfSet
    <3>2. Min(I(all)) \in Nat /\ Min(I(all)) >= m + 1 /\ Min(I(all)) <= m + 1
      BY <2>5, <3>1
    <3> QED
      BY <2>1, <2>5, <3>2
  <2>7. Split(all) = [own |-> SubSeq(all, 1, m), forwarded |-> SubSeq(all, m + 2, Len(all))]
    <3> HIDE DEF At
    <3>1. At(all) # 0 /\ At(all) - 1 = m /\ At(all) + 1 = m + 2
      BY <2>1, <2>6
    <3> QED
      BY <1>1, <3>1
  <2>8. SubSeq(all, 1, m) = own
    BY <2>1, <2>2
  <2>9. SubSeq(all, m + 2, Len(all)) = rest
    <3> DEFINE sub == SubSeq(all, m + 2, Len(all))
    <3>1. /\ sub \in Seq(S) /\ Len(sub) = n
          /\ \A i \in 1..n : sub[i] = all[(m + 2) + i - 1]
      BY <2>1, <2>2, SubSeqProperties
    <3>2. ASSUME NEW i \in 1..n PROVE sub[i] = rest[i]
      <4>1. /\ (m + 2) + i - 1 = m + (1 + i) /\ 1 + i \in 1..(1 + n)
        BY <2>1
      <4>2. all[m + (1 + i)] = behind[1 + i] /\ behind[1 + i] = rest[i]
        BY <1>3, <2>1, <2>2, <4>1
      <4> QED
        BY <3>1, <4>1, <4>2
    <3> HIDE DEF sub
    <3>3. sub = rest
      <4>1. Len(sub) = Len(rest) /\ \A i \in 1..Len(sub) : sub[i] = rest[i]
        BY <3>1, <3>2
      <4> QED
        BY <3>1, <4>1, SeqEqual
    <3> QED
      BY <3>3 DEF sub
  <2> QED
    BY <2>7, <2>8, <2>9 DEF all
<1>5. ASSUME NEW rest \in Seq(S), dashes \in S
      PROVE  Split(own \o (<<dashes>> \o rest)) = [own |-> own, forwarded |-> rest]
  <2>1. <<dashes>> \in Seq(S) /\ Len(<<dashes>>) = 1 /\ <<dashes>>[1] = dashes
    BY <1>5
  <2> DEFINE behind == <<dashes>> \o rest
  <2>2. /\ behind \in Seq(S) /\ Len(behind) = 1 + Len(rest) /\ behind[1] = dashes
        /\ \A i \in 1..Len(rest) : behind[1 + i] = rest[i]
    BY <2>1, ConcatParts
  <2> HIDE DEF behind
  <2>3. Split(own \o behind) = [own |-> own, forwarded |-> rest]
    BY <1>3, <2>2
  <2> QED
    BY <2>3 DEF behind
<1>4. Split(own) = [own |-> own, forwarded |-> <<>>]
  BY <1>1, <1>2
<1> QED
  BY <1>4, <1>5 DEF dashes

\* Without the binary's path it is these words and the forwarded ones.
LEMMA TailIs ==
    ASSUME NEW opts, NEW path, Parseable(opts), Accepted(opts)
    PROVE  /\ Tail(BuildContainerArgv(opts, path)) = OwnWords(opts) \o Forwarding(opts)
           /\ opts.forwarded \in Seq(WordsOf(opts, path)) /\ <<"--">> \in WordsOf(opts, path)
<1> DEFINE S == WordsOf(opts, path)
           w == <<path>>
           x == <<opts.command>>
           y == <<"-p">>
           z == <<"/workspace">>
           Whole == <<w, x, y, z>>
           H == <<x, y, z>>
           a == TypeWords(opts)
           b == DirWords(opts)
           c == CleanWords(opts)
           d == FlattenSeq(PairsOf(opts))
           e == TargetWords(opts)
           f == DebugWords(opts)
           g == Forwarding(opts)
<1>1. /\ a \in Seq(S) /\ b \in Seq(S) /\ c \in Seq(S) /\ d \in Seq(S)
      /\ e \in Seq(S) /\ f \in Seq(S)
  BY OwnPiece
<1>2. <<"--">> \in S /\ w \in S /\ x \in S /\ y \in S /\ z \in S
  BY DEF WordsOf, Options
<1>3. opts.forwarded \in Seq(S)
  <2>1. opts.forwarded \in Seq(Range(opts.forwarded)) /\ Range(opts.forwarded) \subseteq S
    BY DEF Parseable, WordsOf
  <2> HIDE DEF S
  <2> QED
    BY <2>1
<1>4. g \in Seq(S)
  <2> DEFINE dashes == <<"--">>
             fw == opts.forwarded
  <2>1. dashes \in S /\ fw \in Seq(S)
    BY <1>2, <1>3
  <2> HIDE DEF S, dashes, fw
  <2>2. <<dashes>> \in Seq(S) /\ <<>> \in Seq(S)
    BY <2>1
  <2>3. <<dashes>> \o fw \in Seq(S)
    BY <2>1, <2>2, ConcatParts
  <2>4. g = <<>> \/ g = <<dashes>> \o fw
    BY DEF Forwarding, If, dashes, fw
  <2> QED
    BY <2>2, <2>3, <2>4
<1>5. BuildContainerArgv(opts, path) = Whole \o a \o b \o c \o d \o e \o f \o g
  BY DEF BuildContainerArgv, DirWords, CleanWords, PairsOf, TargetWords, DebugWords, Forwarding
<1>6. OwnWords(opts) = H \o a \o b \o c \o d \o e \o f
  BY DEF OwnWords
<1> HIDE DEF S, w, x, y, z, a, b, c, d, e, f, g
<1>7. Whole \in Seq(S) /\ Whole # <<>> /\ Tail(Whole) = H
  BY <1>2
<1> DEFINE TailOf(s, t) == s \in Seq(S) /\ s # <<>> /\ Tail(s) = t
<1> HIDE DEF Whole, H
<1>8. ASSUME NEW s, NEW t, NEW u \in Seq(S), TailOf(s, t) PROVE TailOf(s \o u, t \o u)
  BY <1>8, TailConcat
<1>9. TailOf(Whole, H)
  BY <1>7
<1> HIDE DEF TailOf
<1>10. TailOf(Whole \o a \o b, H \o a \o b)
  BY <1>1, <1>8, <1>9
<1>11. TailOf(Whole \o a \o b \o c \o d, H \o a \o b \o c \o d)
  BY <1>1, <1>8, <1>10
<1>12. TailOf(Whole \o a \o b \o c \o d \o e \o f, H \o a \o b \o c \o d \o e \o f)
  BY <1>1, <1>8, <1>11
<1>13. TailOf(Whole \o a \o b \o c \o d \o e \o f \o g, H \o a \o b \o c \o d \o e \o f \o g)
  BY <1>4, <1>8, <1>12
<1> QED
  BY <1>2, <1>3, <1>5, <1>6, <1>13 DEF TailOf, S, g

\* The Baldr in the container is told what this one was, but for the image and
\* the project's place: parse_args of what build_container_argv makes of the
\* options gives them again, for any defines and any forwarded words.
THEOREM RoundTrip ==
    ASSUME NEW opts, NEW path, Parseable(opts), Accepted(opts)
    PROVE  LET told == ParseArgs(Tail(BuildContainerArgv(opts, path)))
           IN  /\ Accepted(told) /\ told.image = Absent /\ told.project = "/workspace"
               /\ told.command = opts.command /\ told.dir = opts.dir /\ told.clean = opts.clean
               /\ told.target = opts.target /\ told.debug = opts.debug
               /\ told.forwarded = opts.forwarded /\ told.explicit = opts.explicit
               /\ opts.explicit => told.type = opts.type
               /\ \A k \in Names : told.defines[k] = opts.defines[k]
<1> DEFINE S == WordsOf(opts, path)
           argv == Tail(BuildContainerArgv(opts, path))
           words == OwnWords(opts)
           told == ParseArgs(argv)
<1>1. /\ argv = words \o Forwarding(opts)
      /\ opts.forwarded \in Seq(S) /\ <<"--">> \in S
  BY TailIs
<1>2. /\ Piece(S, opts, words, SwitchesOf(opts))
      /\ \A k \in Names : opts.defines[k] # Absent => Contains(words, <<k, opts.defines[k]>>)
      /\ words[1] = <<opts.command>>
  BY OwnPiece
<1>3. /\ {opts.explicit, opts.clean, opts.debug} \subseteq BOOLEAN
      /\ opts.command \in {"build", "run"} /\ (opts.debug => opts.command = "run")
      /\ (opts.command = "run" => opts.target # Absent)
  BY DEF Parseable, Accepted
<1> HIDE DEF S, words, argv
<1>4. words \in Seq(S)
  BY <1>2 DEF Piece
<1>5. \A g \in Switches : Contains(words, <<g>>) <=> g \in SwitchesOf(opts)
  BY <1>2 DEF Piece
<1>6. /\ ~Contains(words, <<"--">>) /\ ~Contains(words, <<"-i">>) /\ Contains(words, <<"-p">>)
      /\ Contains(words, <<"-b">>) <=> opts.explicit
      /\ Contains(words, <<"--build-dir">>) <=> opts.dir # Absent
      /\ Contains(words, <<"--clean">>) <=> opts.clean
      /\ Contains(words, <<"-t">>) <=> opts.target # Absent
      /\ Contains(words, <<"--debug">>) <=> opts.command = "run" /\ opts.debug
  <2>1. /\ "--" \in Switches /\ "-i" \in Switches /\ "-p" \in Switches /\ "-b" \in Switches
        /\ "--build-dir" \in Switches /\ "--clean" \in Switches /\ "-t" \in Switches /\ "--debug" \in Switches
    BY DEF Switches, Options
  <2>2. /\ "--" \notin SwitchesOf(opts) /\ "-i" \notin SwitchesOf(opts) /\ "-p" \in SwitchesOf(opts)
        /\ "-b" \in SwitchesOf(opts) <=> opts.explicit
        /\ "--build-dir" \in SwitchesOf(opts) <=> opts.dir # Absent
        /\ "--clean" \in SwitchesOf(opts) <=> opts.clean
        /\ "-t" \in SwitchesOf(opts) <=> opts.target # Absent
        /\ "--debug" \in SwitchesOf(opts) <=> opts.command = "run" /\ opts.debug
    BY <1>3 DEF SwitchesOf, OnlyIf
  <2> QED
    BY <1>5, <2>1, <2>2
<1>7. Split(argv) = [own |-> words, forwarded |-> opts.forwarded]
  <2>1. CASE opts.forwarded = <<>>
    <3>1. Forwarding(opts) = <<>>
      BY <2>1 DEF Forwarding, If
    <3>2. words \o <<>> = words
      BY <1>4, ConcatEmptySeq
    <3>3. Split(words) = [own |-> words, forwarded |-> <<>>]
      BY <1>4, <1>6, SplitAt
    <3> QED
      BY <1>1, <2>1, <3>1, <3>2, <3>3
  <2>2. CASE opts.forwarded # <<>>
    <3>1. Forwarding(opts) = <<<<"--">>>> \o opts.forwarded
      BY <2>2 DEF Forwarding, If
    <3>2. Split(words \o (<<<<"--">>>> \o opts.forwarded))
          = [own |-> words, forwarded |-> opts.forwarded]
      BY <1>1, <1>4, <1>6, SplitAt
    <3> QED
      BY <1>1, <3>1, <3>2
  <2> QED
    BY <2>1, <2>2
<1>8. /\ ValueOf(words, "-p", ".") = "/workspace"
      /\ opts.explicit => ValueOf(words, "-b", DefaultType) = opts.type
      /\ ValueOf(words, "--build-dir", Absent) = opts.dir
      /\ ValueOf(words, "-t", Absent) = opts.target
      /\ ValueOf(words, "-i", Absent) = Absent
  <2>1. /\ Follows(words, <<"-p">>, <<"/workspace">>)
        /\ Follows(words, <<"-b">>, <<opts.type>>)
        /\ Follows(words, <<"--build-dir">>, <<opts.dir>>)
        /\ Follows(words, <<"-t">>, <<opts.target>>)
    BY <1>2 DEF Piece
  <2>2. ValueOf(words, "-p", ".") = "/workspace"
    BY <1>4, <1>6, <2>1, ValueIs
  <2>3. opts.explicit => ValueOf(words, "-b", DefaultType) = opts.type
    BY <1>4, <1>6, <2>1, ValueIs
  <2>4. ValueOf(words, "--build-dir", Absent) = opts.dir
    BY <1>4, <1>6, <2>1, ValueIs
  <2>5. ValueOf(words, "-t", Absent) = opts.target
    BY <1>4, <1>6, <2>1, ValueIs
  <2>6. ValueOf(words, "-i", Absent) = Absent
    BY <1>6 DEF ValueOf, Has
  <2> QED
    BY <2>2, <2>3, <2>4, <2>5, <2>6
<1>9. ASSUME NEW k \in Names PROVE DefinesIn(words)[k] = opts.defines[k]
  <2>1. Defining(words, opts.defines)
    BY <1>2 DEF Piece
  <2> QED
    BY <1>2, <1>4, <2>1, DefinesAre
<1>10. Head(words)[1] = opts.command
  <2>1. Head(words) = words[1]
    OBVIOUS
  <2> QED
    BY <1>2, <2>1
<1>11. /\ told.command = opts.command /\ told.project = "/workspace"
       /\ opts.explicit => told.type = opts.type
       /\ told.explicit = Contains(words, <<"-b">>)
       /\ told.dir = opts.dir /\ told.clean = Contains(words, <<"--clean">>)
       /\ told.defines = DefinesIn(words) /\ told.target = opts.target
       /\ told.debug = Contains(words, <<"--debug">>)
       /\ told.image = Absent /\ told.forwarded = opts.forwarded
  BY <1>7, <1>8, <1>10 DEF ParseArgs, Has
<1>12. told.explicit = opts.explicit /\ told.clean = opts.clean /\ told.debug = opts.debug
  BY <1>3, <1>6, <1>11 DEF Contains
<1>13. Accepted(told)
  BY <1>3, <1>11, <1>12 DEF Accepted
<1> QED
  BY <1>9, <1>11, <1>12, <1>13 DEF argv

-----------------------------------------------------------------------------
(* The configuration where the home's files are not. *)

\* What does not depend on the home's file, nor on which shipped file it is.
Lasting(home, project, share, other, s) ==
    \/ Read(project)[s] \notin {Absent, Null}
    \/ /\ Read(project)[s] = Null \/ Read(home)[s] = Absent
       /\ ReadShipped(other)[s] = ReadShipped(share)[s]

LEMMA NotFailed == ASSUME NEW f, DOMAIN f = Settings PROVE f # Failed
<1>1. BuildType \in Settings
  BY DEF Settings
<1>2. DOMAIN <<>> = {}
  OBVIOUS
<1> QED
  BY <1>1, <1>2 DEF Failed

LEMMA SettingFacts ==
    /\ Use \in Settings /\ Head(Use) = "classifier"
    /\ \A n \in SetNames : RuleSet(n) \in Settings /\ Head(RuleSet(n)) = "classifier"
    /\ \A n : Head(Define(n)) # "classifier" /\ Define(n) # BuildType /\ Define(n)[3] = n
    /\ Head(BuildType) # "classifier" /\ BuildType \in Settings
    /\ \A n \in Names : Define(n) \in Settings
    /\ \A n : Head(Env(n)) # "classifier"
    /\ \A s \in Settings : s = Use \/ Head(s) # "classifier" \/ \E n \in SetNames : s = RuleSet(n)
<1>1. /\ Head(Use) = "classifier"
      /\ \A n : Head(RuleSet(n)) = "classifier"
      /\ \A n : Head(Define(n)) = "cmake"
      /\ \A n : Head(Env(n)) = "env"
      /\ Head(BuildType) = "build-type" /\ Head(<<"debugger">>) = "debugger"
      /\ Head(Mount) = "docker" /\ Head(BaldrPath) = "docker"
  BY DEF Use, RuleSet, Define, Env, BuildType, Mount, BaldrPath
<1>2. \A n : Define(n)[3] = n
  BY DEF Define
<1>3. \A n : Define(n) # BuildType
  BY <1>1
<1>4. /\ Use \in Settings /\ BuildType \in Settings
      /\ \A n \in SetNames : RuleSet(n) \in Settings
      /\ \A n \in Names : Define(n) \in Settings
  BY DEF Settings
<1>5. \A s \in Settings : s = Use \/ Head(s) # "classifier" \/ \E n \in SetNames : s = RuleSet(n)
  BY <1>1 DEF Settings
<1> QED
  BY <1>1, <1>2, <1>3, <1>4, <1>5

LEMMA LoadAlike ==
    ASSUME NEW home, NEW project, NEW share, NEW other, Load(home, project, share) # Failed
    PROVE  /\ Load(NoDir, project, other) # Failed =>
                 \A s \in Settings : Lasting(home, project, share, other, s) =>
                     Load(NoDir, project, other)[s] = Load(home, project, share)[s]
           /\ Load(NoDir, project, other) = Failed =>
                 \/ Read(other) = Failed
                 \/ \E s \in Settings : Head(s) = "classifier"
                                       /\ ~Lasting(home, project, share, other, s)
<1> DEFINE h == Read(home)
           p == Read(project)
           a == ReadShipped(share)
           b == ReadShipped(other)
           doc == Merge(a, Merge(h, p))
           inner == Merge(b, Merge(NoConfig, p))
           Same(s) == Lasting(home, project, share, other, s)
           Bad(d) == \/ \E s \in Settings \ {RuleSet(n) : n \in SetNames} : d[s] = Wrong
                     \/ RulesThrow(d)
<1>1. Read(NoDir) = NoConfig
  <2>1. Cardinality({}) = 0
    BY FS_EmptySet
  <2> QED
    BY <2>1 DEF Read, NoDir, Dir
<1>2. NoConfig # Failed
  BY NotFailed DEF NoConfig
<1>3. \A x, y, z : Load(x, y, z) = IF ReadShipped(z) = Failed \/ Read(x) = Failed \/ Read(y) = Failed
                              THEN Failed
                              ELSE Parsed(Merge(ReadShipped(z), Merge(Read(x), Read(y))))
  <2> SUFFICES ASSUME NEW x, NEW y, NEW z
               PROVE  Load(x, y, z)
                      = IF ReadShipped(z) = Failed \/ Read(x) = Failed \/ Read(y) = Failed THEN Failed
                        ELSE Parsed(Merge(ReadShipped(z), Merge(Read(x), Read(y))))
    OBVIOUS
  <2> DEFINE docs == <<ReadShipped(z), Read(x), Read(y)>>
  <2>1. docs[1] = ReadShipped(z) /\ docs[2] = Read(x) /\ docs[3] = Read(y)
    OBVIOUS
  <2>2. Load(x, y, z) = IF \E i \in 1..3 : docs[i] = Failed THEN Failed
                        ELSE Parsed(Merge(docs[1], Merge(docs[2], docs[3])))
    BY DEF Load
  <2> HIDE DEF docs
  <2>3. \A i \in 1..3 : i = 1 \/ i = 2 \/ i = 3
    OBVIOUS
  <2>4. (\E i \in 1..3 : docs[i] = Failed)
        <=> docs[1] = Failed \/ docs[2] = Failed \/ docs[3] = Failed
    BY <2>3
  <2> QED
    BY <2>1, <2>2, <2>4
<1>4. \A d : Parsed(d) = IF Bad(d) THEN Failed
                        ELSE [s \in Settings |-> IF d[s] = Absent THEN Default(s) ELSE d[s]]
  BY DEF Parsed
<1> HIDE DEF Bad
<1>5. /\ a # Failed /\ h # Failed /\ p # Failed /\ ~Bad(doc)
      /\ Load(home, project, share)
         = [s \in Settings |-> IF doc[s] = Absent THEN Default(s) ELSE doc[s]]
  BY <1>3, <1>4
<1>6. \A s \in Settings : /\ doc[s] = Over(a[s], Over(h[s], p[s]))
                         /\ inner[s] = Over(b[s], Over(Absent, p[s]))
  BY DEF Merge, NoConfig
<1>7. ASSUME NEW s \in Settings, Same(s) PROVE inner[s] = doc[s]
  BY <1>6, <1>7 DEF Lasting, Over
<1>8. ASSUME Load(NoDir, project, other) # Failed, NEW s \in Settings, Same(s)
      PROVE  Load(NoDir, project, other)[s] = Load(home, project, share)[s]
  <2>1. Load(NoDir, project, other)
        = [x \in Settings |-> IF inner[x] = Absent THEN Default(x) ELSE inner[x]]
    BY <1>1, <1>3, <1>4, <1>8
  <2> HIDE DEF inner, doc
  <2> QED
    BY <1>5, <1>7, <1>8, <2>1
<1>9. ASSUME Read(other) # Failed, \A s \in Settings : Head(s) = "classifier" => Same(s)
      PROVE  Load(NoDir, project, other) # Failed
  <2>1. b # Failed
    BY <1>9, NotFailed DEF ReadShipped
  <2>2. \A s \in Settings : Head(s) = "classifier" => inner[s] = doc[s]
    BY <1>7, <1>9
  <2>3. ASSUME NEW s \in Settings \ {RuleSet(n) : n \in SetNames} PROVE inner[s] # Wrong
    <3>1. doc[s] # Wrong
      BY <1>5 DEF Bad
    <3>2. CASE s = Use
      BY <2>2, <3>1, <3>2, SettingFacts
    <3>3. CASE s # Use
      <4>1. Head(s) # "classifier"
        BY <2>3, <3>3, SettingFacts
      <4>2. a[s] = Absent /\ b[s] = Absent
        BY <1>5, <2>1, <4>1 DEF ReadShipped
      <4>3. doc[s] = Over(Absent, Over(h[s], p[s])) /\ inner[s] = Over(Absent, Over(Absent, p[s]))
        BY <1>6, <4>2
      <4> HIDE DEF doc, inner
      <4> QED
        BY <3>1, <4>3, ConfigAssumption DEF Over
    <3> QED
      BY <3>2, <3>3
  <2>4. ~RulesThrow(inner)
    <3>1. ~RulesThrow(doc) /\ inner[Use] = doc[Use]
      BY <1>5, <2>2, SettingFacts DEF Bad
    <3>2. \A n \in SetNames : inner[RuleSet(n)] = doc[RuleSet(n)]
      BY <2>2, SettingFacts
    <3> HIDE DEF inner, doc
    <3> QED
      BY <3>1, <3>2 DEF RulesThrow
  <2>5. ~Bad(inner)
    <3> HIDE DEF inner
    <3> QED
      BY <2>3, <2>4 DEF Bad
  <2>6. Load(NoDir, project, other)
        = [s \in Settings |-> IF inner[s] = Absent THEN Default(s) ELSE inner[s]]
    BY <1>1, <1>2, <1>3, <1>4, <1>5, <2>1, <2>5
  <2> QED
    BY <2>6, NotFailed
<1> QED
  BY <1>8, <1>9

\* The settings are the same, with the same words, but for what depends on the
\* home's file or on the shipped one.
LEMMA MergedAlike ==
    ASSUME NEW opts, NEW told, told.explicit = opts.explicit, opts.explicit => told.type = opts.type,
           opts.explicit \in BOOLEAN, \A k \in Names : told.defines[k] = opts.defines[k],
           NEW home, NEW project, NEW share, NEW other,
           LoadMerged(opts, home, project, share) # Failed
    PROVE  LET cfg == LoadMerged(opts, home, project, share)
               new == LoadMerged(told, NoDir, project, other)
           IN  /\ new # Failed => \A s \in Settings :
                      \/ s = BuildType /\ opts.explicit
                      \/ \E n \in Names : s = Define(n) /\ opts.defines[n] # Absent
                      \/ Lasting(home, project, share, other, s)
                      => new[s] = cfg[s]
               /\ new = Failed =>
                      \/ Read(other) = Failed
                      \/ \E s \in Settings : Head(s) = "classifier"
                                            /\ ~Lasting(home, project, share, other, s)
<1> DEFINE Given(s) == \E k \in Names : opts.defines[k] # Absent /\ s = Define(k)
           out == Load(home, project, share)
           in == Load(NoDir, project, other)
           Typed(cfg, s) == IF opts.explicit /\ s = BuildType THEN opts.type ELSE cfg[s]
           cfg == LoadMerged(opts, home, project, share)
           new == LoadMerged(told, NoDir, project, other)
<1>1. /\ out # Failed /\ DOMAIN out = Settings
      /\ in # Failed => DOMAIN in = Settings
  <2>1. \A x, y, z : Load(x, y, z) # Failed => DOMAIN Load(x, y, z) = Settings
    BY DEF Load, Parsed
  <2> QED
    BY <2>1 DEF LoadMerged
<1>2. \A s \in Settings : cfg[s] = IF Given(s) THEN opts.defines[s[3]] ELSE Typed(out, s)
  <2> DEFINE typed == IF opts.explicit THEN [out EXCEPT ![BuildType] = opts.type] ELSE out
  <2>1. cfg = [s \in Settings |->
                 IF \E k \in {k \in Names : opts.defines[k] # Absent} : s = Define(k)
                 THEN opts.defines[s[3]] ELSE typed[s]]
    BY <1>1 DEF LoadMerged
  <2>2. \A s \in Settings : typed[s] = Typed(out, s)
    <3> HIDE DEF out
    <3> QED
      BY <1>1
  <2>3. \A s \in Settings : (\E k \in {k \in Names : opts.defines[k] # Absent} : s = Define(k))
                         <=> Given(s)
    OBVIOUS
  <2> HIDE DEF out, cfg, typed, Given, Typed
  <2> QED
    BY <2>1, <2>2, <2>3
<1>3. /\ in = Failed => new = Failed
      /\ in # Failed =>
             /\ new # Failed
             /\ \A s \in Settings : new[s] = IF Given(s) THEN opts.defines[s[3]] ELSE Typed(in, s)
  <2>1. in = Failed => new = Failed
    BY DEF LoadMerged
  <2>2. ASSUME in # Failed
        PROVE  new = [s \in Settings |-> IF Given(s) THEN opts.defines[s[3]] ELSE Typed(in, s)]
    <3>1. \A s \in Settings : (\E k \in {k \in Names : told.defines[k] # Absent} : s = Define(k))
                           <=> Given(s)
      OBVIOUS
    <3>2. \A s \in Settings : Given(s) => told.defines[s[3]] = opts.defines[s[3]]
      BY SettingFacts
    <3>3. \A s \in Settings : (IF told.explicit THEN [in EXCEPT ![BuildType] = told.type] ELSE in)[s]
                           = Typed(in, s)
      <4> HIDE DEF in
      <4> QED
        BY <1>1, <2>2
    <3> DEFINE typed == IF told.explicit THEN [in EXCEPT ![BuildType] = told.type] ELSE in
    <3>4. new = [s \in Settings |->
                   IF \E k \in {k \in Names : told.defines[k] # Absent} : s = Define(k)
                   THEN told.defines[s[3]] ELSE typed[s]]
      BY <2>2 DEF LoadMerged
    <3> HIDE DEF in, typed, Given, new, Typed
    <3> QED
      BY <3>1, <3>2, <3>3, <3>4 DEF typed
  <2> HIDE DEF in, new
  <2> QED
    BY <2>1, <2>2, NotFailed
<1>4. /\ in # Failed => \A s \in Settings : Lasting(home, project, share, other, s) => in[s] = out[s]
      /\ in = Failed => \/ Read(other) = Failed
                        \/ \E s \in Settings : Head(s) = "classifier"
                                              /\ ~Lasting(home, project, share, other, s)
  BY <1>1, LoadAlike
<1> HIDE DEF in, out, cfg, new
<1>5. ASSUME in # Failed, NEW s \in Settings,
             \/ s = BuildType /\ opts.explicit
             \/ \E n \in Names : s = Define(n) /\ opts.defines[n] # Absent
             \/ Lasting(home, project, share, other, s)
      PROVE  new[s] = cfg[s]
  <2>1. CASE Given(s)
    BY <1>2, <1>3, <1>5, <2>1
  <2>2. CASE ~Given(s) /\ s = BuildType /\ opts.explicit
    BY <1>2, <1>3, <1>5, <2>2
  <2>3. CASE ~Given(s) /\ ~(s = BuildType /\ opts.explicit)
    <3>1. in[s] = out[s]
      BY <1>4, <1>5, <2>3
    <3> QED
      BY <1>2, <1>3, <1>5, <2>3, <3>1
  <2> QED
    BY <2>1, <2>2, <2>3
<1> QED
  BY <1>3, <1>4, <1>5 DEF cfg, new
=============================================================================
