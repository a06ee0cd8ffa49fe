---------------------------- MODULE DockerProofs ----------------------------
(* Theorems about DockerRun: what Baldr's end says of the container, and what  *)
(* becomes of the container's output.                                          *)
EXTENDS DockerRun, InvocationProofs

Reported == {"success", "failure", "sigint"}

\* Where no container can run: none is created before Create, only Start makes
\* one run, and the client goes from its logs to its end by Wait alone, which
\* answers for a container that has ended.
Quiet == {"load", "step", "connect", "ping", "create", "start", "finish", "caught"}

\* The inductive invariant: how the run ends is open until it has, and the
\* container does not run where it cannot.
Run ==
    /\ pc # "exited" => how = "none"
    /\ pc \in Quiet => cont # "running"
    /\ how \in Reported => pc = "exited" /\ cont # "running"

\* The environment's steps start no container and move no client.
World == ConnectionLost \/ Write \/ ContainerExits \/ AutoRemove \/ CtrlC

LEMMA RunHolds == Spec => []Run
<1>1. Init => Run
  BY DEF Init, Run, Quiet, Reported
<1>2. Run /\ [Next]_vars => Run'
  <2> SUFFICES ASSUME Run, [Next]_vars PROVE Run'
    OBVIOUS
  <2> USE DEF Run, Quiet, Reported
  <2>1. CASE World
    BY <2>1 DEF World, ConnectionLost, Write, ContainerExits, AutoRemove, CtrlC, client, daemon
  <2>2. CASE LoadConfig \/ MakeClean \/ RunStep \/ Connect \/ Ping
    BY <2>2 DEF LoadConfig, MakeClean, RunStep, Connect, Ping, Goto, client, daemon
  <2>3. CASE Create
    BY <2>3 DEF Create
  <2>4. CASE Start \/ OpenLogs
    BY <2>4 DEF Start, OpenLogs, Goto, daemon
  <2>5. CASE ReadSome
    <3>1. UNCHANGED <<pc, daemon, how>>
      BY <2>5 DEF ReadSome
    <3> QED BY <3>1 DEF daemon
  <2>6. CASE LogsEnd \/ LogsBroken
    BY <2>6 DEF LogsEnd, LogsBroken, Goto, daemon
  <2>7. CASE Wait
    BY <2>7 DEF Wait, Goto, daemon
  <2>8. CASE Disconnected
    BY <2>8 DEF Disconnected, daemon
  <2>9. CASE Finish
    BY <2>9 DEF Finish, daemon
  <2>10. CASE UNCHANGED vars
    BY <2>10 DEF vars
  <2> QED BY <2>1, <2>2, <2>3, <2>4, <2>5, <2>6, <2>7, <2>8, <2>9, <2>10 DEF Next, Client, World
<1> QED BY <1>1, <1>2, PTL DEF Spec

\* For any images, outputs, chunks and statuses: Baldr does not end with a
\* container of its own running, unless by an exception nobody catches
\* (docker_run, stream_logs, wait_container).
THEOREM LeavesNone == Spec => []LeavesNoneRunning
<1>1. Run => LeavesNoneRunning
  BY DEF Run, LeavesNoneRunning, Reported
<1> QED BY <1>1, RunHolds, PTL

-----------------------------------------------------------------------------
(* The status. *)

\* A success of a container run is a container that ended with 0.
StatusIsReal ==
    how = "success" /\ ask.opts.image # Absent => cont \in {"exited", "removed"} /\ code = 0

\* The inductive invariant: the container's state is one of these, its code is
\* set when it ends and never again, and the status is that code, or one that
\* says that it is not known.
Status ==
    /\ pc \in {"load", "step", "connect", "ping", "create"} => cont = "none"
    /\ pc = "start" => cont = "created"
    /\ pc \in {"open_logs", "logs", "wait"} => cont \in {"running", "exited", "removed"}
    /\ ask.opts.image # Absent => pc # "step"
    /\ pc = "finish" /\ ask.opts.image # Absent /\ status = 0 =>
           cont \in {"exited", "removed"} /\ code = 0
    /\ pc # "exited" => how = "none"
    /\ StatusIsReal

LEMMA StatusHolds == Spec => []Status
<1> USE DEF Status, StatusIsReal
<1>1. Init => Status
  BY DEF Init
<1>2. Status /\ [Next]_vars => Status'
  <2> SUFFICES ASSUME Status, [Next]_vars PROVE Status'
    OBVIOUS
  <2>1. CASE ConnectionLost \/ Write \/ CtrlC
    BY <2>1 DEF ConnectionLost, Write, CtrlC, client, daemon
  <2>2. CASE ContainerExits \/ AutoRemove
    BY <2>2 DEF ContainerExits, AutoRemove, client
  <2>3. CASE LoadConfig \/ MakeClean \/ RunStep \/ Connect \/ Ping
    BY <2>3 DEF LoadConfig, MakeClean, RunStep, Connect, Ping, Goto, client, daemon
  <2>4. CASE Create
    BY <2>4 DEF Create
  <2>5. CASE Start \/ OpenLogs
    BY <2>5 DEF Start, OpenLogs, Goto, daemon
  <2>6. CASE ReadSome
    <3>1. UNCHANGED <<ask, pc, daemon, status, how>>
      BY <2>6 DEF ReadSome
    <3> QED BY <3>1 DEF daemon
  <2>7. CASE LogsEnd \/ LogsBroken
    BY <2>7 DEF LogsEnd, LogsBroken, Goto, daemon
  <2>8. CASE Wait
    BY <2>8 DEF Wait, Goto, daemon, Failure
  <2>9. CASE Disconnected
    BY <2>9 DEF Disconnected, daemon
  <2>10. CASE Finish
    BY <2>10 DEF Finish, daemon
  <2>11. CASE UNCHANGED vars
    BY <2>11 DEF vars
  <2> QED BY <2>1, <2>2, <2>3, <2>4, <2>5, <2>6, <2>7, <2>8, <2>9, <2>10, <2>11 DEF Next, Client
<1> QED BY <1>1, <1>2, PTL DEF Spec

-----------------------------------------------------------------------------
(* The line reader: what it does with bytes put one after the other. *)

Readers == [buf : Seq(Byte), out : Seq(Seq(Byte))]
EmptyReader == [buf |-> <<>>, out |-> <<>>]

LEMMA FeedByteType ==
    ASSUME NEW rd \in Readers, NEW c \in Byte PROVE FeedByte(rd, c) \in Readers
<1>1. CASE c = Newline
  BY <1>1 DEF FeedByte, Readers
<1>2. CASE c # Newline
  <2>1. FeedByte(rd, c) = [rd EXCEPT !.buf = Append(@, c)]
    BY <1>2 DEF FeedByte
  <2>2. Append(rd.buf, c) \in Seq(Byte)
    BY DEF Readers
  <2> QED
    BY <2>1, <2>2 DEF Readers
<1> QED
  BY <1>1, <1>2

\* The function that Feed and its recursion define.
FeedUpTo(rd, chunk) ==
    CHOOSE upTo : upTo = [n \in 0..Len(chunk) |->
                            IF n = 0 THEN rd ELSE FeedByte(upTo[n - 1], chunk[n])]

FeedStep(chunk) == [n \in 1..Len(chunk) |-> [r \in Readers |-> FeedByte(r, chunk[n])]]

LEMMA FeedRecursion ==
    ASSUME NEW rd \in Readers, NEW chunk \in Seq(Byte)
    PROVE  /\ Feed(rd, chunk) = FeedUpTo(rd, chunk)[Len(chunk)]
           /\ FeedUpTo(rd, chunk) \in [0..Len(chunk) -> Readers]
           /\ FeedUpTo(rd, chunk)[0] = rd
           /\ \A n \in 1..Len(chunk) :
                FeedUpTo(rd, chunk)[n] = FeedByte(FeedUpTo(rd, chunk)[n - 1], chunk[n])
<1> DEFINE Fits(f) == f = [n \in 0..Len(chunk) |->
                            IF n = 0 THEN rd ELSE FeedByte(f[n - 1], chunk[n])]
           step == FeedStep(chunk)
           upTo == FeedUpTo(rd, chunk)
<1>1. Len(chunk) \in Nat /\ \A n \in 1..Len(chunk) : chunk[n] \in Byte
  OBVIOUS
<1>2. step \in [1..Len(chunk) -> [Readers -> Readers]]
  BY <1>1, FeedByteType DEF FeedStep
<1>3. PICK f : Recurs(f, Len(chunk), Readers, rd, step)
  <2> HIDE DEF step
  <2> QED
    BY <1>1, <1>2, Recursion
<1>4. /\ f \in [0..Len(chunk) -> Readers] /\ f[0] = rd
      /\ \A n \in 1..Len(chunk) : f[n] = FeedByte(f[n - 1], chunk[n])
  <2>1. /\ f \in [0..Len(chunk) -> Readers] /\ f[0] = rd
        /\ \A n \in 1..Len(chunk) : f[n] = step[n][f[n - 1]]
    BY <1>3 DEF Recurs
  <2>2. ASSUME NEW n \in 1..Len(chunk) PROVE step[n][f[n - 1]] = FeedByte(f[n - 1], chunk[n])
    <3>1. n - 1 \in 0..Len(chunk)
      BY <1>1
    <3> QED
      BY <2>1, <3>1 DEF FeedStep
  <2> HIDE DEF step
  <2> QED
    BY <2>1, <2>2
<1>5. Fits(f)
  <2>1. \A n \in 0..Len(chunk) : n = 0 \/ n \in 1..Len(chunk)
    BY <1>1
  <2> QED
    BY <1>4, <2>1
<1>6. Fits(upTo)
  <2>1. upTo = CHOOSE g : Fits(g)
    BY DEF FeedUpTo
  <2> HIDE DEF Fits
  <2> QED
    BY <1>5, <2>1
<1>7. Feed(rd, chunk) = upTo[Len(chunk)]
  BY DEF Feed, FeedUpTo
<1> HIDE DEF upTo
<1>8. upTo[0] = rd /\ \A n \in 1..Len(chunk) : upTo[n] = FeedByte(upTo[n - 1], chunk[n])
  <2>1. \A n \in 0..Len(chunk) : upTo[n] = IF n = 0 THEN rd ELSE FeedByte(upTo[n - 1], chunk[n])
    BY <1>6
  <2>2. 0 \in 0..Len(chunk) /\ \A n \in 1..Len(chunk) : n \in 0..Len(chunk) /\ n # 0
    BY <1>1
  <2> HIDE DEF Fits
  <2> QED
    BY <2>1, <2>2
<1>9. upTo \in [0..Len(chunk) -> Readers]
  <2> DEFINE Good == {n \in Nat : n <= Len(chunk) => upTo[n] \in Readers}
  <2>1. 0 \in Good
    BY <1>8
  <2>2. ASSUME NEW n \in Nat, n \in Good PROVE n + 1 \in Good
    <3> SUFFICES ASSUME n + 1 <= Len(chunk) PROVE upTo[n + 1] \in Readers
      OBVIOUS
    <3>1. n + 1 \in 1..Len(chunk) /\ (n + 1) - 1 = n /\ upTo[n] \in Readers
      BY <1>1, <2>2
    <3>2. upTo[n + 1] = FeedByte(upTo[n], chunk[n + 1])
      BY <1>8, <3>1
    <3> QED
      BY <1>1, <3>1, <3>2, FeedByteType
  <2>3. Nat \subseteq Good
    <3> HIDE DEF Good
    <3> QED
      BY <2>1, <2>2, Induction
  <2>4. \A n \in 0..Len(chunk) : upTo[n] \in Readers
    BY <2>3
  <2>5. DOMAIN upTo = 0..Len(chunk) /\ upTo = [n \in DOMAIN upTo |-> upTo[n]]
    BY <1>6
  <2> HIDE DEF Fits
  <2> QED
    BY <2>4, <2>5
<1> QED
  BY <1>7, <1>8, <1>9 DEF upTo

LEMMA FeedEmpty == ASSUME NEW rd \in Readers PROVE Feed(rd, <<>>) = rd
<1>1. ASSUME NEW chunk \in Seq(Byte), Len(chunk) = 0 PROVE Feed(rd, chunk) = rd
  <2>1. /\ Feed(rd, chunk) = FeedUpTo(rd, chunk)[Len(chunk)]
        /\ FeedUpTo(rd, chunk)[0] = rd
    BY FeedRecursion
  <2> QED
    BY <1>1, <2>1
<1>2. <<>> \in Seq(Byte) /\ Len(<<>>) = 0
  OBVIOUS
<1> QED
  BY <1>1, <1>2

LEMMA FeedAppend ==
    ASSUME NEW rd \in Readers, NEW chunk \in Seq(Byte), NEW c \in Byte
    PROVE  /\ Feed(rd, chunk) \in Readers
           /\ Feed(rd, Append(chunk, c)) = FeedByte(Feed(rd, chunk), c)
<1> DEFINE long == Append(chunk, c)
           N == Len(chunk)
           f == FeedUpTo(rd, chunk)
           g == FeedUpTo(rd, long)
<1>1. /\ N \in Nat /\ long \in Seq(Byte) /\ Len(long) = N + 1 /\ long[N + 1] = c
      /\ \A i \in 1..N : long[i] = chunk[i]
  BY AppendProperties
<1> HIDE DEF long
<1>2. /\ Feed(rd, chunk) = f[N] /\ f[0] = rd /\ f \in [0..N -> Readers]
      /\ \A i \in 1..N : f[i] = FeedByte(f[i - 1], chunk[i])
  BY FeedRecursion
<1>3. /\ Feed(rd, long) = g[N + 1] /\ g[0] = rd
      /\ \A i \in 1..(N + 1) : g[i] = FeedByte(g[i - 1], long[i])
  <2>1. /\ Feed(rd, long) = FeedUpTo(rd, long)[Len(long)] /\ FeedUpTo(rd, long)[0] = rd
        /\ \A i \in 1..Len(long) :
              FeedUpTo(rd, long)[i] = FeedByte(FeedUpTo(rd, long)[i - 1], long[i])
    BY <1>1, FeedRecursion
  <2> QED
    BY <1>1, <2>1
<1> HIDE DEF f, g
<1>4. g[N] = f[N]
  <2> DEFINE Same == {i \in Nat : i <= N => g[i] = f[i]}
  <2>1. 0 \in Same
    BY <1>2, <1>3
  <2>2. ASSUME NEW i \in Nat, i \in Same PROVE i + 1 \in Same
    <3> SUFFICES ASSUME i + 1 <= N PROVE g[i + 1] = f[i + 1]
      OBVIOUS
    <3>1. i + 1 \in 1..N /\ i + 1 \in 1..(N + 1) /\ (i + 1) - 1 = i /\ g[i] = f[i]
      BY <1>1, <2>2
    <3>2. g[i + 1] = FeedByte(g[i], long[i + 1]) /\ f[i + 1] = FeedByte(f[i], chunk[i + 1])
      BY <1>2, <1>3, <3>1
    <3> QED
      BY <1>1, <3>1, <3>2
  <2>3. Nat \subseteq Same
    <3> HIDE DEF Same
    <3> QED
      BY <2>1, <2>2, Induction
  <2> QED
    BY <1>1, <2>3
<1>5. g[N + 1] = FeedByte(g[N], c)
  <2>1. N + 1 \in 1..(N + 1) /\ (N + 1) - 1 = N
    BY <1>1
  <2> QED
    BY <1>1, <1>3, <2>1
<1>6. f[N] \in Readers
  BY <1>1, <1>2
<1> QED
  BY <1>2, <1>3, <1>4, <1>5, <1>6 DEF long

\* Where the bytes are cut makes no difference.
LEMMA FeedConcat ==
    ASSUME NEW rd \in Readers, NEW a \in Seq(Byte), NEW b \in Seq(Byte)
    PROVE  Feed(Feed(rd, a), b) = Feed(rd, a \o b)
<1> DEFINE T == {t \in Seq(Byte) : Feed(Feed(rd, a), t) = Feed(rd, a \o t)}
<1>1. Feed(rd, a) \in Readers
  <2>1. 10 \in Byte
    BY DEF Byte
  <2> QED
    BY <2>1, FeedAppend
<1>2. <<>> \in T
  <2>1. a \o <<>> = a
    BY ConcatEmptySeq
  <2> QED
    BY <1>1, <2>1, FeedEmpty
<1>3. ASSUME NEW s \in Seq(Byte), NEW c \in Byte, s \in T PROVE Append(s, c) \in T
  <2>1. Append(s, c) \in Seq(Byte) /\ a \o s \in Seq(Byte)
    OBVIOUS
  <2>2. a \o Append(s, c) = Append(a \o s, c)
    OBVIOUS
  <2>3. Feed(Feed(rd, a), Append(s, c)) = FeedByte(Feed(Feed(rd, a), s), c)
    BY <1>1, FeedAppend
  <2>4. Feed(rd, Append(a \o s, c)) = FeedByte(Feed(rd, a \o s), c)
    BY <2>1, FeedAppend
  <2> QED
    BY <1>3, <2>1, <2>2, <2>3, <2>4
<1>4. Seq(Byte) \subseteq T
  <2> HIDE DEF T
  <2> QED
    BY <1>2, <1>3, SequenceInduction
<1> QED
  BY <1>4

LEMMA FeedType ==
    ASSUME NEW rd \in Readers, NEW chunk \in Seq(Byte) PROVE Feed(rd, chunk) \in Readers
<1>1. 10 \in Byte
  BY DEF Byte
<1> QED
  BY <1>1, FeedAppend

-----------------------------------------------------------------------------
(* The lines of a text, one byte further. *)

LEMMA NewlinesType ==
    ASSUME NEW t \in Seq(Byte), NEW n \in Nat
    PROVE  /\ Newlines(t, n) \in Nat
           /\ Newlines(t, 0) = 0
           /\ \A m \in Nat : m <= n => Newlines(t, m) <= Newlines(t, n)
<1> DEFINE upTo(k) == {i \in 1..k : t[i] = Newline}
<1>1. ASSUME NEW k \in Nat PROVE IsFiniteSet(upTo(k)) /\ Cardinality(upTo(k)) \in Nat
  <2>1. IsFiniteSet(1..k)
    BY FS_Interval
  <2>2. IsFiniteSet(upTo(k))
    BY <2>1, FS_Subset
  <2> QED
    BY <2>2, FS_CardinalityType
<1>2. Newlines(t, 0) = 0
  <2>1. upTo(0) = {}
    OBVIOUS
  <2> QED
    BY <2>1, FS_EmptySet DEF Newlines
<1>3. ASSUME NEW m \in Nat, m <= n PROVE Newlines(t, m) <= Newlines(t, n)
  <2>1. upTo(m) \subseteq upTo(n)
    BY <1>3
  <2> QED
    BY <1>1, <2>1, FS_Subset DEF Newlines
<1> QED
  BY <1>1, <1>2, <1>3 DEF Newlines

LEMMA NewlinesAppend ==
    ASSUME NEW t \in Seq(Byte), NEW c \in Byte
    PROVE  /\ \A n \in 0..Len(t) : Newlines(Append(t, c), n) = Newlines(t, n)
           /\ Newlines(Append(t, c), Len(t) + 1)
              = IF c = Newline THEN Newlines(t, Len(t)) + 1 ELSE Newlines(t, Len(t))
<1> DEFINE long == Append(t, c)
           N == Len(t)
           Here == {i \in 1..N : t[i] = Newline}
           There == {i \in 1..(N + 1) : long[i] = Newline}
<1>1. N \in Nat /\ long[N + 1] = c /\ \A i \in 1..N : long[i] = t[i]
  BY AppendProperties
<1> HIDE DEF long
<1>2. ASSUME NEW n \in 0..N PROVE Newlines(long, n) = Newlines(t, n)
  <2>1. {i \in 1..n : long[i] = Newline} = {i \in 1..n : t[i] = Newline}
    BY <1>1
  <2> QED
    BY <2>1 DEF Newlines
<1>3. IsFiniteSet(Here)
  <2>1. IsFiniteSet(1..N)
    BY <1>1, FS_Interval
  <2> QED
    BY <2>1, FS_Subset
<1>4. CASE c = Newline
  <2>1. There = Here \cup {N + 1} /\ N + 1 \notin Here
    BY <1>1, <1>4
  <2>2. Cardinality(There) = Cardinality(Here) + 1
    BY <1>3, <2>1, FS_AddElement
  <2> QED
    BY <1>2, <1>4, <2>2 DEF Newlines, long
<1>5. CASE c # Newline
  <2>1. There = Here
    BY <1>1, <1>5
  <2> QED
    BY <1>2, <1>5, <2>1 DEF Newlines, long
<1> QED
  BY <1>4, <1>5

\* The places of the newlines there were stay what they are, and a new one is
\* the last.
LEMMA PlacesAppend ==
    ASSUME NEW t \in Seq(Byte), NEW c \in Byte
    PROVE  /\ \A k \in 1..Newlines(t, Len(t)) : PlacesOf(Append(t, c), k) = PlacesOf(t, k)
           /\ c = Newline =>
                PlacesOf(Append(t, c), Newlines(t, Len(t)) + 1) = {Len(t) + 1}
<1> DEFINE long == Append(t, c)
           N == Len(t)
           M == Newlines(t, N)
<1>1. /\ N \in Nat /\ long \in Seq(Byte) /\ Len(long) = N + 1 /\ long[N + 1] = c
      /\ \A i \in 1..N : long[i] = t[i]
  BY AppendProperties
<1>2. /\ \A n \in 0..N : Newlines(long, n) = Newlines(t, n)
      /\ Newlines(long, N + 1) = IF c = Newline THEN M + 1 ELSE M
  BY NewlinesAppend
<1>3. M \in Nat /\ \A m \in Nat : m <= N => Newlines(t, m) <= M
  BY <1>1, NewlinesType
<1>4. DOMAIN long = 1..(N + 1) /\ DOMAIN t = 1..N
  BY <1>1
<1>5. \A i \in 1..N : Newlines(t, i) <= M
  BY <1>1, <1>3
<1>6. \A i \in 1..N : Newlines(long, i) = Newlines(t, i)
  BY <1>1, <1>2
<1> HIDE DEF long, M
<1>7. ASSUME NEW k \in 1..M PROVE PlacesOf(long, k) = PlacesOf(t, k)
  <2>1. ASSUME c = Newline PROVE Newlines(long, N + 1) # k
    BY <1>2, <1>3, <2>1
  <2>2. ASSUME NEW i \in PlacesOf(long, k) PROVE i \in PlacesOf(t, k)
    <3>1. i \in 1..(N + 1) /\ long[i] = Newline /\ Newlines(long, i) = k
      BY <1>4, <2>2 DEF PlacesOf
    <3>2. i \in 1..N
      BY <1>1, <2>1, <3>1
    <3> QED
      BY <1>1, <1>4, <1>6, <3>1, <3>2 DEF PlacesOf
  <2>3. ASSUME NEW i \in PlacesOf(t, k) PROVE i \in PlacesOf(long, k)
    <3>1. i \in 1..N /\ t[i] = Newline /\ Newlines(t, i) = k
      BY <1>4, <2>3 DEF PlacesOf
    <3> QED
      BY <1>1, <1>4, <1>6, <3>1 DEF PlacesOf
  <2> QED
    BY <2>2, <2>3
<1>8. ASSUME c = Newline PROVE PlacesOf(long, M + 1) = {N + 1}
  <2>1. N + 1 \in PlacesOf(long, M + 1)
    BY <1>1, <1>2, <1>4, <1>8 DEF PlacesOf
  <2>2. ASSUME NEW i \in PlacesOf(long, M + 1) PROVE i = N + 1
    <3>1. i \in 1..(N + 1) /\ Newlines(long, i) = M + 1
      BY <1>4, <2>2 DEF PlacesOf
    <3>2. i \notin 1..N
      <4>1. ASSUME i \in 1..N PROVE FALSE
        <5>1. Newlines(t, i) = M + 1 /\ Newlines(t, i) <= M
          BY <1>5, <1>6, <3>1, <4>1
        <5> QED
          BY <1>3, <5>1
      <4> QED
        BY <4>1
    <3> QED
      BY <1>1, <3>1, <3>2
  <2> QED
    BY <2>1, <2>2
<1> QED
  BY <1>7, <1>8 DEF long, M

\* Every newline has its place.
LEMMA EndsAreThere ==
    ASSUME NEW t \in Seq(Byte)
    PROVE  \A k \in 0..Newlines(t, Len(t)) : EndOf(t, k) \in 0..Len(t)
<1> DEFINE T == {s \in Seq(Byte) : \A k \in 1..Newlines(s, Len(s)) : PlacesOf(s, k) # {}}
<1>1. <<>> \in T
  <2>0. <<>> \in Seq(Byte) /\ Len(<<>>) = 0 /\ 0 \in Nat
    OBVIOUS
  <2>1. Newlines(<<>>, 0) = 0
    BY <2>0, NewlinesType
  <2>2. \A k \in 1..0 : FALSE
    OBVIOUS
  <2> QED
    BY <2>0, <2>1, <2>2
<1>2. ASSUME NEW s \in Seq(Byte), NEW c \in Byte, s \in T PROVE Append(s, c) \in T
  <2> DEFINE M == Newlines(s, Len(s))
  <2>1. Append(s, c) \in Seq(Byte) /\ Len(Append(s, c)) = Len(s) + 1
    BY AppendProperties
  <2>2. M \in Nat
    BY NewlinesType
  <2>3. Newlines(Append(s, c), Len(s) + 1) = IF c = Newline THEN M + 1 ELSE M
    BY NewlinesAppend
  <2>4. /\ \A k \in 1..M : PlacesOf(Append(s, c), k) = PlacesOf(s, k)
        /\ c = Newline => PlacesOf(Append(s, c), M + 1) = {Len(s) + 1}
    BY PlacesAppend
  <2>5. \A k \in 1..M : PlacesOf(s, k) # {}
    BY <1>2
  <2> HIDE DEF M
  <2>6. \A k \in 1..Newlines(Append(s, c), Len(s) + 1) : PlacesOf(Append(s, c), k) # {}
    <3>1. ASSUME NEW k \in 1..Newlines(Append(s, c), Len(s) + 1)
          PROVE  k \in 1..M \/ (c = Newline /\ k = M + 1)
      BY <2>2, <2>3
    <3> QED
      BY <2>4, <2>5, <3>1
  <2> QED
    BY <2>1, <2>6
<1>3. t \in T
  <2>1. Seq(Byte) \subseteq T
    <3> HIDE DEF T
    <3> QED
      BY <1>1, <1>2, SequenceInduction
  <2> QED
    BY <2>1
<1>4. Newlines(t, Len(t)) \in Nat /\ Len(t) \in Nat
  BY NewlinesType
<1>5. ASSUME NEW k \in 0..Newlines(t, Len(t)) PROVE EndOf(t, k) \in 0..Len(t)
  <2>1. CASE k = 0
    BY <1>4, <2>1 DEF EndOf
  <2>2. CASE k # 0
    <3>1. k \in 1..Newlines(t, Len(t))
      BY <1>4, <2>2
    <3>2. PlacesOf(t, k) # {} /\ PlacesOf(t, k) \subseteq 1..Len(t)
      BY <1>3, <3>1 DEF PlacesOf
    <3>3. Max(PlacesOf(t, k)) \in PlacesOf(t, k)
      BY <1>4, <3>2, GreatestNumber
    <3> QED
      BY <1>4, <2>2, <3>2, <3>3 DEF EndOf
  <2> QED
    BY <2>1, <2>2
<1> QED
  BY <1>5

\* What has been fed to an empty reader is kept or has become a line.
LEMMA FeedIsLines ==
    ASSUME NEW t \in Seq(Byte)
    PROVE  Feed(EmptyReader, t) = [buf |-> RestOf(t), out |-> LinesOf(t)]
<1> DEFINE Halves(s) == [buf |-> RestOf(s), out |-> LinesOf(s)]
           T == {s \in Seq(Byte) : Feed(EmptyReader, s) = Halves(s)}
<1>0. EmptyReader \in Readers
  BY DEF EmptyReader, Readers
<1>1. <<>> \in T
  <2>0. <<>> \in Seq(Byte) /\ Len(<<>>) = 0 /\ 0 \in Nat
    OBVIOUS
  <2>1. Newlines(<<>>, 0) = 0
    BY <2>0, NewlinesType
  <2>2. RestOf(<<>>) = <<>>
    BY <2>0, <2>1 DEF RestOf, EndOf
  <2>3. LinesOf(<<>>) = <<>>
    <3>1. 1..0 = {}
      OBVIOUS
    <3>2. \A f : [n \in {} |-> f[n]] = <<>>
      OBVIOUS
    <3> QED
      BY <2>0, <2>1, <3>1 DEF LinesOf
  <2>4. Feed(EmptyReader, <<>>) = EmptyReader
    BY <1>0, FeedEmpty
  <2> QED
    BY <2>0, <2>2, <2>3, <2>4 DEF EmptyReader
<1>2. ASSUME NEW s \in Seq(Byte), NEW c \in Byte, s \in T PROVE Append(s, c) \in T
  <2> DEFINE N == Len(s)
             M == Newlines(s, N)
             long == Append(s, c)
             end == EndOf(s, M)
  <2>1. /\ N \in Nat /\ long \in Seq(Byte) /\ Len(long) = N + 1 /\ long[N + 1] = c
        /\ \A i \in 1..N : long[i] = s[i]
    BY AppendProperties
  <2>2. M \in Nat
    BY NewlinesType
  <2>3. Newlines(long, N + 1) = IF c = Newline THEN M + 1 ELSE M
    BY NewlinesAppend
  <2>4. \A k \in 0..M : EndOf(s, k) \in 0..N
    BY EndsAreThere
  <2>5. \A k \in 0..M : EndOf(long, k) = EndOf(s, k)
    <3>1. \A k \in 1..M : PlacesOf(long, k) = PlacesOf(s, k)
      BY PlacesAppend
    <3>2. ASSUME NEW k \in 0..M PROVE EndOf(long, k) = EndOf(s, k)
      <4>1. k = 0 \/ k \in 1..M
        BY <2>2
      <4>2. CASE k = 0
        BY <4>2 DEF EndOf
      <4>3. CASE k \in 1..M
        <5>1. PlacesOf(long, k) = PlacesOf(s, k)
          BY <3>1, <4>3
        <5>2. k # 0
          BY <2>2, <4>3
        <5> QED
          BY <5>1, <5>2 DEF EndOf
      <4> QED
        BY <4>1, <4>2, <4>3
    <3> QED
      BY <3>2
  <2>6. c = Newline => EndOf(long, M + 1) = N + 1
    <3>1. c = Newline => PlacesOf(long, M + 1) = {N + 1}
      BY PlacesAppend
    <3>2. M + 1 # 0
      BY <2>2
    <3>3. Max({N + 1}) \in {N + 1}
      <4>1. N + 1 \in Nat /\ {N + 1} \subseteq 1..(N + 1) /\ {N + 1} # {}
        BY <2>1
      <4> QED
        BY <4>1, GreatestNumber
    <3> QED
      BY <3>1, <3>2, <3>3 DEF EndOf
  <2>7. Feed(EmptyReader, long) = FeedByte(Halves(s), c)
    BY <1>0, <1>2, FeedAppend
  <2>8. RestOf(s) \in Seq(Byte) /\ LinesOf(s) \in Seq(Seq(Byte))
    <3>1. Halves(s) \in Readers
      BY <1>0, <1>2, FeedType
    <3> QED
      BY <3>1 DEF Readers
  <2>9. end \in 0..N /\ RestOf(s) = SubSeq(s, end + 1, N)
    BY <2>2, <2>4 DEF RestOf
  <2>10. LinesOf(s) = [n \in 1..M |-> SubSeq(s, EndOf(s, n - 1) + 1, EndOf(s, n) - 1)]
    BY DEF LinesOf
  <2>11. \A n \in 1..M : SubSeq(long, EndOf(long, n - 1) + 1, EndOf(long, n) - 1)
                         = SubSeq(s, EndOf(s, n - 1) + 1, EndOf(s, n) - 1)
    <3>1. ASSUME NEW n \in 1..M
          PROVE  SubSeq(long, EndOf(long, n - 1) + 1, EndOf(long, n) - 1)
                 = SubSeq(s, EndOf(s, n - 1) + 1, EndOf(s, n) - 1)
      <4>1. n - 1 \in 0..M /\ n \in 0..M
        BY <2>2
      <4>2. EndOf(s, n - 1) \in 0..N /\ EndOf(s, n) \in 0..N
        BY <2>4, <4>1
      <4>3. \A a \in 0..N, b \in 0..N : SubSeq(long, a + 1, b - 1) = SubSeq(s, a + 1, b - 1)
        BY <2>1
      <4>4. EndOf(long, n - 1) = EndOf(s, n - 1) /\ EndOf(long, n) = EndOf(s, n)
        BY <2>5, <4>1
      <4> QED
        BY <4>2, <4>3, <4>4
    <3> QED
      BY <3>1
  <2> HIDE DEF M, end, long
  <2>12. CASE c # Newline
    <3>1. Newlines(long, Len(long)) = M
      BY <2>1, <2>3, <2>12
    <3>2. LinesOf(long) = LinesOf(s)
      BY <2>10, <2>11, <3>1 DEF LinesOf
    <3>3. RestOf(long) = SubSeq(long, end + 1, N + 1)
      <4>1. EndOf(long, M) = end
        BY <2>2, <2>5 DEF end
      <4> QED
        BY <2>1, <3>1, <4>1 DEF RestOf
    <3>4. SubSeq(long, end + 1, N + 1) = Append(SubSeq(s, end + 1, N), c)
      <4>1. end + 1 \in 1..(N + 1) /\ N + 1 \in 1..(N + 1) /\ (N + 1) - 1 = N
        BY <2>1, <2>9
      <4>2. SubSeq(long, end + 1, N + 1) = Append(SubSeq(long, end + 1, N), long[N + 1])
        BY <2>1, <4>1, SubSeqRecursiveSecond
      <4>3. SubSeq(long, end + 1, N) = SubSeq(s, end + 1, N)
        BY <2>1, <2>9
      <4> QED
        BY <2>1, <4>2, <4>3
    <3>5. FeedByte(Halves(s), c) = [buf |-> Append(RestOf(s), c), out |-> LinesOf(s)]
      BY <2>12 DEF FeedByte
    <3> QED
      BY <2>1, <2>7, <2>9, <3>2, <3>3, <3>4, <3>5 DEF long
  <2>13. CASE c = Newline
    <3>1. Newlines(long, Len(long)) = M + 1
      BY <2>1, <2>3, <2>13
    <3>2. RestOf(long) = <<>>
      <4>1. RestOf(long) = SubSeq(long, N + 2, N + 1)
        BY <2>1, <2>6, <2>13, <3>1 DEF RestOf
      <4> QED
        BY <2>1, <4>1
    <3>3. LinesOf(long) = Append(LinesOf(s), RestOf(s))
      <4>1. LinesOf(long) = [n \in 1..(M + 1) |->
                SubSeq(long, EndOf(long, n - 1) + 1, EndOf(long, n) - 1)]
        BY <3>1 DEF LinesOf
      <4>2. SubSeq(long, EndOf(long, (M + 1) - 1) + 1, EndOf(long, M + 1) - 1) = RestOf(s)
        <5>1. (M + 1) - 1 = M /\ (N + 1) - 1 = N
          BY <2>1, <2>2
        <5>2. EndOf(long, M) = end
          BY <2>2, <2>5 DEF end
        <5>3. SubSeq(long, end + 1, N) = SubSeq(s, end + 1, N)
          BY <2>1, <2>9
        <5> QED
          BY <2>6, <2>9, <2>13, <5>1, <5>2, <5>3
      <4>3. /\ Append(LinesOf(s), RestOf(s)) \in [1..(M + 1) -> Seq(Byte)]
            /\ Append(LinesOf(s), RestOf(s))[M + 1] = RestOf(s)
            /\ \A n \in 1..M : Append(LinesOf(s), RestOf(s))[n] = LinesOf(s)[n]
        <5>1. Len(LinesOf(s)) = M
          BY <2>2, <2>10
        <5>2. /\ Append(LinesOf(s), RestOf(s)) \in Seq(Seq(Byte))
              /\ Len(Append(LinesOf(s), RestOf(s))) = M + 1
              /\ Append(LinesOf(s), RestOf(s))[M + 1] = RestOf(s)
              /\ \A n \in 1..M : Append(LinesOf(s), RestOf(s))[n] = LinesOf(s)[n]
          BY <2>8, <5>1, AppendProperties
        <5>3. \A A \in Seq(Seq(Byte)) : Len(A) = M + 1 => A \in [1..(M + 1) -> Seq(Byte)]
          OBVIOUS
        <5> QED
          BY <5>2, <5>3
      <4>4. ASSUME NEW n \in 1..(M + 1), n # M + 1
            PROVE  SubSeq(long, EndOf(long, n - 1) + 1, EndOf(long, n) - 1) = LinesOf(s)[n]
                   /\ n \in 1..M
        <5>1. n \in 1..M
          BY <2>2, <4>4
        <5> QED
          BY <2>10, <2>11, <5>1
      <4> QED
        BY <4>1, <4>2, <4>3, <4>4
    <3>4. FeedByte(Halves(s), c) = [buf |-> <<>>, out |-> Append(LinesOf(s), RestOf(s))]
      BY <2>13 DEF FeedByte
    <3> QED
      BY <2>1, <2>7, <3>2, <3>3, <3>4 DEF long
  <2> QED
    BY <2>12, <2>13 DEF long
<1>3. Seq(Byte) \subseteq T
  <2> HIDE DEF T
  <2> QED
    BY <1>1, <1>2, SequenceInduction
<1> QED
  BY <1>3

-----------------------------------------------------------------------------
(* Frames, one after the other. *)

LEMMA FrameIs ==
    ASSUME NEW p \in Payloads
    PROVE  /\ p \in Seq(Byte)
           /\ Frame(p) \in Seq(Byte)
           /\ Len(Frame(p)) = HeaderSize + Len(p)
           /\ \A i \in 1..Len(p) : Frame(p)[HeaderSize + i] = p[i]
           /\ FramePayloadSize(Frame(p), 0) = Len(p)
<1> DEFINE n == Len(p)
           head == <<1, 0, 0, 0>> \o Size(n)
<1>1. p \in Seq(Byte) /\ n \in Nat /\ n \div (256 * 256 * 256) < 256
  BY DockerRunAssumption DEF Byte
<1>2. /\ n \div (256 * 256 * 256) \in Byte /\ n \div (256 * 256) % 256 \in Byte
      /\ n \div 256 % 256 \in Byte /\ n % 256 \in Byte
  <2> HIDE DEF n
  <2>1. n \div (256 * 256 * 256) \in Nat
    BY <1>1
  <2>2. n \div (256 * 256 * 256) \in Byte
    BY <1>1, <2>1 DEF Byte
  <2>3. n \div (256 * 256) % 256 \in Byte
    BY <1>1 DEF Byte
  <2>4. n \div 256 % 256 \in Byte /\ n % 256 \in Byte
    BY <1>1 DEF Byte
  <2> QED
    BY <2>2, <2>3, <2>4
<1>3. /\ head \in Seq(Byte) /\ Len(head) = 8
      /\ head[5] = n \div (256 * 256 * 256) /\ head[6] = n \div (256 * 256) % 256
      /\ head[7] = n \div 256 % 256 /\ head[8] = n % 256
  <2> HIDE DEF n
  <2>1. <<1, 0, 0, 0>> \in Seq(Byte)
    BY DEF Byte
  <2>2. Size(n) \in Seq(Byte)
    BY <1>2 DEF Size
  <2> QED
    BY <2>1, <2>2 DEF Size
<1>4. Frame(p) = head \o p
  BY DEF Frame
<1> HIDE DEF head
<1>5. /\ Frame(p) \in Seq(Byte) /\ Len(Frame(p)) = 8 + n
      /\ \A i \in 1..n : Frame(p)[8 + i] = p[i]
      /\ \A i \in 1..8 : Frame(p)[i] = head[i]
  <2> HIDE DEF n
  <2>1. p \in Seq(Byte) /\ head \in Seq(Byte)
    BY <1>1, <1>3
  <2>2. /\ head \o p \in Seq(Byte) /\ Len(head \o p) = Len(head) + Len(p)
        /\ \A i \in 1..Len(head) : (head \o p)[i] = head[i]
        /\ \A i \in 1..Len(p) : (head \o p)[Len(head) + i] = p[i]
    BY <2>1, ConcatParts
  <2>3. Len(p) = n /\ Len(head) = 8
    BY <1>3 DEF n
  <2> QED
    BY <1>4, <2>2, <2>3
<1>6. FramePayloadSize(Frame(p), 0)
      = ((head[5] * 256 + head[6]) * 256 + head[7]) * 256 + head[8]
  <2>1. /\ 0 + 5 = 5 /\ 0 + 6 = 6 /\ 0 + 7 = 7 /\ 0 + 8 = 8
        /\ 5 \in 1..8 /\ 6 \in 1..8 /\ 7 \in 1..8 /\ 8 \in 1..8
    OBVIOUS
  <2>2. /\ Frame(p)[0 + 5] = head[5] /\ Frame(p)[0 + 6] = head[6]
        /\ Frame(p)[0 + 7] = head[7] /\ Frame(p)[0 + 8] = head[8]
    BY <1>5, <2>1
  <2> QED
    BY <2>2 DEF FramePayloadSize
<1>7. ((head[5] * 256 + head[6]) * 256 + head[7]) * 256 + head[8] = n
  <2> HIDE DEF n
  <2> DEFINE a == n \div 256
             b == n \div (256 * 256)
             c == n \div (256 * 256 * 256)
  <2>1. a \in Nat /\ b \in Nat /\ c \in Nat
    BY <1>1
  <2>2. n % 256 = n - 256 * a
    BY <1>1
  <2>3. b = a \div 256 /\ c = b \div 256
    BY <1>1
  <2>4. a % 256 = a - 256 * b
    BY <2>1, <2>3
  <2>5. b % 256 = b - 256 * c
    BY <2>1, <2>3
  <2>6. head[5] = c /\ head[6] = b % 256 /\ head[7] = a % 256 /\ head[8] = n % 256
    BY <1>3
  <2> HIDE DEF a, b, c
  <2>7. c * 256 + (b % 256) = b
    BY <2>1, <2>5
  <2>8. b * 256 + (a % 256) = a
    BY <2>1, <2>4
  <2>9. a * 256 + (n % 256) = n
    BY <1>1, <2>1, <2>2
  <2> QED
    BY <2>6, <2>7, <2>8, <2>9
<1> QED
  BY <1>1, <1>5, <1>6, <1>7 DEF HeaderSize

LEMMA StreamEmpty == Stream(<<>>) = <<>> /\ FlattenSeq(<<>>) = <<>>
<1>1. DOMAIN <<>> = {}
  OBVIOUS
<1>2. [i \in {} |-> Frame(<<>>[i])] = <<>>
  OBVIOUS
<1>3. FlattenSeq(<<>>) = <<>>
  BY DEF FlattenSeq
<1> QED
  BY <1>1, <1>2, <1>3 DEF Stream

LEMMA StreamAppend ==
    ASSUME NEW fs \in Seq(Payloads), NEW p \in Payloads
    PROVE  /\ Stream(fs) \in Seq(Byte) /\ FlattenSeq(fs) \in Seq(Byte)
           /\ Stream(Append(fs, p)) = Stream(fs) \o Frame(p)
           /\ FlattenSeq(Append(fs, p)) = FlattenSeq(fs) \o p
<1> DEFINE N == Len(fs)
           framed(s) == [i \in DOMAIN s |-> Frame(s[i])]
<1>1. N \in Nat /\ DOMAIN fs = 1..N /\ \A i \in 1..N : fs[i] \in Payloads
  OBVIOUS
<1>2. \A q \in Payloads : q \in Seq(Byte) /\ Frame(q) \in Seq(Byte)
  BY FrameIs
<1>3. framed(fs) \in Seq(Seq(Byte)) /\ Len(framed(fs)) = N
  BY <1>1, <1>2
<1>4. framed(Append(fs, p)) = Append(framed(fs), Frame(p))
  <2> DEFINE long == Append(fs, p)
  <2>1. DOMAIN long = 1..(N + 1) /\ long[N + 1] = p /\ \A i \in 1..N : long[i] = fs[i]
    BY AppendProperties
  <2>2. /\ Append(framed(fs), Frame(p)) \in [1..(N + 1) -> Seq(Byte)]
        /\ Append(framed(fs), Frame(p))[N + 1] = Frame(p)
        /\ \A i \in 1..N : Append(framed(fs), Frame(p))[i] = Frame(fs[i])
    <3>1. \A i \in 1..N : framed(fs)[i] = Frame(fs[i])
      BY <1>1
    <3> HIDE DEF framed
    <3>2. /\ Append(framed(fs), Frame(p)) \in Seq(Seq(Byte))
          /\ Len(Append(framed(fs), Frame(p))) = N + 1
          /\ Append(framed(fs), Frame(p))[N + 1] = Frame(p)
          /\ \A i \in 1..N : Append(framed(fs), Frame(p))[i] = framed(fs)[i]
      BY <1>2, <1>3, AppendProperties
    <3>3. \A A \in Seq(Seq(Byte)) : Len(A) = N + 1 => A \in [1..(N + 1) -> Seq(Byte)]
      OBVIOUS
    <3> QED
      BY <3>1, <3>2, <3>3
  <2>3. \A i \in 1..(N + 1) : i = N + 1 \/ i \in 1..N
    BY <1>1
  <2>4. framed(long) = [i \in 1..(N + 1) |-> Frame(long[i])]
    BY <2>1
  <2> HIDE DEF framed, long
  <2>5. Append(framed(fs), Frame(p)) = [i \in 1..(N + 1) |-> Frame(long[i])]
    BY <2>1, <2>2, <2>3
  <2> QED
    BY <2>4, <2>5 DEF long
<1>5. fs \in Seq(Seq(Byte)) /\ p \in Seq(Byte) /\ Frame(p) \in Seq(Byte)
  BY <1>1, <1>2
<1>6. Stream(fs) = FlattenSeq(framed(fs))
      /\ Stream(Append(fs, p)) = FlattenSeq(framed(Append(fs, p)))
  BY DEF Stream
<1> HIDE DEF framed
<1> QED
  BY <1>3, <1>4, <1>5, <1>6, FlattenSeqAppend, FlattenSeqType

\* Where the frame after the k-th begins, and the payloads up to there.
Off(fs, k) == Len(Stream(SubSeq(fs, 1, k)))
Brought(fs, k) == FlattenSeq(SubSeq(fs, 1, k))

\* How the frames lie in their stream.
Laid(fs) ==
    /\ Stream(fs) \in Seq(Byte) /\ FlattenSeq(fs) \in Seq(Byte)
    /\ Off(fs, 0) = 0 /\ Brought(fs, 0) = <<>>
    /\ Off(fs, Len(fs)) = Len(Stream(fs)) /\ Brought(fs, Len(fs)) = FlattenSeq(fs)
    /\ \A k \in 0..Len(fs) : Off(fs, k) \in 0..Len(Stream(fs)) /\ Brought(fs, k) \in Seq(Byte)
    /\ \A k \in 1..Len(fs) :
        /\ Off(fs, k) = Off(fs, k - 1) + HeaderSize + Len(fs[k])
        /\ Brought(fs, k) = Brought(fs, k - 1) \o fs[k]
        /\ \A i \in 1..(HeaderSize + Len(fs[k])) :
               Stream(fs)[Off(fs, k - 1) + i] = Frame(fs[k])[i]

LEMMA LaidAppend ==
    ASSUME NEW fs \in Seq(Payloads), NEW p \in Payloads
    PROVE  \A k \in 0..Len(fs) : /\ SubSeq(Append(fs, p), 1, k) = SubSeq(fs, 1, k)
                                 /\ Off(Append(fs, p), k) = Off(fs, k)
                                 /\ Brought(Append(fs, p), k) = Brought(fs, k)
<1>1. ASSUME NEW k \in 0..Len(fs) PROVE SubSeq(Append(fs, p), 1, k) = SubSeq(fs, 1, k)
  OBVIOUS
<1> QED
  BY <1>1 DEF Off, Brought

LEMMA Layout == ASSUME NEW fs \in Seq(Payloads) PROVE Laid(fs)
<1> DEFINE T == {s \in Seq(Payloads) : Laid(s)}
<1>1. <<>> \in T
  <2>1. <<>> \in Seq(Payloads) /\ <<>> \in Seq(Byte) /\ Len(<<>>) = 0
    OBVIOUS
  <2>2. \A s \in Seq(Payloads) : Len(s) = 0 => SubSeq(s, 1, 0) = <<>>
    OBVIOUS
  <2>3. SubSeq(<<>>, 1, 0) = <<>>
    BY <2>1, <2>2
  <2>4. Off(<<>>, 0) = 0 /\ Brought(<<>>, 0) = <<>>
    BY <2>1, <2>3, StreamEmpty DEF Off, Brought
  <2>5. \A k \in 0..0 : k = 0
    OBVIOUS
  <2>6. \A k \in 1..0 : FALSE
    OBVIOUS
  <2> QED
    BY <2>1, <2>4, <2>5, <2>6, StreamEmpty DEF Laid
<1>2. ASSUME NEW s \in Seq(Payloads), NEW p \in Payloads, s \in T PROVE Append(s, p) \in T
  <2> DEFINE N == Len(s)
             long == Append(s, p)
             F == Frame(p)
             S == Stream(s)
             L == Stream(long)
  <2>1. /\ N \in Nat /\ long \in Seq(Payloads) /\ Len(long) = N + 1 /\ long[N + 1] = p
        /\ \A i \in 1..N : long[i] = s[i]
    BY AppendProperties
  <2>2. /\ p \in Seq(Byte) /\ F \in Seq(Byte) /\ Len(F) = HeaderSize + Len(p)
    BY FrameIs
  <2>3. /\ S \in Seq(Byte) /\ FlattenSeq(s) \in Seq(Byte)
        /\ L = S \o F /\ FlattenSeq(long) = FlattenSeq(s) \o p
    BY StreamAppend
  <2>4. \A k \in 0..N : Off(long, k) = Off(s, k) /\ Brought(long, k) = Brought(s, k)
    BY LaidAppend
  <2>5. SubSeq(long, 1, N + 1) = long
    BY <2>1
  <2>6. Off(long, N + 1) = Len(L) /\ Brought(long, N + 1) = FlattenSeq(long)
    BY <2>5 DEF Off, Brought
  <2>7. Laid(s)
    BY <1>2
  <2> HIDE DEF long, F, S, L
  <2>8. /\ L \in Seq(Byte) /\ Len(L) = Len(S) + HeaderSize + Len(p) /\ Len(S) \in Nat
        /\ Len(p) \in Nat
        /\ \A i \in 1..Len(S) : L[i] = S[i]
        /\ \A i \in 1..(HeaderSize + Len(p)) : L[Len(S) + i] = F[i]
    <3>1. Len(S) \in Nat /\ Len(p) \in Nat
      BY <2>2, <2>3
    <3>2. /\ S \o F \in Seq(Byte) /\ Len(S \o F) = Len(S) + Len(F)
          /\ \A i \in 1..Len(S) : (S \o F)[i] = S[i]
          /\ \A i \in 1..Len(F) : (S \o F)[Len(S) + i] = F[i]
      <4>1. S \in Seq(Byte) /\ F \in Seq(Byte)
        BY <2>2, <2>3
      <4> QED
        BY <4>1, ConcatParts
    <3>3. Len(S) + Len(F) = Len(S) + HeaderSize + Len(p)
      BY <2>2, <3>1 DEF HeaderSize
    <3> QED
      BY <2>2, <2>3, <3>1, <3>2, <3>3
  <2>9. FlattenSeq(long) \in Seq(Byte)
    BY <2>2, <2>3
  <2>10. /\ Off(s, N) = Len(S) /\ Brought(s, N) = FlattenSeq(s)
         /\ Off(s, 0) = 0 /\ Brought(s, 0) = <<>>
         /\ \A k \in 0..N : Off(s, k) \in 0..Len(S) /\ Brought(s, k) \in Seq(Byte)
    BY <2>7 DEF Laid, S
  <2>11. /\ Off(long, 0) = 0 /\ Brought(long, 0) = <<>>
         /\ \A k \in 0..(N + 1) : Off(long, k) \in 0..Len(L) /\ Brought(long, k) \in Seq(Byte)
    <3>1. \A k \in 0..(N + 1) : k \in 0..N \/ k = N + 1
      BY <2>1
    <3>2. 0 \in 0..N /\ Len(S) <= Len(L) /\ Len(L) \in Nat
      BY <2>1, <2>8 DEF HeaderSize
    <3>3. \A k \in 0..N : Off(long, k) \in 0..Len(L) /\ Brought(long, k) \in Seq(Byte)
      BY <2>4, <2>8, <2>10, <3>2
    <3> QED
      BY <2>4, <2>6, <2>9, <2>10, <3>1, <3>2, <3>3
  <2>12. ASSUME NEW k \in 1..(N + 1)
         PROVE  /\ Off(long, k) = Off(long, k - 1) + HeaderSize + Len(long[k])
                /\ Brought(long, k) = Brought(long, k - 1) \o long[k]
                /\ \A i \in 1..(HeaderSize + Len(long[k])) :
                       L[Off(long, k - 1) + i] = Frame(long[k])[i]
    <3>1. CASE k = N + 1
      <4>1. k - 1 = N /\ N \in 0..N
        BY <2>1, <3>1
      <4>2. Off(long, k - 1) = Len(S) /\ Brought(long, k - 1) = FlattenSeq(s)
        BY <2>4, <2>10, <4>1
      <4> QED
        BY <2>1, <2>3, <2>6, <2>8, <3>1, <4>2 DEF F
    <3>2. CASE k # N + 1
      <4>1. k \in 1..N /\ k \in 0..N /\ k - 1 \in 0..N
        BY <2>1, <3>2
      <4>2. /\ Off(s, k) = Off(s, k - 1) + HeaderSize + Len(s[k])
            /\ Brought(s, k) = Brought(s, k - 1) \o s[k]
            /\ \A i \in 1..(HeaderSize + Len(s[k])) : S[Off(s, k - 1) + i] = Frame(s[k])[i]
        BY <2>7, <4>1 DEF Laid, S
      <4>3. /\ long[k] = s[k] /\ Off(long, k) = Off(s, k) /\ Off(long, k - 1) = Off(s, k - 1)
            /\ Brought(long, k) = Brought(s, k) /\ Brought(long, k - 1) = Brought(s, k - 1)
        BY <2>1, <2>4, <4>1
      <4>4. \A i \in 1..(HeaderSize + Len(s[k])) : Off(s, k - 1) + i \in 1..Len(S)
        <5>1. Off(s, k) \in 0..Len(S) /\ Off(s, k - 1) \in 0..Len(S)
          BY <2>10, <4>1
        <5>2. Len(s[k]) \in Nat
          <6>1. s[k] \in Payloads
            BY <4>1
          <6> QED
            BY <6>1, FrameIs
        <5>3. Off(s, k) = Off(s, k - 1) + HeaderSize + Len(s[k])
          BY <4>2
        <5>4. \A u, v, w, n \in Nat : v = u + 8 + w /\ v <= n =>
                  \A i \in 1..(8 + w) : u + i \in 1..n
          OBVIOUS
        <5>5. Off(s, k) \in Nat /\ Off(s, k - 1) \in Nat /\ Off(s, k) <= Len(S)
          BY <2>8, <5>1
        <5> QED
          BY <2>8, <5>2, <5>3, <5>4, <5>5 DEF HeaderSize
      <4>5. \A i \in 1..(HeaderSize + Len(s[k])) : L[Off(s, k - 1) + i] = Frame(s[k])[i]
        BY <2>8, <4>2, <4>4
      <4> QED
        BY <4>2, <4>3, <4>5
    <3> QED
      BY <3>1, <3>2
  <2>13. Laid(long)
    BY <2>1, <2>6, <2>8, <2>9, <2>11, <2>12 DEF Laid, L
  <2> QED
    BY <2>1, <2>13 DEF long
<1>3. Seq(Payloads) \subseteq T
  <2> HIDE DEF T
  <2> QED
    BY <1>1, <1>2, SequenceInduction
<1> QED
  BY <1>3

-----------------------------------------------------------------------------
(* The demultiplexer: what the inner loop of stream_logs takes from a part *)
(* of the stream that ends anywhere.                                       *)

Cursors(bytes) == [offset : 0..Len(bytes), reader : Readers]

LEMMA PayloadSizeType ==
    ASSUME NEW bytes \in Seq(Byte), NEW at \in Nat, at + HeaderSize <= Len(bytes)
    PROVE  FramePayloadSize(bytes, at) \in Nat
<1>1. /\ at + 5 \in 1..Len(bytes) /\ at + 6 \in 1..Len(bytes)
      /\ at + 7 \in 1..Len(bytes) /\ at + 8 \in 1..Len(bytes)
  BY DEF HeaderSize
<1>2. /\ bytes[at + 5] \in Byte /\ bytes[at + 6] \in Byte
      /\ bytes[at + 7] \in Byte /\ bytes[at + 8] \in Byte
  BY <1>1
<1>3. \A a, b \in Nat : a * 256 + b \in Nat
  OBVIOUS
<1>4. Byte \subseteq Nat
  BY DEF Byte
<1>5. /\ bytes[at + 5] * 256 + bytes[at + 6] \in Nat
      /\ bytes[at + 7] \in Nat /\ bytes[at + 8] \in Nat
  BY <1>2, <1>3, <1>4
<1>6. (bytes[at + 5] * 256 + bytes[at + 6]) * 256 + bytes[at + 7] \in Nat
  BY <1>3, <1>5
<1> QED
  BY <1>3, <1>5, <1>6 DEF FramePayloadSize

LEMMA DecodeOneType ==
    ASSUME NEW bytes \in Seq(Byte), NEW r \in Cursors(bytes)
    PROVE  DecodeOne(bytes, r) \in Cursors(bytes)
<1>1. r.offset \in 0..Len(bytes) /\ r.reader \in Readers /\ Len(bytes) \in Nat
  BY DEF Cursors
<1>2. CASE ~WholeAt(bytes, r.offset)
  BY <1>2 DEF DecodeOne
<1>3. CASE WholeAt(bytes, r.offset)
  <2> DEFINE size == FramePayloadSize(bytes, r.offset)
             begin == r.offset + HeaderSize
  <2>1. begin <= Len(bytes) /\ begin + size <= Len(bytes)
    BY <1>3 DEF WholeAt
  <2>2. begin \in Nat
    BY <1>1 DEF HeaderSize
  <2>3. size \in Nat
    BY <1>1, <2>1, PayloadSizeType
  <2>4. DecodeOne(bytes, r) = [offset |-> begin + size,
                               reader |-> Feed(r.reader, SubSeq(bytes, begin + 1, begin + size))]
    BY <1>3 DEF DecodeOne
  <2> HIDE DEF begin, size
  <2>5. SubSeq(bytes, begin + 1, begin + size) \in Seq(Byte)
    BY <2>1, <2>2, <2>3
  <2>6. Feed(r.reader, SubSeq(bytes, begin + 1, begin + size)) \in Readers
    BY <1>1, <2>5, FeedType
  <2>7. begin + size \in 0..Len(bytes)
    BY <1>1, <2>1, <2>2, <2>3
  <2> QED
    BY <2>4, <2>6, <2>7 DEF Cursors
<1> QED
  BY <1>2, <1>3

\* The function that Decoded and its recursion define.
DecodeUpTo(bytes, rd) ==
    CHOOSE after : after = [n \in 0..Rounds(bytes) |->
                              IF n = 0 THEN [offset |-> 0, reader |-> rd]
                              ELSE DecodeOne(bytes, after[n - 1])]

DecodeStep(bytes) ==
    [n \in 1..Rounds(bytes) |-> [r \in Cursors(bytes) |-> DecodeOne(bytes, r)]]

LEMMA DecodeRecursion ==
    ASSUME NEW bytes \in Seq(Byte), NEW rd \in Readers
    PROVE  /\ Rounds(bytes) \in Nat
           /\ Decoded(bytes, rd)
              = [pending |-> SubSeq(bytes, DecodeUpTo(bytes, rd)[Rounds(bytes)].offset + 1,
                                    Len(bytes)),
                 reader |-> DecodeUpTo(bytes, rd)[Rounds(bytes)].reader]
           /\ DecodeUpTo(bytes, rd) \in [0..Rounds(bytes) -> Cursors(bytes)]
           /\ DecodeUpTo(bytes, rd)[0] = [offset |-> 0, reader |-> rd]
           /\ \A n \in 1..Rounds(bytes) :
                DecodeUpTo(bytes, rd)[n] = DecodeOne(bytes, DecodeUpTo(bytes, rd)[n - 1])
<1> DEFINE R == Rounds(bytes)
           base == [offset |-> 0, reader |-> rd]
           Fits(f) == f = [n \in 0..R |-> IF n = 0 THEN base ELSE DecodeOne(bytes, f[n - 1])]
           step == DecodeStep(bytes)
           after == DecodeUpTo(bytes, rd)
<1>1. R \in Nat
  <2>1. Len(bytes) \in Nat
    OBVIOUS
  <2> QED
    BY <2>1 DEF Rounds, HeaderSize
<1>2. base \in Cursors(bytes)
  BY DEF Cursors
<1>3. step \in [1..R -> [Cursors(bytes) -> Cursors(bytes)]]
  BY DecodeOneType DEF DecodeStep
<1>4. Decoded(bytes, rd) = [pending |-> SubSeq(bytes, after[R].offset + 1, Len(bytes)),
                            reader |-> after[R].reader]
  BY DEF Decoded, DecodeUpTo
<1> HIDE DEF R
<1>5. PICK f : Recurs(f, R, Cursors(bytes), base, step)
  <2> HIDE DEF step, base
  <2> QED
    BY <1>1, <1>2, <1>3, Recursion
<1>6. /\ f \in [0..R -> Cursors(bytes)] /\ f[0] = base
      /\ \A n \in 1..R : f[n] = DecodeOne(bytes, f[n - 1])
  <2>1. /\ f \in [0..R -> Cursors(bytes)] /\ f[0] = base
        /\ \A n \in 1..R : f[n] = step[n][f[n - 1]]
    BY <1>5 DEF Recurs
  <2>2. ASSUME NEW n \in 1..R PROVE step[n][f[n - 1]] = DecodeOne(bytes, f[n - 1])
    <3>1. n - 1 \in 0..R
      BY <1>1
    <3> QED
      BY <2>1, <3>1 DEF DecodeStep, R
  <2> HIDE DEF step, base
  <2> QED
    BY <2>1, <2>2
<1> HIDE DEF base
<1>7. Fits(f)
  <2>1. \A n \in 0..R : n = 0 \/ n \in 1..R
    BY <1>1
  <2> QED
    BY <1>6, <2>1
<1>8. Fits(after)
  <2>1. after = CHOOSE g : Fits(g)
    BY DEF DecodeUpTo, R, base
  <2> HIDE DEF Fits
  <2> QED
    BY <1>7, <2>1
<1> HIDE DEF after
<1>9. after[0] = base /\ \A n \in 1..R : after[n] = DecodeOne(bytes, after[n - 1])
  <2>1. \A n \in 0..R : after[n] = IF n = 0 THEN base ELSE DecodeOne(bytes, after[n - 1])
    BY <1>8
  <2>2. 0 \in 0..R /\ \A n \in 1..R : n \in 0..R /\ n # 0
    BY <1>1
  <2> HIDE DEF Fits
  <2> QED
    BY <2>1, <2>2
<1>10. after \in [0..R -> Cursors(bytes)]
  <2> DEFINE Good == {n \in Nat : n <= R => after[n] \in Cursors(bytes)}
  <2>1. 0 \in Good
    BY <1>2, <1>9
  <2>2. ASSUME NEW n \in Nat, n \in Good PROVE n + 1 \in Good
    <3> SUFFICES ASSUME n + 1 <= R PROVE after[n + 1] \in Cursors(bytes)
      OBVIOUS
    <3>1. n + 1 \in 1..R /\ (n + 1) - 1 = n /\ after[n] \in Cursors(bytes)
      BY <1>1, <2>2
    <3>2. after[n + 1] = DecodeOne(bytes, after[n])
      BY <1>9, <3>1
    <3> QED
      BY <3>1, <3>2, DecodeOneType
  <2>3. Nat \subseteq Good
    <3> HIDE DEF Good
    <3> QED
      BY <2>1, <2>2, Induction
  <2>4. \A n \in 0..R : after[n] \in Cursors(bytes)
    BY <2>3
  <2>5. DOMAIN after = 0..R /\ after = [n \in DOMAIN after |-> after[n]]
    BY <1>8
  <2> HIDE DEF Fits
  <2> QED
    BY <2>4, <2>5
<1> QED
  BY <1>1, <1>4, <1>9, <1>10 DEF after, R, base

LEMMA DecodedType ==
    ASSUME NEW bytes \in Seq(Byte), NEW rd \in Readers
    PROVE  Decoded(bytes, rd).pending \in Seq(Byte) /\ Decoded(bytes, rd).reader \in Readers
<1> DEFINE end == DecodeUpTo(bytes, rd)[Rounds(bytes)]
<1>1. end \in Cursors(bytes)
  <2>1. \A R \in Nat : R \in 0..R
    OBVIOUS
  <2> QED
    BY <2>1, DecodeRecursion
<1>2. Decoded(bytes, rd) = [pending |-> SubSeq(bytes, end.offset + 1, Len(bytes)),
                            reader |-> end.reader]
  BY DecodeRecursion
<1> HIDE DEF end
<1>3. end.offset \in 0..Len(bytes) /\ end.reader \in Readers /\ Len(bytes) \in Nat
  BY <1>1 DEF Cursors
<1>4. SubSeq(bytes, end.offset + 1, Len(bytes)) \in Seq(Byte)
  BY <1>3
<1> QED
  BY <1>2, <1>3, <1>4

\* c bytes of the stream are m whole frames and not one more.
Cut(fs, c, m) == Off(fs, m) <= c /\ (m < Len(fs) => c < Off(fs, m + 1))

\* One round where a frame begins, at here of a part of the stream after from.
LEMMA RoundAtFrame ==
    ASSUME NEW S \in Seq(Byte), NEW from \in Nat, NEW here \in Nat, NEW c \in 0..Len(S),
           from <= here, here <= c, NEW p \in Payloads,
           here + HeaderSize + Len(p) <= Len(S),
           \A i \in 1..(HeaderSize + Len(p)) : S[here + i] = Frame(p)[i],
           NEW rd \in Readers
    PROVE  DecodeOne(SubSeq(S, from + 1, c), [offset |-> here - from, reader |-> rd])
           = IF here + HeaderSize + Len(p) <= c
             THEN [offset |-> (here + HeaderSize + Len(p)) - from, reader |-> Feed(rd, p)]
             ELSE [offset |-> here - from, reader |-> rd]
<1> DEFINE bytes == SubSeq(S, from + 1, c)
           at == here - from
           r == [offset |-> at, reader |-> rd]
<1>1. /\ bytes \in Seq(Byte) /\ Len(bytes) = c - from
      /\ \A i \in 1..(c - from) : bytes[i] = S[from + i]
  OBVIOUS
<1>2. at \in Nat /\ from + at = here /\ c \in Nat
  OBVIOUS
<1>3. /\ p \in Seq(Byte) /\ Len(p) \in Nat /\ FramePayloadSize(Frame(p), 0) = Len(p)
      /\ \A i \in 1..Len(p) : Frame(p)[HeaderSize + i] = p[i]
  BY FrameIs
<1>4. r.offset = at /\ r.reader = rd
  OBVIOUS
<1> HIDE DEF bytes, at, r
<1>5. ASSUME NEW i \in 1..(HeaderSize + Len(p)), at + i <= c - from
      PROVE  bytes[at + i] = Frame(p)[i]
  <2>1. at + i \in 1..(c - from) /\ from + (at + i) = here + i
    BY <1>2, <1>3, <1>5 DEF HeaderSize
  <2>2. bytes[at + i] = S[from + (at + i)]
    BY <1>1, <2>1
  <2> QED
    BY <2>1, <2>2
<1>6. CASE ~(at + HeaderSize <= c - from)
  <2>1. ~WholeAt(bytes, at)
    BY <1>1, <1>6 DEF WholeAt
  <2>2. ~(here + HeaderSize + Len(p) <= c)
    BY <1>2, <1>3, <1>6 DEF HeaderSize
  <2>3. DecodeOne(bytes, r) = r
    BY <1>4, <2>1 DEF DecodeOne
  <2> QED
    BY <2>2, <2>3 DEF bytes, at, r
<1>7. CASE at + HeaderSize <= c - from
  <2>1. FramePayloadSize(bytes, at) = Len(p)
    <3>1. \A j \in 5..8 : j \in 1..(HeaderSize + Len(p)) /\ at + j <= c - from
      BY <1>2, <1>3, <1>7 DEF HeaderSize
    <3>2. 5 \in 5..8 /\ 6 \in 5..8 /\ 7 \in 5..8 /\ 8 \in 5..8
          /\ 0 + 5 = 5 /\ 0 + 6 = 6 /\ 0 + 7 = 7 /\ 0 + 8 = 8
      OBVIOUS
    <3>3. \A j \in 5..8 : bytes[at + j] = Frame(p)[j]
      BY <1>5, <3>1
    <3>4. /\ bytes[at + 5] = Frame(p)[0 + 5] /\ bytes[at + 6] = Frame(p)[0 + 6]
          /\ bytes[at + 7] = Frame(p)[0 + 7] /\ bytes[at + 8] = Frame(p)[0 + 8]
      BY <3>2, <3>3
    <3>5. FramePayloadSize(bytes, at) = FramePayloadSize(Frame(p), 0)
      BY <3>4 DEF FramePayloadSize
    <3> QED
      BY <1>3, <3>5
  <2>2. WholeAt(bytes, at) <=> here + HeaderSize + Len(p) <= c
    <3>1. WholeAt(bytes, at) <=> at + HeaderSize + Len(p) <= c - from
      BY <1>1, <1>7, <2>1 DEF WholeAt
    <3> QED
      BY <1>2, <1>3, <3>1 DEF HeaderSize
  <2>3. CASE ~(here + HeaderSize + Len(p) <= c)
    <3>1. DecodeOne(bytes, r) = r
      BY <1>4, <2>2, <2>3 DEF DecodeOne
    <3> QED
      BY <2>3, <3>1 DEF bytes, at, r
  <2>4. CASE here + HeaderSize + Len(p) <= c
    <3> DEFINE begin == at + HeaderSize
               q == SubSeq(bytes, begin + 1, begin + Len(p))
    <3>1. begin \in Nat /\ begin + Len(p) <= c - from /\ c - from \in Nat
      BY <1>2, <1>3, <2>4 DEF HeaderSize
    <3>2. /\ q \in Seq(Byte) /\ Len(q) = Len(p)
          /\ \A i \in 1..Len(p) : q[i] = bytes[begin + i]
      <4> HIDE DEF begin
      <4>1. \A s \in Seq(Byte), b, n \in Nat :
                b + n <= Len(s) => /\ SubSeq(s, b + 1, b + n) \in Seq(Byte)
                                   /\ Len(SubSeq(s, b + 1, b + n)) = n
                                   /\ \A i \in 1..n : SubSeq(s, b + 1, b + n)[i] = s[b + i]
        OBVIOUS
      <4> QED
        BY <1>1, <1>3, <3>1, <4>1
    <3>3. ASSUME NEW i \in 1..Len(p) PROVE q[i] = p[i]
      <4>0. i \in Nat /\ 1 <= i /\ i <= Len(p)
        BY <1>3
      <4>1. /\ HeaderSize + i \in 1..(HeaderSize + Len(p))
            /\ at + (HeaderSize + i) = begin + i /\ at + (HeaderSize + i) <= c - from
        <5>1. at + (HeaderSize + i) = begin + i
          BY <1>2, <4>0 DEF HeaderSize
        <5>2. begin + i <= c - from
          <6> HIDE DEF begin
          <6> QED
            BY <1>3, <3>1, <4>0
        <5> QED
          BY <1>3, <4>0, <5>1, <5>2 DEF HeaderSize
      <4>2. bytes[at + (HeaderSize + i)] = Frame(p)[HeaderSize + i]
        BY <1>5, <4>1
      <4> QED
        BY <1>3, <3>2, <4>1, <4>2
    <3>4. q = p
      <4> HIDE DEF q
      <4> QED
        BY <1>3, <3>2, <3>3, SeqEqual
    <3>5. DecodeOne(bytes, r) = [offset |-> begin + Len(p), reader |-> Feed(rd, p)]
      BY <1>4, <2>1, <2>2, <2>4, <3>4 DEF DecodeOne
    <3>6. begin + Len(p) = (here + HeaderSize + Len(p)) - from
      BY <1>2, <1>3 DEF HeaderSize
    <3> QED
      BY <2>4, <3>5, <3>6 DEF bytes, at, r
  <2> QED
    BY <2>3, <2>4
<1> QED
  BY <1>6, <1>7

\* Where the loop is when it has fed the frames up to the m-th, having begun
\* after the k-th.
At(fs, k, m) ==
    [offset |-> Off(fs, m) - Off(fs, k), reader |-> Feed(EmptyReader, Brought(fs, m))]

\* What is left to decode, of the first c bytes, after the k-th frame.
Part(fs, k, c) == SubSeq(Stream(fs), Off(fs, k) + 1, c)

\* One round, after the m-th frame: the next one is fed if it is all there.
LEMMA OneRound ==
    ASSUME NEW fs \in Seq(Payloads), NEW k \in 0..Len(fs), NEW m \in 0..Len(fs),
           NEW c \in 0..Len(Stream(fs)), Off(fs, k) <= Off(fs, m), Off(fs, m) <= c
    PROVE  /\ Cut(fs, c, m) => DecodeOne(Part(fs, k, c), At(fs, k, m)) = At(fs, k, m)
           /\ ~Cut(fs, c, m) =>
                /\ m + 1 \in 0..Len(fs)
                /\ Off(fs, m + 1) <= c /\ Off(fs, m) + HeaderSize <= Off(fs, m + 1)
                /\ DecodeOne(Part(fs, k, c), At(fs, k, m)) = At(fs, k, m + 1)
<1> DEFINE S == Stream(fs)
           N == Len(fs)
           p == fs[m + 1]
<1>1. Laid(fs) /\ N \in Nat
  BY Layout
<1>2. EmptyReader \in Readers
  BY DEF EmptyReader, Readers
<1>3. /\ S \in Seq(Byte) /\ Len(S) \in Nat /\ Off(fs, N) = Len(S) /\ c \in 0..Len(S)
      /\ Off(fs, k) \in Nat /\ Off(fs, m) \in Nat /\ c \in Nat /\ Brought(fs, m) \in Seq(Byte)
  BY <1>1 DEF Laid
<1>4. Feed(EmptyReader, Brought(fs, m)) \in Readers
  BY <1>2, <1>3, FeedType
<1>5. CASE m = N
  <2>1. c = Off(fs, m) /\ Cut(fs, c, m)
    <3>1. c <= Len(S)
      BY <1>3
    <3> HIDE DEF S, N
    <3>2. c = Off(fs, m)
      BY <1>3, <1>5, <3>1
    <3>3. ~(m < Len(fs))
      BY <1>1, <1>5 DEF N
    <3> QED
      BY <1>3, <3>2, <3>3 DEF Cut
  <2>2. Len(Part(fs, k, c)) = c - Off(fs, k)
    <3> HIDE DEF S
    <3>1. c <= Len(S)
      BY <1>3
    <3>2. \A s \in Seq(Byte), u, v \in Nat : u <= v /\ v <= Len(s) =>
              Len(SubSeq(s, u + 1, v)) = v - u
      OBVIOUS
    <3>3. Len(SubSeq(S, Off(fs, k) + 1, c)) = c - Off(fs, k)
      BY <1>3, <2>1, <3>1, <3>2
    <3> QED
      BY <3>3 DEF Part, S
  <2>3. At(fs, k, m).offset = Off(fs, m) - Off(fs, k)
    BY DEF At
  <2>4. ~WholeAt(Part(fs, k, c), At(fs, k, m).offset)
    <3>1. ~(Off(fs, m) - Off(fs, k) + HeaderSize <= c - Off(fs, k))
      BY <1>3, <2>1 DEF HeaderSize
    <3> QED
      BY <2>2, <2>3, <3>1 DEF WholeAt
  <2> QED
    BY <2>1, <2>4 DEF DecodeOne
<1>6. CASE m < N
  <2>1. m + 1 \in 1..N /\ (m + 1) - 1 = m /\ m + 1 \in 0..N /\ m \in Nat
    BY <1>1, <1>6
  <2>2. /\ p \in Payloads
        /\ Off(fs, m + 1) = Off(fs, m) + HeaderSize + Len(p) /\ Off(fs, m + 1) \in 0..Len(S)
        /\ Brought(fs, m + 1) = Brought(fs, m) \o p
        /\ \A i \in 1..(HeaderSize + Len(p)) : S[Off(fs, m) + i] = Frame(p)[i]
    <3>1. /\ Off(fs, m + 1) = Off(fs, (m + 1) - 1) + HeaderSize + Len(fs[m + 1])
          /\ Brought(fs, m + 1) = Brought(fs, (m + 1) - 1) \o fs[m + 1]
          /\ \A i \in 1..(HeaderSize + Len(fs[m + 1])) :
                 Stream(fs)[Off(fs, (m + 1) - 1) + i] = Frame(fs[m + 1])[i]
      BY <1>1, <2>1 DEF Laid
    <3>2. Off(fs, m + 1) \in 0..Len(S)
      BY <1>1, <2>1 DEF Laid
    <3>3. p \in Payloads
      BY <2>1
    <3> QED
      BY <2>1, <3>1, <3>2, <3>3
  <2>3. p \in Seq(Byte) /\ Len(p) \in Nat
    BY <2>2, FrameIs
  <2> HIDE DEF S, p
  <2>4. Off(fs, m) + HeaderSize + Len(p) <= Len(S)
    BY <1>3, <2>2
  <2>5. Cut(fs, c, m) <=> ~(Off(fs, m) + HeaderSize + Len(p) <= c)
    <3>1. Cut(fs, c, m) <=> c < Off(fs, m + 1)
      BY <1>6 DEF Cut
    <3>2. Off(fs, m) + HeaderSize + Len(p) \in Nat
      BY <1>3, <2>3 DEF HeaderSize
    <3>3. \A u, v \in Nat : u < v <=> ~(v <= u)
      OBVIOUS
    <3> QED
      BY <1>3, <2>2, <3>1, <3>2, <3>3
  <2>6. DecodeOne(SubSeq(S, Off(fs, k) + 1, c),
                  [offset |-> Off(fs, m) - Off(fs, k),
                   reader |-> Feed(EmptyReader, Brought(fs, m))])
        = IF Off(fs, m) + HeaderSize + Len(p) <= c
          THEN [offset |-> (Off(fs, m) + HeaderSize + Len(p)) - Off(fs, k),
                reader |-> Feed(Feed(EmptyReader, Brought(fs, m)), p)]
          ELSE [offset |-> Off(fs, m) - Off(fs, k),
                reader |-> Feed(EmptyReader, Brought(fs, m))]
    <3> DEFINE from == Off(fs, k)
               here == Off(fs, m)
               rd == Feed(EmptyReader, Brought(fs, m))
    <3>1. /\ from \in Nat /\ here \in Nat /\ rd \in Readers /\ from <= here /\ here <= c
          /\ here + HeaderSize + Len(p) <= Len(S)
          /\ \A i \in 1..(HeaderSize + Len(p)) : S[here + i] = Frame(p)[i]
      BY <1>3, <1>4, <2>2, <2>4
    <3> HIDE DEF from, here, rd
    <3>0. S \in Seq(Byte) /\ c \in 0..Len(S) /\ p \in Payloads
      BY <1>3, <2>2
    <3>2. DecodeOne(SubSeq(S, from + 1, c), [offset |-> here - from, reader |-> rd])
          = IF here + HeaderSize + Len(p) <= c
            THEN [offset |-> (here + HeaderSize + Len(p)) - from, reader |-> Feed(rd, p)]
            ELSE [offset |-> here - from, reader |-> rd]
      BY <3>0, <3>1, RoundAtFrame, ZenonT(60)
    <3> QED
      BY <3>2 DEF from, here, rd
  <2>7. Feed(Feed(EmptyReader, Brought(fs, m)), p) = Feed(EmptyReader, Brought(fs, m + 1))
    <3> DEFINE old == Brought(fs, m)
    <3>1. old \in Seq(Byte) /\ Brought(fs, m + 1) = old \o p
      BY <1>3, <2>2
    <3> HIDE DEF old
    <3>2. Feed(Feed(EmptyReader, old), p) = Feed(EmptyReader, old \o p)
      BY <1>2, <2>3, <3>1, FeedConcat
    <3> QED
      BY <3>1, <3>2 DEF old
  <2>8. Off(fs, m) + HeaderSize <= Off(fs, m + 1)
    BY <1>3, <2>2, <2>3 DEF HeaderSize
  <2>9. CASE Cut(fs, c, m)
    BY <2>5, <2>6, <2>9 DEF Part, At, S
  <2>10. CASE ~Cut(fs, c, m)
    <3>1. DecodeOne(SubSeq(S, Off(fs, k) + 1, c),
                    [offset |-> Off(fs, m) - Off(fs, k),
                     reader |-> Feed(EmptyReader, Brought(fs, m))])
          = [offset |-> Off(fs, m + 1) - Off(fs, k),
             reader |-> Feed(EmptyReader, Brought(fs, m + 1))]
      <4>1. Off(fs, m) + HeaderSize + Len(p) <= c
        BY <2>5, <2>10
      <4>2. DecodeOne(SubSeq(S, Off(fs, k) + 1, c),
                      [offset |-> Off(fs, m) - Off(fs, k),
                       reader |-> Feed(EmptyReader, Brought(fs, m))])
            = [offset |-> (Off(fs, m) + HeaderSize + Len(p)) - Off(fs, k),
               reader |-> Feed(Feed(EmptyReader, Brought(fs, m)), p)]
        BY <2>6, <4>1
      <4> QED
        <5>1. Off(fs, m) + HeaderSize + Len(p) = Off(fs, m + 1)
          BY <2>2
        <5> QED
          BY <2>7, <4>2, <5>1
    <3>2. Off(fs, m + 1) <= c
      BY <2>2, <2>5, <2>10
    <3> QED
      BY <2>1, <2>8, <2>10, <3>1, <3>2 DEF Part, At, S
  <2> QED
    BY <2>9, <2>10
<1> QED
  BY <1>1, <1>5, <1>6

LEMMA PartOfPart ==
    ASSUME NEW S \in Seq(Byte), NEW u \in Nat, NEW v \in Nat, NEW c \in 0..Len(S), u <= v, v <= c
    PROVE  /\ Len(SubSeq(S, u + 1, c)) = c - u
           /\ SubSeq(SubSeq(S, u + 1, c), (v - u) + 1, c - u) = SubSeq(S, v + 1, c)
<1> DEFINE outer == SubSeq(S, u + 1, c)
           d == v - u
           left == SubSeq(outer, d + 1, c - u)
           right == SubSeq(S, v + 1, c)
<1>1. /\ outer \in Seq(Byte) /\ Len(outer) = c - u
      /\ \A i \in 1..(c - u) : outer[i] = S[u + i]
  OBVIOUS
<1>2. /\ right \in Seq(Byte) /\ Len(right) = c - v
      /\ \A i \in 1..(c - v) : right[i] = S[v + i]
  OBVIOUS
<1>3. d \in Nat /\ u + d = v /\ c \in Nat /\ c - u \in Nat /\ d <= c - u /\ (c - u) - d = c - v
      /\ c - v \in Nat
  OBVIOUS
<1> HIDE DEF outer, d
<1>4. /\ left \in Seq(Byte) /\ Len(left) = (c - u) - d
      /\ \A i \in 1..((c - u) - d) : left[i] = outer[d + i]
  <2>1. \A s \in Seq(Byte), b, n \in Nat :
            b <= n /\ n <= Len(s) => /\ SubSeq(s, b + 1, n) \in Seq(Byte)
                                     /\ Len(SubSeq(s, b + 1, n)) = n - b
                                     /\ \A i \in 1..(n - b) : SubSeq(s, b + 1, n)[i] = s[b + i]
    OBVIOUS
  <2> QED
    BY <1>1, <1>3, <2>1
<1> HIDE DEF left, right
<1>5. ASSUME NEW i \in 1..(c - v) PROVE left[i] = right[i]
  <2>1. d + i \in 1..(c - u) /\ u + (d + i) = v + i
    BY <1>3
  <2>2. left[i] = outer[d + i] /\ outer[d + i] = S[u + (d + i)]
    BY <1>1, <1>3, <1>4, <2>1
  <2> QED
    BY <1>2, <2>1, <2>2
<1>6. left = right
  BY <1>2, <1>3, <1>4, <1>5, SeqEqual
<1> QED
  BY <1>1, <1>6 DEF outer, left, right, d

\* The loop takes every frame that is whole, and keeps what follows them.
LEMMA DecodePart ==
    ASSUME NEW fs \in Seq(Payloads), NEW k \in 0..Len(fs), NEW c \in 0..Len(Stream(fs)),
           Off(fs, k) <= c
    PROVE  \E m \in 0..Len(fs) :
               /\ Cut(fs, c, m)
               /\ Decoded(Part(fs, k, c), Feed(EmptyReader, Brought(fs, k)))
                  = [pending |-> Part(fs, m, c), reader |-> Feed(EmptyReader, Brought(fs, m))]
<1> DEFINE S == Stream(fs)
           N == Len(fs)
           bytes == Part(fs, k, c)
           rd == Feed(EmptyReader, Brought(fs, k))
           R == Rounds(bytes)
           after == DecodeUpTo(bytes, rd)
           Good(n, m) == /\ m \in 0..N /\ Off(fs, k) <= Off(fs, m) /\ Off(fs, m) <= c
                         /\ after[n] = At(fs, k, m)
                         /\ Cut(fs, c, m) \/ n * HeaderSize <= Off(fs, m) - Off(fs, k)
<1>1. Laid(fs) /\ N \in Nat
  BY Layout
<1>2. /\ S \in Seq(Byte) /\ Len(S) \in Nat /\ c \in Nat /\ c <= Len(S)
      /\ \A m \in 0..N : Off(fs, m) \in Nat /\ Brought(fs, m) \in Seq(Byte)
  BY <1>1 DEF Laid
<1>3. rd \in Readers
  <2>1. EmptyReader \in Readers
    BY DEF EmptyReader, Readers
  <2> QED
    BY <1>2, <2>1, FeedType
<1>4. bytes \in Seq(Byte) /\ Len(bytes) = c - Off(fs, k)
  <2>1. Off(fs, k) \in Nat
    BY <1>2
  <2> HIDE DEF S
  <2>2. \A s \in Seq(Byte), u, v \in Nat : u <= v /\ v <= Len(s) =>
            SubSeq(s, u + 1, v) \in Seq(Byte) /\ Len(SubSeq(s, u + 1, v)) = v - u
    OBVIOUS
  <2>3. /\ SubSeq(S, Off(fs, k) + 1, c) \in Seq(Byte)
        /\ Len(SubSeq(S, Off(fs, k) + 1, c)) = c - Off(fs, k)
    BY <1>2, <2>1, <2>2
  <2> QED
    BY <2>3 DEF Part, S
<1> HIDE DEF bytes, rd, S
<1>5. /\ R \in Nat
      /\ Decoded(bytes, rd) = [pending |-> SubSeq(bytes, after[R].offset + 1, Len(bytes)),
                               reader |-> after[R].reader]
      /\ after[0] = [offset |-> 0, reader |-> rd]
      /\ \A n \in 1..R : after[n] = DecodeOne(bytes, after[n - 1])
  BY <1>3, <1>4, DecodeRecursion
<1>6. Len(bytes) < (R + 1) * HeaderSize
  <2>1. \A n \in Nat : n < (n \div 8 + 1) * 8
    OBVIOUS
  <2>2. Len(bytes) \in Nat
    BY <1>4
  <2> QED
    BY <2>1, <2>2 DEF Rounds, HeaderSize
<1> HIDE DEF R, after
<1>7. \A n \in 0..R : \E m \in 0..N : Good(n, m)
  <2> DEFINE T == {n \in Nat : n <= R => \E m \in 0..N : Good(n, m)}
  <2>1. 0 \in T
    <3>1. At(fs, k, k) = [offset |-> 0, reader |-> rd]
      <4>1. Off(fs, k) - Off(fs, k) = 0
        BY <1>2
      <4> QED
        BY <4>1 DEF At, rd
    <3>2. Off(fs, k) <= Off(fs, k) /\ 0 * HeaderSize <= Off(fs, k) - Off(fs, k)
      BY <1>2 DEF HeaderSize
    <3>3. Good(0, k)
      BY <1>5, <3>1, <3>2
    <3> QED
      BY <3>3
  <2>2. ASSUME NEW n \in Nat, n \in T PROVE n + 1 \in T
    <3> SUFFICES ASSUME n + 1 <= R PROVE \E m \in 0..N : Good(n + 1, m)
      OBVIOUS
    <3>1. n + 1 \in 1..R /\ (n + 1) - 1 = n /\ n <= R
      BY <1>5
    <3>2. PICK m \in 0..N : Good(n, m)
      BY <2>2, <3>1
    <3>3. after[n + 1] = DecodeOne(bytes, At(fs, k, m))
      BY <1>5, <3>1, <3>2
    <3>4. /\ Cut(fs, c, m) => DecodeOne(bytes, At(fs, k, m)) = At(fs, k, m)
          /\ ~Cut(fs, c, m) =>
               /\ m + 1 \in 0..N
               /\ Off(fs, m + 1) <= c /\ Off(fs, m) + HeaderSize <= Off(fs, m + 1)
               /\ DecodeOne(bytes, At(fs, k, m)) = At(fs, k, m + 1)
      BY <3>2, OneRound DEF bytes
    <3>5. CASE Cut(fs, c, m)
      <4>1. Good(n + 1, m)
        BY <3>2, <3>3, <3>4, <3>5
      <4> QED
        BY <4>1
    <3>6. CASE ~Cut(fs, c, m)
      <4>1. n * HeaderSize <= Off(fs, m) - Off(fs, k)
        BY <3>2, <3>6
      <4>2. /\ m + 1 \in 0..N /\ Off(fs, m + 1) <= c /\ Off(fs, m) + HeaderSize <= Off(fs, m + 1)
            /\ after[n + 1] = At(fs, k, m + 1)
        BY <3>3, <3>4, <3>6
      <4>3. Off(fs, m) \in Nat /\ Off(fs, m + 1) \in Nat /\ Off(fs, k) \in Nat
        BY <1>2, <4>2
      <4>4. /\ (n + 1) * HeaderSize <= Off(fs, m + 1) - Off(fs, k)
            /\ Off(fs, k) <= Off(fs, m + 1)
        BY <3>2, <4>1, <4>2, <4>3 DEF HeaderSize
      <4>5. Good(n + 1, m + 1)
        BY <4>2, <4>4
      <4> QED
        BY <4>2, <4>5
    <3> QED
      BY <3>5, <3>6
  <2>3. Nat \subseteq T
    <3> HIDE DEF T
    <3> QED
      BY <2>1, <2>2, Induction
  <2>4. \A n \in 0..R : n \in Nat /\ n <= R
    BY <1>5
  <2> QED
    BY <2>3, <2>4
<1>8. PICK m \in 0..N : Good(R, m)
  <2>1. R \in 0..R
    BY <1>5
  <2> QED
    BY <1>7, <2>1
<1>9. Cut(fs, c, m)
  <2> SUFFICES ASSUME ~Cut(fs, c, m) PROVE FALSE
    OBVIOUS
  <2>1. m + 1 \in 0..N /\ Off(fs, m + 1) <= c /\ Off(fs, m) + HeaderSize <= Off(fs, m + 1)
    BY <1>8, OneRound
  <2>2. R * HeaderSize <= Off(fs, m) - Off(fs, k)
    BY <1>8
  <2>3. Off(fs, m) \in Nat /\ Off(fs, m + 1) \in Nat /\ Off(fs, k) \in Nat
    BY <1>2, <2>1
  <2> QED
    <3>1. \A n, l, u, v, w, d \in Nat :
              ~(/\ l = d - u /\ l < (n + 1) * 8 /\ w <= d /\ v + 8 <= w /\ n * 8 <= v - u)
      OBVIOUS
    <3>2. Len(bytes) \in Nat
      BY <1>4
    <3> QED
      BY <1>2, <1>4, <1>5, <1>6, <2>1, <2>2, <2>3, <3>1, <3>2 DEF HeaderSize
<1>10. SubSeq(bytes, after[R].offset + 1, Len(bytes)) = Part(fs, m, c)
  <2>1. after[R].offset = Off(fs, m) - Off(fs, k)
    BY <1>8 DEF At
  <2>2. SubSeq(bytes, (Off(fs, m) - Off(fs, k)) + 1, c - Off(fs, k)) = Part(fs, m, c)
    <3>1. /\ S \in Seq(Byte) /\ Off(fs, k) \in Nat /\ Off(fs, m) \in Nat /\ c \in 0..Len(S)
          /\ Off(fs, k) <= Off(fs, m) /\ Off(fs, m) <= c
      BY <1>2, <1>8
    <3> DEFINE u == Off(fs, k)
               v == Off(fs, m)
    <3>2. S \in Seq(Byte) /\ u \in Nat /\ v \in Nat /\ c \in 0..Len(S) /\ u <= v /\ v <= c
      BY <3>1
    <3>3. SubSeq(SubSeq(S, u + 1, c), (v - u) + 1, c - u) = SubSeq(S, v + 1, c)
      <4> HIDE DEF u, v
      <4> QED
        BY <3>2, PartOfPart
    <3> QED
      BY <3>3 DEF Part, S, bytes
  <2> QED
    BY <1>4, <2>1, <2>2
<1>11. after[R].reader = Feed(EmptyReader, Brought(fs, m))
  BY <1>8 DEF At
<1> QED
  BY <1>5, <1>9, <1>10, <1>11 DEF bytes, rd

\* The client's part of the logs: after some bytes of the stream, with the
\* frames that are whole among them fed to the reader and the rest kept.
InStream(fs, unread, kept, rd) ==
    \E c \in 0..Len(Stream(fs)), k \in 0..Len(fs) :
        /\ Cut(fs, c, k)
        /\ unread = SubSeq(Stream(fs), c + 1, Len(Stream(fs)))
        /\ kept = Part(fs, k, c)
        /\ rd = Feed(EmptyReader, Brought(fs, k))

LEMMA EmptyReaderType == EmptyReader \in Readers
BY DEF EmptyReader, Readers

LEMMA OpensInStream ==
    ASSUME NEW fs \in Seq(Payloads) PROVE InStream(fs, Stream(fs), <<>>, EmptyReader)
<1> DEFINE S == Stream(fs)
<1>1. Laid(fs) /\ Len(fs) \in Nat
  BY Layout
<1>2. S \in Seq(Byte) /\ Len(S) \in Nat /\ Off(fs, 0) = 0 /\ Brought(fs, 0) = <<>>
  BY <1>1 DEF Laid
<1>3. Cut(fs, 0, 0)
  <2>1. ASSUME 0 < Len(fs) PROVE 0 < Off(fs, 0 + 1)
    <3>1. 1 \in 1..Len(fs) /\ 1 - 1 = 0 /\ 0 + 1 = 1
      BY <1>1, <2>1
    <3>2. Off(fs, 1) = Off(fs, 1 - 1) + HeaderSize + Len(fs[1])
      BY <1>1, <3>1 DEF Laid
    <3>3. Len(fs[1]) \in Nat
      <4>1. fs[1] \in Payloads
        BY <3>1
      <4> QED
        BY <4>1, FrameIs
    <3> QED
      BY <1>2, <3>1, <3>2, <3>3 DEF HeaderSize
  <2> QED
    BY <1>2, <2>1 DEF Cut
<1> HIDE DEF S
<1>4. S = SubSeq(S, 0 + 1, Len(S)) /\ SubSeq(S, 0 + 1, 0) = <<>>
  BY <1>2
<1>5. Part(fs, 0, 0) = <<>>
  BY <1>2, <1>4 DEF Part, S
<1>6. Feed(EmptyReader, Brought(fs, 0)) = EmptyReader
  BY <1>2, EmptyReaderType, FeedEmpty
<1>7. 0 \in 0..Len(S) /\ 0 \in 0..Len(fs)
  BY <1>1, <1>2
<1> QED
  BY <1>3, <1>4, <1>5, <1>6, <1>7 DEF InStream, S

LEMMA ReadOn ==
    ASSUME NEW S \in Seq(Byte), NEW u \in Nat, NEW c \in 0..Len(S), u <= c, NEW n \in Nat,
           c + n <= Len(S)
    PROVE  /\ SubSeq(S, u + 1, c) \o SubSeq(SubSeq(S, c + 1, Len(S)), 1, n)
              = SubSeq(S, u + 1, c + n)
           /\ Len(SubSeq(S, c + 1, Len(S))) = Len(S) - c
           /\ SubSeq(SubSeq(S, c + 1, Len(S)), n + 1, Len(S) - c)
              = SubSeq(S, (c + n) + 1, Len(S))
<1> DEFINE rest == SubSeq(S, c + 1, Len(S))
           old == SubSeq(S, u + 1, c)
           new == SubSeq(rest, 1, n)
           all == SubSeq(S, u + 1, c + n)
<1>1. c \in Nat /\ Len(S) \in Nat /\ c <= Len(S) /\ c + n \in 0..Len(S)
  OBVIOUS
<1>2. \A s \in Seq(Byte), a, b \in Nat :
          a <= b /\ b <= Len(s) => /\ SubSeq(s, a + 1, b) \in Seq(Byte)
                                   /\ Len(SubSeq(s, a + 1, b)) = b - a
                                   /\ \A i \in 1..(b - a) : SubSeq(s, a + 1, b)[i] = s[a + i]
  OBVIOUS
<1>3. /\ rest \in Seq(Byte) /\ Len(rest) = Len(S) - c
      /\ \A i \in 1..(Len(S) - c) : rest[i] = S[c + i]
  BY <1>1, <1>2
<1>4. /\ old \in Seq(Byte) /\ Len(old) = c - u /\ \A i \in 1..(c - u) : old[i] = S[u + i]
  BY <1>1, <1>2
<1>5. /\ all \in Seq(Byte) /\ Len(all) = (c + n) - u
      /\ \A i \in 1..((c + n) - u) : all[i] = S[u + i]
  <2>1. u <= c + n /\ c + n \in Nat
    BY <1>1
  <2> QED
    BY <1>2, <2>1
<1> HIDE DEF rest, old, all
<1>6. /\ new \in Seq(Byte) /\ Len(new) = n /\ \A i \in 1..n : new[i] = S[c + i]
  <2>1. 0 <= n /\ n <= Len(rest) /\ 0 + 1 = 1 /\ n - 0 = n /\ \A i \in 1..n : 0 + i = i
    BY <1>1, <1>3
  <2>2. /\ SubSeq(rest, 0 + 1, n) \in Seq(Byte) /\ Len(SubSeq(rest, 0 + 1, n)) = n - 0
        /\ \A i \in 1..(n - 0) : SubSeq(rest, 0 + 1, n)[i] = rest[0 + i]
    BY <1>2, <1>3, <2>1
  <2>3. \A i \in 1..n : i \in 1..(Len(S) - c)
    BY <1>1
  <2> QED
    BY <1>3, <2>1, <2>2, <2>3
<1> HIDE DEF new
<1>7. old \o new = all
  <2>1. old \in Seq(Byte) /\ new \in Seq(Byte)
    BY <1>4, <1>6
  <2>2. /\ old \o new \in Seq(Byte) /\ Len(old \o new) = Len(old) + Len(new)
        /\ \A i \in 1..Len(old) : (old \o new)[i] = old[i]
        /\ \A i \in 1..Len(new) : (old \o new)[Len(old) + i] = new[i]
    BY <2>1, ConcatParts
  <2>3. Len(old \o new) = Len(all)
    BY <1>1, <1>4, <1>5, <1>6, <2>2
  <2>4. ASSUME NEW i \in 1..Len(old \o new) PROVE (old \o new)[i] = all[i]
    <3>1. i \in 1..((c + n) - u) /\ all[i] = S[u + i]
      BY <1>5, <2>3
    <3>2. CASE i <= c - u
      <4>1. i \in 1..(c - u)
        BY <1>1, <3>1, <3>2
      <4> QED
        BY <1>4, <2>2, <3>1, <4>1
    <3>3. CASE ~(i <= c - u)
      <4>1. i - (c - u) \in 1..n /\ (c - u) + (i - (c - u)) = i /\ c + (i - (c - u)) = u + i
        BY <1>1, <3>1, <3>3
      <4>2. (old \o new)[(c - u) + (i - (c - u))] = new[i - (c - u)]
        BY <1>4, <1>6, <2>2, <4>1
      <4>3. new[i - (c - u)] = S[c + (i - (c - u))]
        BY <1>6, <4>1
      <4> QED
        BY <3>1, <4>1, <4>2, <4>3
    <3> QED
      BY <3>2, <3>3
  <2> QED
    BY <1>5, <2>2, <2>3, <2>4, SeqEqual
<1>8. SubSeq(rest, n + 1, Len(S) - c) = SubSeq(S, (c + n) + 1, Len(S))
  <2> DEFINE L == Len(S)
             v == c + n
  <2>1. L \in 0..Len(S) /\ v \in Nat /\ c <= v /\ v <= L /\ v - c = n
    BY <1>1
  <2>2. SubSeq(SubSeq(S, c + 1, L), (v - c) + 1, L - c) = SubSeq(S, v + 1, L)
    <3> HIDE DEF L, v
    <3> QED
      BY <1>1, <2>1, PartOfPart
  <2> QED
    BY <2>1, <2>2 DEF rest
<1> QED
  BY <1>3, <1>7, <1>8 DEF rest, old, new, all

LEMMA ReadsInStream ==
    ASSUME NEW fs \in Seq(Payloads), NEW unread, NEW kept, NEW rd,
           InStream(fs, unread, kept, rd), NEW n \in Nat, n <= Len(unread)
    PROVE  InStream(fs, SubSeq(unread, n + 1, Len(unread)),
                    Decoded(kept \o SubSeq(unread, 1, n), rd).pending,
                    Decoded(kept \o SubSeq(unread, 1, n), rd).reader)
<1> DEFINE S == Stream(fs)
<1>1. PICK c \in 0..Len(S), k \in 0..Len(fs) :
          /\ Cut(fs, c, k)
          /\ unread = SubSeq(S, c + 1, Len(S))
          /\ kept = Part(fs, k, c)
          /\ rd = Feed(EmptyReader, Brought(fs, k))
  BY DEF InStream
<1>2. /\ S \in Seq(Byte) /\ Len(S) \in Nat /\ Off(fs, k) \in Nat /\ Off(fs, k) <= c /\ c \in Nat
  <2>1. Laid(fs)
    BY Layout
  <2> QED
    BY <1>1, <2>1 DEF Laid, Cut
<1> HIDE DEF S
<1>3. Len(unread) = Len(S) - c
  <2>1. \A s \in Seq(Byte), a \in Nat : a <= Len(s) => Len(SubSeq(s, a + 1, Len(s))) = Len(s) - a
    OBVIOUS
  <2> QED
    BY <1>1, <1>2, <2>1
<1>4. c + n <= Len(S) /\ c + n \in 0..Len(S) /\ Off(fs, k) <= c + n
  BY <1>2, <1>3
<1>5. /\ kept \o SubSeq(unread, 1, n) = Part(fs, k, c + n)
      /\ SubSeq(unread, n + 1, Len(unread)) = SubSeq(S, (c + n) + 1, Len(S))
  <2> DEFINE u == Off(fs, k)
  <2>1. u \in Nat /\ u <= c
    BY <1>2
  <2>2. /\ SubSeq(S, u + 1, c) \o SubSeq(SubSeq(S, c + 1, Len(S)), 1, n) = SubSeq(S, u + 1, c + n)
        /\ SubSeq(SubSeq(S, c + 1, Len(S)), n + 1, Len(S) - c) = SubSeq(S, (c + n) + 1, Len(S))
    <3> HIDE DEF u
    <3> QED
      BY <1>1, <1>2, <1>4, <2>1, ReadOn
  <2>3. Part(fs, k, c) = SubSeq(S, u + 1, c) /\ Part(fs, k, c + n) = SubSeq(S, u + 1, c + n)
    BY DEF Part, S
  <2> HIDE DEF u
  <2> QED
    BY <1>1, <1>3, <2>2, <2>3
<1>6. PICK m \in 0..Len(fs) :
          /\ Cut(fs, c + n, m)
          /\ Decoded(Part(fs, k, c + n), Feed(EmptyReader, Brought(fs, k)))
             = [pending |-> Part(fs, m, c + n), reader |-> Feed(EmptyReader, Brought(fs, m))]
  <2> DEFINE d == c + n
  <2>1. d \in 0..Len(Stream(fs)) /\ Off(fs, k) <= d
    BY <1>4 DEF S
  <2> HIDE DEF d
  <2>2. \E m \in 0..Len(fs) :
          /\ Cut(fs, d, m)
          /\ Decoded(Part(fs, k, d), Feed(EmptyReader, Brought(fs, k)))
             = [pending |-> Part(fs, m, d), reader |-> Feed(EmptyReader, Brought(fs, m))]
    BY <1>1, <2>1, DecodePart
  <2> QED
    BY <2>2 DEF d
<1>7. Decoded(kept \o SubSeq(unread, 1, n), rd)
      = [pending |-> Part(fs, m, c + n), reader |-> Feed(EmptyReader, Brought(fs, m))]
  <2> DEFINE x == kept \o SubSeq(unread, 1, n)
             y == Part(fs, k, c + n)
             z == Feed(EmptyReader, Brought(fs, k))
  <2>1. x = y /\ rd = z
    BY <1>1, <1>5
  <2>2. Decoded(x, rd) = Decoded(y, z)
    <3> HIDE DEF x, y, z
    <3> QED
      BY <2>1
  <2> DEFINE w == [pending |-> Part(fs, m, c + n), reader |-> Feed(EmptyReader, Brought(fs, m))]
  <2>3. Decoded(y, z) = w
    BY <1>6
  <2>4. Decoded(x, rd) = w
    <3> HIDE DEF x, y, z, w
    <3> QED
      BY <2>2, <2>3
  <2> QED
    BY <2>4
<1> DEFINE d == Decoded(kept \o SubSeq(unread, 1, n), rd)
<1>8. d.pending = Part(fs, m, c + n) /\ d.reader = Feed(EmptyReader, Brought(fs, m))
  BY <1>7
<1> HIDE DEF d
<1>9. InStream(fs, SubSeq(unread, n + 1, Len(unread)), d.pending, d.reader)
  BY <1>4, <1>5, <1>6, <1>8 DEF InStream, S
<1> QED
  BY <1>9 DEF d

LEMMA WritesInStream ==
    ASSUME NEW fs \in Seq(Payloads), NEW p \in Payloads, NEW unread, NEW kept, NEW rd,
           InStream(fs, unread, kept, rd)
    PROVE  InStream(Append(fs, p), unread \o Frame(p), kept, rd)
<1> DEFINE S == Stream(fs)
           N == Len(fs)
           F == Frame(p)
           long == Append(fs, p)
           L == Stream(long)
<1>1. PICK c \in 0..Len(S), k \in 0..N :
          /\ Cut(fs, c, k)
          /\ unread = SubSeq(S, c + 1, Len(S))
          /\ kept = Part(fs, k, c)
          /\ rd = Feed(EmptyReader, Brought(fs, k))
  BY DEF InStream
<1>2. /\ N \in Nat /\ long \in Seq(Payloads) /\ Len(long) = N + 1
      /\ S \in Seq(Byte) /\ Len(S) \in Nat /\ L = S \o F
      /\ F \in Seq(Byte) /\ Len(F) \in Nat /\ Len(F) > 0
  <2>1. S \in Seq(Byte) /\ L = S \o F
    BY StreamAppend
  <2>2. F \in Seq(Byte) /\ Len(F) = HeaderSize + Len(p) /\ p \in Seq(Byte)
    BY FrameIs
  <2>3. Len(F) > 0
    <3>1. Len(p) \in Nat
      BY <2>2
    <3> QED
      BY <2>2, <3>1 DEF HeaderSize
  <2> QED
    BY <2>1, <2>2, <2>3
<1>3. /\ Off(fs, k) \in Nat /\ Off(fs, k) <= c /\ c \in Nat /\ c <= Len(S)
      /\ \A j \in 0..N : Off(long, j) = Off(fs, j) /\ Brought(long, j) = Brought(fs, j)
  <2>1. Laid(fs)
    BY Layout
  <2>2. Off(fs, k) \in Nat /\ Off(fs, k) <= c /\ c \in Nat /\ c <= Len(S)
    BY <1>1, <1>2, <2>1 DEF Laid, Cut
  <2> QED
    BY <2>2, LaidAppend
<1>4. Off(long, N + 1) = Len(L)
  <2>1. Laid(long)
    BY <1>2, Layout
  <2> QED
    BY <1>2, <2>1 DEF Laid
<1> HIDE DEF S, F, long, L
<1>5. /\ L \in Seq(Byte) /\ Len(L) = Len(S) + Len(F) /\ Len(L) \in Nat
      /\ \A i \in 1..Len(S) : L[i] = S[i]
      /\ \A i \in 1..Len(F) : L[Len(S) + i] = F[i]
  <2>1. S \in Seq(Byte) /\ F \in Seq(Byte)
    BY <1>2
  <2>2. /\ S \o F \in Seq(Byte) /\ Len(S \o F) = Len(S) + Len(F)
        /\ \A i \in 1..Len(S) : (S \o F)[i] = S[i]
        /\ \A i \in 1..Len(F) : (S \o F)[Len(S) + i] = F[i]
    BY <2>1, ConcatParts
  <2> QED
    BY <1>2, <2>2
<1>6. Cut(long, c, k)
  <2>1. Off(long, k) <= c
    BY <1>3
  <2>2. CASE k = N
    <3>1. c < Off(long, k + 1)
      BY <1>2, <1>3, <1>4, <1>5, <2>2
    <3> QED
      BY <2>1, <3>1 DEF Cut
  <2>3. CASE k # N
    <3>1. k < N /\ k + 1 \in 0..N
      BY <1>2, <2>3
    <3>2. c < Off(fs, k + 1)
      BY <1>1, <3>1 DEF Cut
    <3> QED
      BY <1>3, <2>1, <3>1, <3>2 DEF Cut
  <2> QED
    BY <2>2, <2>3
<1>7. \A s \in Seq(Byte), a, b \in Nat :
          a <= b /\ b <= Len(s) => /\ SubSeq(s, a + 1, b) \in Seq(Byte)
                                   /\ Len(SubSeq(s, a + 1, b)) = b - a
                                   /\ \A i \in 1..(b - a) : SubSeq(s, a + 1, b)[i] = s[a + i]
  OBVIOUS
<1>8. unread \o F = SubSeq(L, c + 1, Len(L))
  <2> DEFINE right == SubSeq(L, c + 1, Len(L))
  <2>1. /\ unread \in Seq(Byte) /\ Len(unread) = Len(S) - c
        /\ \A i \in 1..(Len(S) - c) : unread[i] = S[c + i]
    BY <1>1, <1>2, <1>3, <1>7
  <2>2. /\ unread \o F \in Seq(Byte) /\ Len(unread \o F) = Len(unread) + Len(F)
        /\ \A i \in 1..Len(unread) : (unread \o F)[i] = unread[i]
        /\ \A i \in 1..Len(F) : (unread \o F)[Len(unread) + i] = F[i]
    <3>1. unread \in Seq(Byte) /\ F \in Seq(Byte)
      BY <1>2, <2>1
    <3> QED
      BY <3>1, ConcatParts
  <2>3. /\ right \in Seq(Byte) /\ Len(right) = Len(L) - c
        /\ \A i \in 1..(Len(L) - c) : right[i] = L[c + i]
    <3>1. c <= Len(L)
      BY <1>2, <1>3, <1>5
    <3> QED
      <4>1. Len(L) \in Nat /\ Len(L) <= Len(L) /\ L \in Seq(Byte) /\ c \in Nat
        BY <1>3, <1>5
      <4> QED
        BY <1>7, <3>1, <4>1
  <2> HIDE DEF right
  <2>4. Len(unread \o F) = Len(right)
    BY <1>2, <1>3, <1>5, <2>1, <2>2, <2>3
  <2>5. ASSUME NEW i \in 1..Len(unread \o F) PROVE (unread \o F)[i] = right[i]
    <3>1. i \in 1..(Len(L) - c) /\ right[i] = L[c + i]
      BY <2>3, <2>4
    <3>2. CASE i <= Len(S) - c
      <4>1. i \in 1..(Len(S) - c) /\ c + i \in 1..Len(S)
        BY <1>2, <1>3, <3>1, <3>2
      <4> QED
        BY <1>5, <2>1, <2>2, <3>1, <4>1
    <3>3. CASE ~(i <= Len(S) - c)
      <4> DEFINE j == i - (Len(S) - c)
      <4>1. j \in 1..Len(F) /\ (Len(S) - c) + j = i /\ Len(S) + j = c + i
        BY <1>2, <1>3, <1>5, <3>1, <3>3
      <4> HIDE DEF j
      <4>2. (unread \o F)[(Len(S) - c) + j] = F[j] /\ L[Len(S) + j] = F[j]
        BY <1>5, <2>1, <2>2, <4>1
      <4> QED
        BY <3>1, <4>1, <4>2
    <3> QED
      BY <3>2, <3>3
  <2>6. unread \o F = right
    BY <2>2, <2>3, <2>4, <2>5, SeqEqual
  <2> QED
    BY <2>6 DEF right
<1>9. kept = Part(long, k, c)
  <2> DEFINE u == Off(fs, k)
             left == SubSeq(S, u + 1, c)
             right == SubSeq(L, u + 1, c)
  <2>1. u \in Nat /\ u <= c
    BY <1>3
  <2>2. kept = left /\ Part(long, k, c) = right
    BY <1>1, <1>3 DEF Part, S, L
  <2> HIDE DEF u
  <2>3. c <= Len(L)
    BY <1>2, <1>3, <1>5
  <2>4. /\ left \in Seq(Byte) /\ Len(left) = c - u /\ \A i \in 1..(c - u) : left[i] = S[u + i]
    BY <1>2, <1>3, <1>7, <2>1
  <2>5. /\ right \in Seq(Byte) /\ Len(right) = c - u /\ \A i \in 1..(c - u) : right[i] = L[u + i]
    BY <1>3, <1>5, <1>7, <2>1, <2>3
  <2> HIDE DEF left, right
  <2>6. \A i \in 1..(c - u) : u + i \in 1..Len(S)
    BY <1>2, <1>3, <2>1
  <2>7. \A i \in 1..Len(left) : left[i] = right[i]
    BY <1>5, <2>4, <2>5, <2>6
  <2>8. left = right
    BY <2>4, <2>5, <2>7, SeqEqual
  <2> QED
    BY <2>2, <2>8
<1>10. c \in 0..Len(L) /\ k \in 0..Len(long)
  BY <1>2, <1>3, <1>5
<1>11. rd = Feed(EmptyReader, Brought(long, k))
  BY <1>1, <1>3
<1> QED
  BY <1>6, <1>8, <1>9, <1>10, <1>11 DEF InStream, F, long, L

\* Bytes of the stream are so many whole frames in one way only.
LEMMA OffsGrow ==
    ASSUME NEW fs \in Seq(Payloads), NEW j \in 0..Len(fs)
    PROVE  \A m \in 0..Len(fs) : j <= m => Off(fs, j) <= Off(fs, m)
<1> DEFINE N == Len(fs)
           T == {m \in Nat : m <= N /\ j <= m => Off(fs, j) <= Off(fs, m)}
<1>1. Laid(fs) /\ N \in Nat /\ j \in Nat
  BY Layout
<1>2. \A k \in 0..N : Off(fs, k) \in Nat
  BY <1>1 DEF Laid
<1>3. 0 \in T
  BY <1>1, <1>2
<1>4. ASSUME NEW m \in Nat, m \in T PROVE m + 1 \in T
  <2> SUFFICES ASSUME m + 1 <= N, j <= m + 1 PROVE Off(fs, j) <= Off(fs, m + 1)
    OBVIOUS
  <2>1. m + 1 \in 1..N /\ (m + 1) - 1 = m /\ m \in 0..N /\ m + 1 \in 0..N
    BY <1>1
  <2>2. Off(fs, m + 1) = Off(fs, (m + 1) - 1) + HeaderSize + Len(fs[m + 1])
    BY <1>1, <2>1 DEF Laid
  <2>3. Len(fs[m + 1]) \in Nat
    <3>1. fs[m + 1] \in Payloads
      BY <2>1
    <3> QED
      BY <3>1, FrameIs
  <2>4. Off(fs, m) <= Off(fs, m + 1)
    BY <1>2, <2>1, <2>2, <2>3 DEF HeaderSize
  <2>5. CASE j = m + 1
    BY <1>2, <2>1, <2>5
  <2>6. CASE j # m + 1
    <3>1. j <= m /\ m <= N
      BY <1>1, <2>1, <2>6
    <3>2. Off(fs, j) <= Off(fs, m)
      BY <1>4, <3>1
    <3> QED
      BY <1>1, <1>2, <2>1, <2>4, <3>2
  <2> QED
    BY <2>5, <2>6
<1>5. Nat \subseteq T
  <2> HIDE DEF T
  <2> QED
    BY <1>3, <1>4, Induction
<1> QED
  BY <1>1, <1>5

LEMMA CutIsLast ==
    ASSUME NEW fs \in Seq(Payloads), NEW c \in Nat, NEW k \in 0..Len(fs), Cut(fs, c, k)
    PROVE  \A n \in 0..Len(fs) : Off(fs, n) <= c => n <= k
<1> SUFFICES ASSUME NEW n \in 0..Len(fs), Off(fs, n) <= c, ~(n <= k) PROVE FALSE
  OBVIOUS
<1>1. k + 1 \in 0..Len(fs) /\ k + 1 <= n /\ k < Len(fs)
  OBVIOUS
<1>2. c < Off(fs, k + 1)
  BY <1>1 DEF Cut
<1>3. Off(fs, k + 1) <= Off(fs, n)
  BY <1>1, OffsGrow
<1>4. Off(fs, k + 1) \in Nat /\ Off(fs, n) \in Nat
  <2>1. Laid(fs)
    BY Layout
  <2> QED
    BY <1>1, <2>1 DEF Laid
<1> QED
  BY <1>2, <1>3, <1>4

\* At the end of the stream all lines have been logged.
LEMMA EndsInStream ==
    ASSUME NEW fs \in Seq(Payloads), NEW kept, NEW rd, InStream(fs, <<>>, kept, rd)
    PROVE  FeedEof(rd).out = AllLinesOf(FlattenSeq(fs))
<1> DEFINE S == Stream(fs)
           N == Len(fs)
<1>1. PICK c \in 0..Len(S), k \in 0..N :
          /\ Cut(fs, c, k) /\ <<>> = SubSeq(S, c + 1, Len(S))
          /\ rd = Feed(EmptyReader, Brought(fs, k))
  BY DEF InStream
<1>2. /\ Laid(fs) /\ N \in Nat /\ S \in Seq(Byte) /\ Len(S) \in Nat /\ Off(fs, N) = Len(S)
      /\ Brought(fs, N) = FlattenSeq(fs) /\ FlattenSeq(fs) \in Seq(Byte)
  <2>1. Laid(fs)
    BY Layout
  <2>2. /\ S \in Seq(Byte) /\ FlattenSeq(fs) \in Seq(Byte) /\ Off(fs, N) = Len(S)
        /\ Brought(fs, N) = FlattenSeq(fs)
    BY <2>1 DEF Laid
  <2>3. N \in Nat /\ Len(S) \in Nat
    BY <2>2
  <2> QED
    BY <2>1, <2>2, <2>3
<1> HIDE DEF S
<1>3. c = Len(S)
  <2>1. Len(SubSeq(S, c + 1, Len(S))) = 0
    <3>1. Len(<<>>) = 0
      OBVIOUS
    <3> QED
      BY <1>1, <3>1
  <2>2. Len(SubSeq(S, c + 1, Len(S))) = Len(S) - c
    BY <1>2
  <2> QED
    BY <1>2, <2>1, <2>2
<1>4. k = N
  <2>1. N \in 0..N /\ Off(fs, N) <= c /\ c \in Nat
    BY <1>2, <1>3
  <2>2. N <= k
    BY <1>1, <2>1, CutIsLast
  <2> QED
    BY <1>2, <2>2
<1>5. rd = [buf |-> RestOf(FlattenSeq(fs)), out |-> LinesOf(FlattenSeq(fs))]
  BY <1>1, <1>2, <1>4, FeedIsLines
<1>6. rd.buf = RestOf(FlattenSeq(fs)) /\ rd.out = LinesOf(FlattenSeq(fs))
  BY <1>5
<1> QED
  BY <1>6 DEF FeedEof, AllLinesOf

-----------------------------------------------------------------------------
(* The container's output, from its frames to the lines logged. *)

Unread == {"load", "step", "connect", "ping", "create", "start", "open_logs"}

\* All that the container wrote has been logged.
AllLogged == reader.out = AllLinesOf(FlattenSeq(frames))

\* The inductive invariant: nothing is read before the logs are asked for; while
\* the response is read, the reader has the frames that are whole and pending
\* the part of the next one; and once the response has come to its end all was
\* logged, if the container had not been removed.
Flow ==
    /\ frames \in Seq(Payloads)
    /\ pc \in Unread => pending = <<>> /\ reader = EmptyReader
    /\ pc = "logs" /\ up /\ cont # "removed" => InStream(frames, wire, pending, reader)
    /\ pc = "wait" /\ up => cont # "running" /\ (cont = "exited" => AllLogged)
    /\ pc = "finish" /\ ask.opts.image # Absent /\ status = 0 => AllLogged
    /\ how = "success" /\ ask.opts.image # Absent => AllLogged

LEMMA FlowHolds == Spec => []Flow
<1>1. Init => Flow
  BY DEF Init, Flow, EmptyReader
<1>2. Run /\ Status /\ Flow /\ [Next]_vars => Flow'
  <2> SUFFICES ASSUME Run, Status, Flow, [Next]_vars PROVE Flow'
    OBVIOUS
  <2> USE DEF Flow, AllLogged, Unread
  <2>1. CASE ConnectionLost \/ ContainerExits \/ AutoRemove \/ CtrlC
    BY <2>1
       DEF ConnectionLost, ContainerExits, AutoRemove, CtrlC, client, daemon, Run, Quiet, Reported
  <2>2. CASE Write
    <3>1. PICK p \in Payloads :
              /\ frames' = Append(frames, p)
              /\ wire' = IF up /\ pc = "logs" THEN wire \o Frame(p) ELSE wire
      BY <2>2 DEF Write
    <3>2. cont = "running" /\ UNCHANGED <<ask, client, up, cont>>
      BY <2>2 DEF Write
    <3>3. frames' \in Seq(Payloads)
      BY <3>1, AppendProperties
    <3>4. pc = "logs" /\ up => InStream(frames', wire', pending', reader')
      <4> SUFFICES ASSUME pc = "logs", up PROVE InStream(frames', wire', pending', reader')
        OBVIOUS
      <4>1. InStream(frames, wire, pending, reader)
        BY <3>2
      <4>2. InStream(Append(frames, p), wire \o Frame(p), pending, reader)
        BY <4>1, WritesInStream
      <4>3. wire' = wire \o Frame(p) /\ pending' = pending /\ reader' = reader
        BY <3>1, <3>2 DEF client
      <4> QED
        BY <3>1, <4>2, <4>3
    <3> QED
      BY <3>2, <3>3, <3>4 DEF client, Run, Quiet, Reported
  <2>3. CASE LoadConfig \/ MakeClean \/ RunStep \/ Connect \/ Ping
    BY <2>3 DEF LoadConfig, MakeClean, RunStep, Connect, Ping, Goto, client, daemon, Run, Status
  <2>4. CASE Create \/ Start
    BY <2>4 DEF Create, Start, Goto, daemon, Run
  <2>5. CASE OpenLogs
    <3>1. /\ pc = "open_logs" /\ pc' = "logs" /\ cont' = cont /\ frames' = frames
          /\ UNCHANGED <<ask, pending, reader, how, status>>
          /\ (cont # "removed" => wire' = Stream(frames))
      BY <2>5 DEF OpenLogs, Goto, daemon
    <3>2. InStream(frames, Stream(frames), <<>>, EmptyReader)
      BY OpensInStream
    <3>3. cont # "removed" => InStream(frames', wire', pending', reader')
      BY <3>1, <3>2
    <3> QED
      BY <3>1, <3>3 DEF Run
  <2>6. CASE ReadSome
    <3>1. PICK n \in Reads :
              /\ n <= Len(wire)
              /\ wire' = SubSeq(wire, n + 1, Len(wire))
              /\ pending' = Decoded(pending \o SubSeq(wire, 1, n), reader).pending
              /\ reader' = Decoded(pending \o SubSeq(wire, 1, n), reader).reader
      BY <2>6 DEF ReadSome
    <3>2. pc = "logs" /\ UNCHANGED <<ask, pc, up, cont, frames, status, how>>
      BY <2>6 DEF ReadSome, daemon
    <3>3. up /\ cont # "removed" => InStream(frames', wire', pending', reader')
      <4> SUFFICES ASSUME up, cont # "removed" PROVE InStream(frames', wire', pending', reader')
        OBVIOUS
      <4>1. InStream(frames, wire, pending, reader) /\ n \in Nat
        BY <3>2, DockerRunAssumption
      <4>2. InStream(frames, SubSeq(wire, n + 1, Len(wire)),
                     Decoded(pending \o SubSeq(wire, 1, n), reader).pending,
                     Decoded(pending \o SubSeq(wire, 1, n), reader).reader)
        BY <3>1, <4>1, ReadsInStream
      <4> QED
        BY <3>1, <3>2, <4>2
    <3> QED
      BY <3>2, <3>3 DEF Run
  <2>7. CASE LogsEnd
    <3>1. /\ pc = "logs" /\ pc' = "wait" /\ up /\ wire = <<>> /\ cont # "running"
          /\ reader' = FeedEof(reader) /\ UNCHANGED <<ask, up, cont, frames, status, how>>
      BY <2>7 DEF LogsEnd, Goto, daemon
    <3>2. cont = "exited" => FeedEof(reader).out = AllLinesOf(FlattenSeq(frames))
      <4> SUFFICES ASSUME cont = "exited"
                   PROVE  FeedEof(reader).out = AllLinesOf(FlattenSeq(frames))
        OBVIOUS
      <4>1. InStream(frames, <<>>, pending, reader)
        BY <3>1
      <4> QED
        BY <4>1, EndsInStream
    <3> QED
      BY <3>1, <3>2 DEF Run
  <2>8. CASE LogsBroken
    BY <2>8 DEF LogsBroken, Goto, daemon, Run
  <2>9. CASE Wait
    BY <2>9 DEF Wait, Goto, daemon, Run, Failure
  <2>10. CASE Disconnected
    BY <2>10 DEF Disconnected, daemon
  <2>11. CASE Finish
    BY <2>11 DEF Finish, daemon
  <2>12. CASE UNCHANGED vars
    BY <2>12 DEF vars
  <2> QED
    BY <2>1, <2>2, <2>3, <2>4, <2>5, <2>6, <2>7, <2>8, <2>9, <2>10, <2>11, <2>12
       DEF Next, Client
<1> QED
  BY <1>1, <1>2, RunHolds, StatusHolds, PTL DEF Spec

\* For any output of the container, cut into any chunks: while the response is
\* read, exactly the complete lines of the frames received have been logged, each
\* once and in order, and the partial line is kept (stream_logs, line_reader::feed).
THEOREM WholeLines == Spec => []LinesAreWhole
<1>1. Flow => LinesAreWhole
  <2> SUFFICES ASSUME Flow, pc = "logs", up, cont # "removed"
               PROVE  reader.out = LinesOf(Received) /\ reader.buf = RestOf(Received)
    BY DEF LinesAreWhole
  <2> DEFINE S == Stream(frames)
             N == Len(frames)
             bytes == Len(S) - Len(wire)
             whole == {n \in 0..N : Len(Stream(SubSeq(frames, 1, n))) <= bytes}
             Latest(n) == n \in whole /\ \A m \in whole : m <= n
  <2>1. frames \in Seq(Payloads) /\ InStream(frames, wire, pending, reader)
    BY DEF Flow
  <2>2. PICK c \in 0..Len(S), k \in 0..N :
            /\ Cut(frames, c, k) /\ wire = SubSeq(S, c + 1, Len(S))
            /\ reader = Feed(EmptyReader, Brought(frames, k))
    BY <2>1 DEF InStream
  <2>3. Laid(frames) /\ S \in Seq(Byte) /\ Len(S) \in Nat /\ N \in Nat
    <3>1. Laid(frames)
      BY <2>1, Layout
    <3>2. S \in Seq(Byte)
      BY <3>1 DEF Laid
    <3>3. N \in Nat /\ Len(S) \in Nat
      BY <2>1, <3>2
    <3> QED
      BY <3>1, <3>2, <3>3
  <2>4. bytes = c
    <3> HIDE DEF S
    <3>1. Len(wire) = Len(S) - c
      BY <2>2, <2>3
    <3> QED
      BY <2>3, <3>1
  <2>5. whole = {n \in 0..N : Off(frames, n) <= c}
    BY <2>4 DEF Off
  <2> HIDE DEF whole, S
  <2>6. Latest(k)
    BY <2>1, <2>2, <2>3, <2>5, CutIsLast DEF Cut
  <2>7. \A n : Latest(n) => n = k
    <3>1. whole \subseteq Nat /\ k \in Nat
      BY <2>3, <2>5
    <3> QED
      BY <2>6, <3>1
  <2>8. (CHOOSE n \in whole : \A m \in whole : m <= n) = k
    BY <2>6, <2>7
  <2>9. Received = Brought(frames, k)
    BY <2>8 DEF Received, Brought, whole, S
  <2>10. Brought(frames, k) \in Seq(Byte)
    BY <2>2, <2>3 DEF Laid
  <2>11. reader = [buf |-> RestOf(Received), out |-> LinesOf(Received)]
    BY <2>2, <2>9, <2>10, FeedIsLines
  <2> QED
    BY <2>11
<1> QED
  BY <1>1, FlowHolds, PTL

\* A success of Baldr's is a container that ended with 0 and whose whole output
\* was logged, the last line without a newline too (docker_run, stream_logs,
\* wait_container).
THEOREM SuccessesAreReal == Spec => []SuccessIsReal
<1>1. Status /\ Flow => SuccessIsReal
  BY DEF Status, StatusIsReal, Flow, AllLogged, SuccessIsReal
<1> QED
  BY <1>1, StatusHolds, FlowHolds, PTL

-----------------------------------------------------------------------------
(* Types. *)

EnvOK(made) == DOMAIN made.env = Vars

\* TypeOK, with the sequences as such, and the status of a container that has
\* ended one that it may end with.
Typed ==
    /\ ask \in Asks
    /\ pc \in Steps
    /\ cont \in {"none", "created", "running", "exited", "removed"}
    /\ code \in ExitCodes \cup {NotEnded}
    /\ cont = "exited" => code \in ExitCodes
    /\ EnvOK(inner)
    /\ frames \in Seq(Payloads) /\ Len(frames) <= MaxFrames
    /\ wire \in Seq(Byte) /\ pending \in Seq(Byte) /\ reader \in Readers
    /\ status \in 0..255
    /\ how \in {"none", "success", "failure", "sigint", "uncaught"}

Flags == up \in BOOLEAN /\ ctrlc \in BOOLEAN

LEMMA FlagsHold == Spec => []Flags
<1>1. Init => Flags
  BY Zenon DEF Init, Flags
<1>2. Flags /\ [Next]_vars => Flags'
  <2> SUFFICES ASSUME Flags, [Next]_vars PROVE Flags'
    OBVIOUS
  <2>1. CASE UNCHANGED <<up, ctrlc>>
    BY <2>1, Zenon DEF Flags
  <2>2. CASE ConnectionLost
    BY <2>2, Zenon DEF ConnectionLost, Flags
  <2>3. CASE CtrlC
    BY <2>3, Zenon DEF CtrlC, Flags
  <2>4. Client \/ Write \/ ContainerExits \/ AutoRemove \/ UNCHANGED vars => UNCHANGED <<up, ctrlc>>
    BY DEF Client, LoadConfig, MakeClean, RunStep, Connect, Ping, Create, Start, OpenLogs,
           ReadSome, LogsEnd, LogsBroken, Wait, Disconnected, Finish, Write, ContainerExits,
           AutoRemove, vars
  <2> QED
    BY <2>1, <2>2, <2>3, <2>4 DEF Next
<1> QED
  BY <1>1, <1>2, PTL DEF Spec

LEMMA TypedHolds == Spec => []Typed
<1> USE DEF Typed
<1>1. Init => Typed
  <2> SUFFICES ASSUME Init PROVE Typed
    OBVIOUS
  <2>1. /\ reader \in Readers /\ wire \in Seq(Byte) /\ pending \in Seq(Byte)
        /\ frames \in Seq(Payloads)
    BY EmptyReaderType DEF Init, EmptyReader
  <2>2. Len(frames) <= MaxFrames
    <3>1. frames = <<>> /\ Len(<<>>) = 0
      BY DEF Init
    <3> QED
      BY <3>1, DockerRunAssumption
  <2>3. EnvOK(inner)
    BY DEF Init, NotStarted, EnvOK
  <2> QED
    BY <2>1, <2>2, <2>3 DEF Init, Steps
<1>2. Typed /\ [Next]_vars => Typed'
  <2> SUFFICES ASSUME Typed, [Next]_vars PROVE Typed'
    OBVIOUS
  <2>1. CASE ConnectionLost \/ AutoRemove \/ CtrlC
    <3>1. CASE ConnectionLost
      BY <3>1 DEF ConnectionLost, client, daemon
    <3>2. CASE AutoRemove
      BY <3>2 DEF AutoRemove, client
    <3>3. CASE CtrlC
      BY <3>3 DEF CtrlC, client, daemon
    <3> QED
      BY <2>1, <3>1, <3>2, <3>3
  <2>2. CASE ContainerExits
    BY <2>2 DEF ContainerExits, client
  <2>3. CASE Write
    <3>1. PICK p \in Payloads :
              /\ frames' = Append(frames, p)
              /\ wire' = IF up /\ pc = "logs" THEN wire \o Frame(p) ELSE wire
      BY <2>3 DEF Write
    <3>2. UNCHANGED <<ask, client, up, inner, cont, code, ctrlc>> /\ Len(frames) < MaxFrames
      BY <2>3 DEF Write
    <3>3. frames' \in Seq(Payloads) /\ Len(frames') = Len(frames) + 1 /\ Len(frames) \in Nat
      BY <3>1, AppendProperties
    <3>4. Len(frames') <= MaxFrames
      BY <3>2, <3>3, DockerRunAssumption
    <3>5. wire' \in Seq(Byte)
      <4>1. Frame(p) \in Seq(Byte)
        BY FrameIs
      <4>2. wire \o Frame(p) \in Seq(Byte)
        BY <4>1, ConcatParts
      <4> QED
        BY <3>1, <4>2
    <3> QED
      BY <3>2, <3>3, <3>4, <3>5 DEF client
  <2>4. CASE LoadConfig \/ Connect \/ Ping
    <3>1. CASE LoadConfig
      BY <3>1 DEF LoadConfig, daemon, Steps
    <3>2. CASE Connect
      BY <3>2 DEF Connect, Goto, daemon, Steps
    <3>3. CASE Ping
      BY <3>3 DEF Ping, daemon, Steps
    <3> QED
      BY <2>4, <3>1, <3>2, <3>3
  <2>5. CASE MakeClean \/ RunStep
    <3>1. EnvOK(inner')
      BY <2>5 DEF MakeClean, RunStep, StepEnv, EnvOK
    <3>2. CASE MakeClean
      BY <3>1, <3>2 DEF MakeClean, client, daemon
    <3>3. CASE RunStep
      BY <3>1, <3>3 DEF RunStep, Goto, daemon, Steps, Failure
    <3> QED
      BY <2>5, <3>2, <3>3
  <2>6. CASE Create
    <3>1. EnvOK(inner')
      BY <2>6 DEF Create, ContainerEnv, EnvOK
    <3> QED
      BY <2>6, <3>1 DEF Create, Steps
  <2>7. CASE Start
    BY <2>7 DEF Start, Goto, Steps
  <2>8. CASE OpenLogs
    <3>1. ErrorBody \in Seq(Byte)
      BY DEF ErrorBody, Byte
    <3>2. Stream(frames) \in Seq(Byte)
      <4>1. Laid(frames)
        BY Layout
      <4> QED
        BY <4>1 DEF Laid
    <3>3. wire' \in Seq(Byte)
      BY <2>8, <3>1, <3>2 DEF OpenLogs
    <3> QED
      BY <2>8, <3>3 DEF OpenLogs, Goto, daemon, Steps
  <2>9. CASE ReadSome
    <3>1. PICK n \in Reads :
              /\ n <= Len(wire)
              /\ wire' = SubSeq(wire, n + 1, Len(wire))
              /\ pending' = Decoded(pending \o SubSeq(wire, 1, n), reader).pending
              /\ reader' = Decoded(pending \o SubSeq(wire, 1, n), reader).reader
      BY <2>9 DEF ReadSome
    <3>2. n \in Nat
      BY DockerRunAssumption
    <3>3. wire' \in Seq(Byte) /\ SubSeq(wire, 1, n) \in Seq(Byte)
      BY <3>1, <3>2
    <3>4. pending \o SubSeq(wire, 1, n) \in Seq(Byte)
      BY <3>3, ConcatParts
    <3>5. pending' \in Seq(Byte) /\ reader' \in Readers
      BY <3>1, <3>4, DecodedType
    <3>6. UNCHANGED <<ask, pc, up, inner, daemon, status, ctrlc, how>>
      BY <2>9 DEF ReadSome
    <3> QED
      BY <3>3, <3>5, <3>6 DEF daemon
  <2>10. CASE LogsEnd \/ LogsBroken
    <3>1. FeedEof(reader) \in Readers
      <4>1. reader.buf \in Seq(Byte) /\ reader.out \in Seq(Seq(Byte))
        BY DEF Readers
      <4>2. Append(reader.out, reader.buf) \in Seq(Seq(Byte)) /\ <<>> \in Seq(Byte)
        BY <4>1
      <4> QED
        BY <4>1, <4>2 DEF FeedEof, Readers
    <3>2. reader' \in Readers
      BY <2>10, <3>1 DEF LogsEnd, LogsBroken
    <3> QED
      <4>1. pc' = "wait" /\ UNCHANGED <<ask, inner, cont, code, frames, wire, pending, status, how>>
        BY <2>10 DEF LogsEnd, LogsBroken, Goto, daemon
      <4> QED
        BY <3>2, <4>1 DEF Steps
  <2>11. CASE Wait
    <3>1. status' \in 0..255
      <4>1. status' = Failure \/ status' \in ExitCodes
        BY <2>11 DEF Wait
      <4>2. ExitCodes \subseteq 0..255 /\ 1 \in 0..255
        BY DockerRunAssumption
      <4> QED
        BY <4>1, <4>2 DEF Failure
    <3> QED
      BY <2>11, <3>1 DEF Wait, Goto, daemon, Steps
  <2>12. CASE Disconnected
    BY <2>12 DEF Disconnected, daemon, Steps
  <2>13. CASE Finish
    BY <2>13 DEF Finish, daemon, Steps
  <2>14. CASE UNCHANGED vars
    BY <2>14 DEF vars
  <2> QED
    BY <2>1, <2>2, <2>3, <2>4, <2>5, <2>6, <2>7, <2>8, <2>9, <2>10, <2>11, <2>12, <2>13, <2>14
       DEF Next, Client
<1> QED
  BY <1>1, <1>2, PTL DEF Spec

\* Every variable has its type, for any asks, payloads, chunks and statuses.
THEOREM TypeCorrect == Spec => []TypeOK
<1>1. Typed /\ Flags => TypeOK
  <2> SUFFICES ASSUME Typed, Flags PROVE TypeOK
    OBVIOUS
  <2>1. \A i \in DOMAIN frames : frames[i] \in Payloads
    BY DEF Typed
  <2>2. \A bytes \in Seq(Byte) : \A i \in DOMAIN bytes : bytes[i] \in 0..255
    <3>1. \A bytes \in Seq(Byte) : \A i \in DOMAIN bytes : bytes[i] \in Byte
      OBVIOUS
    <3> QED
      BY <3>1 DEF Byte
  <2>3. reader.buf \in Seq(Byte)
    BY DEF Typed, Readers
  <2>4. {up, ctrlc} \subseteq BOOLEAN
    BY Zenon DEF Flags
  <2> QED
    BY <2>1, <2>2, <2>3, <2>4 DEF Typed, TypeOK, EnvOK
<1> QED
  BY <1>1, TypedHolds, FlagsHold, PTL

-----------------------------------------------------------------------------
(* What a nested Baldr finds in its environment. *)

LEMMA FirstIs ==
    ASSUME NEW a, NEW b, NEW c
    PROVE  /\ a # Absent => FirstOf(<<a, b, c>>) = a
           /\ a = Absent /\ b # Absent => FirstOf(<<a, b, c>>) = b
<1> DEFINE values == <<a, b, c>>
           there == {i \in DOMAIN values : values[i] # Absent}
           First(i) == i \in there /\ \A j \in there : i <= j
<1>1. DOMAIN values = 1..3 /\ values[1] = a /\ values[2] = b /\ values[3] = c
  OBVIOUS
<1>2. \A i \in 1..3 : i = 1 \/ i = 2 \/ i = 3
  OBVIOUS
<1>3. FirstOf(values) = IF there = {} THEN Absent
                        ELSE values[CHOOSE i \in there : \A j \in there : i <= j]
  BY DEF FirstOf
<1> HIDE DEF values
<1>4. there \subseteq 1..3
  BY <1>1
<1>5. ASSUME a # Absent PROVE FirstOf(values) = a
  <2>1. 1 \in there
    BY <1>1, <1>5
  <2>2. First(1) /\ \A i : First(i) => i = 1
    BY <1>2, <1>4, <2>1
  <2> HIDE DEF there
  <2>3. (CHOOSE i \in there : \A j \in there : i <= j) = 1
    BY <2>2
  <2>4. there # {}
    BY <2>1
  <2> QED
    BY <1>1, <1>3, <2>3, <2>4
<1>6. ASSUME a = Absent, b # Absent PROVE FirstOf(values) = b
  <2>1. 2 \in there /\ 1 \notin there
    BY <1>1, <1>6
  <2>2. First(2) /\ \A i : First(i) => i = 2
    BY <1>2, <1>4, <2>1
  <2> HIDE DEF there
  <2>3. (CHOOSE i \in there : \A j \in there : i <= j) = 2
    BY <2>2
  <2>4. there # {}
    BY <2>1
  <2> QED
    BY <1>1, <1>3, <2>3, <2>4
<1> QED
  BY <1>5, <1>6 DEF values

LEMMA NestedByEnv ==
    ASSUME NEW env, env["BALDR_LOG_FORMAT"] = "plain", env["BALDR_LOG_VIEW"] = "stream",
           env["BALDR_LOG_FILE"] = ""
    PROVE  Resolve(env) = Nested
<1>1. /\ "plain" \in Valid("BALDR_LOG_FORMAT") /\ "stream" \in Valid("BALDR_LOG_VIEW")
  BY DEF Valid
<1>2. /\ Applied(env, "BALDR_LOG_FORMAT", "plain") = "plain"
      /\ Applied(env, "BALDR_LOG_VIEW", "stream") = "stream"
  BY DEF Applied
<1>3. "" # Absent
  BY LogSettingsAssumption
<1>4. (CASE env["BALDR_LOG_FILE"] = Absent -> "/tmp/baldr-logs"
         [] env["BALDR_LOG_FILE"] = "" -> Absent
         [] OTHER -> env["BALDR_LOG_FILE"]) = Absent
  BY <1>3
<1> QED
  BY <1>2, <1>4 DEF Resolve, Nested

\* What child_env gives counts, over the environment, unless the configuration
\* has an env of its own.
LEMMA NestedByStep ==
    ASSUME NEW env, NEW cfg, \A v \in LogVars : cfg[Env(v)] = Absent
    PROVE  Resolve(StepEnv(env, cfg)) = Nested
<1>1. /\ "BALDR_LOG_FORMAT" \in LogVars /\ "BALDR_LOG_VIEW" \in LogVars
      /\ "BALDR_LOG_FILE" \in LogVars /\ LogVars \subseteq Vars
      /\ Absent # "" /\ Absent # "plain" /\ Absent # "stream"
  BY LogSettingsAssumption DEF LogVars
<1>2. /\ ChildEnv("BALDR_LOG_FORMAT") = "plain" /\ ChildEnv("BALDR_LOG_VIEW") = "stream"
      /\ ChildEnv("BALDR_LOG_FILE") = ""
  BY DEF ChildEnv
<1>3. \A v \in LogVars : StepEnv(env, cfg)[v] = FirstOf(<<cfg[Env(v)], ChildEnv(v), env[v]>>)
  BY <1>1 DEF StepEnv
<1>4. ASSUME NEW v \in LogVars, ChildEnv(v) # Absent PROVE StepEnv(env, cfg)[v] = ChildEnv(v)
  <2> DEFINE own == ChildEnv(v)
             outer == env[v]
  <2>1. StepEnv(env, cfg)[v] = FirstOf(<<Absent, own, outer>>)
    BY <1>3
  <2>2. own # Absent
    BY <1>4
  <2>3. FirstOf(<<Absent, own, outer>>) = own
    <3> HIDE DEF own, outer
    <3> QED
      BY <2>2, FirstIs
  <2> QED
    BY <2>1, <2>3
<1> QED
  BY <1>1, <1>2, <1>4, NestedByEnv

LEMMA NestedInContainer == Resolve(ContainerEnv) = Nested
<1>1. /\ "BALDR_LOG_FORMAT" \in Vars /\ "BALDR_LOG_VIEW" \in Vars /\ "BALDR_LOG_FILE" \in Vars
  BY LogSettingsAssumption DEF LogVars
<1>2. /\ ContainerEnv["BALDR_LOG_FORMAT"] = "plain" /\ ContainerEnv["BALDR_LOG_VIEW"] = "stream"
      /\ ContainerEnv["BALDR_LOG_FILE"] = ""
  BY <1>1 DEF ContainerEnv, ChildEnv
<1> QED
  BY <1>2, NestedByEnv

\* The inductive invariant: whose environment it is.
EnvGiven ==
    /\ cont \in {"created"} => inner.env = ContainerEnv
    /\ cont = "none" /\ inner # NotStarted =>
           \/ inner.argv = Make /\ inner.env = StepEnv(ask.env, Cfg)
           \/ inner.argv = MakeCleanWords /\ inner.env = StepEnv(ask.env, NoConfig)

LEMMA EnvGivenHolds == Spec => []EnvGiven
<1>1. Init => EnvGiven
  BY DEF Init, EnvGiven
<1>2. Status /\ EnvGiven /\ [Next]_vars => EnvGiven'
  <2> SUFFICES ASSUME Status, EnvGiven, [Next]_vars PROVE EnvGiven'
    OBVIOUS
  <2>1. CASE Create
    <3>1. CASE /\ cont' = "created"
               /\ inner' = [argv |-> BuildContainerArgv(ask.opts, PathInside), env |-> ContainerEnv]
      BY <3>1 DEF EnvGiven
    <3>2. CASE UNCHANGED <<ask, cont, inner>>
      BY <3>2 DEF EnvGiven, Cfg, Shipped
    <3> QED
      BY <2>1, <3>1, <3>2 DEF Create
  <2>2. CASE MakeClean \/ RunStep
    <3>1. /\ UNCHANGED <<ask, cont>> /\ cont # "created"
          /\ \/ inner' = [argv |-> Make, env |-> StepEnv(ask.env, Cfg)]
             \/ inner' = [argv |-> MakeCleanWords, env |-> StepEnv(ask.env, NoConfig)]
      BY <2>2 DEF MakeClean, RunStep, daemon, Status, Goto
    <3>2. Cfg' = Cfg
      BY <3>1 DEF Cfg, Shipped
    <3> HIDE DEF Cfg
    <3> QED
      BY <3>1, <3>2 DEF EnvGiven
  <2>3. CASE Start \/ ContainerExits \/ AutoRemove
    BY <2>3 DEF Start, ContainerExits, AutoRemove, Goto, EnvGiven
  <2>4. ASSUME UNCHANGED <<ask, cont, inner>> PROVE EnvGiven'
    BY <2>4 DEF EnvGiven, Cfg, Shipped
  <2>5. LoadConfig \/ Connect \/ Ping \/ OpenLogs \/ ReadSome \/ LogsEnd \/ LogsBroken \/ Wait
        \/ Disconnected \/ Finish \/ ConnectionLost \/ Write \/ CtrlC \/ UNCHANGED vars
        => UNCHANGED <<ask, cont, inner>>
    BY DEF LoadConfig, Connect, Ping, OpenLogs, ReadSome, LogsEnd, LogsBroken, Wait, Disconnected,
           Finish, ConnectionLost, Write, CtrlC, daemon, vars
  <2> QED
    BY <2>1, <2>2, <2>3, <2>4, <2>5 DEF Next, Client
<1> QED
  BY <1>1, <1>2, StatusHolds, PTL DEF Spec

\* In any environment and with any files, a Baldr that a build's child or the
\* container runs streams plain lines for this one and writes no file, unless a
\* configuration's env says otherwise, and so does what it runs in turn
\* (child_env, resolve, run_streamed, docker_run).
THEOREM NestedLinesArePlain == Spec => []NestedIsPlain
<1>1. EnvGiven => NestedIsPlain
  <2> SUFFICES ASSUME EnvGiven PROVE NestedIsPlain
    OBVIOUS
  <2>1. ASSUME InContainer, \A v \in LogVars : CfgInside[Env(v)] = Absent
        PROVE  Resolve(StepEnv(inner.env, CfgInside)) = Nested
    BY <2>1, NestedByStep
  <2>2. ASSUME InContainer PROVE Resolve(inner.env) = Nested
    BY <2>2, NestedInContainer DEF EnvGiven, InContainer
  <2>3. ASSUME inner # NotStarted, cont = "none"
        PROVE  /\ (\A v \in LogVars : Cfg[Env(v)] = Absent) \/ inner.argv = MakeCleanWords
                      => Resolve(inner.env) = Nested
               /\ inner.argv = Make =>
                      \A v \in Vars : Cfg[Env(v)] # Absent => inner.env[v] = Cfg[Env(v)]
    <3>1. Make # MakeCleanWords
      BY DEF Make, MakeCleanWords
    <3>2. \/ inner.argv = Make /\ inner.env = StepEnv(ask.env, Cfg)
          \/ inner.argv = MakeCleanWords /\ inner.env = StepEnv(ask.env, NoConfig)
      BY <2>3 DEF EnvGiven
    <3>3. ASSUME inner.argv = Make, NEW v \in Vars, Cfg[Env(v)] # Absent
          PROVE  inner.env[v] = Cfg[Env(v)]
      <4>1. StepEnv(ask.env, Cfg)[v] = FirstOf(<<Cfg[Env(v)], ChildEnv(v), ask.env[v]>>)
        BY DEF StepEnv
      <4> QED
        BY <3>1, <3>2, <3>3, <4>1, FirstIs
    <3>4. Resolve(StepEnv(ask.env, NoConfig)) = Nested
      <4>1. \A v \in LogVars : NoConfig[Env(v)] = Absent
        BY LogSettingsAssumption DEF NoConfig, Settings
      <4> QED
        BY <4>1, NestedByStep
    <3>5. (\A v \in LogVars : Cfg[Env(v)] = Absent) => Resolve(StepEnv(ask.env, Cfg)) = Nested
      BY NestedByStep
    <3> HIDE DEF Cfg
    <3> QED
      BY <3>1, <3>2, <3>3, <3>4, <3>5
  <2> QED
    BY <2>1, <2>2, <2>3 DEF NestedIsPlain
<1> QED
  BY <1>1, EnvGivenHolds, PTL

-----------------------------------------------------------------------------
(* What the Baldr in the container does. *)

\* The inductive invariant: the container is created with these words, and only
\* if the configuration could be loaded.
Replayed ==
    /\ cont = "created" => inner.argv = BuildContainerArgv(ask.opts, PathInside)
    /\ pc \in {"connect", "ping", "create"} \/ cont # "none" => Cfg # Failed

LEMMA ReplayedHolds == Spec => []Replayed
<1>1. Init => Replayed
  BY DEF Init, Replayed
<1>2. Status /\ Replayed /\ [Next]_vars => Replayed'
  <2> SUFFICES ASSUME Status, Replayed, [Next]_vars PROVE Replayed'
    OBVIOUS
  <2> USE DEF Replayed
  <2>1. ask' = ask
    BY DEF Next, Client, LoadConfig, MakeClean, RunStep, Connect, Ping, Create, Start, OpenLogs,
           ReadSome, LogsEnd, LogsBroken, Wait, Disconnected, Finish, ConnectionLost, Write,
           ContainerExits, AutoRemove, CtrlC, vars
  <2>2. Cfg' = Cfg /\ PathInside' = PathInside
    BY <2>1 DEF Cfg, Shipped, PathInside
  <2> HIDE DEF Cfg, PathInside
  <2>3. CASE LoadConfig
    BY <2>2, <2>3 DEF LoadConfig, daemon, Status
  <2>4. CASE MakeClean \/ RunStep
    BY <2>2, <2>4 DEF MakeClean, RunStep, client, daemon, Status, Goto
  <2>5. CASE Connect
    BY <2>1, <2>2, <2>5 DEF Connect, daemon, Goto
  <2>6. CASE Ping
    BY <2>1, <2>2, <2>6 DEF Ping, daemon
  <2>7. CASE Create
    <3>1. CASE /\ pc' = "start" /\ cont' = "created"
               /\ inner' = [argv |-> BuildContainerArgv(ask.opts, PathInside), env |-> ContainerEnv]
      BY <2>1, <2>2, <2>7, <3>1 DEF Create
    <3>2. CASE pc' = "caught" /\ UNCHANGED <<cont, inner>>
      BY <2>1, <2>2, <3>2
    <3> QED
      BY <2>7, <3>1, <3>2 DEF Create
  <2>8. CASE Start
    BY <2>2, <2>8 DEF Start, Status, Goto
  <2>9. CASE OpenLogs \/ ReadSome \/ LogsEnd \/ LogsBroken \/ Wait \/ Disconnected \/ Finish
    <3>1. UNCHANGED <<cont, inner>> /\ pc' \notin {"connect", "ping", "create"}
      BY <2>9 DEF OpenLogs, ReadSome, LogsEnd, LogsBroken, Wait, Disconnected, Finish, daemon, Goto
    <3> QED
      BY <2>1, <2>2, <3>1
  <2>10. CASE ContainerExits \/ AutoRemove
    BY <2>2, <2>10 DEF ContainerExits, AutoRemove, client
  <2>11. CASE ConnectionLost \/ Write \/ CtrlC \/ UNCHANGED vars
    <3>1. UNCHANGED <<cont, inner, pc>>
      BY <2>11 DEF ConnectionLost, Write, CtrlC, daemon, client, vars
    <3> QED
      BY <2>1, <2>2, <3>1
  <2> QED
    BY <2>3, <2>4, <2>5, <2>6, <2>7, <2>8, <2>9, <2>10, <2>11 DEF Next, Client
<1> QED
  BY <1>1, <1>2, StatusHolds, PTL DEF Spec

\* For any options, files and binaries: the Baldr in the container is asked for
\* what this one was, and works with its settings but for those that only files
\* it does not have decide; for no other reason does its configuration fail to
\* load (build_container_argv, run_in_container, parse_args, load_merged_config).
THEOREM SameThingInside == Spec => []SameInside
<1>1. Typed /\ Replayed => SameInside
  <2> SUFFICES ASSUME Typed, Replayed, InContainer PROVE SameInside
    BY DEF SameInside
  <2> DEFINE opts == ask.opts
             path == PathInside
             self == Shipped("self")
             other == Inside.share
  <2>1. /\ Parseable(opts) /\ Accepted(opts)
    BY DockerRunAssumption DEF Typed
  <2>2. inner.argv = BuildContainerArgv(opts, path) /\ Cfg # Failed
    BY DEF Replayed, InContainer
  <2>3. /\ Accepted(Told) /\ Told.image = Absent /\ Told.project = "/workspace"
        /\ Told.command = opts.command /\ Told.dir = opts.dir /\ Told.clean = opts.clean
        /\ Told.target = opts.target /\ Told.debug = opts.debug
        /\ Told.forwarded = opts.forwarded /\ Told.explicit = opts.explicit
        /\ opts.explicit => Told.type = opts.type
        /\ \A k \in Names : Told.defines[k] = opts.defines[k]
    <3> HIDE DEF opts, path
    <3> QED
      BY <2>1, <2>2, RoundTrip DEF Told
  <2>4. opts.explicit \in BOOLEAN
    BY <2>1 DEF Parseable
  <2>5. \A f \in {"command", "dir", "clean", "target", "debug", "forwarded"} : Told[f] = opts[f]
    <3> HIDE DEF opts
    <3> QED
      BY <2>3
  <2>6. /\ Cfg = LoadMerged(opts, ask.home, ask.project, self)
        /\ CfgInside = LoadMerged(Told, NoDir, ask.project, other)
    BY DEF Cfg, CfgInside, Inside
  <2>7. \A s : Own(s) <=>
          \/ s = BuildType /\ opts.explicit
          \/ \E n \in Names : s = Define(n) /\ opts.defines[n] # Absent
          \/ Lasting(ask.home, ask.project, self, other, s)
    BY DEF Own, Lasting
  <2> DEFINE home == ask.home
             project == ask.project
  <2> HIDE DEF opts, self, other, home, project
  <2>8. /\ CfgInside # Failed => \A s \in Settings :
               \/ s = BuildType /\ opts.explicit
               \/ \E n \in Names : s = Define(n) /\ opts.defines[n] # Absent
               \/ Lasting(home, project, self, other, s)
               => CfgInside[s] = Cfg[s]
        /\ CfgInside = Failed =>
               \/ Read(other) = Failed
               \/ \E s \in Settings : Head(s) = "classifier" /\ ~Lasting(home, project, self, other, s)
    <3>1. LoadMerged(opts, home, project, self) # Failed
      BY <2>2, <2>6 DEF home, project
    <3> QED
      BY <2>3, <2>4, <2>6, <3>1, MergedAlike DEF home, project
  <2>9. /\ CfgInside # Failed => \A s \in Settings : Own(s) => CfgInside[s] = Cfg[s]
        /\ CfgInside = Failed =>
               \/ Read(other) = Failed
               \/ \E s \in Settings : Head(s) = "classifier" /\ ~Own(s)
    <3>1. \A s \in Settings : Head(s) = "classifier" /\ ~Lasting(home, project, self, other, s)
                          => ~Own(s)
      BY <2>7, SettingFacts DEF home, project
    <3> QED
      BY <2>7, <2>8, <3>1 DEF home, project
  <2> QED
    BY <2>3, <2>5, <2>9 DEF SameInside, opts, other
<1> QED
  BY <1>1, TypedHolds, ReplayedHolds, PTL
=============================================================================
