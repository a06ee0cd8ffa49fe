---------------------------- MODULE LoggingProofs ----------------------------
(***************************************************************************)
(* Theorems about Logging: the types of its variables, what the log file    *)
(* does to the terminal, what a failure replays, and what the digest counts. *)
(***************************************************************************)
EXTENDS Logging, InductionLemmas, SequenceTheorems

-----------------------------------------------------------------------------
(* Calls. *)

\* The calls of log, success and failure, as the history keeps them, and the
\* record a call makes if it makes one.
Calls == [kind : {"log", "success", "failure"}, level : Levels, line : Lines]
Records == [level : Levels, line : Lines]
Recorded(e) == [level |-> e.level, line |-> e.line]

\* What the digest says when a task ends.
Outcome(e) == [level |-> e.level, line |-> e.line, stats |-> stats]

\* What a call does in each view.
Call(e) ==
    /\ Len(history) < MaxLogged
    /\ history' = Append(history, e)
    /\ UNCHANGED <<view, threshold, levels>>
    /\ e.kind = "log" \/ view = "stream" => Record(Recorded(e))
    /\ e.kind # "log" /\ view # "stream" => UNCHANGED file
    /\ e.kind # "log" /\ view = "window" => /\ buffer' = <<>> /\ drawn' = <<>>
                                            /\ UNCHANGED <<seen, stats>>
    /\ e.kind # "log" /\ view = "digest" => /\ seen' = {} /\ stats' = NoStats
                                            /\ screen' = Append(screen, Outcome(e))
                                            /\ UNCHANGED <<buffer, drawn>>

\* The rules are a sequence, and a line's level is one of spdlog's.
LEMMA ClassifyType == ASSUME NEW l \in Lines PROVE Classify(l) \in Levels
<1> DEFINE All == UNION {Range(Sets[s]) : s \in DOMAIN Sets}
           Fits == {i \in 1..Len(Rules) : Rules[i].markers \cap Markers[l] # {}}
<1>1. [i \in DOMAIN Use |-> Sets[Use[i]]] \in Seq(Seq(All))
  <2>1. ASSUME NEW i \in DOMAIN Use PROVE Sets[Use[i]] \in Seq(All)
    <3>1. Use[i] \in DOMAIN Sets
      BY LoggingAssumption
    <3>2. Range(Sets[Use[i]]) \subseteq All
      BY <3>1
    <3> HIDE DEF All
    <3> QED
      BY <3>1, <3>2, LoggingAssumption
  <2>2. DOMAIN Use = 1..Len(Use) /\ Len(Use) \in Nat
    BY LoggingAssumption
  <2> HIDE DEF All
  <2> QED
    BY <2>1, <2>2
<1>2. Rules \in Seq(All)
  BY <1>1, FlattenSeqType DEF Rules
<1>3. \A r \in All : r.level \in Levels
  BY LoggingAssumption
<1>4. Classify(l) = IF Fits = {} THEN Info
                    ELSE IF Min(Fits) = 0 THEN Info ELSE Rules[Min(Fits)].level
  BY DEF Classify, SelectInSeq
<1>5. CASE Fits # {}
  <2>1. Min(Fits) \in Fits
    <3>1. Fits \in SUBSET Nat
      OBVIOUS
    <3> HIDE DEF Fits
    <3> QED
      BY <1>5, <3>1, LeastOfSet
  <2>2. Min(Fits) \in 1..Len(Rules)
    BY <2>1
  <2>3. Rules[Min(Fits)] \in All
    <3> HIDE DEF All, Fits
    <3> QED
      BY <1>2, <2>2
  <2> QED
    BY <1>3, <1>4, <2>3 DEF Info, Levels
<1> QED
  BY <1>4, <1>5 DEF Info, Levels

\* Every step opens the log file, is a call, or changes nothing.
LEMMA CallStep ==
    ASSUME [Next]_vars
    PROVE  OpenFile \/ UNCHANGED vars \/ \E e \in Calls : Call(e)
<1>1. ASSUME NEW l \in Lines, LogOutput(l) PROVE \E e \in Calls : Call(e)
  <2> DEFINE e == [kind |-> "log", level |-> Classify(l), line |-> l]
  <2>1. e \in Calls
    BY ClassifyType DEF Calls
  <2>2. Call(e)
    BY <1>1 DEF LogOutput, Call, Said, Room, Recorded
  <2> QED
    BY <2>1, <2>2
<1>2. ASSUME NEW l \in OwnLines, NEW level \in Levels, Log(level, l) PROVE \E e \in Calls : Call(e)
  <2> DEFINE e == [kind |-> "log", level |-> level, line |-> l]
  <2>1. e \in Calls
    BY LoggingAssumption DEF Calls
  <2>2. Call(e)
    BY <1>2 DEF Log, Call, Said, Room, Recorded
  <2> QED
    BY <2>1, <2>2
<1>3. ASSUME NEW l \in OwnLines, Success(l) PROVE \E e \in Calls : Call(e)
  <2> DEFINE e == [kind |-> "success", level |-> Info, line |-> l]
  <2>1. e \in Calls
    BY LoggingAssumption DEF Calls, Levels, Info
  <2>2. Call(e)
    BY <1>3 DEF Success, Call, Said, Room, Recorded, Outcome, WindowSuccess, Summary
  <2> QED
    BY <2>1, <2>2
<1>4. ASSUME NEW l \in OwnLines, Failure(l) PROVE \E e \in Calls : Call(e)
  <2> DEFINE e == [kind |-> "failure", level |-> Err, line |-> l]
  <2>1. e \in Calls
    BY LoggingAssumption DEF Calls, Levels, Err
  <2>2. Call(e)
    BY <1>4 DEF Failure, Call, Said, Room, Recorded, Outcome, WindowFailure, Summary
  <2> QED
    BY <2>1, <2>2
<1> QED
  BY <1>1, <1>2, <1>3, <1>4 DEF Next, Levels, Debug, Warn

-----------------------------------------------------------------------------
(* Types. *)

\* The inductive invariant of the types: what TypeOK bounds by MaxLogged is
\* bounded by the number of calls.
Typed ==
    /\ view \in Views /\ threshold \in Thresholds \cap Levels
    /\ levels \in [{"logger", "terminal", "file"} -> 0..NoFile]
    /\ file \in Seq(Records)
    /\ buffer \in Seq(Lines) /\ Len(buffer) <= MaxBuffer
    /\ Len(drawn) <= VisibleLines
    /\ seen \subseteq {Look(l) : l \in Lines}
    /\ stats \in [{"errors", "warnings", "repeats", "hidden"} -> 0..Len(history)]
    /\ history \in Seq(Calls) /\ Len(history) <= MaxLogged

\* The bounds are numbers, none of them 0.
LEMMA Bounds ==
    /\ MaxBuffer \in Nat \ {0} /\ VisibleLines \in Nat \ {0} /\ LevelMax \in Nat \ {0}
    /\ MaxLogged \in Nat
BY LoggingAssumption

\* The last n of a sequence.
LEMMA LastOfType ==
    ASSUME NEW S, NEW seq \in Seq(S), NEW n \in Nat
    PROVE  /\ LastOf(seq, n) \in Seq(S)
           /\ Len(LastOf(seq, n)) = Smaller(Len(seq), n)
<1> DEFINE k == Smaller(Len(seq), n)
<1>1. k \in 0..Len(seq) /\ Len(seq) \in Nat
  BY DEF Smaller
<1>2. LastOf(seq, n) = SubSeq(seq, Len(seq) - k + 1, Len(seq))
  BY DEF LastOf
<1> HIDE DEF k
<1>3. Len(seq) - k + 1 \in 1..(Len(seq) + 1)
  BY <1>1
<1>4. /\ SubSeq(seq, Len(seq) - k + 1, Len(seq)) \in Seq(S)
      /\ Len(SubSeq(seq, Len(seq) - k + 1, Len(seq)))
         = IF Len(seq) - k + 1 <= Len(seq) THEN Len(seq) - (Len(seq) - k + 1) + 1 ELSE 0
  BY <1>1, <1>3, SubSeqProperties
<1> QED
  BY <1>1, <1>2, <1>4 DEF k

LEMMA TypedStep == Typed /\ [Next]_vars => Typed'
<1> SUFFICES ASSUME Typed, [Next]_vars PROVE Typed'
  OBVIOUS
<1>1. CASE OpenFile
  <2>1. levels' \in [{"logger", "terminal", "file"} -> 0..NoFile]
    BY <1>1 DEF OpenFile, Typed, Smaller, Info, Levels, NoFile
  <2> QED
    BY <1>1, <2>1 DEF OpenFile, sink, Typed
<1>2. CASE UNCHANGED vars
  BY <1>2 DEF vars, sink, Typed
<1>3. ASSUME NEW e \in Calls, Call(e) PROVE Typed'
  <2> DEFINE m == Recorded(e)
  <2>1. m \in Records /\ m.line \in Lines /\ m.level \in Levels
    BY DEF Calls, Records, Recorded
  <2>2. /\ history' \in Seq(Calls) /\ Len(history') = Len(history) + 1
        /\ Len(history) \in Nat /\ Len(history') <= MaxLogged
    <3>1. /\ history \in Seq(Calls) /\ history' = Append(history, e)
          /\ Len(history) < MaxLogged
      BY <1>3 DEF Call, Typed
    <3> QED
      BY <3>1, Bounds
  <2>3. view' \in Views /\ threshold' \in Thresholds \cap Levels /\ UNCHANGED levels
    BY <1>3 DEF Call, Typed
  <2>4. stats \in [{"errors", "warnings", "repeats", "hidden"} -> 0..Len(history')]
    BY <2>2 DEF Typed
  <2>5. CASE e.kind = "log" \/ view = "stream"
    <3>1. Record(m)
      BY <1>3, <2>5 DEF Call
    <3> HIDE DEF m
    <3>2. file' \in Seq(Records)
      BY <2>1, <3>1 DEF Record, Typed
    <3>3. CASE UNCHANGED <<buffer, drawn, seen, stats>>
      BY <2>2, <2>3, <2>4, <3>2, <3>3 DEF Typed
    <3>4. CASE WindowMsg(m)
      <4>1. buffer' \in Seq(Lines) /\ Len(buffer') <= MaxBuffer
        <5>1. CASE Len(buffer) = MaxBuffer
          <6>1. buffer \in Seq(Lines) /\ buffer' = Append(Tail(buffer), m.line)
            BY <3>4, <5>1 DEF Typed, WindowMsg
          <6>2. Tail(buffer) \in Seq(Lines) /\ Len(Tail(buffer)) = Len(buffer) - 1
            BY <5>1, <6>1, Bounds
          <6> QED
            BY <2>1, <5>1, <6>1, <6>2, Bounds
        <5>2. CASE Len(buffer) # MaxBuffer
          <6>1. buffer \in Seq(Lines) /\ buffer' = Append(buffer, m.line) /\ Len(buffer) <= MaxBuffer
            BY <3>4, <5>2 DEF Typed, WindowMsg
          <6> QED
            BY <2>1, <5>2, <6>1, Bounds
        <5> QED
          BY <5>1, <5>2
      <4>2. Len(drawn') <= VisibleLines
        <5> DEFINE visible == LastOf(buffer', VisibleLines)
        <5>1. visible \in Seq(Lines) /\ Len(visible) = Smaller(Len(buffer'), VisibleLines)
          BY <4>1, LastOfType, Bounds
        <5>2. drawn' = [i \in DOMAIN visible |-> Cap(Text[visible[i]], TermWidth - 1)]
          BY <3>4 DEF WindowMsg
        <5> HIDE DEF visible
        <5>3. Len(drawn') = Len(visible)
          BY <5>1, <5>2
        <5> QED
          BY <4>1, <5>1, <5>3, Bounds DEF Smaller
      <4> QED
        BY <2>2, <2>3, <2>4, <3>2, <3>4, <4>1, <4>2 DEF Typed, WindowMsg
    <3>5. CASE DigestMsg(m)
      <4>1. seen' \subseteq {Look(l) : l \in Lines}
        BY <2>1, <3>5 DEF DigestMsg, Typed
      <4>2. Counter(m) \in {"errors", "warnings"}
        BY DEF Counter
      <4>3. stats' \in [{"errors", "warnings", "repeats", "hidden"} -> 0..Len(history')]
        <5>1. \A k \in {"errors", "warnings", "repeats", "hidden"} :
                stats[k] \in Nat /\ stats[k] + 1 \in 0..Len(history')
          BY <2>2 DEF Typed
        <5> QED
          BY <2>2, <2>4, <3>5, <4>2, <5>1 DEF DigestMsg
      <4> QED
        BY <2>2, <2>3, <3>2, <3>5, <4>1, <4>3 DEF Typed, DigestMsg
    <3> QED
      BY <3>1, <3>3, <3>4, <3>5 DEF Record, StreamMsg, sink
  <2>6. CASE e.kind # "log" /\ view = "window"
    <3>1. /\ buffer' = <<>> /\ drawn' = <<>> /\ UNCHANGED <<file, seen, stats>>
      BY <1>3, <2>6 DEF Call
    <3>2. buffer' \in Seq(Lines) /\ Len(buffer') <= MaxBuffer /\ Len(drawn') <= VisibleLines
      BY <3>1, Bounds
    <3> QED
      BY <2>2, <2>3, <2>4, <3>1, <3>2 DEF Typed
  <2>7. CASE e.kind # "log" /\ view = "digest"
    <3>1. stats' \in [{"errors", "warnings", "repeats", "hidden"} -> 0..Len(history')]
      BY <1>3, <2>2, <2>7 DEF Call, NoStats
    <3> QED
      BY <1>3, <2>2, <2>3, <2>7, <3>1 DEF Call, Typed
  <2> QED
    BY <2>5, <2>6, <2>7, LoggingAssumption DEF Typed
<1> QED
  BY <1>1, <1>2, <1>3, CallStep

LEMMA TypedInvariant == Spec => []Typed
<1>1. Init => Typed
  BY LoggingAssumption, Bounds
  DEF Init, Typed, NoStats, NoFile, Levels
<1> QED
  BY <1>1, TypedStep, PTL DEF Spec

\* For any lines, rules and bounds, Logging's variables keep their types.
THEOREM TypeCorrect == Spec => []TypeOK
<1>1. Typed => TypeOK
  <2> SUFFICES ASSUME Typed PROVE TypeOK
    OBVIOUS
  <2>1. Len(history) \in Nat /\ Len(history) <= MaxLogged
    BY DEF Typed
  <2>2. stats \in [{"errors", "warnings", "repeats", "hidden"} -> 0..MaxLogged]
    BY <2>1, Bounds DEF Typed
  <2>3. \A i \in DOMAIN file : file[i] \in [level : Levels, line : Lines]
    <3>1. file \in Seq(Records)
      BY DEF Typed
    <3>2. \A i \in DOMAIN file : file[i] \in Records
      BY <3>1
    <3> QED
      BY <3>2 DEF Records
  <2> QED
    BY <2>1, <2>2, <2>3 DEF Typed, TypeOK
<1> QED
  BY <1>1, TypedInvariant, PTL

-----------------------------------------------------------------------------
(* What the log file does to the terminal. *)

\* The inductive invariant: until the file is open the logger keeps the level
\* asked for, from then on the terminal's sink does, and the logger one that
\* is not above it; and nothing below it has come to a stream.
KeepsLevel ==
    /\ IF levels.file = NoFile
       THEN levels = [logger |-> threshold, terminal |-> 0, file |-> NoFile]
       ELSE levels = [logger |-> Smaller(threshold, Info), terminal |-> threshold,
                      file |-> Smaller(threshold, Info)]
    /\ view = "stream" => screen \in Seq(Records)
    /\ TerminalKeepsLevel

\* What reaches the terminal is what has the level asked for.
LEMMA ReachesTerminal ==
    ASSUME Typed, KeepsLevel, NEW m \in Records
    PROVE  Reaches(m, "terminal") <=> m.level >= threshold
<1>1. m.level \in Nat /\ threshold \in Nat
  BY DEF Records, Typed, Levels
<1>2. CASE levels.file = NoFile
  BY <1>1, <1>2 DEF KeepsLevel, Reaches
<1>3. CASE levels.file # NoFile
  <2>1. Smaller(threshold, Info) \in Nat /\ Smaller(threshold, Info) <= threshold
    BY <1>1 DEF Smaller, Info
  <2> QED
    BY <1>1, <1>3, <2>1 DEF KeepsLevel, Reaches
<1> QED
  BY <1>2, <1>3

LEMMA KeepsStep == Typed /\ KeepsLevel /\ [Next]_vars => KeepsLevel'
<1> SUFFICES ASSUME Typed, KeepsLevel, [Next]_vars PROVE KeepsLevel'
  OBVIOUS
<1>1. CASE OpenFile
  <2>1. /\ UNCHANGED <<view, threshold, screen>> /\ levels'.file \in Levels
        /\ levels' = [logger |-> Smaller(threshold, Info), terminal |-> threshold,
                      file |-> Smaller(threshold, Info)]
    BY <1>1 DEF OpenFile, sink, Typed, KeepsLevel, Smaller, Info, Levels
  <2> QED
    BY <2>1 DEF KeepsLevel, TerminalKeepsLevel, NoFile, Levels
<1>2. CASE UNCHANGED vars
  BY <1>2 DEF vars, sink, KeepsLevel, TerminalKeepsLevel
<1>3. ASSUME NEW e \in Calls, Call(e) PROVE KeepsLevel'
  <2> DEFINE m == Recorded(e)
  <2>1. m \in Records
    BY DEF Calls, Records, Recorded
  <2>2. UNCHANGED <<view, threshold, levels>>
    BY <1>3 DEF Call
  <2>3. CASE view = "stream"
    <3>1. Record(m) /\ screen \in Seq(Records)
      BY <1>3, <2>3 DEF Call, KeepsLevel
    <3>2. CASE UNCHANGED screen
      BY <2>2, <3>2 DEF KeepsLevel, TerminalKeepsLevel
    <3>3. CASE Reaches(m, "terminal") /\ screen' = Append(screen, m)
      <4>1. m.level >= threshold
        BY <2>1, <3>3, ReachesTerminal
      <4> HIDE DEF m
      <4>2. /\ screen' \in Seq(Records)
            /\ \A i \in DOMAIN screen' :
                screen'[i] = m \/ (i \in DOMAIN screen /\ screen'[i] = screen[i])
        BY <2>1, <3>1, <3>3
      <4> QED
        BY <2>2, <2>3, <4>1, <4>2 DEF KeepsLevel, TerminalKeepsLevel
    <3> QED
      BY <2>3, <3>1, <3>2, <3>3 DEF Record, StreamMsg, sink
  <2>4. CASE view # "stream"
    BY <2>2, <2>4 DEF KeepsLevel, TerminalKeepsLevel
  <2> QED
    BY <2>3, <2>4
<1> QED
  BY <1>1, <1>2, <1>3, CallStep

\* The invariant the properties below rest on.
LEMMA LevelInvariant == Spec => [](Typed /\ KeepsLevel)
<1>1. Init => Typed /\ KeepsLevel
  BY LoggingAssumption, Bounds
  DEF Init, Typed, NoStats, NoFile, Levels, KeepsLevel, TerminalKeepsLevel
<1> QED
  BY <1>1, TypedStep, KeepsStep, PTL DEF Spec

\* For any lines, rules and levels, and whenever the log file is opened: a
\* stream shows nothing below the level SPDLOG_LEVEL asks for (open_file).
THEOREM FileIsQuiet == Spec => []TerminalKeepsLevel
<1>1. KeepsLevel => TerminalKeepsLevel
  BY DEF KeepsLevel
<1> QED
  BY <1>1, LevelInvariant, PTL

\* For any lines, rules and levels: the log file has what is logged from info
\* on, which the terminal may not show (open_file).
THEOREM OutputRecorded == Spec => OutputIsRecorded
<1> DEFINE Kept == levels.file # NoFile /\ Len(history') > Len(history)
                   /\ (Last(history').kind = "log" \/ view = "stream")
                   /\ Last(history').level >= Info
                   => file' # <<>> /\ Last(file').line = Last(history').line
                      /\ Len(file') > Len(file)
<1>1. Typed /\ KeepsLevel /\ [Next]_vars => [Kept]_vars
  <2> SUFFICES ASSUME Typed, KeepsLevel, [Next]_vars, ~UNCHANGED vars, levels.file # NoFile,
                      Len(history') > Len(history),
                      Last(history').kind = "log" \/ view = "stream",
                      Last(history').level >= Info
               PROVE  /\ file' # <<>> /\ Last(file').line = Last(history').line
                      /\ Len(file') > Len(file)
    OBVIOUS
  <2>1. PICK e \in Calls : Call(e)
    BY CallStep DEF OpenFile
  <2> DEFINE m == Recorded(e)
  <2>2. /\ m \in Records /\ m.line = e.line /\ m.level = e.level
        /\ Last(history') = e
    <3>1. history \in Seq(Calls) /\ history' = Append(history, e)
      BY <2>1 DEF Typed, Call
    <3> QED
      BY <3>1 DEF Calls, Records, Recorded, Last
  <2>3. Record(m)
    BY <2>1, <2>2 DEF Call
  <2>4. Reaches(m, "file")
    <3>1. /\ m.level \in Nat /\ m.level >= Info
          /\ levels.logger = Smaller(threshold, Info) /\ levels.file = Smaller(threshold, Info)
      BY <2>2 DEF KeepsLevel, Records, Levels
    <3>2. threshold \in Nat
      BY DEF Typed, Levels
    <3> QED
      BY <3>1, <3>2 DEF Reaches, Smaller, Info
  <2> HIDE DEF m
  <2>5. file' = Append(file, m) /\ file \in Seq(Records)
    BY <2>3, <2>4 DEF Record, Typed
  <2> QED
    BY <2>2, <2>5 DEF Last
<1> QED
  BY <1>1, LevelInvariant, PTL DEF Spec, OutputIsRecorded

-----------------------------------------------------------------------------
(* Tasks. *)

\* The calls that end a task, and how many calls are over before this one.
Ends(h) == {i \in 1..Len(h) : h[i].kind # "log"}
Begun(h) == IF Ends(h) # {} THEN Max(Ends(h)) ELSE 0

\* The task is what comes after the calls that are over.
LEMMA TaskIs ==
    ASSUME history \in Seq(Calls)
    PROVE  /\ Begun(history) \in 0..Len(history)
           /\ Task \in Seq(Calls) /\ Len(Task) = Len(history) - Begun(history)
           /\ \A i \in 1..Len(Task) : Task[i] = history[Begun(history) + i]
<1> DEFINE b == Begun(history)
           n == Len(history)
<1>1. n \in Nat /\ \A i \in 1..n : history[i] \in Calls
  OBVIOUS
<1>2. b \in 0..n
  <2>1. CASE Ends(history) # {}
    <3>1. Ends(history) \subseteq 1..n
      BY DEF Ends
    <3>2. Max(Ends(history)) \in Ends(history)
      BY <1>1, <2>1, <3>1, GreatestNumber
    <3> QED
      BY <1>1, <2>1, <3>1, <3>2 DEF Begun
  <2>2. CASE Ends(history) = {}
    BY <1>1, <2>2 DEF Begun
  <2> QED
    BY <2>1, <2>2
<1>3. Task = SubSeq(history, b + 1, n)
  BY DEF Task, SelectLastInSeq, Begun, Ends
<1> HIDE DEF b
<1>4. /\ SubSeq(history, b + 1, n) \in Seq(Calls)
      /\ Len(SubSeq(history, b + 1, n)) = IF b + 1 <= n THEN n - (b + 1) + 1 ELSE 0
      /\ \A i \in 1..n - (b + 1) + 1 : SubSeq(history, b + 1, n)[i] = history[(b + 1) + i - 1]
  BY <1>1, <1>2, SubSeqProperties
<1> QED
  BY <1>1, <1>2, <1>3, <1>4 DEF b

\* A logged line goes to the end of the task; success and failure end it.
LEMMA TaskStep ==
    ASSUME history \in Seq(Calls), NEW e \in Calls, history' = Append(history, e)
    PROVE  /\ Task \in Seq(Calls)
           /\ Task' = IF e.kind = "log" THEN Append(Task, e) ELSE <<>>
<1> DEFINE n == Len(history)
           b == Begun(history)
<1>1. Task' = SubSeq(history', Begun(history') + 1, Len(history'))
  BY DEF Task, SelectLastInSeq, Begun, Ends
<1>2. /\ n \in Nat /\ Len(history') = n + 1 /\ history'[n + 1] = e
      /\ \A i \in 1..n : history'[i] = history[i] /\ history[i] \in Calls
  OBVIOUS
<1>4. /\ b \in 0..n /\ Task \in Seq(Calls) /\ Len(Task) = n - b
      /\ \A i \in 1..Len(Task) : Task[i] = history[b + i]
  BY TaskIs
<1>5. CASE e.kind = "log"
  <2>1. Ends(history') = Ends(history)
    BY <1>2, <1>5 DEF Ends
  <2>2. Begun(history') = b
    BY <2>1 DEF Begun
  <2> HIDE DEF b
  <2>3. b \in 0..n /\ history' \in Seq(Calls)
    BY <1>4
  <2>4. /\ Len(SubSeq(history', b + 1, n + 1))
             = IF b + 1 <= n + 1 THEN (n + 1) - (b + 1) + 1 ELSE 0
        /\ SubSeq(history', b + 1, n + 1) \in Seq(Calls)
        /\ \A i \in 1..(n + 1) - (b + 1) + 1 :
                SubSeq(history', b + 1, n + 1)[i] = history'[(b + 1) + i - 1]
    BY <1>2, <2>3, SubSeqProperties
  <2>5. Task' = SubSeq(history', b + 1, n + 1)
    BY <1>1, <1>2, <2>2
  <2>6. /\ Task' \in Seq(Calls) /\ Len(Task') = Len(Task) + 1
        /\ \A i \in 1..Len(Task) + 1 : Task'[i] = history'[b + i]
    <3>1. (n + 1) - (b + 1) + 1 = Len(Task) + 1 /\ b + 1 <= n + 1
      BY <1>2, <1>4
    <3>2. Task' \in Seq(Calls) /\ Len(Task') = Len(Task) + 1
      BY <2>4, <2>5, <3>1
    <3>3. ASSUME NEW i \in 1..Len(Task) + 1 PROVE Task'[i] = history'[b + i]
      <4>1. (b + 1) + i - 1 = b + i
        BY <1>2, <1>4
      <4> QED
        BY <2>4, <2>5, <3>1, <4>1
    <3> QED
      BY <3>2, <3>3
  <2>7. \A i \in 1..Len(Task) + 1 : Task'[i] = Append(Task, e)[i]
    <3>1. ASSUME NEW i \in 1..Len(Task) PROVE Task'[i] = Append(Task, e)[i]
      <4>1. b + i \in 1..n /\ i \in 1..Len(Task) + 1 /\ Append(Task, e)[i] = Task[i]
        BY <1>2, <1>4, <2>3
      <4> QED
        BY <1>2, <1>4, <2>6, <4>1
    <3>2. Task'[Len(Task) + 1] = e /\ Append(Task, e)[Len(Task) + 1] = e
      <4>1. b + (Len(Task) + 1) = n + 1 /\ Len(Task) \in Nat
        BY <1>2, <1>4, <2>3
      <4> QED
        BY <1>2, <1>4, <2>6, <4>1
    <3>3. \A i \in 1..Len(Task) + 1 : i \in 1..Len(Task) \/ i = Len(Task) + 1
      BY <1>4
    <3> QED
      BY <3>1, <3>2, <3>3
  <2>8. Append(Task, e) \in Seq(Calls) /\ Len(Append(Task, e)) = Len(Task) + 1
    BY <1>4
  <2> QED
    BY <1>4, <1>5, <2>6, <2>7, <2>8, SeqEqual
<1>6. CASE e.kind # "log"
  <2>1. Ends(history') \subseteq 1..(n + 1) /\ n + 1 \in Ends(history')
    BY <1>2, <1>6 DEF Ends
  <2>2. Ends(history') # {} /\ n + 1 \in Nat
    BY <1>2, <2>1
  <2>3. Max(Ends(history')) = n + 1
    <3>1. /\ Max(Ends(history')) \in Ends(history')
          /\ \A i \in Ends(history') : i <= Max(Ends(history'))
      BY <2>1, <2>2, GreatestNumber
    <3>2. Max(Ends(history')) \in 1..(n + 1) /\ n + 1 <= Max(Ends(history'))
      BY <2>1, <3>1
    <3> QED
      BY <1>2, <3>2
  <2>4. Task' = SubSeq(history', (n + 1) + 1, n + 1)
    BY <1>1, <1>2, <2>2, <2>3 DEF Begun
  <2>5. n + 1 < (n + 1) + 1 /\ (n + 1) + 1 \in Int /\ n + 1 \in Int
    BY <1>2
  <2>6. SubSeq(history', (n + 1) + 1, n + 1) = <<>>
    BY <2>5, SubSeqEmpty
  <2> QED
    BY <1>4, <1>6, <2>4, <2>6
<1> QED
  BY <1>5, <1>6

\* A set of numbers up to n, and the same with n + 1.
LEMMA OneMore ==
    ASSUME NEW n \in Nat, NEW A, A \subseteq 1..n
    PROVE  /\ IsFiniteSet(A) /\ Cardinality(A) \in 0..n
           /\ Cardinality(A \cup {n + 1}) = Cardinality(A) + 1
<1>1. IsFiniteSet(1..n) /\ Cardinality(1..n) = n
  BY FS_Interval
<1>2. IsFiniteSet(A) /\ Cardinality(A) <= n /\ Cardinality(A) \in Nat
  <2>1. IsFiniteSet(A) /\ Cardinality(A) <= Cardinality(1..n)
    BY <1>1, FS_Subset
  <2> QED
    BY <1>1, <2>1, FS_CardinalityType
<1>3. Cardinality(A \cup {n + 1}) = Cardinality(A) + 1
  <2>1. n + 1 \notin A
    OBVIOUS
  <2> QED
    BY <1>2, <2>1, FS_AddElement
<1> QED
  BY <1>2, <1>3

\* What is shown and what is noted of a task, one line later.
LEMMA ShownStep ==
    ASSUME Task \in Seq(Calls), NEW e \in Calls, Task' = Append(Task, e),
           threshold' = threshold
    PROVE  /\ Shown \subseteq 1..Len(Task) /\ Noted \subseteq 1..Len(Task)
           /\ Shown' = IF e.level >= threshold THEN Shown \cup {Len(Task) + 1} ELSE Shown
           /\ Noted' = IF e.level >= threshold /\ e.level >= Warn
                       THEN Noted \cup {Len(Task) + 1} ELSE Noted
           /\ \A i \in 1..Len(Task) : Task'[i] = Task[i]
           /\ Task'[Len(Task) + 1] = e
<1>1. /\ DOMAIN Task = 1..Len(Task) /\ Len(Task) \in Nat
      /\ DOMAIN Task' = 1..(Len(Task) + 1)
      /\ \A i \in 1..Len(Task) : Task'[i] = Task[i]
      /\ Task'[Len(Task) + 1] = e
  OBVIOUS
<1>2. \A i : i \in 1..(Len(Task) + 1) <=> i \in 1..Len(Task) \/ i = Len(Task) + 1
  BY <1>1
<1>3. Shown' = IF e.level >= threshold THEN Shown \cup {Len(Task) + 1} ELSE Shown
  BY <1>1, <1>2 DEF Shown
<1>4. Noted' = IF e.level >= threshold /\ e.level >= Warn
               THEN Noted \cup {Len(Task) + 1} ELSE Noted
  BY <1>1, <1>2 DEF Noted, Shown
<1>5. Shown \subseteq 1..Len(Task) /\ Noted \subseteq 1..Len(Task)
  BY <1>1 DEF Noted, Shown
<1> QED
  BY <1>1, <1>3, <1>4, <1>5

\* A step in the terms of the task: a line is added to it, or it ends.
LEMMA TaskSteps ==
    ASSUME Typed, [Next]_vars
    PROVE  \/ UNCHANGED <<view, threshold, Task, buffer, drawn, screen, seen, stats>>
           \/ \E e \in Calls : /\ Call(e) /\ UNCHANGED <<view, threshold>>
                              /\ Task' = IF e.kind = "log" THEN Append(Task, e) ELSE <<>>
<1>1. ASSUME UNCHANGED vars \/ OpenFile
      PROVE  UNCHANGED <<view, threshold, Task, buffer, drawn, screen, seen, stats>>
  <2>1. UNCHANGED <<view, threshold, history, buffer, drawn, screen, seen, stats>>
    BY <1>1 DEF vars, sink, OpenFile
  <2>2. Task' = Task
    BY <2>1 DEF Task, SelectLastInSeq
  <2> QED
    BY <2>1, <2>2
<1>2. ASSUME NEW e \in Calls, Call(e)
      PROVE  /\ UNCHANGED <<view, threshold>>
             /\ Task' = IF e.kind = "log" THEN Append(Task, e) ELSE <<>>
  BY <1>2, TaskStep DEF Call, Typed
<1> QED
  BY <1>1, <1>2, CallStep

\* At first there is nothing in it.
LEMMA NoTask == Init => Task = <<>>
<1> SUFFICES ASSUME Init PROVE Task = <<>>
  OBVIOUS
<1>1. history \in Seq(Calls) /\ Len(history) = 0
  BY DEF Init
<1>2. Task \in Seq(Calls) /\ Len(Task) = 0 - Begun(history) /\ Begun(history) \in 0..0
  BY <1>1, TaskIs
<1> QED
  BY <1>2

LEMMA NothingShown ==
    ASSUME Task = <<>> PROVE Shown = {} /\ Noted = {} /\ Cardinality({}) = 0
BY FS_EmptySet DEF Shown, Noted

-----------------------------------------------------------------------------
(* What a failure replays. *)

\* A line that is shown comes after those that were: each is one more from the
\* end.
LEMMA AfterStep ==
    ASSUME Task \in Seq(Calls), NEW e \in Calls, Task' = Append(Task, e),
           threshold' = threshold, e.level >= threshold
    PROVE  /\ \A i \in Shown : After(i) \in Nat /\ After(i)' = After(i) + 1
           /\ \A i : i = Len(Task) + 1 => After(i)' = 0
<1> DEFINE n == Len(Task)
<1>1. Shown \subseteq 1..n /\ Shown' = Shown \cup {n + 1} /\ n \in Nat
  BY ShownStep
<1> HIDE DEF n
<1>2. ASSUME NEW i \in Shown PROVE After(i) \in Nat /\ After(i)' = After(i) + 1
  <2> DEFINE later == {j \in Shown : j > i}
  <2>1. i \in 1..n /\ i < n + 1 /\ later \subseteq 1..n
    <3>1. i \in 1..n /\ later \subseteq Shown
      BY <1>1
    <3> HIDE DEF later
    <3> QED
      BY <1>1, <3>1
  <2>3. {j \in Shown' : j > i} = later \cup {n + 1}
    BY <1>1, <2>1
  <2>2. Cardinality(later) \in 0..n /\ Cardinality(later \cup {n + 1}) = Cardinality(later) + 1
    <3> HIDE DEF later
    <3> QED
      BY <1>1, <2>1, OneMore
  <2>4. After(i) = Cardinality(later) /\ After(i)' = Cardinality({j \in Shown' : j > i})
    BY DEF After
  <2>5. Cardinality(later) \in Nat
    BY <1>1, <2>2
  <2>6. Cardinality({j \in Shown' : j > i}) = Cardinality(later) + 1
    BY <2>2, <2>3
  <2> QED
    BY <2>4, <2>5, <2>6
<1>3. ASSUME NEW i, i = n + 1 PROVE After(i)' = 0
  <2>3. \A j \in Shown' : j \in Nat /\ j <= n + 1
    BY <1>1
  <2>4. i \in Nat
    BY <1>1, <1>3
  <2>1. {j \in Shown' : j > i} = {}
    BY <1>3, <2>3, <2>4
  <2>2. After(i)' = Cardinality({j \in Shown' : j > i})
    BY DEF After
  <2> QED
    BY <2>1, <2>2, FS_EmptySet
<1> QED
  BY <1>2, <1>3 DEF n

LEMMA ReplayStep ==
    Typed /\ KeepsLevel /\ ReplayIsOfTask /\ [Next]_vars => ReplayIsOfTask'
<1> SUFFICES ASSUME Typed, KeepsLevel, ReplayIsOfTask, [Next]_vars, view' = "window"
             PROVE  /\ Len(buffer') = Smaller(Cardinality(Shown'), MaxBuffer)
                    /\ \A i \in Shown' : After(i)' < Len(buffer') =>
                            buffer'[Len(buffer') - After(i)'] = Task'[i].line
  BY DEF ReplayIsOfTask
<1>1. CASE UNCHANGED <<view, threshold, Task, buffer>>
  BY <1>1 DEF ReplayIsOfTask, Shown, After
<1>2. ASSUME NEW e \in Calls, Call(e), UNCHANGED <<view, threshold>>, e.kind # "log",
             Task' = <<>>
      PROVE  Len(buffer') = Smaller(Cardinality(Shown'), MaxBuffer) /\ Shown' = {}
  <2>1. buffer' = <<>>
    BY <1>2 DEF Call
  <2>2. Shown' = {} /\ Cardinality({}) = 0
    BY <1>2, FS_EmptySet DEF Shown
  <2> QED
    BY <2>1, <2>2, Bounds DEF Smaller
<1>3. ASSUME NEW e \in Calls, Call(e), UNCHANGED <<view, threshold>>, e.kind = "log",
             Task' = Append(Task, e)
      PROVE  /\ Len(buffer') = Smaller(Cardinality(Shown'), MaxBuffer)
             /\ \A i \in Shown' : After(i)' < Len(buffer') =>
                     buffer'[Len(buffer') - After(i)'] = Task'[i].line
  <2> DEFINE n == Len(Task)
             kept == IF Len(buffer) = MaxBuffer THEN Tail(buffer) ELSE buffer
  <2>1. Task \in Seq(Calls)
    BY TaskIs DEF Typed
  <2>2. /\ Shown \subseteq 1..n /\ n \in Nat
        /\ Shown' = IF e.level >= threshold THEN Shown \cup {n + 1} ELSE Shown
        /\ \A i \in 1..n : Task'[i] = Task[i]
        /\ Task'[n + 1] = e
    BY <1>3, <2>1, ShownStep
  <2>3. Recorded(e) \in Records /\ Recorded(e).level = e.level /\ Recorded(e).line = e.line
    BY DEF Calls, Records, Recorded
  <2>4. Record(Recorded(e)) /\ view = "window"
    BY <1>3 DEF Call
  <2>5. CASE ~(e.level >= threshold)
    <3>1. UNCHANGED buffer
      BY <2>3, <2>4, <2>5, ReachesTerminal DEF Record, sink
    <3>2. Shown' = Shown /\ \A i \in Shown : After(i)' = After(i) /\ Task'[i] = Task[i]
      BY <2>2, <2>5 DEF After
    <3> QED
      BY <2>4, <3>1, <3>2 DEF ReplayIsOfTask
  <2>6. CASE e.level >= threshold
    <3>1. buffer' = Append(kept, e.line)
      BY <2>3, <2>4, <2>6, ReachesTerminal DEF Record, WindowMsg
    <3>2. buffer \in Seq(Lines) /\ Len(buffer) \in Nat /\ Len(buffer) <= MaxBuffer
      BY DEF Typed
    <3>3. /\ kept \in Seq(Lines) /\ Len(kept) = Smaller(Len(buffer), MaxBuffer - 1)
          /\ \A k \in 0..Len(kept) - 1 : kept[Len(kept) - k] = buffer[Len(buffer) - k]
      <4>1. CASE Len(buffer) = MaxBuffer
        <5>1. kept = Tail(buffer) /\ buffer # <<>>
          BY <3>2, <4>1, Bounds
        <5>2. /\ Tail(buffer) \in Seq(Lines) /\ Len(Tail(buffer)) = Len(buffer) - 1
              /\ \A i \in 1..Len(Tail(buffer)) : Tail(buffer)[i] = buffer[i + 1]
          BY <3>2, <5>1, HeadTailProperties
        <5> HIDE DEF kept
        <5>3. ASSUME NEW k \in 0..Len(kept) - 1 PROVE kept[Len(kept) - k] = buffer[Len(buffer) - k]
          <6>1. Len(kept) - k \in 1..Len(kept) /\ (Len(kept) - k) + 1 = Len(buffer) - k
            BY <3>2, <5>1, <5>2
          <6> QED
            BY <5>1, <5>2, <6>1
        <5> QED
          BY <3>2, <4>1, <5>1, <5>2, <5>3, Bounds DEF Smaller
      <4>2. CASE Len(buffer) # MaxBuffer
        <5>1. kept = buffer
          BY <4>2
        <5> HIDE DEF kept
        <5> QED
          BY <3>2, <4>2, <5>1, Bounds DEF Smaller
      <4> QED
        BY <4>1, <4>2
    <3> HIDE DEF kept
    <3>4. e.line \in Lines
      BY DEF Calls
    <3>5. /\ Len(buffer') = Len(kept) + 1 /\ Len(kept) \in Nat
          /\ \A j \in 1..Len(kept) : buffer'[j] = kept[j]
          /\ buffer'[Len(kept) + 1] = e.line
      BY <3>1, <3>3, <3>4
    <3>6. Shown' = Shown \cup {n + 1}
      BY <2>2, <2>6
    <3>7. /\ \A i \in Shown : After(i) \in Nat /\ After(i)' = After(i) + 1
          /\ \A i : i = n + 1 => After(i)' = 0
      BY <1>3, <2>1, <2>6, AfterStep
    <3>8. Len(buffer') = Smaller(Cardinality(Shown'), MaxBuffer)
      <4>1. Cardinality(Shown) \in Nat /\ Cardinality(Shown') = Cardinality(Shown) + 1
        <5>1. Cardinality(Shown) \in 0..n /\ Cardinality(Shown \cup {n + 1}) = Cardinality(Shown) + 1
          BY <2>2, OneMore
        <5> QED
          BY <2>2, <3>6, <5>1
      <4>2. Len(buffer) = Smaller(Cardinality(Shown), MaxBuffer)
        BY <2>4 DEF ReplayIsOfTask
      <4> QED
        BY <3>2, <3>3, <3>5, <4>1, <4>2, Bounds DEF Smaller
    <3>9. ASSUME NEW i \in Shown', After(i)' < Len(buffer')
          PROVE  buffer'[Len(buffer') - After(i)'] = Task'[i].line
      <4>1. CASE i = n + 1
        <5>1. Len(buffer') - After(i)' = Len(kept) + 1 /\ Task'[i] = e
          BY <2>2, <3>5, <3>7, <4>1
        <5> QED
          BY <3>5, <5>1
      <4>2. CASE i \in Shown
        <5>1. /\ After(i)' = After(i) + 1 /\ After(i) \in Nat /\ After(i) < Len(kept)
              /\ Task'[i] = Task[i]
          BY <2>2, <3>5, <3>7, <3>9, <4>2
        <5>2. After(i) < Len(buffer) /\ After(i) \in 0..Len(kept) - 1
          BY <3>2, <3>3, <3>5, <5>1, Bounds DEF Smaller
        <5>3. buffer[Len(buffer) - After(i)] = Task[i].line
          BY <2>4, <4>2, <5>2 DEF ReplayIsOfTask
        <5>4. kept[Len(kept) - After(i)] = Task[i].line
          BY <3>3, <5>2, <5>3
        <5>5. Len(buffer') - After(i)' = Len(kept) - After(i) /\ Len(kept) - After(i) \in 1..Len(kept)
          BY <3>5, <5>1, <5>2
        <5> QED
          BY <3>5, <5>1, <5>4, <5>5
      <4> QED
        BY <3>6, <4>1, <4>2
    <3> QED
      BY <3>8, <3>9
  <2> QED
    BY <2>5, <2>6
<1> QED
  BY <1>1, <1>2, <1>3, TaskSteps

\* For any lines, rules and bounds: what a failure would replay in a window is
\* the end of what this task has shown, as far as the buffer goes, in its
\* order, and nothing of an earlier task (window::msg, success, failure).
THEOREM ReplaysTheTask == Spec => []ReplayIsOfTask
<1>1. Init => ReplayIsOfTask
  <2> SUFFICES ASSUME Init PROVE ReplayIsOfTask
    OBVIOUS
  <2>2. Shown = {} /\ Cardinality({}) = 0 /\ buffer = <<>>
    BY NoTask, NothingShown DEF Init
  <2> QED
    BY <2>2, Bounds DEF ReplayIsOfTask, Smaller
<1> QED
  BY <1>1, ReplayStep, LevelInvariant, PTL DEF Spec

-----------------------------------------------------------------------------
(* What the digest counts. *)

\* How the lines look that the digest has to tell of.
Looks == {Look(Task[i].line) : i \in Noted}

\* A line is noted from warnings on, and new if nothing noted looks like it.
IsNoted(e) == e.level >= threshold /\ e.level >= Warn
IsNew(e) == IsNoted(e) /\ Look(e.line) \notin Looks

\* What is counted of a task, one line later.
LEMMA NotedStep ==
    ASSUME Task \in Seq(Calls), NEW e \in Calls, Task' = Append(Task, e),
           threshold' = threshold
    PROVE  /\ Noted' = IF IsNoted(e) THEN Noted \cup {Len(Task) + 1} ELSE Noted
           /\ Errors' = IF IsNew(e) /\ e.level >= Err
                        THEN Errors \cup {Len(Task) + 1} ELSE Errors
           /\ Warnings' = IF IsNew(e) /\ e.level < Err
                          THEN Warnings \cup {Len(Task) + 1} ELSE Warnings
           /\ Looks' = IF IsNoted(e) THEN Looks \cup {Look(e.line)} ELSE Looks
           /\ Noted \subseteq 1..Len(Task)
<1> DEFINE n == Len(Task)
<1>1. /\ Noted \subseteq 1..n /\ n \in Nat
      /\ Noted' = IF IsNoted(e) THEN Noted \cup {n + 1} ELSE Noted
      /\ \A i \in 1..n : Task'[i] = Task[i]
      /\ Task'[n + 1] = e
  BY ShownStep DEF IsNoted
<1> HIDE DEF n
<1>2. \A i \in Noted : i \in 1..n /\ i < n + 1 /\ Task'[i] = Task[i]
  <2>1. \A i \in 1..n : i < n + 1
    BY <1>1
  <2> QED
    BY <1>1, <2>1
<1>3. Looks' = IF IsNoted(e) THEN Looks \cup {Look(e.line)} ELSE Looks
  <2>1. Looks' = {Look(Task'[i].line) : i \in Noted'}
    BY DEF Looks
  <2>2. CASE IsNoted(e)
    <3>1. Noted' = Noted \cup {n + 1}
      BY <1>1, <2>2
    <3> QED
      BY <1>1, <1>2, <2>1, <2>2, <3>1 DEF Looks
  <2>3. CASE ~IsNoted(e)
    <3>1. Noted' = Noted
      BY <1>1, <2>3
    <3> QED
      BY <1>2, <2>1, <2>3, <3>1 DEF Looks
  <2> QED
    BY <2>2, <2>3
<1>4. ASSUME NEW i \in Noted PROVE Repeated(i)' <=> Repeated(i)
  <2>1. Repeated(i)' <=> \E j \in Noted' : j < i /\ Look(Task'[j].line) = Look(Task'[i].line)
    BY DEF Repeated
  <2>2. \A j \in Noted' : j < i => j \in Noted
    BY <1>1, <1>2
  <2>3. Noted \subseteq Noted'
    BY <1>1
  <2> QED
    BY <1>2, <2>1, <2>2, <2>3 DEF Repeated
<1>5. ASSUME NEW i, i = n + 1, IsNoted(e) PROVE Repeated(i)' <=> ~IsNew(e)
  <2>1. Repeated(i)' <=> \E j \in Noted' : j < i /\ Look(Task'[j].line) = Look(Task'[i].line)
    BY DEF Repeated
  <2>2. \A j \in Noted' : j < i <=> j \in Noted
    <3>1. Noted' = Noted \cup {i} /\ ~(i < i) /\ i \notin Noted
      BY <1>1, <1>2, <1>5
    <3>2. \A j \in Noted : j < i
      BY <1>2, <1>5
    <3> QED
      BY <3>1, <3>2
  <2>3. Noted \subseteq Noted' /\ Task'[i] = e
    BY <1>1, <1>5
  <2>4. Repeated(i)' <=> \E j \in Noted : Look(Task[j].line) = Look(e.line)
    BY <1>2, <2>1, <2>2, <2>3
  <2> QED
    BY <1>5, <2>4 DEF IsNew, Looks
<1>6. Errors' = IF IsNew(e) /\ e.level >= Err THEN Errors \cup {n + 1} ELSE Errors
  <2>1. Errors' = {i \in Noted' : ~Repeated(i)' /\ Task'[i].level >= Err}
    BY DEF Errors
  <2>2. \A i \in Noted : i \in Errors' <=> i \in Errors
    BY <1>1, <1>2, <1>4, <2>1 DEF Errors
  <2>3. ASSUME NEW i, i = n + 1 PROVE i \in Errors' <=> IsNew(e) /\ e.level >= Err
    <3>1. i \in Noted' <=> IsNoted(e)
      BY <1>1, <1>2, <2>3
    <3>2. Task'[i] = e
      BY <1>1, <2>3
    <3>3. IsNoted(e) => (Repeated(i)' <=> ~IsNew(e))
      BY <1>5, <2>3
    <3> QED
      BY <2>1, <3>1, <3>2, <3>3 DEF IsNew
  <2>4. \A i \in Errors' : i \in Noted \/ i = n + 1
    BY <1>1, <2>1
  <2>5. Errors \subseteq Noted
    BY DEF Errors
  <2> QED
    BY <2>2, <2>3, <2>4, <2>5
<1>7. Warnings' = IF IsNew(e) /\ e.level < Err THEN Warnings \cup {n + 1} ELSE Warnings
  <2>1. Warnings' = {i \in Noted' : ~Repeated(i)' /\ Task'[i].level < Err}
    BY DEF Warnings
  <2>2. \A i \in Noted : i \in Warnings' <=> i \in Warnings
    BY <1>1, <1>2, <1>4, <2>1 DEF Warnings
  <2>3. ASSUME NEW i, i = n + 1 PROVE i \in Warnings' <=> IsNew(e) /\ e.level < Err
    <3>1. i \in Noted' <=> IsNoted(e)
      BY <1>1, <1>2, <2>3
    <3>2. Task'[i] = e
      BY <1>1, <2>3
    <3>3. IsNoted(e) => (Repeated(i)' <=> ~IsNew(e))
      BY <1>5, <2>3
    <3> QED
      BY <2>1, <3>1, <3>2, <3>3 DEF IsNew
  <2>4. \A i \in Warnings' : i \in Noted \/ i = n + 1
    BY <1>1, <2>1
  <2>5. Warnings \subseteq Noted
    BY DEF Warnings
  <2> QED
    BY <2>2, <2>3, <2>4, <2>5
<1> QED
  BY <1>1, <1>3, <1>6, <1>7 DEF n

\* The inductive invariant: what the digest has seen is what it has to tell
\* of, so that a repetition is one of this task.
Digests ==
    view = "digest" => seen = Looks /\ DigestCounts

\* What the digest does with a logged line.
LEMMA DigestStep ==
    ASSUME Typed, KeepsLevel, view = "digest", seen = Looks, NEW e \in Calls,
           e.kind = "log", Call(e)
    PROVE  IF ~IsNoted(e) THEN UNCHANGED <<screen, seen, stats>>
           ELSE IF ~IsNew(e)
           THEN stats' = [stats EXCEPT !.repeats = @ + 1] /\ UNCHANGED <<screen, seen>>
           ELSE /\ seen' = seen \cup {Look(e.line)}
                /\ IF Crowded(e)
                   THEN /\ stats' = [stats EXCEPT ![Counter(e)] = @ + 1, !.hidden = @ + 1]
                        /\ UNCHANGED screen
                   ELSE /\ stats' = [stats EXCEPT ![Counter(e)] = @ + 1]
                        /\ screen' = Append(screen, [level |-> e.level, line |-> Look(e.line)])
<1> DEFINE m == Recorded(e)
<1>1. /\ m \in Records /\ m.level = e.level /\ m.line = e.line /\ e.level \in Nat
      /\ Counter(m) = Counter(e) /\ (Crowded(m) <=> Crowded(e))
      /\ [m EXCEPT !.line = Look(@)] = [level |-> e.level, line |-> Look(e.line)]
  BY DEF Calls, Records, Recorded, Counter, Crowded, Levels
<1>2. Record(m)
  BY DEF Call
<1> HIDE DEF m
<1>3. CASE ~(e.level >= threshold)
  BY <1>1, <1>2, <1>3, ReachesTerminal DEF Record, sink, IsNoted
<1>4. CASE e.level >= threshold
  <2>1. DigestMsg(m)
    BY <1>1, <1>2, <1>4, ReachesTerminal DEF Record
  <2>2. IsNoted(e) <=> ~(m.level < Warn)
    BY <1>1, <1>4 DEF IsNoted, Warn
  <2>3. IsNoted(e) => (IsNew(e) <=> Look(m.line) \notin seen)
    BY <1>1 DEF IsNew
  <2>4. CASE ~IsNoted(e)
    BY <2>1, <2>2, <2>4 DEF DigestMsg
  <2>5. CASE IsNoted(e) /\ ~IsNew(e)
    BY <2>1, <2>2, <2>3, <2>5 DEF DigestMsg
  <2>6. CASE IsNoted(e) /\ IsNew(e)
    BY <1>1, <2>1, <2>2, <2>3, <2>6 DEF DigestMsg
  <2> QED
    BY <2>4, <2>5, <2>6
<1> QED
  BY <1>3, <1>4

LEMMA DigestsStep == Typed /\ KeepsLevel /\ Digests /\ [Next]_vars => Digests'
<1> SUFFICES ASSUME Typed, KeepsLevel, Digests, [Next]_vars, view' = "digest"
             PROVE  seen' = Looks' /\ DigestCounts'
  BY DEF Digests
<1>1. CASE UNCHANGED <<view, threshold, Task, seen, stats>>
  BY <1>1 DEF Digests, DigestCounts, Looks, Noted, Shown, Errors, Warnings, Repeated
<1>2. ASSUME NEW e \in Calls, Call(e), UNCHANGED <<view, threshold>>, e.kind # "log",
             Task' = <<>>
      PROVE  seen' = Looks' /\ DigestCounts'
  <2>1. seen' = {} /\ stats' = NoStats
    BY <1>2 DEF Call
  <2>2. Noted' = {} /\ Cardinality({}) = 0
    BY <1>2, FS_EmptySet DEF Noted, Shown
  <2>3. Looks' = {} /\ Errors' = {} /\ Warnings' = {}
    BY <2>2 DEF Looks, Errors, Warnings
  <2>4. Excess(0) = 0
    BY Bounds DEF Excess
  <2> QED
    BY <2>1, <2>2, <2>3, <2>4 DEF DigestCounts, NoStats
<1>3. ASSUME NEW e \in Calls, Call(e), UNCHANGED <<view, threshold>>, e.kind = "log",
             Task' = Append(Task, e)
      PROVE  seen' = Looks' /\ DigestCounts'
  <2> DEFINE n == Len(Task)
             errors == Cardinality(Errors)
             warnings == Cardinality(Warnings)
             both == Cardinality(Errors \cup Warnings)
             noted == Cardinality(Noted)
  <2>1. Task \in Seq(Calls) /\ n \in Nat
    <3>1. Task \in Seq(Calls)
      BY TaskIs DEF Typed
    <3> QED
      BY <3>1
  <2>2. /\ Noted' = IF IsNoted(e) THEN Noted \cup {n + 1} ELSE Noted
        /\ Errors' = IF IsNew(e) /\ e.level >= Err THEN Errors \cup {n + 1} ELSE Errors
        /\ Warnings' = IF IsNew(e) /\ e.level < Err THEN Warnings \cup {n + 1} ELSE Warnings
        /\ Looks' = IF IsNoted(e) THEN Looks \cup {Look(e.line)} ELSE Looks
        /\ Noted \subseteq 1..n
    BY <1>3, <2>1, NotedStep
  <2>3. Errors \subseteq Noted /\ Warnings \subseteq Noted
    BY DEF Errors, Warnings
  <2> HIDE DEF n
  <2>4. /\ errors \in Nat /\ warnings \in Nat /\ both \in Nat /\ noted \in Nat
        /\ Cardinality(Errors \cup {n + 1}) = errors + 1
        /\ Cardinality(Warnings \cup {n + 1}) = warnings + 1
        /\ Cardinality((Errors \cup Warnings) \cup {n + 1}) = both + 1
        /\ Cardinality(Noted \cup {n + 1}) = noted + 1
    <3>1. Errors \subseteq 1..n /\ Warnings \subseteq 1..n /\ Errors \cup Warnings \subseteq 1..n
      BY <2>2, <2>3
    <3>2. /\ errors \in 0..n /\ Cardinality(Errors \cup {n + 1}) = errors + 1
          /\ warnings \in 0..n /\ Cardinality(Warnings \cup {n + 1}) = warnings + 1
      BY <2>1, <3>1, OneMore
    <3>3. both \in 0..n /\ Cardinality((Errors \cup Warnings) \cup {n + 1}) = both + 1
      BY <2>1, <3>1, OneMore
    <3>4. noted \in 0..n /\ Cardinality(Noted \cup {n + 1}) = noted + 1
      BY <2>1, <2>2, OneMore
    <3> QED
      BY <2>1, <3>2, <3>3, <3>4
  <2>5. /\ seen = Looks
        /\ stats = [errors |-> errors, warnings |-> warnings, repeats |-> noted - both,
                    hidden |-> Excess(errors) + Excess(warnings)]
    BY <1>3 DEF Digests, DigestCounts
  <2>6. \A k \in Nat : /\ Excess(k) \in Nat
                       /\ Excess(k + 1) = IF k >= LevelMax THEN Excess(k) + 1 ELSE Excess(k)
    BY Bounds DEF Excess
  <2>7. IF ~IsNoted(e) THEN UNCHANGED <<screen, seen, stats>>
        ELSE IF ~IsNew(e)
        THEN stats' = [stats EXCEPT !.repeats = @ + 1] /\ UNCHANGED <<screen, seen>>
        ELSE /\ seen' = seen \cup {Look(e.line)}
             /\ IF Crowded(e)
                THEN /\ stats' = [stats EXCEPT ![Counter(e)] = @ + 1, !.hidden = @ + 1]
                     /\ UNCHANGED screen
                ELSE /\ stats' = [stats EXCEPT ![Counter(e)] = @ + 1]
                     /\ screen' = Append(screen, [level |-> e.level, line |-> Look(e.line)])
    BY <1>3, <2>5, DigestStep
  <2>8. seen' = Looks'
    BY <2>2, <2>5, <2>7 DEF IsNew
  <2>9. ASSUME stats' = [errors |-> Cardinality(Errors'), warnings |-> Cardinality(Warnings'),
                         repeats |-> Cardinality(Noted') - Cardinality(Errors' \cup Warnings'),
                         hidden |-> Excess(Cardinality(Errors')) + Excess(Cardinality(Warnings'))]
        PROVE  DigestCounts'
    BY <2>9 DEF DigestCounts, Excess
  <2> HIDE DEF errors, warnings, both, noted
  <2>10. CASE ~IsNoted(e)
    <3>1. Noted' = Noted /\ Errors' = Errors /\ Warnings' = Warnings /\ stats' = stats
      BY <2>2, <2>7, <2>10 DEF IsNew
    <3> QED
      BY <2>5, <2>8, <2>9, <3>1 DEF errors, warnings, both, noted
  <2>11. CASE IsNoted(e) /\ ~IsNew(e)
    <3>1. /\ Noted' = Noted \cup {n + 1} /\ Errors' = Errors /\ Warnings' = Warnings
          /\ stats' = [stats EXCEPT !.repeats = @ + 1]
      BY <2>2, <2>7, <2>11
    <3>2. stats' = [errors |-> errors, warnings |-> warnings, repeats |-> (noted + 1) - both,
                    hidden |-> Excess(errors) + Excess(warnings)]
      BY <2>4, <2>5, <3>1
    <3> QED
      BY <2>4, <2>8, <2>9, <3>1, <3>2 DEF errors, warnings, both, noted
  <2>12. CASE IsNew(e) /\ e.level >= Err
    <3>1. /\ Noted' = Noted \cup {n + 1} /\ Errors' = Errors \cup {n + 1} /\ Warnings' = Warnings
          /\ Errors' \cup Warnings' = (Errors \cup Warnings) \cup {n + 1}
          /\ Counter(e) = "errors"
      <4>1. ~(e.level < Err) /\ IsNoted(e)
        BY <2>12 DEF IsNew, Calls, Levels, Err
      <4> QED
        BY <2>2, <2>12, <4>1 DEF Counter
    <3>2. stats' = [errors |-> errors + 1, warnings |-> warnings,
                    repeats |-> (noted + 1) - (both + 1),
                    hidden |-> Excess(errors + 1) + Excess(warnings)]
      <4>1. IsNoted(e) /\ (Crowded(e) <=> errors >= LevelMax)
        BY <2>5, <2>12, <3>1 DEF IsNew, Crowded
      <4>2. CASE Crowded(e)
        <5>1. stats' = [stats EXCEPT !.errors = @ + 1, !.hidden = @ + 1]
          BY <2>7, <2>12, <3>1, <4>1, <4>2
        <5>2. Excess(errors + 1) = Excess(errors) + 1 /\ Excess(errors) \in Nat /\ Excess(warnings) \in Nat
          BY <2>4, <2>6, <4>1, <4>2
        <5>3. /\ noted - both = (noted + 1) - (both + 1)
              /\ (Excess(errors) + Excess(warnings)) + 1 = Excess(errors + 1) + Excess(warnings)
          BY <2>4, <5>2
        <5> QED
          BY <2>5, <5>1, <5>3
      <4>3. CASE ~Crowded(e)
        <5>1. stats' = [stats EXCEPT !.errors = @ + 1]
          BY <2>7, <2>12, <3>1, <4>1, <4>3
        <5>2. Excess(errors + 1) = Excess(errors)
          BY <2>4, <2>6, <4>1, <4>3
        <5> QED
          BY <2>4, <2>5, <5>1, <5>2
      <4> QED
        BY <4>2, <4>3
    <3> QED
      BY <2>4, <2>8, <2>9, <3>1, <3>2 DEF warnings
  <2>13. CASE IsNew(e) /\ e.level < Err
    <3>1. /\ Noted' = Noted \cup {n + 1} /\ Errors' = Errors /\ Warnings' = Warnings \cup {n + 1}
          /\ Errors' \cup Warnings' = (Errors \cup Warnings) \cup {n + 1}
          /\ Counter(e) = "warnings"
      <4>1. ~(e.level >= Err) /\ IsNoted(e)
        BY <2>13 DEF IsNew, Calls, Levels, Err
      <4> QED
        BY <2>2, <2>13, <4>1 DEF Counter
    <3>2. stats' = [errors |-> errors, warnings |-> warnings + 1,
                    repeats |-> (noted + 1) - (both + 1),
                    hidden |-> Excess(errors) + Excess(warnings + 1)]
      <4>1. IsNoted(e) /\ (Crowded(e) <=> warnings >= LevelMax)
        BY <2>5, <2>13, <3>1 DEF IsNew, Crowded
      <4>2. CASE Crowded(e)
        <5>1. stats' = [stats EXCEPT !.warnings = @ + 1, !.hidden = @ + 1]
          BY <2>7, <2>13, <3>1, <4>1, <4>2
        <5>2. Excess(warnings + 1) = Excess(warnings) + 1 /\ Excess(errors) \in Nat /\ Excess(warnings) \in Nat
          BY <2>4, <2>6, <4>1, <4>2
        <5>3. /\ noted - both = (noted + 1) - (both + 1)
              /\ (Excess(errors) + Excess(warnings)) + 1 = Excess(errors) + Excess(warnings + 1)
          BY <2>4, <5>2
        <5> QED
          BY <2>5, <5>1, <5>3
      <4>3. CASE ~Crowded(e)
        <5>1. stats' = [stats EXCEPT !.warnings = @ + 1]
          BY <2>7, <2>13, <3>1, <4>1, <4>3
        <5>2. Excess(warnings + 1) = Excess(warnings)
          BY <2>4, <2>6, <4>1, <4>3
        <5> QED
          BY <2>4, <2>5, <5>1, <5>2
      <4> QED
        BY <4>2, <4>3
    <3> QED
      BY <2>4, <2>8, <2>9, <3>1, <3>2 DEF errors
  <2> QED
    <3>1. e.level >= Err \/ e.level < Err
      BY DEF Calls, Levels, Err
    <3> QED
      BY <2>10, <2>11, <2>12, <2>13, <3>1
<1> QED
  BY <1>1, <1>2, <1>3, TaskSteps

LEMMA DigestInvariant == Spec => [](Typed /\ KeepsLevel /\ Digests)
<1>1. Init => Digests
  <2> SUFFICES ASSUME Init PROVE Digests
    OBVIOUS
  <2>1. Noted = {} /\ Cardinality({}) = 0
    BY NoTask, NothingShown
  <2>2. Looks = {} /\ Errors = {} /\ Warnings = {} /\ Excess(0) = 0
    BY <2>1, Bounds DEF Looks, Errors, Warnings, Excess
  <2> QED
    BY <2>1, <2>2 DEF Init, Digests, DigestCounts, NoStats
<1> QED
  BY <1>1, DigestsStep, LevelInvariant, PTL DEF Spec

\* For any lines, rules, limits and levels: the counts of the digest account
\* for every warning and error of the task once, by its level, as a repetition,
\* and as hidden behind the limit of its kind (digest_sink::sink_it_, summary).
THEOREM CountsAddUp == Spec => []DigestCounts
<1>1. Digests => DigestCounts
  BY DEF Digests, DigestCounts
<1> QED
  BY <1>1, DigestInvariant, PTL

-----------------------------------------------------------------------------
(* What the digest prints. *)

\* What a digest leaves on the terminal: the lines it prints, and what it says
\* when a task ends.
Messages == [level : Levels, line : {Look(l) : l \in Lines}]
Outcomes == [level : Levels, line : Lines,
             stats : [{"errors", "warnings", "repeats", "hidden"} -> Nat]]

\* A row that is printed is on the terminal beside those printed before.
LEMMA OnScreenStep ==
    ASSUME screen \in Seq(Messages \cup Outcomes), NEW r \in Messages, screen' = Append(screen, r)
    PROVE  r.line \in OnScreen' /\ OnScreen \subseteq OnScreen'
<1>1. /\ Len(screen) \in Nat /\ DOMAIN screen = 1..Len(screen)
      /\ Len(screen') = Len(screen) + 1 /\ DOMAIN screen' = 1..(Len(screen) + 1)
      /\ \A k \in 1..Len(screen) : screen'[k] = screen[k]
      /\ screen'[Len(screen) + 1] = r
  OBVIOUS
<1>2. "stats" \notin DOMAIN r
  BY DEF Messages
<1>3. SinceSummary' = {k \in DOMAIN screen' :
                         \A j \in k..Len(screen') : "stats" \notin DOMAIN screen'[j]}
  BY DEF SinceSummary
<1>4. Len(screen) + 1 \in SinceSummary'
  <2>1. \A j \in (Len(screen) + 1)..(Len(screen) + 1) : j = Len(screen) + 1
    BY <1>1
  <2> QED
    BY <1>1, <1>2, <1>3, <2>1
<1>5. ASSUME NEW k \in SinceSummary PROVE k \in SinceSummary' /\ screen'[k] = screen[k]
  <2>1. k \in 1..Len(screen) /\ \A j \in k..Len(screen) : "stats" \notin DOMAIN screen[j]
    BY <1>1 DEF SinceSummary
  <2>2. \A j \in k..(Len(screen) + 1) : j \in k..Len(screen) \/ j = Len(screen) + 1
    BY <1>1, <2>1
  <2>3. \A j \in k..Len(screen) : j \in 1..Len(screen)
    BY <1>1, <2>1
  <2> QED
    BY <1>1, <1>2, <1>3, <2>1, <2>2, <2>3
<1>6. OnScreen' = {screen'[k].line : k \in SinceSummary'}
  BY DEF OnScreen
<1> QED
  BY <1>1, <1>4, <1>5, <1>6 DEF OnScreen

\* One more index at the end comes before none of the others.
LEMMA EarlierStep ==
    ASSUME NEW n \in Nat, NEW A, A \subseteq 1..n
    PROVE  /\ \A i \in 1..n : Earlier(A \cup {n + 1}, i) = Earlier(A, i)
           /\ Earlier(A \cup {n + 1}, n + 1) = Cardinality(A)
<1>1. ASSUME NEW i \in 1..n PROVE {j \in A \cup {n + 1} : j < i} = {j \in A : j < i}
  OBVIOUS
<1>2. {j \in A \cup {n + 1} : j < n + 1} = A
  <2>1. \A j \in A : j \in 1..n
    OBVIOUS
  <2>2. \A j \in 1..n : j < n + 1
    OBVIOUS
  <2>3. ~(n + 1 < n + 1)
    OBVIOUS
  <2> QED
    BY <2>1, <2>2, <2>3
<1> QED
  BY <1>1, <1>2 DEF Earlier

\* Before a later index there are no fewer.
LEMMA EarlierGrows ==
    ASSUME NEW n \in Nat, NEW A, A \subseteq 1..n, NEW i \in 1..n, NEW j \in 1..n, j <= i
    PROVE  Earlier(A, j) <= Earlier(A, i) /\ Earlier(A, j) \in Nat /\ Earlier(A, i) \in Nat
<1>1. {k \in A : k < j} \subseteq {k \in A : k < i}
  <2>1. ASSUME NEW k \in A, k < j PROVE k < i
    <3>1. k \in 1..n /\ i \in Nat /\ j \in Nat /\ k \in Nat
      OBVIOUS
    <3> QED
      BY <2>1, <3>1
  <2> QED
    BY <2>1
<1>2. {k \in A : k < i} \subseteq 1..n /\ {k \in A : k < j} \subseteq 1..n
  OBVIOUS
<1>3. IsFiniteSet({k \in A : k < i}) /\ Cardinality({k \in A : k < i}) \in 0..n
  BY <1>2, OneMore
<1>4. Cardinality({k \in A : k < j}) \in 0..n
  BY <1>2, OneMore
<1> QED
  BY <1>1, <1>3, <1>4, FS_Subset DEF Earlier

\* The inductive invariant: the first of the lines that look the same is the
\* one that counts, and the first LevelMax of either kind are on the terminal.
Prints ==
    view = "digest" =>
        /\ screen \in Seq(Messages \cup Outcomes)
        /\ \A i \in Noted : \E j \in Errors \cup Warnings :
              j <= i /\ Look(Task[j].line) = Look(Task[i].line)
        /\ \A i \in Errors : Earlier(Errors, i) < LevelMax => Look(Task[i].line) \in OnScreen
        /\ \A i \in Warnings : Earlier(Warnings, i) < LevelMax => Look(Task[i].line) \in OnScreen

LEMMA PrintsStep == Typed /\ KeepsLevel /\ Digests /\ Prints /\ [Next]_vars => Prints'
<1> SUFFICES ASSUME Typed, KeepsLevel, Digests, Prints, [Next]_vars PROVE Prints'
  OBVIOUS
<1>1. CASE UNCHANGED <<view, threshold, Task, screen>>
  BY <1>1 DEF Prints, Noted, Shown, Errors, Warnings, Repeated, Earlier, OnScreen, SinceSummary
<1>2. ASSUME NEW e \in Calls, Call(e), UNCHANGED <<view, threshold>>, e.kind # "log",
             Task' = <<>>
      PROVE  Prints'
  <2>1. Noted' = {} /\ Errors' = {} /\ Warnings' = {}
    BY <1>2 DEF Noted, Shown, Errors, Warnings
  <2>2. view = "digest" => screen' \in Seq(Messages \cup Outcomes)
    <3>1. Outcome(e) \in Outcomes
      <4>1. stats \in [{"errors", "warnings", "repeats", "hidden"} -> Nat]
        BY DEF Typed
      <4> QED
        BY <4>1 DEF Outcome, Outcomes, Calls
    <3> QED
      BY <1>2, <3>1 DEF Call, Prints
  <2> QED
    BY <1>2, <2>1, <2>2 DEF Prints
<1>3. ASSUME NEW e \in Calls, Call(e), UNCHANGED <<view, threshold>>, e.kind = "log",
             Task' = Append(Task, e), view = "digest"
      PROVE  Prints'
  <2> DEFINE n == Len(Task)
  <2>1. Task \in Seq(Calls) /\ n \in Nat
    <3>1. Task \in Seq(Calls)
      BY TaskIs DEF Typed
    <3> QED
      BY <3>1
  <2>2. /\ Noted' = IF IsNoted(e) THEN Noted \cup {n + 1} ELSE Noted
        /\ Errors' = IF IsNew(e) /\ e.level >= Err THEN Errors \cup {n + 1} ELSE Errors
        /\ Warnings' = IF IsNew(e) /\ e.level < Err THEN Warnings \cup {n + 1} ELSE Warnings
        /\ Noted \subseteq 1..n
    BY <1>3, <2>1, NotedStep
  <2>3. (\A i \in 1..n : Task'[i] = Task[i]) /\ Task'[n + 1] = e
    BY <1>3, <2>1
  <2> HIDE DEF n
  <2>4. Errors \subseteq 1..n /\ Warnings \subseteq 1..n
    BY <2>2 DEF Errors, Warnings
  <2>5. /\ screen' \in Seq(Messages \cup Outcomes)
        /\ OnScreen \subseteq OnScreen'
        /\ IsNew(e) /\ ~Crowded(e) => Look(e.line) \in OnScreen'
    <3> DEFINE r == [level |-> e.level, line |-> Look(e.line)]
    <3>1. screen \in Seq(Messages \cup Outcomes) /\ r \in Messages /\ r.line = Look(e.line)
      BY <1>3 DEF Prints, Messages, Calls
    <3>2. \/ UNCHANGED screen /\ ~(IsNew(e) /\ ~Crowded(e))
          \/ screen' = Append(screen, r)
      BY <1>3, DigestStep DEF Digests, IsNew
    <3> HIDE DEF r
    <3>3. CASE UNCHANGED screen /\ ~(IsNew(e) /\ ~Crowded(e))
      BY <3>1, <3>3 DEF OnScreen, SinceSummary
    <3>4. CASE screen' = Append(screen, r)
      BY <3>1, <3>4, OnScreenStep
    <3> QED
      BY <3>2, <3>3, <3>4
  <2>6. /\ IsNew(e) /\ e.level >= Err => (Crowded(e) <=> Cardinality(Errors) >= LevelMax)
        /\ IsNew(e) /\ e.level < Err => (Crowded(e) <=> Cardinality(Warnings) >= LevelMax)
    <3>1. e.level < Err <=> ~(e.level >= Err)
      BY DEF Calls, Levels, Err
    <3> QED
      BY <1>3, <3>1 DEF Crowded, Counter, Digests, DigestCounts
  <2>7. /\ Cardinality(Errors) >= LevelMax <=> ~(Cardinality(Errors) < LevelMax)
        /\ Cardinality(Warnings) >= LevelMax <=> ~(Cardinality(Warnings) < LevelMax)
    <3>1. Cardinality(Errors) \in 0..n
      BY <2>1, <2>4, OneMore
    <3>2. Cardinality(Warnings) \in 0..n
      BY <2>1, <2>4, OneMore
    <3> QED
      BY <2>1, <3>1, <3>2, Bounds
  <2>8. ASSUME NEW i \in Errors', Earlier(Errors', i) < LevelMax
        PROVE  Look(Task'[i].line) \in OnScreen'
    <3>1. CASE i \in Errors
      <4>1. Earlier(Errors', i) = Earlier(Errors, i)
        BY <2>1, <2>2, <2>4, <3>1, EarlierStep
      <4> QED
        BY <1>3, <2>3, <2>4, <2>5, <2>8, <3>1, <4>1 DEF Prints
    <3>2. CASE i = n + 1 /\ IsNew(e) /\ e.level >= Err
      <4>1. Earlier(Errors', i) = Cardinality(Errors)
        BY <2>1, <2>2, <2>4, <3>2, EarlierStep
      <4> QED
        BY <2>3, <2>5, <2>6, <2>7, <2>8, <3>2, <4>1
    <3> QED
      BY <2>2, <3>1, <3>2
  <2>9. ASSUME NEW i \in Warnings', Earlier(Warnings', i) < LevelMax
        PROVE  Look(Task'[i].line) \in OnScreen'
    <3>1. CASE i \in Warnings
      <4>1. Earlier(Warnings', i) = Earlier(Warnings, i)
        BY <2>1, <2>2, <2>4, <3>1, EarlierStep
      <4> QED
        BY <1>3, <2>3, <2>4, <2>5, <2>9, <3>1, <4>1 DEF Prints
    <3>2. CASE i = n + 1 /\ IsNew(e) /\ e.level < Err
      <4>1. Earlier(Warnings', i) = Cardinality(Warnings)
        BY <2>1, <2>2, <2>4, <3>2, EarlierStep
      <4> QED
        BY <2>3, <2>5, <2>6, <2>7, <2>9, <3>2, <4>1
    <3> QED
      BY <2>2, <3>1, <3>2
  <2>10. ASSUME NEW i \in Noted'
         PROVE  \E j \in Errors' \cup Warnings' :
                   j <= i /\ Look(Task'[j].line) = Look(Task'[i].line)
    <3>1. Errors \subseteq Errors' /\ Warnings \subseteq Warnings'
      BY <2>2
    <3>2. ASSUME NEW k \in Noted
          PROVE  \E j \in Errors \cup Warnings :
                    j <= k /\ k <= n /\ Look(Task'[j].line) = Look(Task[k].line)
      <4>1. PICK j \in Errors \cup Warnings : j <= k /\ Look(Task[j].line) = Look(Task[k].line)
        BY <1>3 DEF Prints
      <4>2. Task'[j] = Task[j] /\ k <= n
        BY <2>1, <2>2, <2>3, <2>4
      <4> QED
        BY <4>1, <4>2
    <3>3. CASE i \in Noted
      BY <2>2, <2>3, <3>1, <3>2, <3>3
    <3>4. CASE i = n + 1 /\ IsNew(e)
      <4>1. i \in Errors' \cup Warnings'
        <5>1. e.level < Err \/ e.level >= Err
          BY DEF Calls, Levels, Err
        <5> QED
          BY <2>2, <3>4, <5>1
      <4> QED
        BY <2>1, <3>4, <4>1
    <3>5. CASE i = n + 1 /\ IsNoted(e) /\ ~IsNew(e)
      <4>1. PICK k \in Noted : Look(Task[k].line) = Look(e.line)
        BY <3>5 DEF IsNew, Looks
      <4>2. PICK j \in Errors \cup Warnings :
               j <= k /\ k <= n /\ Look(Task'[j].line) = Look(Task[k].line)
        BY <3>2
      <4>3. j <= i
        BY <2>1, <2>2, <2>4, <3>5, <4>2
      <4> QED
        BY <2>3, <3>1, <3>5, <4>1, <4>2, <4>3
    <3> QED
      BY <2>2, <3>3, <3>4, <3>5 DEF IsNew
  <2> QED
    BY <1>3, <2>5, <2>8, <2>9, <2>10 DEF Prints, Earlier
<1> QED
  BY <1>1, <1>2, <1>3, TaskSteps DEF Prints

\* For any lines, rules, limits and levels: each of the first LevelMax errors
\* of a task stays on the terminal among however many warnings and repetitions,
\* unless it looks like a warning that was hidden (digest_sink::sink_it_).
THEOREM ErrorsComeThrough == Spec => []ErrorsAreShown
<1>1. Init => Prints
  <2>1. Init => Noted = {} /\ Errors = {} /\ Warnings = {} /\ screen = <<>>
    BY NoTask, NothingShown DEF Errors, Warnings, Init
  <2> QED
    BY <2>1 DEF Prints
<1>2. Typed /\ Prints => ErrorsAreShown
  <2> SUFFICES ASSUME Typed, Prints, view = "digest", NEW i \in Noted, Early(i)
               PROVE  Look(Task[i].line) \in OnScreen \/ Masked(i)
    BY DEF ErrorsAreShown
  <2> DEFINE n == Len(Task)
  <2>1. Task \in Seq(Calls) /\ n \in Nat /\ DOMAIN Task = 1..n
    <3>1. Task \in Seq(Calls)
      BY TaskIs DEF Typed
    <3> QED
      BY <3>1
  <2> HIDE DEF n
  <2>2. Noted \subseteq 1..n /\ Errors \subseteq 1..n /\ Warnings \subseteq 1..n
    BY <2>1 DEF Errors, Warnings, Noted, Shown
  <2>3. PICK j \in Errors \cup Warnings : j <= i /\ Look(Task[j].line) = Look(Task[i].line)
    BY DEF Prints
  <2>4. CASE j \in Errors
    <3>1. Earlier(Errors, j) <= Earlier(Errors, i) /\ Earlier(Errors, j) \in Nat
          /\ Earlier(Errors, i) \in Nat
      BY <2>1, <2>2, <2>3, <2>4, EarlierGrows
    <3>2. Earlier(Errors, j) < LevelMax
      BY <3>1, Bounds DEF Early
    <3> QED
      BY <2>3, <2>4, <3>2 DEF Prints
  <2>5. CASE j \in Warnings
    <3>1. CASE Earlier(Warnings, j) < LevelMax
      BY <2>3, <2>5, <3>1 DEF Prints
    <3>2. CASE ~(Earlier(Warnings, j) < LevelMax)
      <4>1. Earlier(Warnings, j) >= LevelMax
        <5>1. Earlier(Warnings, j) \in Nat
          <6>1. j \in 1..n /\ j <= j
            BY <2>1, <2>2, <2>5
          <6> QED
            BY <2>1, <2>2, <6>1, EarlierGrows
        <5> QED
          BY <3>2, <5>1, Bounds
      <4>2. j # i
        <5>1. Task[i].level >= Err /\ Task[j].level < Err
          BY <2>5 DEF Early, Warnings
        <5>2. Task[i] \in Calls
          BY <2>1, <2>2
        <5>3. Task[i].level \in Nat
          BY <5>2 DEF Calls, Levels
        <5> QED
          BY <5>1, <5>3 DEF Err
      <4>3. j < i
        BY <2>2, <2>3, <2>5, <4>2
      <4> QED
        BY <2>3, <2>5, <4>1, <4>3 DEF Masked
    <3> QED
      BY <3>1, <3>2
  <2> QED
    BY <2>3, <2>4, <2>5
<1> QED
  BY <1>1, <1>2, PrintsStep, DigestInvariant, PTL DEF Spec
=============================================================================
