------------------------------- MODULE Logging -------------------------------
(***************************************************************************)
(* What becomes of the lines Baldr logs (libutl/log.cpp, classifier.cpp):    *)
(* the level a line of a child's output gets, the three views of the         *)
(* terminal (stream, window, digest), and the log file.                      *)
(*                                                                           *)
(* A task is what is logged until the next success() or failure().  A line   *)
(* is known by the markers of the classifier it contains and by its text, a   *)
(* sequence of cells: a cell is a visible character, a whole CSI sequence (a *)
(* colour), or one character of an OSC sequence (a hyperlink), which begins   *)
(* with OscStart and ends with OscEnd.  Paths are relative to the root.      *)
(***************************************************************************)
EXTENDS Naturals, Sequences, FiniteSets, SequencesExt

CONSTANTS
    Lines,          \* lines of output and of Baldr's own
    OwnLines,       \* those Baldr says itself
    Text,           \* [Lines -> sequences of cells]
    Csi,            \* the cells that are CSI sequences
    OscStart,       \* the cell an OSC sequence begins with
    OscEnd,         \* and the one it ends with
    LineWidth,      \* settings_t::line_width
    TermWidth,      \* terminal_width()
    VisibleLines,   \* window::m_visible_lines
    Markers,        \* [Lines -> set of markers it contains]
    Use,            \* the names of classifier.use, in its order
    Sets,           \* classifier.sets: the rules of each name
    Views,          \* the views to look at
    Thresholds,     \* the levels SPDLOG_LEVEL may set
    MaxBuffer,      \* window::m_max_buffer
    LevelMax,       \* settings_t::digest_lines
    MaxLogged       \* calls in one behaviour

\* spdlog's levels, trace being 0; error is err here.
Debug == 1
Info == 2
Warn == 3
Err == 4
Levels == 0..5

ASSUME LoggingAssumption ==
    /\ OwnLines \subseteq Lines
    /\ DOMAIN Text = Lines /\ \A l \in Lines : Text[l] \in Seq(Range(Text[l]))
    /\ "." \notin Csi
    /\ {LineWidth, TermWidth, VisibleLines} \subseteq Nat \ {0}
    /\ Use \in Seq(DOMAIN Sets)
    /\ \A s \in DOMAIN Sets : /\ Sets[s] \in Seq(Range(Sets[s]))
                              /\ \A r \in Range(Sets[s]) : r.level \in Levels
    /\ Views \subseteq {"stream", "window", "digest"}
    /\ Thresholds \subseteq Levels
    /\ {MaxBuffer, LevelMax} \subseteq Nat \ {0}
    /\ MaxLogged \in Nat

VARIABLES
    view,       \* settings_t::terminal_view
    threshold,  \* the level of the logger when it was made
    levels,     \* the levels of the logger and of its sinks
    screen,     \* what the terminal has been given to keep
    file,       \* the log file's lines
    buffer,     \* window::m_buffer
    drawn,      \* the rows the window has drawn below the cursor
    seen,       \* digest_sink::m_seen
    stats,      \* digest_sink::m_stats
    history     \* every call of log, success and failure, and what it said

sink == <<screen, buffer, drawn, seen, stats>>
vars == <<view, threshold, levels, screen, file, buffer, drawn, seen, stats, history>>

NoStats == [errors |-> 0, warnings |-> 0, repeats |-> 0, hidden |-> 0]
NoFile == 6      \* a sink that is not there: nothing reaches level off
Smaller(a, b) == IF a < b THEN a ELSE b
Larger(a, b) == IF a < b THEN b ELSE a
LastOf(seq, n) == SubSeq(seq, Len(seq) - Smaller(Len(seq), n) + 1, Len(seq))

-----------------------------------------------------------------------------
(* utl::tty *)

\* The cells of line at some of its places, in its order.
Cells(line, places) ==
    LET upTo[n \in 0..Len(line)] ==
            IF n = 0 THEN <<>>
            ELSE IF n \in places THEN Append(upTo[n - 1], line[n])
            ELSE upTo[n - 1]
    IN  upTo[Len(line)]

\* The places of a line's CSI sequences.
Escapes(line) == {i \in DOMAIN line : line[i] \in Csi}

\* strip_ansi, one cell further.
Scan(r, c) ==
    IF r.osc THEN [r EXCEPT !.osc = c # OscEnd]
    ELSE IF c = OscStart THEN [r EXCEPT !.osc = TRUE]
    ELSE IF c \in Csi THEN r
    ELSE [r EXCEPT !.text = Append(@, c)]

\* strip_ansi: an OSC sequence that does not end goes on to the line's end.
Strip(line) ==
    LET upTo[n \in 0..Len(line)] ==
            IF n = 0 THEN [osc |-> FALSE, text |-> <<>>] ELSE Scan(upTo[n - 1], line[n])
    IN  upTo[Len(line)].text

\* visible_width: OSC sequences count as if they were visible.
Width(line) == Cardinality(DOMAIN line \ Escapes(line))

Dots == <<".", ".", ".">>

\* Mutant of Budget: the dots are not counted.
BudgetWithoutDots(max) == max

\* How many cells stay before the dots.
Budget(max) == IF max > Len(Dots) THEN max - Len(Dots) ELSE 0

\* The cells before the cut, and the escapes behind it.
Before(line, cut) ==
    {i \in DOMAIN line : LET upTo == Width(SubSeq(line, 1, i))
                         IN  IF i \in Escapes(line) THEN upTo < cut ELSE upTo <= cut}
Behind(line, cut) == {i \in Escapes(line) : Width(SubSeq(line, 1, i)) >= cut}

\* cap_visible_width: the escapes behind the cut are kept, after the dots.
Cap(line, max) ==
    IF Width(line) <= max THEN line
    ELSE Cells(line, Before(line, Budget(max))) \o Dots \o Cells(line, Behind(line, Budget(max)))

\* digest_sink::sink_it_: a line as the digest prints it.
Look(line) == Cap(Strip(Text[line]), LineWidth)

-----------------------------------------------------------------------------
(* The classifier. *)

\* parse_rules: the rules of the sets in use, in that order.
Rules == FlattenSeq([i \in DOMAIN Use |-> Sets[Use[i]]])

\* classify: the first rule with a marker in the line.
Classify(line) ==
    LET n == SelectInSeq(Rules, LAMBDA r : r.markers \cap Markers[line] # {})
    IN  IF n = 0 THEN Info ELSE Rules[n].level

-----------------------------------------------------------------------------
(* The views: what each does with a record that has reached it. *)

\* Mutant of WindowMsg: the buffer is never trimmed.
WindowMsgGrowing(m) ==
    /\ buffer' = Append(buffer, m.line)
    /\ drawn' = [i \in DOMAIN LastOf(buffer', VisibleLines) |->
                    Cap(Text[LastOf(buffer', VisibleLines)[i]], TermWidth - 1)]
    /\ UNCHANGED <<screen, seen, stats>>

\* window::msg: the last lines are drawn over those drawn before.
WindowMsg(m) ==
    /\ buffer' = Append(IF Len(buffer) = MaxBuffer THEN Tail(buffer) ELSE buffer, m.line)
    /\ LET visible == LastOf(buffer', VisibleLines)
       IN  drawn' = [i \in DOMAIN visible |-> Cap(Text[visible[i]], TermWidth - 1)]
    /\ UNCHANGED <<screen, seen, stats>>

\* Which of the two counters a record belongs to.
Counter(m) == IF m.level >= Err THEN "errors" ELSE "warnings"

\* Mutant of Crowded: one limit for errors and warnings together.
CrowdedTogether(m) == stats.errors + stats.warnings >= LevelMax

\* Whether as many of its kind as may be printed have been.
Crowded(m) == stats[Counter(m)] >= LevelMax

\* digest_sink::sink_it_
DigestMsg(m) ==
    /\ IF m.level < Warn
       THEN UNCHANGED <<screen, seen, stats>>
       ELSE IF Look(m.line) \in seen
       THEN stats' = [stats EXCEPT !.repeats = @ + 1] /\ UNCHANGED <<screen, seen>>
       ELSE /\ seen' = seen \cup {Look(m.line)}
            /\ IF Crowded(m)
               THEN /\ stats' = [stats EXCEPT ![Counter(m)] = @ + 1, !.hidden = @ + 1]
                    /\ UNCHANGED screen
               ELSE /\ stats' = [stats EXCEPT ![Counter(m)] = @ + 1]
                    /\ screen' = Append(screen, [m EXCEPT !.line = Look(@)])
    /\ UNCHANGED <<buffer, drawn>>

StreamMsg(m) == screen' = Append(screen, m) /\ UNCHANGED <<buffer, drawn, seen, stats>>

\* spdlog's logger and its sinks drop what is below their levels.
Reaches(m, s) == m.level >= levels.logger /\ m.level >= levels[s]

Record(m) ==
    /\ IF ~Reaches(m, "terminal") THEN UNCHANGED sink
       ELSE \/ view = "stream" /\ StreamMsg(m)
            \/ view = "window" /\ WindowMsg(m)
            \/ view = "digest" /\ DigestMsg(m)
    /\ file' = IF Reaches(m, "file") THEN Append(file, m) ELSE file

-----------------------------------------------------------------------------
Init ==
    /\ view \in Views
    /\ threshold \in Thresholds
    /\ levels = [logger |-> threshold, terminal |-> 0, file |-> NoFile]
    /\ screen = <<>>
    /\ file = <<>>
    /\ buffer = <<>>
    /\ drawn = <<>>
    /\ seen = {}
    /\ stats = NoStats
    /\ history = <<>>

Room == Len(history) < MaxLogged

\* Mutant of OpenFile: only the logger's level is lowered.
OpenFileLowering ==
    /\ levels.file = NoFile
    /\ levels' = [logger |-> Smaller(threshold, Info), terminal |-> levels.terminal,
                  file |-> Smaller(threshold, Info)]
    /\ UNCHANGED <<view, threshold, sink, file, history>>

\* Mutant of OpenFile: the logger keeps its level.
OpenFileBehindLogger ==
    /\ levels.file = NoFile
    /\ levels' = [levels EXCEPT !.terminal = threshold, !.file = Smaller(threshold, Info)]
    /\ UNCHANGED <<view, threshold, sink, file, history>>

\* open_file: the terminal keeps its level while the logger's is lowered to
\* what the file needs.  A file that cannot be opened is a logged warning.
OpenFile ==
    /\ levels.file = NoFile
    /\ levels' = [logger |-> Smaller(threshold, Info), terminal |-> threshold,
                  file |-> Smaller(threshold, Info)]
    /\ UNCHANGED <<view, threshold, sink, file, history>>

Said(kind, m) == history' = Append(history, [kind |-> kind, level |-> m.level, line |-> m.line])

\* log_output: a line of a child's output.
LogOutput(line) ==
    /\ Room
    /\ LET m == [level |-> Classify(line), line |-> line]
       IN  Record(m) /\ Said("log", m)
    /\ UNCHANGED <<view, threshold, levels>>

\* nova::log: a line of Baldr's own.
Log(level, line) ==
    /\ Room
    /\ Record([level |-> level, line |-> line])
    /\ Said("log", [level |-> level, line |-> line])
    /\ UNCHANGED <<view, threshold, levels>>

\* Mutant of Summary: the digest forgets its counts, not the lines it has seen.
SummaryRemembering(level, line) ==
    /\ screen' = Append(screen, [level |-> level, line |-> line, stats |-> stats])
    /\ stats' = NoStats
    /\ UNCHANGED <<seen, buffer, drawn>>

\* digest_sink::summary: the counts go with the message, and are forgotten.
Summary(level, line) ==
    /\ screen' = Append(screen, [level |-> level, line |-> line, stats |-> stats])
    /\ stats' = NoStats
    /\ seen' = {}
    /\ UNCHANGED <<buffer, drawn>>

\* Mutant of WindowSuccess: the window keeps its buffer.
WindowSuccessKeeping(line) ==
    /\ screen' = Append(screen, [level |-> Info, line |-> line])
    /\ drawn' = <<>>
    /\ UNCHANGED <<buffer, seen, stats>>

\* window::success: the drawn rows give way to the message.
WindowSuccess(line) ==
    /\ screen' = Append(screen, [level |-> Info, line |-> line])
    /\ drawn' = <<>>
    /\ buffer' = <<>>
    /\ UNCHANGED <<seen, stats>>

\* window::failure: they give way to all of the buffer and the message.
WindowFailure(line) ==
    /\ screen' = screen \o [i \in DOMAIN buffer |-> [level |-> Err, line |-> buffer[i]]]
                        \o <<[level |-> Err, line |-> line]>>
    /\ drawn' = <<>>
    /\ buffer' = <<>>
    /\ UNCHANGED <<seen, stats>>

\* success: only in a stream the message is a record.
Success(line) ==
    /\ Room
    /\ \/ view = "stream" /\ Record([level |-> Info, line |-> line])
       \/ view = "window" /\ WindowSuccess(line) /\ UNCHANGED file
       \/ view = "digest" /\ Summary(Info, line) /\ UNCHANGED file
    /\ Said("success", [level |-> Info, line |-> line])
    /\ UNCHANGED <<view, threshold, levels>>

\* failure, likewise.
Failure(line) ==
    /\ Room
    /\ \/ view = "stream" /\ Record([level |-> Err, line |-> line])
       \/ view = "window" /\ WindowFailure(line) /\ UNCHANGED file
       \/ view = "digest" /\ Summary(Err, line) /\ UNCHANGED file
    /\ Said("failure", [level |-> Err, line |-> line])
    /\ UNCHANGED <<view, threshold, levels>>

Next ==
    \/ OpenFile
    \/ \E l \in Lines : LogOutput(l)
    \/ \E l \in OwnLines : Log(Debug, l) \/ Log(Warn, l) \/ Success(l) \/ Failure(l)

Spec == Init /\ [][Next]_vars

-----------------------------------------------------------------------------
(* Properties, by the history of calls. *)

\* The calls since the last success() or failure().
Task ==
    LET n == SelectLastInSeq(history, LAMBDA e : e.kind # "log")
    IN  SubSeq(history, n + 1, Len(history))

\* The indices of what the task has said at the level asked for, and how much
\* of it came after i.
Shown == {i \in DOMAIN Task : Task[i].level >= threshold}
After(i) == Cardinality({j \in Shown : j > i})

\* The indices of what the digest has to tell of the task.
Noted == {i \in Shown : Task[i].level >= Warn}
Repeated(i) == \E j \in Noted : j < i /\ Look(Task[j].line) = Look(Task[i].line)
Errors == {i \in Noted : ~Repeated(i) /\ Task[i].level >= Err}
Warnings == {i \in Noted : ~Repeated(i) /\ Task[i].level < Err}
Excess(n) == IF n > LevelMax THEN n - LevelMax ELSE 0

\* Every variable has its type.
TypeOK ==
    /\ view \in Views /\ threshold \in Thresholds
    /\ levels \in [{"logger", "terminal", "file"} -> 0..NoFile]
    /\ \A i \in DOMAIN file : file[i] \in [level : Levels, line : Lines]
    /\ buffer \in Seq(Lines) /\ Len(buffer) <= MaxBuffer
    /\ Len(drawn) <= VisibleLines
    /\ seen \subseteq {Look(l) : l \in Lines}
    /\ stats \in [{"errors", "warnings", "repeats", "hidden"} -> 0..MaxLogged]
    /\ Len(history) <= MaxLogged

\* The counts the summary will print account for every warning and error of
\* the task once: by its level, as a repetition, and as hidden if it came when
\* LevelMax of its kind had been printed (digest_sink::sink_it_, summary).
DigestCounts ==
    view = "digest" =>
        stats = [errors |-> Cardinality(Errors), warnings |-> Cardinality(Warnings),
                 repeats |-> Cardinality(Noted) - Cardinality(Errors \cup Warnings),
                 hidden |-> Excess(Cardinality(Errors)) + Excess(Cardinality(Warnings))]

\* How many of a set of indices come before i.
Earlier(S, i) == Cardinality({j \in S : j < i})

\* What the digest has printed since its last summary.
SinceSummary == {k \in DOMAIN screen : \A j \in k..Len(screen) : "stats" \notin DOMAIN screen[j]}
OnScreen == {screen[k].line : k \in SinceSummary}

\* One of the first LevelMax errors of the task, as they are counted.
Early(i) == Task[i].level >= Err /\ Earlier(Errors, i) < LevelMax

\* A warning that looks like i was hidden before it came.
Masked(i) ==
    \E j \in Warnings : /\ j < i /\ Look(Task[j].line) = Look(Task[i].line)
                        /\ Earlier(Warnings, j) >= LevelMax

\* Each of the first LevelMax errors of a task is on the terminal as long as
\* the task lasts, among however many warnings and repetitions, with the one
\* exception that it may look like a warning that was hidden: a line is taken
\* down as seen before it is known whether it will be printed.
ErrorsAreShown ==
    view = "digest" =>
        \A i \in Noted : Early(i) => Look(Task[i].line) \in OnScreen \/ Masked(i)

\* Warnings cannot crowd out the errors at all, which is what the comment on
\* digest_sink says of the two limits: without that exception.
NoErrorCrowdedOut ==
    view = "digest" => \A i \in Noted : Early(i) => Look(Task[i].line) \in OnScreen

\* What a failure would replay is the end of this task, as far as the buffer
\* goes, and nothing of an earlier one.
ReplayIsOfTask ==
    view = "window" =>
        /\ Len(buffer) = Smaller(Cardinality(Shown), MaxBuffer)
        /\ \A i \in Shown : After(i) < Len(buffer) =>
                buffer[Len(buffer) - After(i)] = Task[i].line

\* The window can always be drawn over: the rows below the cursor are its last
\* lines, and none of them wraps, for cursor_up goes up one row for each line
\* (window::msg, cap_visible_width).  A terminal of three columns or less is
\* too narrow for the dots.
WindowIsRedrawn ==
    view = "window" =>
        /\ Len(drawn) = Smaller(Len(buffer), VisibleLines)
        /\ \A i \in DOMAIN drawn :
            LET text == Text[LastOf(buffer, VisibleLines)[i]]
            IN  /\ Len(Strip(drawn[i])) <= Larger(TermWidth - 1, Len(Dots))
                /\ Cells(drawn[i], Escapes(drawn[i])) = Cells(text, Escapes(text))

\* The log file does not make the terminal talkative: nothing below the level
\* SPDLOG_LEVEL asks for is shown in a stream.
TerminalKeepsLevel ==
    view = "stream" => \A i \in DOMAIN screen : screen[i].level >= threshold

\* Once the log file is open, what is logged from info on is its last line,
\* in every view, though the terminal may drop it; and so is what success()
\* and failure() say in a stream.  A window and a digest say it themselves,
\* past the logger, and it is not in the file.
OutputIsRecorded ==
    [][levels.file # NoFile /\ Len(history') > Len(history)
       /\ (Last(history').kind = "log" \/ view = "stream") /\ Last(history').level >= Info
       => file' # <<>> /\ Last(file').line = Last(history').line /\ Len(file') > Len(file)]_vars
=============================================================================
