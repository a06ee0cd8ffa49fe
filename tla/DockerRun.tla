------------------------------ MODULE DockerRun ------------------------------
(***************************************************************************)
(* `baldr [-i <image>] build|run` (baldr/main.cpp, docker.cpp): loading the  *)
(* configuration, the Docker Engine API client with its one connection, and  *)
(* the container that runs Baldr again with the words build_container_argv   *)
(* gives it.  Without an image the same Baldr runs a build tool, which may   *)
(* run Baldr again too.                                                      *)
(*                                                                           *)
(* The daemon and the container are external: the container writes output    *)
(* in frames and ends, the daemon removes it then (AutoRemove), and answers  *)
(* requests about a container that is gone with an error.  The connection    *)
(* may be lost at any time; what was sent on it before may still be read.    *)
(* Ctrl-C is counted by Baldr and not told to the container.                 *)
(***************************************************************************)
EXTENDS Invocation, LineReader

CONSTANTS
    Asks,         \* what may be asked for, of AllAsks
    Payloads,     \* what one frame of the container's output may carry
    MaxFrames,    \* frames the container writes
    Reads,        \* how many bytes one read_some of stream_logs may bring
    ExitCodes     \* statuses the container may end with

ASSUME DockerRunAssumption ==
    /\ Reads \subseteq Nat \ {0} /\ 1 \in Reads
    /\ MaxFrames \in Nat
    /\ \A p \in Payloads : /\ p \in Seq(0..255)
                          /\ Len(p) \div (256 * 256 * 256) < 256
    /\ ExitCodes \subseteq 0..255
    /\ \A a \in Asks : Parseable(a.opts) /\ Accepted(a.opts)

\* An ask is what the command line says, the environment Baldr is started
\* with, its home and project directories, and the directories of shipped
\* files beside the binaries that may be run, where there are any:
\*     [opts, env, home, project, shares]
Binaries == {"self", "configured", "image"}

VARIABLES
    ask,       \* what this process was asked for
    pc,        \* the client's next step
    up,        \* whether the daemon is reached by the socket
    cont,      \* the container's state at the daemon
    code,      \* the status it ended with
    inner,     \* what it was created with, or a build tool was started with
    frames,    \* the payloads it has written so far
    wire,      \* the bytes of the logs response that have not been read
    pending,   \* the bytes of a frame that is not whole yet
    reader,    \* the line reader: its buffer and the lines logged
    status,    \* what wait_container returned
    ctrlc,     \* a SIGINT has been counted
    how        \* how Baldr ended

client == <<pc, pending, reader, status, how>>
daemon == <<cont, code, frames>>
vars == <<ask, pc, up, cont, code, inner, frames, wire, pending, reader, status, ctrlc, how>>

NotStarted == [argv |-> <<>>, env |-> [v \in Vars |-> Absent]]

Steps == {"load", "step", "connect", "ping", "create", "start", "open_logs", "logs", "wait", "finish",
          "caught", "exited"}

\* Mutant of Failure: a status no process ends with.
FailureAll == 255 + 1

Failure == 1     \* EXIT_FAILURE
NotEnded == 256  \* no container's status

-----------------------------------------------------------------------------
(* Frames: one byte of stream type, three of zero, four of size. *)

HeaderSize == 8
Byte == 0..255
Size(n) == <<n \div (256 * 256 * 256), n \div (256 * 256) % 256, n \div 256 % 256, n % 256>>
Frame(payload) == <<1, 0, 0, 0>> \o Size(Len(payload)) \o payload
Stream(payloads) == FlattenSeq([i \in DOMAIN payloads |-> Frame(payloads[i])])

\* The daemon's answer for a container it does not have: {"message":...
ErrorBody == <<123, 34, 109, 101, 115, 115, 97, 103, 101, 34, 58, 34>>

\* frame_payload_size, big-endian
FramePayloadSize(bytes, at) ==
    ((bytes[at + 5] * 256 + bytes[at + 6]) * 256 + bytes[at + 7]) * 256 + bytes[at + 8]

\* Mutant of WholeAt: a frame is waited for until the next one begins.
WholeAtNext(bytes, at) ==
    /\ at + HeaderSize <= Len(bytes)
    /\ at + HeaderSize + FramePayloadSize(bytes, at) < Len(bytes)

\* Whether a frame that begins after byte number at is all there.
WholeAt(bytes, at) ==
    /\ at + HeaderSize <= Len(bytes)
    /\ at + HeaderSize + FramePayloadSize(bytes, at) <= Len(bytes)

\* stream_logs' inner loop, once: a frame that is whole is fed to the reader.
DecodeOne(bytes, r) ==
    LET size == FramePayloadSize(bytes, r.offset)
        begin == r.offset + HeaderSize
    IN  IF ~WholeAt(bytes, r.offset) THEN r
        ELSE [offset |-> begin + size,
              reader |-> Feed(r.reader, SubSeq(bytes, begin + 1, begin + size))]

\* The loop, which goes round at most once for each header there is room for;
\* what is no whole frame is kept.
Rounds(bytes) == Len(bytes) \div HeaderSize
Decoded(bytes, rd) ==
    LET after[n \in 0..Rounds(bytes)] ==
            IF n = 0 THEN [offset |-> 0, reader |-> rd] ELSE DecodeOne(bytes, after[n - 1])
        end == after[Rounds(bytes)]
    IN  [pending |-> SubSeq(bytes, end.offset + 1, Len(bytes)), reader |-> end.reader]

Shipped(binary) == IF ask.shares[binary] = Absent THEN NoDir ELSE ask.shares[binary]

\* The settings of this Baldr.
Cfg == LoadMerged(ask.opts, ask.home, ask.project, Shipped("self"))

\* run_in_container: the binary the container runs, on the host or in the image,
\* and its path there.
Binary == IF ~Cfg[Mount] THEN "image" ELSE IF Cfg[BaldrPath] # Absent THEN "configured" ELSE "self"
PathInside == IF Cfg[Mount] THEN "/usr/local/bin/baldr" ELSE "baldr"

\* What that Baldr finds: the project as the host has it, not the home; the
\* shipped files are mounted if they are there.
Inside == [project |-> ask.project, home |-> NoDir,
           share |-> Shipped(IF ask.shares[Binary] = Absent THEN "image" ELSE Binary)]

-----------------------------------------------------------------------------
Init ==
    /\ ask \in Asks
    /\ pc = "load"
    /\ up \in BOOLEAN
    /\ cont = "none"
    /\ code = NotEnded
    /\ inner = NotStarted
    /\ frames = <<>>
    /\ wire = <<>>
    /\ pending = <<>>
    /\ reader = [buf |-> <<>>, out |-> <<>>]
    /\ status = 0
    /\ ctrlc = FALSE
    /\ how = "none"

Goto(from, to) == pc = from /\ pc' = to

\* build_or_run: load_merged_config throws, or where to go on is decided.
LoadConfig ==
    /\ pc = "load"
    /\ pc' = IF Cfg = Failed THEN "caught"
             ELSE IF ask.opts.image = Absent THEN "step" ELSE "connect"
    /\ UNCHANGED <<ask, up, inner, daemon, wire, pending, reader, status, ctrlc, how>>

Make == <<<<"make">>>>
MakeCleanWords == <<<<"make">>, <<"clean">>>>

\* handle_makefile_project: `make clean` gets none of the configuration's env,
\* and what becomes of it is ignored.
MakeClean ==
    /\ pc = "step"
    /\ ask.opts.clean
    /\ inner = NotStarted
    /\ inner' = [argv |-> MakeCleanWords, env |-> StepEnv(ask.env, NoConfig)]
    /\ UNCHANGED <<ask, client, up, daemon, wire, ctrlc>>

\* Here the build tool runs, by run_streamed; what it has come to is 0 or not.
RunStep ==
    /\ Goto("step", "finish")
    /\ inner' = [argv |-> Make, env |-> StepEnv(ask.env, Cfg)]
    /\ status' \in {0, Failure}
    /\ UNCHANGED <<ask, up, daemon, wire, pending, reader, ctrlc, how>>

\* docker_client::docker_client
Connect ==
    /\ Goto("connect", "ping")
    /\ up
    /\ UNCHANGED <<ask, up, inner, daemon, wire, pending, reader, status, ctrlc, how>>

\* docker_client::ping: any answer but OK is a nova::exception.
Ping ==
    /\ pc = "ping"
    /\ up
    /\ pc' \in {"create", "caught"}
    /\ UNCHANGED <<ask, up, inner, daemon, wire, pending, reader, status, ctrlc, how>>

\* create_container, or no Id in the answer, a nova::exception.
Create ==
    /\ pc = "create"
    /\ up
    /\ \/ /\ pc' = "start"
          /\ cont' = "created"
          /\ inner' = [argv |-> BuildContainerArgv(ask.opts, PathInside), env |-> ContainerEnv]
       \/ /\ pc' = "caught"
          /\ UNCHANGED <<cont, inner>>
    /\ UNCHANGED <<ask, up, code, frames, wire, pending, reader, status, ctrlc, how>>

\* start_container ignores the answer: a container that does not start is
\* removed at once.
Start ==
    /\ Goto("start", "open_logs")
    /\ up
    /\ cont' \in {"running", "removed"}
    /\ UNCHANGED <<ask, up, inner, code, frames, wire, pending, reader, status, ctrlc, how>>

\* stream_logs sends its request and reads the header of the response.
OpenLogs ==
    /\ Goto("open_logs", "logs")
    /\ up
    /\ wire' = IF cont = "removed" THEN ErrorBody ELSE Stream(frames)
    /\ UNCHANGED <<ask, up, inner, daemon, pending, reader, status, ctrlc, how>>

\* http::read_some: a part of what has come.
ReadSome ==
    /\ pc = "logs"
    /\ \E n \in Reads :
        /\ n <= Len(wire)
        /\ wire' = SubSeq(wire, n + 1, Len(wire))
        /\ LET next == Decoded(pending \o SubSeq(wire, 1, n), reader)
           IN  pending' = next.pending /\ reader' = next.reader
    /\ UNCHANGED <<ask, pc, up, inner, daemon, status, ctrlc, how>>

\* The parser is done: the container has ended and all was read.
LogsEnd ==
    /\ Goto("logs", "wait")
    /\ up
    /\ wire = <<>>
    /\ cont # "running"
    /\ reader' = FeedEof(reader)
    /\ UNCHANGED <<ask, up, inner, daemon, wire, pending, status, ctrlc, how>>

\* Mutant of LogsBroken: the error is taken for need_buffer.
LogsBrokenGoingOn ==
    /\ pc = "logs"
    /\ ~up
    /\ UNCHANGED vars

\* read_some fails: the loop is left, and the partial line logged.
LogsBroken ==
    /\ Goto("logs", "wait")
    /\ ~up
    /\ reader' = FeedEof(reader)
    /\ UNCHANGED <<ask, up, inner, daemon, wire, pending, status, ctrlc, how>>

\* Mutant of Wait: an answer without a StatusCode is a success.
WaitSucceeding ==
    /\ Goto("wait", "finish")
    /\ up
    /\ cont # "running"
    /\ status' = IF cont = "exited" THEN code ELSE 0
    /\ UNCHANGED <<ask, up, inner, daemon, wire, pending, reader, ctrlc, how>>

\* wait_container: a container that is gone has no StatusCode.
Wait ==
    /\ Goto("wait", "finish")
    /\ up
    /\ cont # "running"
    /\ status' = IF cont = "exited" THEN code ELSE Failure
    /\ UNCHANGED <<ask, up, inner, daemon, wire, pending, reader, ctrlc, how>>

\* Mutant of Disconnected: a request that fails answers nothing.
DisconnectedFailing ==
    /\ pc \in {"connect", "ping", "create", "start", "open_logs", "wait"}
    /\ ~up
    /\ pc' = "finish"
    /\ status' = Failure
    /\ UNCHANGED <<ask, up, inner, daemon, wire, pending, reader, ctrlc, how>>

\* Connecting, writing or reading fails: a boost::system::system_error, which
\* entrypoint does not catch.
Disconnected ==
    /\ pc \in {"connect", "ping", "create", "start", "open_logs", "wait"}
    /\ ~up
    /\ pc' = "exited"
    /\ how' = "uncaught"
    /\ UNCHANGED <<ask, up, inner, daemon, wire, pending, reader, status, ctrlc>>

\* The status is logged and returned, or an exception caught; a SIGINT counted
\* so far decides.
Finish ==
    /\ pc \in {"finish", "caught"}
    /\ pc' = "exited"
    /\ how' = IF ctrlc THEN "sigint"
              ELSE IF pc = "finish" /\ status = 0 THEN "success" ELSE "failure"
    /\ UNCHANGED <<ask, up, inner, daemon, wire, pending, reader, status, ctrlc>>

-----------------------------------------------------------------------------
(* The daemon, the container and the user. *)

ConnectionLost ==
    /\ up
    /\ pc # "exited"
    /\ up' = FALSE
    /\ UNCHANGED <<ask, client, inner, daemon, wire, ctrlc>>

Write ==
    /\ cont = "running"
    /\ Len(frames) < MaxFrames
    /\ \E p \in Payloads :
        /\ frames' = Append(frames, p)
        /\ wire' = IF up /\ pc = "logs" THEN wire \o Frame(p) ELSE wire
    /\ UNCHANGED <<ask, client, up, inner, cont, code, ctrlc>>

ContainerExits ==
    /\ cont = "running"
    /\ cont' = "exited"
    /\ code' \in ExitCodes
    /\ UNCHANGED <<ask, client, up, inner, frames, wire, ctrlc>>

AutoRemove ==
    /\ cont = "exited"
    /\ cont' = "removed"
    /\ UNCHANGED <<ask, client, up, inner, code, frames, wire, ctrlc>>

CtrlC ==
    /\ pc # "exited"
    /\ ctrlc' = TRUE
    /\ UNCHANGED <<ask, client, up, inner, daemon, wire>>

-----------------------------------------------------------------------------
Client ==
    \/ LoadConfig \/ MakeClean \/ RunStep
    \/ Connect \/ Ping \/ Create \/ Start \/ OpenLogs
    \/ ReadSome \/ LogsEnd \/ LogsBroken \/ Wait \/ Disconnected \/ Finish

Next == Client \/ ConnectionLost \/ Write \/ ContainerExits \/ AutoRemove \/ CtrlC

Spec == Init /\ [][Next]_vars

\* The client goes on, and the container's command ends some day.
FairSpec == Spec /\ WF_vars(Client) /\ WF_vars(ContainerExits)

-----------------------------------------------------------------------------
(* Properties. *)

\* Every variable has its type.
TypeOK ==
    /\ ask \in Asks
    /\ pc \in Steps
    /\ {up, ctrlc} \subseteq BOOLEAN
    /\ cont \in {"none", "created", "running", "exited", "removed"}
    /\ code \in ExitCodes \cup {NotEnded}
    /\ DOMAIN inner.env = Vars
    /\ Len(frames) <= MaxFrames /\ \A i \in DOMAIN frames : frames[i] \in Payloads
    /\ \A bytes \in {wire, pending, reader.buf} : \A i \in DOMAIN bytes : bytes[i] \in 0..255
    /\ status \in 0..255
    /\ how \in {"none", "success", "failure", "sigint", "uncaught"}

\* The payload bytes that whole frames have brought so far, by what was
\* written and how much of it is still unread.
Received ==
    LET bytes == Len(Stream(frames)) - Len(wire)
        whole == {n \in 0..Len(frames) : Len(Stream(SubSeq(frames, 1, n))) <= bytes}
        count == CHOOSE n \in whole : \A m \in whole : m <= n
    IN  FlattenSeq(SubSeq(frames, 1, count))

\* However the response is cut into chunks, exactly the complete lines of the
\* frames received are logged, each once and in order, and a partial line is
\* kept (stream_logs, line_reader::feed).
LinesAreWhole ==
    pc = "logs" /\ up /\ cont # "removed" =>
        reader.out = LinesOf(Received) /\ reader.buf = RestOf(Received)

\* Baldr ends with success only if the container ended with 0 and all it
\* wrote was logged, also the last line without a newline.
SuccessIsReal ==
    how = "success" /\ ask.opts.image # Absent =>
                       /\ cont \in {"exited", "removed"} /\ code = 0
                       /\ reader.out = AllLinesOf(FlattenSeq(frames))

\* Unless it ends of an exception nobody catches, Baldr leaves no container
\* running.
LeavesNoneRunning == how \in {"success", "failure", "sigint"} => cont # "running"

\* What the Baldr in the container, as it is created, is told to do, and with
\* which settings.
InContainer == cont = "created"
Told == ParseArgs(Tail(inner.argv))
CfgInside == LoadMerged(Told, Inside.home, Inside.project, Inside.share)

\* The settings that do not depend on the files the container does not have:
\* those of the command line and the project, and what nobody sets.
Own(s) == \/ s = BuildType /\ ask.opts.explicit
          \/ \E n \in Names : s = Define(n) /\ ask.opts.defines[n] # Absent
          \/ Read(ask.project)[s] \notin {Absent, Null}
          \/ /\ Read(ask.project)[s] = Null \/ Read(ask.home)[s] = Absent
             /\ ReadShipped(Inside.share)[s] = ReadShipped(Shipped("self"))[s]

\* The Baldr in the container accepts its command line and is asked for what
\* this one was; if it can load its configuration it has the same settings, but
\* for those only the global file decides; and it can, unless its own shipped
\* file cannot be read, or the global or the shipped one has the rules in use.
SameInside ==
    InContainer =>
        /\ Accepted(Told) /\ Told.image = Absent /\ Told.project = "/workspace"
        /\ \A f \in {"command", "dir", "clean", "target", "debug", "forwarded"} :
               Told[f] = ask.opts[f]
        /\ CfgInside # Failed => \A s \in Settings : Own(s) => CfgInside[s] = Cfg[s]
        /\ CfgInside = Failed =>
               \/ Read(Inside.share) = Failed
               \/ \E s \in Settings : Head(s) = "classifier" /\ ~Own(s)

\* A Baldr that this one's child runs, or the container, streams plain lines
\* for this one to log again and writes no log file, but for what a
\* configuration's env decides; and so does one that it runs in turn.  That env
\* is the build tool's, not that of `make clean`.
NestedIsPlain ==
    LET free(cfg) == \A v \in LogVars : cfg[Env(v)] = Absent
    IN  /\ InContainer =>
               /\ Resolve(inner.env) = Nested
               /\ CfgInside # Failed /\ free(CfgInside) =>
                      Resolve(StepEnv(inner.env, CfgInside)) = Nested
        /\ inner # NotStarted /\ cont = "none" =>
               /\ free(Cfg) \/ inner.argv = MakeCleanWords => Resolve(inner.env) = Nested
               /\ inner.argv = Make =>
                      \A v \in Vars : Cfg[Env(v)] # Absent => inner.env[v] = Cfg[Env(v)]

\* If the container's command ends, so does Baldr, whatever becomes of the
\* connection.
RunEnds == <>(pc = "exited")

\* The status docker_run returns is the one the container ended with, if it
\* was started at all.
ReturnsExitCode == how \in {"success", "failure"} /\ code # NotEnded => status = code
=============================================================================
