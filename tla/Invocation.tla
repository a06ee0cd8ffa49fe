----------------------------- MODULE Invocation -----------------------------
(***************************************************************************)
(* What one `baldr build` or `baldr run` is asked to do: the command line    *)
(* (main.cpp: parse_args) on top of the configuration, and the command line  *)
(* it is replayed with inside a container (build_container_argv).            *)
(*                                                                           *)
(* A word of a command line is a tuple of one string, <<"-b">>; a KEY=VALUE  *)
(* word is split where find('=') splits it, <<"KEY", "VALUE">>.              *)
(***************************************************************************)
EXTENDS LogSettings, SequencesExt

CONSTANT NameSeq   \* the names of defines, in the order std::map iterates them

ASSUME InvocationAssumption ==
    NameSeq \in Seq(Names) /\ \A k \in Names : \E i \in 1..Len(NameSeq) : NameSeq[i] = k

NoDefines == [k \in Names |-> Absent]

\* load_merged_config: the command line on top of the files in the home, the
\* project and beside the binary.
LoadMerged(opts, home, project, share) ==
    LET cfg == Load(home, project, share)
        typed == IF opts.explicit THEN [cfg EXCEPT ![BuildType] = opts.type] ELSE cfg
        given == {k \in Names : opts.defines[k] # Absent}
    IN  IF cfg = Failed THEN Failed
        ELSE [s \in Settings |-> IF \E k \in given : s = Define(k) THEN opts.defines[s[3]] ELSE typed[s]]

-----------------------------------------------------------------------------
(* The command line. *)

\* split_forwarded_args, at the first "--".
Split(argv) ==
    LET n == SelectInSeq(argv, LAMBDA w : w = <<"--">>)
    IN  IF n = 0 THEN [own |-> argv, forwarded |-> <<>>]
        ELSE [own |-> SubSeq(argv, 1, n - 1), forwarded |-> SubSeq(argv, n + 1, Len(argv))]

Has(words, flag) == Contains(words, <<flag>>)
ValueOf(words, flag, default) ==
    IF Has(words, flag) THEN words[1 + SelectInSeq(words, LAMBDA w : w = <<flag>>)][1] ELSE default

\* parse_key_value_entries: of two entries for a key the later one counts.
DefinesIn(words) ==
    [k \in Names |->
        LET n == SelectLastInSeq(words, LAMBDA w : Len(w) = 2 /\ w[1] = k)
        IN  IF n = 0 THEN Absent ELSE words[n][2]]

\* parse_args of a command line whose first word is the command, and whose
\* options are spelled the way build_container_argv spells them.
ParseArgs(argv) ==
    LET words == Split(argv).own IN
    [command   |-> Head(words)[1],
     project   |-> ValueOf(words, "-p", "."),
     type      |-> ValueOf(words, "-b", DefaultType),
     explicit  |-> Has(words, "-b"),
     dir       |-> ValueOf(words, "--build-dir", Absent),
     clean     |-> Has(words, "--clean"),
     defines   |-> DefinesIn(words),
     target    |-> ValueOf(words, "-t", Absent),
     debug     |-> Has(words, "--debug"),
     image     |-> ValueOf(words, "-i", Absent),
     forwarded |-> Split(argv).forwarded]

\* build_options_description, and "--": every word that is an option.
Options ==
    {"-h", "--help", "-v", "--version", "-p", "--project", "-b", "--build-type", "--build-dir",
     "--clean", "-D", "--cmake-define", "-t", "--target", "--build", "--debug", "-i", "--image",
     "--"}

\* What a command line may come to, in which no option's value is a word that
\* is an option itself.
Parseable(opts) ==
    /\ {opts.explicit, opts.clean, opts.debug} \subseteq BOOLEAN
    /\ {opts.type, opts.dir, opts.target} \cap Options = {}
    /\ opts.forwarded \in Seq(Range(opts.forwarded))

\* resolve_command: what it does not throw for.
Accepted(opts) ==
    /\ opts.command \in {"build", "run"}
    /\ opts.command = "run" => opts.target # Absent
    /\ opts.debug => opts.command = "run"

If(cond, words) == IF cond THEN words ELSE <<>>

\* Mutant of TypeWords: the build type is always replayed.
TypeWordsAlways(opts) == <<<<"-b">>, <<opts.type>>>>

TypeWords(opts) == If(opts.explicit, <<<<"-b">>, <<opts.type>>>>)

\* build_container_argv, for the binary at path.
BuildContainerArgv(opts, path) ==
    <<<<path>>, <<opts.command>>, <<"-p">>, <<"/workspace">>>>
    \o TypeWords(opts)
    \o If(opts.dir # Absent, <<<<"--build-dir">>, <<opts.dir>>>>)
    \o If(opts.clean, <<<<"--clean">>>>)
    \o FlattenSeq([i \in 1..Len(NameSeq) |->
           If(opts.defines[NameSeq[i]] # Absent, <<<<"-D">>, <<NameSeq[i], opts.defines[NameSeq[i]]>>>>)])
    \o If(opts.target # Absent, <<<<"-t">>, <<opts.target>>>>)
    \o If(opts.command = "run" /\ opts.debug, <<<<"--debug">>>>)
    \o If(opts.forwarded # <<>>, <<<<"--">>>> \o opts.forwarded)
=============================================================================
