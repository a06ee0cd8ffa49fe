----------------------------- MODULE LineReader -----------------------------
(***************************************************************************)
(* utl::line_reader: lines put together from chunks of bytes that end        *)
(* anywhere.  Bytes are natural numbers.                                     *)
(***************************************************************************)
EXTENDS Naturals, Sequences, FiniteSets, SequencesExt

Newline == 10

\* line_reader::feed, one byte further.
FeedByte(reader, byte) ==
    IF byte = Newline THEN [buf |-> <<>>, out |-> Append(reader.out, reader.buf)]
    ELSE [reader EXCEPT !.buf = Append(@, byte)]

\* line_reader::feed, the callback's calls being the lines of the result.
Feed(reader, chunk) ==
    LET upTo[n \in 0..Len(chunk)] ==
            IF n = 0 THEN reader ELSE FeedByte(upTo[n - 1], chunk[n])
    IN  upTo[Len(chunk)]

\* line_reader::feed_eof
FeedEof(reader) ==
    [buf |-> <<>>,
     out |-> IF reader.buf = <<>> THEN reader.out ELSE Append(reader.out, reader.buf)]

-----------------------------------------------------------------------------
(* What a text's lines are, by where its newlines are. *)

\* How many newlines text has up to its place n, and the place of the n-th.
Newlines(text, n) == Cardinality({i \in 1..n : text[i] = Newline})
PlacesOf(text, n) == {i \in DOMAIN text : text[i] = Newline /\ Newlines(text, i) = n}
EndOf(text, n) == IF n = 0 THEN 0 ELSE Max(PlacesOf(text, n))

\* The complete lines of text.
LinesOf(text) ==
    [n \in 1..Newlines(text, Len(text)) |->
        SubSeq(text, EndOf(text, n - 1) + 1, EndOf(text, n) - 1)]

\* What follows them.
RestOf(text) == SubSeq(text, EndOf(text, Newlines(text, Len(text))) + 1, Len(text))

\* The lines of a text that has come to its end.
AllLinesOf(text) ==
    IF RestOf(text) = <<>> THEN LinesOf(text) ELSE Append(LinesOf(text), RestOf(text))
=============================================================================
