------------------------------- MODULE Chunking -------------------------------
(***************************************************************************)
(* build_chunks: how the text of a source is cut into chunks.              *)
(*                                                                         *)
(* A text is the sequence of the lengths of its lines without the blanks   *)
(* around them; 0 is a blank line.  A chunk is the range of its lines.     *)
(***************************************************************************)
EXTENDS Naturals, Sequences

CONSTANTS
    MaxChars,       \* chunk_max_chars
    OverlapLines    \* chunk_overlap_lines

ASSUME ChunkingAssumption == MaxChars \in Nat /\ OverlapLines \in Nat

Chunks == [start_line: Nat \ {0}, end_line: Nat \ {0}]
ChunkOf(first, last) == [start_line |-> first, end_line |-> last]

\* Lines first .. last with the line ends between them.
JoinedLength(text, first, last) ==
    LET length[l \in first .. last] ==
            IF l = first THEN text[l] ELSE length[l - 1] + 1 + text[l]
    IN length[last]

\* _line_level_chunks: a chunk for every line that is not blank, unless one is too long.
LineChunks(text) ==
    LET chunks[n \in 0 .. Len(text)] ==
            IF n = 0 THEN <<>>
            ELSE chunks[n - 1] \o IF text[n] > 0 THEN <<ChunkOf(n, n)>> ELSE <<>>
    IN IF \E i \in DOMAIN text : text[i] > MaxChars THEN <<>> ELSE chunks[Len(text)]

\* The lines that fit, and one in any case.
WindowEnd(text, first) ==
    CHOOSE last \in first .. Len(text) :
        /\ last = first \/ JoinedLength(text, first, last) <= MaxChars
        /\ last = Len(text) \/ JoinedLength(text, first, last + 1) > MaxChars

\* Fault: the overlap is taken off the wrong way.
NextWindowAfterGap(first, last) == last + 1 + OverlapLines

\* The next window repeats OverlapLines lines, but never starts where this one did.
NextWindow(first, last) ==
    IF last + 1 - OverlapLines > first THEN last + 1 - OverlapLines ELSE first + 1

Windows(text) ==
    LET from[first \in 1 .. Len(text) + 1] ==
            IF first > Len(text) THEN <<>>
            ELSE LET last == WindowEnd(text, first) IN
                 <<ChunkOf(first, last)>>
                    \o IF last = Len(text) THEN <<>> ELSE from[NextWindow(first, last)]
    IN from[1]

BuildChunks(text) ==
    IF LineChunks(text) # <<>> THEN LineChunks(text) ELSE Windows(text)

-------------------------------------------------------------------------------
\* The texts of up to n lines; a line of MaxChars + 1 stands for all that are too long.
TextsUpTo(n) == UNION {[1 .. k -> 0 .. MaxChars + 1] : k \in 1 .. n}

\* Every line that is not blank is in a chunk; chunks go forward and, beyond a single line,
\* keep to MaxChars.
Covers(chunks, text) ==
    /\ \A i \in DOMAIN text : text[i] > 0 =>
          \E k \in DOMAIN chunks : i \in chunks[k].start_line .. chunks[k].end_line
    /\ \A k \in DOMAIN chunks :
          LET c == chunks[k] IN
          /\ 1 <= c.start_line /\ c.start_line <= c.end_line /\ c.end_line <= Len(text)
          /\ c.start_line = c.end_line \/ JoinedLength(text, c.start_line, c.end_line) <= MaxChars
          /\ k > 1 => /\ c.start_line > chunks[k - 1].start_line
                      /\ c.end_line >= chunks[k - 1].end_line
===============================================================================
