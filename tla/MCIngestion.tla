----------------------------- MODULE MCIngestion -----------------------------
(* Finite instances of Ingestion for TLC: a text of short lines, and one with a long line. *)
EXTENDS Ingestion

CONSTANTS d1, d2

ShortLines == <<1, 0>>
LongLine == <<1, 1, 1, 4>>
TwoTexts == {ShortLines, LongLine}

OneOrTwoChunks == {{<<d1, 1>>}, {<<d1, 1>>, <<d2, 1>>}, {<<d1, 4>>, <<d2, 1>>}}

\* All chunks of the second text repeat what the first text says.
ChunkStatements(text, k) == IF text = ShortLines THEN <<"a">> ELSE <<"a", "b">>

\* Two answers that are too long and begin alike.
LongAnswers == {"a", "b", "b...c", "b...d"}
Beginnings == [text \in LongAnswers |-> IF text \in {"a", "b"} THEN text ELSE "b"]

Item(by, chunk, no, text, confidence) ==
    [by |-> by, chunk |-> chunk, no |-> no, text |-> text, confidence |-> confidence]
ModelReplies ==
    {<<Item("id", <<d1, 1>>, 0, "a", "number"), Item("id", <<d2, 1>>, 0, "b", "no_number")>>,
     <<Item("no", Null, 4, "b", "number"), Item("none", Null, 0, "a", "number")>>,
     <<Item("id", <<d1, 2>>, 0, Null, "number"), Item("none", Null, 0, "b...c", "number"),
       Item("none", Null, 0, "b...c", "number"), Item("none", Null, 0, "b...d", "number")>>}

===============================================================================
