----------------------------- MODULE MCEvaluation -----------------------------
EXTENDS Judging, TLC

CONSTANTS c1, c2, k1

turn(kind, says, key) == [kind |-> kind, says |-> says, key |-> key]

\* A conversation that replaces a fact, one that asks to forget between two versions of it.
MCDataset == <<c1, c2>>
MCTurns == c1 :> <<turn("memory", 1, k1), turn("query", 2, Null), turn("memory", 3, k1),
                   turn("memory", 4, Null)>>
        @@ c2 :> <<turn("memory", 1, k1), turn("forget", 5, Null), turn("memory", 1, k1)>>
\* Isolated by default; a shared workspace; extraction; data preserved; a group.
Command(isolate, cleanup, extraction, grouped, resume) ==
    [isolate |-> isolate, cleanup |-> cleanup, extraction |-> extraction, grouped |-> grouped,
     resume |-> resume]
MCConfigs == {Command(TRUE, TRUE, FALSE, FALSE, TRUE), Command(FALSE, TRUE, FALSE, FALSE, TRUE),
              Command(FALSE, TRUE, TRUE, FALSE, FALSE), Command(TRUE, FALSE, FALSE, FALSE, TRUE),
              Command(FALSE, TRUE, FALSE, TRUE, FALSE)}
===============================================================================
