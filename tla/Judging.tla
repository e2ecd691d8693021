------------------------------- MODULE Judging -------------------------------
(***************************************************************************)
(* The semantic judge (evaluation/judging.py) after the benchmark runner:  *)
(* it asks a model for a verdict on every row of the results, and rewrites *)
(* its own output file after each, so that it may be started again.        *)
(***************************************************************************)
EXTENDS Evaluation

CONSTANTS
    Attempts,       \* of one question, 3 in the code
    MaxJudges       \* bound on the times the judge is started

JudgedRows == [case : Cases, judged : BOOLEAN]
JudgeRow == [at : {"write", "judge"}, rows : Seq(JudgedRows), next : Nat \ {0}, attempt : 1 .. Attempts]

ASSUME JudgingAssumption ==
    /\ Attempts \in Nat \ {0} /\ MaxJudges \in Nat
    /\ Null \notin Seq(JudgedRows) /\ Null \notin JudgeRow

VARIABLES
    judge,      \* the judge at work: its rows, the next of them and the attempts made, or Null
    judged,     \* its output file: rows with or without a verdict; Null if there is none
    judges,
    paid,       \* history: the cases a verdict was given for
    torn        \* history: the judge was killed while it wrote the file

judgingVars == <<judge, judged, judges, paid, torn>>
vars == <<evaluationVars, judgingVars>>

TypeOK ==
    /\ EvaluationTypeOK
    /\ judge \in JudgeRow \cup {Null}
    /\ judge # Null => judge.next <= Len(judge.rows) + 1
    /\ judged \in Seq(JudgedRows) \cup {Null}
    /\ judges \in 0 .. MaxJudges
    /\ paid \subseteq Cases
    /\ torn \in BOOLEAN

Init ==
    /\ EvaluationInit
    /\ judge = Null
    /\ judged = Null
    /\ judges = 0
    /\ paid = {}
    /\ torn = FALSE

Unjudged == [i \in DOMAIN csv |-> [case |-> csv[i].case, judged |-> FALSE]]

\* Fault: the judge starts over from the results.
InputRows == Unjudged

\* The judge goes on from its own output, once there is one.
SourceRows == IF judged # Null THEN judged ELSE Unjudged

StartJudge ==
    /\ judge = Null /\ runner = Null
    /\ csv # <<>>
    /\ judges < MaxJudges
    /\ judges' = judges + 1
    /\ judge' = [at |-> "write", rows |-> SourceRows, next |-> 1, attempt |-> 1]
    /\ UNCHANGED <<evaluationVars, judged, paid, torn>>

\* _write_judge_rows: the file is truncated and written anew.
WriteRows ==
    /\ judge # Null /\ judge.at = "write"
    /\ judged' = judge.rows
    /\ judge' = [judge EXCEPT !.at = "judge"]
    /\ UNCHANGED <<evaluationVars, judges, paid, torn>>

Judging == judge # Null /\ judge.at = "judge" /\ judge.next <= Len(judge.rows)
Answer == judge.rows[judge.next]

SkipJudged ==
    /\ Judging /\ Answer.judged
    /\ judge' = [judge EXCEPT !.next = @ + 1]
    /\ UNCHANGED <<evaluationVars, judges, judged, paid, torn>>

\* judge_answer: the row with the model's verdict, whichever it is.
WithVerdict(answer) == [answer EXCEPT !.judged = TRUE]

GiveVerdict ==
    /\ Judging /\ ~Answer.judged
    /\ judge' = [judge EXCEPT !.at = "write", !.rows[judge.next] = WithVerdict(@),
                              !.next = @ + 1, !.attempt = 1]
    /\ paid' = paid \cup {Answer.case}
    /\ UNCHANGED <<evaluationVars, judges, judged, torn>>

\* A request that fails is tried again; the last failure ends the judge.
FailVerdict ==
    /\ Judging /\ ~Answer.judged
    /\ judge' = IF judge.attempt < Attempts THEN [judge EXCEPT !.attempt = @ + 1] ELSE Null
    /\ UNCHANGED <<evaluationVars, judges, judged, paid, torn>>

FinishJudging ==
    /\ judge # Null /\ judge.at = "judge" /\ judge.next > Len(judge.rows)
    /\ judge' = Null
    /\ UNCHANGED <<evaluationVars, judges, judged, paid, torn>>

\* Killed while it writes, the judge leaves some of the first rows.
KillJudge ==
    /\ judge # Null
    /\ kills < MaxKills
    /\ kills' = kills + 1
    /\ judge' = Null
    /\ IF judge.at = "write"
       THEN /\ \E n \in 0 .. Len(judge.rows) : judged' = SubSeq(judge.rows, 1, n)
            /\ torn' = TRUE
       ELSE UNCHANGED <<judged, torn>>
    /\ UNCHANGED <<runner, work, storeVars, csv, starts, begun, troubled, kept, judges, paid>>

\* The judge is run when no runner is at work.
Next ==
    \/ \E config \in Configs : judge = Null /\ Start(config) /\ UNCHANGED judgingVars
    \/ RunnerStep /\ UNCHANGED judgingVars
    \/ Kill /\ UNCHANGED judgingVars
    \/ StartJudge
    \/ WriteRows
    \/ SkipJudged
    \/ GiveVerdict
    \/ FailVerdict
    \/ FinishJudging
    \/ KillJudge

Spec == Init /\ [][Next]_vars

\* Every verdict that was given is in the output whenever the judge is not about to write it:
\* only a kill in the middle of writing can lose any (judge_results_csv).
VerdictsKept ==
    ~torn /\ (judge = Null \/ judge.at = "judge") =>
        \A c \in paid : \E i \in DOMAIN judged : judged[i].case = c /\ judged[i].judged

===============================================================================
