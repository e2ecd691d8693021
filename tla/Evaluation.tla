------------------------------ MODULE Evaluation ------------------------------
(***************************************************************************)
(* The benchmark runner (evaluation/): a client of the API that replays    *)
(* the conversations of a dataset as memories, asks the queries, cleans up *)
(* after itself and writes one CSV row per case.                           *)
(*                                                                         *)
(* A case is a sequence of calls.  Any call may fail, with or without its  *)
(* effect, and the runner may be killed between two of them and started    *)
(* again with --resume.  A grouped run stores the conversation of its      *)
(* first case once and asks the queries of all.                            *)
(*                                                                         *)
(* What is said and answered is left out; so are sessions, messages and    *)
(* embeddings, whose calls can only fail here, and the sources of facts,   *)
(* which only label the results.                                           *)
(***************************************************************************)
EXTENDS Naturals, FiniteSetsExt, Sequences

CONSTANTS
    Dataset,        \* the cases, in order
    Turns,          \* Turns[c]: its turns, [kind ("memory", "forget", "query", "other"), says, key]
    Configs,        \* command lines: [isolate, cleanup, extraction, grouped, resume]
    BatchSize,      \* memories of one request, 500 in the code
    Candidates,     \* how many candidates a text may yield, 0 .. 3 in the code
    MaxRows,        \* bound on the memories ever stored
    MaxStarts,      \* bound on the times the runner is started
    MaxKills,       \* bound on the times it is killed
    Null

\* build_baseline_with_config for the live modes: a grouped run has no mode of its own, and
\* none to resume.
CommandLines ==
    {c \in [isolate : BOOLEAN, cleanup : BOOLEAN, extraction : BOOLEAN, grouped : BOOLEAN,
            resume : BOOLEAN] : c.grouped => ~c.extraction /\ ~c.resume}

ASSUME EvaluationAssumption ==
    /\ Configs \subseteq CommandLines
    /\ BatchSize \in Nat \ {0}
    /\ Candidates \subseteq Nat
    /\ {MaxRows, MaxStarts, MaxKills} \subseteq Nat

Cases == {Dataset[i] : i \in DOMAIN Dataset}

ASSUME DatasetAssumption ==
    /\ Dataset \in Seq(Cases)
    /\ \A c \in Cases :
          /\ Len(Turns[c]) \in Nat /\ DOMAIN Turns[c] = 1 .. Len(Turns[c])
          /\ \A i \in DOMAIN Turns[c] : Turns[c][i].kind \in {"memory", "forget", "query", "other"}

VARIABLES
    runner,     \* the command line and the positions of the cases left, or Null
    work,       \* the case, or group of cases, at hand, or Null
    row,        \* memory_item: what the runner stored, in order; the index is the identifier
    texts,      \* texts imported by extraction: pairs of a workspace and a text
    csv,        \* rows of the output
    starts, kills,
    begun,      \* how many cases or groups were begun: the number of the one at hand
    troubled,   \* history: numbers of those of which a call failed, that were killed or whose
                \* memories were preserved on request
    kept        \* history: numbers of those whose isolated workspace was not deleted

storeVars == <<row, texts>>
historyVars == <<starts, kills, begun, troubled, kept>>
evaluationVars == <<runner, work, storeVars, csv, historyVars>>

Live == {"candidate", "active", "superseded"}
Steps == {"open", "turns", "store", "delete", "import", "extract", "approve", "ask", "clean_up",
          "record"}
Keys == UNION {{Turns[c][i].key : i \in DOMAIN Turns[c]} : c \in Cases}

MemoryRow == [by : Nat, in : Nat, turn : Nat, status : Live \cup {"archived", "gone"}]
ResultRow == [case : Cases, error : BOOLEAN]
RunnerRow == [config : Configs, left : SUBSET DOMAIN Dataset]

\* Of a case: the turns to store and their requests, the memory of each key, and the identifiers
\* of the memories stored, noted and to be deleted or approved.
WorkRow == [cases : Seq(Cases), at : Steps, turn : Nat, pending : Seq(Nat), batches : Seq(Seq(Nat)),
            keys : SUBSET (Keys \X Nat), stored : Seq(Nat), created : Seq(Nat), doomed : Seq(Nat),
            answers : Seq(ResultRow)]

ASSUME EvaluationNullAssumption == Null \notin RunnerRow /\ Null \notin WorkRow

EvaluationTypeOK ==
    /\ runner \in RunnerRow \cup {Null}
    /\ work \in WorkRow \cup {Null}
    /\ work # Null =>
          /\ runner # Null
          /\ \A i \in DOMAIN work.created : work.created[i] \in DOMAIN row
    /\ row \in Seq(MemoryRow) /\ \A m \in DOMAIN row : row[m].by \in 1 .. begun
    /\ csv \in Seq(ResultRow)
    /\ starts \in 0 .. MaxStarts /\ kills \in 0 .. MaxKills /\ begun \in Nat
    /\ troubled \subseteq 1 .. begun /\ kept \subseteq 1 .. begun

EvaluationInit ==
    /\ runner = Null
    /\ work = Null
    /\ row = <<>>
    /\ texts = {}
    /\ csv = <<>>
    /\ starts = 0
    /\ kills = 0
    /\ begun = 0
    /\ troubled = {}
    /\ kept = {}

-------------------------------------------------------------------------------
(* run_eval and the grouped runner. *)

\* Fault: cases that failed are not taken as completed.
CompletedWithoutErrors == {csv[i].case : i \in {j \in DOMAIN csv : ~csv[j].error}}

\* completed_case_ids: a case that failed has a row, too, and is not run again.
Completed == {csv[i].case : i \in DOMAIN csv}

Runner(config, left) == runner = Null /\ runner' = [config |-> config, left |-> left]

\* Without --resume the output is emptied first.
StartRun(config) ==
    /\ ~config.grouped
    /\ Runner(config, {i \in DOMAIN Dataset : ~(config.resume /\ Dataset[i] \in Completed)})
    /\ csv' = IF config.resume THEN csv ELSE <<>>

\* The grouped runner: the dataset is one group, and its output is replaced at the end.
StartGroup(config) ==
    /\ config.grouped
    /\ Runner(config, DOMAIN Dataset)
    /\ UNCHANGED csv

Start(config) ==
    /\ starts < MaxStarts
    /\ starts' = starts + 1
    /\ StartRun(config) \/ StartGroup(config)
    /\ UNCHANGED <<work, storeVars, kills, begun, troubled, kept>>

Config == runner.config

BeginCase ==
    /\ runner # Null /\ work = Null /\ runner.left # {}
    /\ work' = [cases |-> IF Config.grouped THEN Dataset ELSE <<Dataset[Min(runner.left)]>>,
                at |-> "open", turn |-> 1, pending |-> <<>>, batches |-> <<>>, keys |-> {},
                stored |-> <<>>, created |-> <<>>, doomed |-> <<>>, answers |-> <<>>]
    /\ begun' = begun + 1
    /\ UNCHANGED <<runner, storeVars, csv, starts, kills, troubled, kept>>

At(step) == work # Null /\ work.at = step
Case == work.cases[1]
Turn == Turns[Case][work.turn]

\* The workspace of the case at hand: its own, or 0, the shared one.
Workspace == IF Config.isolate THEN begun ELSE 0

\* The clean-up that ends a case deletes its workspace, or the memories that were noted.
CleaningUp(then) ==
    [then EXCEPT !.at = "clean_up",
                 !.doomed = IF Config.cleanup /\ ~Config.isolate THEN then.created ELSE <<>>]

\* An error ends a case with an empty answer, and a group with none at all.
Failed ==
    CleaningUp([work EXCEPT !.answers =
        IF Config.grouped THEN <<>> ELSE <<[case |-> Case, error |-> TRUE]>>])

\* The call is answered, or its answer is lost.
Answered(then) ==
    \/ work' = then /\ UNCHANGED troubled
    \/ work' = Failed /\ troubled' = troubled \cup {begun}

\* _resolve_workspace_and_agent or _create_isolated_workspace
OpenWorkspace ==
    /\ At("open")
    /\ work' = [work EXCEPT !.at = "turns"]
    /\ UNCHANGED <<runner, storeVars, csv, historyVars>>

\* The requests of _create_memories for a sequence of turns, split where the next turn no
\* longer fits.
Split(turns, Fits(_, _)) ==
    LET split[n \in 0 .. Len(turns)] ==
            IF n = 0 THEN <<>>
            ELSE LET before == split[n - 1] IN
                 IF before # <<>> /\ Fits(before[Len(before)], turns[n])
                 THEN [before EXCEPT ![Len(before)] = Append(@, turns[n])]
                 ELSE Append(before, <<turns[n]>>)
    IN split[Len(turns)]

\* Fault: memories of one key stay in one request.
BatchesByLength(turns, says) == Split(turns, LAMBDA batch, i : Len(batch) < BatchSize)

\* A memory can only supersede one that is stored: a request has one memory of every key.
Batches(turns, says) ==
    Split(turns, LAMBDA batch, i :
        /\ Len(batch) < BatchSize
        /\ says[i].key # Null => \A j \in DOMAIN batch : says[batch[j]].key # says[i].key)

Storing ==
    [work EXCEPT !.at = "store", !.pending = <<>>, !.batches = Batches(work.pending, Turns[Case]),
                 !.keys = {}, !.stored = <<>>]

\* One turn of the conversation.  A group stores its queries and requests to forget as well.
ReadTurn ==
    /\ At("turns")
    /\ work' =
         IF work.turn > Len(Turns[Case]) THEN Storing
         ELSE IF Turn.kind = "other" \/ (Turn.kind = "query" /\ ~Config.grouped)
         THEN [work EXCEPT !.turn = @ + 1]
         ELSE IF Turn.kind = "forget" /\ ~Config.grouped THEN Storing
         ELSE IF Config.extraction THEN [work EXCEPT !.at = "import"]
         ELSE [work EXCEPT !.pending = Append(@, work.turn), !.turn = @ + 1]
    /\ UNCHANGED <<runner, storeVars, csv, historyVars>>

-------------------------------------------------------------------------------
(* Memories. *)

NewRow(i, status) == [by |-> begun, in |-> Workspace, turn |-> i, status |-> status]

\* One request: its memories, each in place of the last one of its key.
StoreBatch ==
    LET batch == Head(work.batches)
        key(j) == Turns[Case][batch[j]].key
        id(j) == Len(row) + j
        keyed == {j \in DOMAIN batch : key(j) # Null}
        old == {k[2] : k \in {x \in work.keys : \E j \in keyed : x[1] = key(j)}}
    IN
    /\ At("store") /\ work.batches # <<>>
    /\ Len(row) + Len(batch) <= MaxRows
    /\ row' = [m \in DOMAIN row |-> IF m \in old THEN [row[m] EXCEPT !.status = "superseded"] ELSE row[m]]
              \o [j \in DOMAIN batch |-> NewRow(batch[j], "active")]
    /\ Answered([work EXCEPT
          !.batches = Tail(@),
          !.stored = @ \o [j \in DOMAIN batch |-> id(j)],
          !.keys = {k \in @ : k[2] \notin old} \cup
                   {<<key(j), id(j)>> : j \in {i \in keyed : \A h \in keyed : key(h) = key(i) => h <= i}}])
    /\ UNCHANGED <<runner, texts, csv, starts, kills, begun, kept>>

\* Fault: the memories stored are noted only when the conversation has ended.
NotedAtEnd == IF work.turn > Len(Turns[Case]) THEN work.created \o work.stored ELSE work.created

\* The identifiers of all requests together are noted at the end, and lost if one fails.
Noted == work.created \o work.stored

\* A request to forget deletes what was created so far; after the last turn the query is asked.
BatchesStored ==
    /\ At("store") /\ work.batches = <<>>
    /\ work' = [work EXCEPT !.created = Noted,
                            !.doomed = IF work.turn > Len(Turns[Case]) THEN <<>> ELSE Noted,
                            !.at = IF work.turn > Len(Turns[Case]) THEN "ask" ELSE "delete"]
    /\ UNCHANGED <<runner, storeVars, csv, historyVars>>

Archive(m) == row' = [row EXCEPT ![m].status = "archived"]

\* _delete_created_memories; deleting a memory twice is harmless.
DeleteMemory ==
    /\ At("delete") /\ work.doomed # <<>>
    /\ Archive(Head(work.doomed))
    /\ Answered([work EXCEPT !.doomed = Tail(@)])
    /\ UNCHANGED <<runner, texts, csv, starts, kills, begun, kept>>

\* The list is emptied when all are deleted.
AllDeleted ==
    /\ At("delete") /\ work.doomed = <<>>
    /\ work' = [work EXCEPT !.at = "turns", !.turn = @ + 1, !.created = <<>>]
    /\ UNCHANGED <<runner, storeVars, csv, historyVars>>

-------------------------------------------------------------------------------
(* _extract_and_approve_memory *)

\* A text is imported once in a workspace: the second import is refused (module Ingestion).
ImportTurn ==
    LET text == <<Workspace, Turn.says>> IN
    /\ At("import")
    /\ texts' = texts \cup {text}
    /\ IF text \in texts THEN work' = Failed /\ troubled' = troubled \cup {begun}
       ELSE Answered([work EXCEPT !.at = "extract"])
    /\ UNCHANGED <<runner, row, csv, starts, kills, begun, kept>>

ExtractCandidates ==
    /\ At("extract")
    /\ \E n \in Candidates :
         /\ Len(row) + n <= MaxRows
         /\ row' = row \o [i \in 1 .. n |-> NewRow(work.turn, "candidate")]
         /\ Answered([work EXCEPT !.at = "approve", !.doomed = [i \in 1 .. n |-> Len(row) + i],
                                  !.stored = <<>>])
    /\ UNCHANGED <<runner, texts, csv, starts, kills, begun, kept>>

ApproveCandidate ==
    /\ At("approve") /\ work.doomed # <<>>
    /\ row' = [row EXCEPT ![Head(work.doomed)].status = "active"]
    /\ Answered([work EXCEPT !.doomed = Tail(@), !.stored = Append(@, Head(work.doomed))])
    /\ UNCHANGED <<runner, texts, csv, starts, kills, begun, kept>>

AllApproved ==
    /\ At("approve") /\ work.doomed = <<>>
    /\ work' = [work EXCEPT !.at = "turns", !.turn = @ + 1, !.created = Noted, !.stored = <<>>]
    /\ UNCHANGED <<runner, storeVars, csv, historyVars>>

-------------------------------------------------------------------------------
(* The answer, the cleaning up and the row. *)

\* The results of a group: one for each query, with an error or not.
Results(error) ==
    Append(work.answers, [case |-> work.cases[Len(work.answers) + 1], error |-> error])

\* _answer or _recall; a group goes on to its next query.
Ask ==
    /\ At("ask")
    /\ \E error \in BOOLEAN :
         LET asked == [work EXCEPT !.answers = Results(error)] IN
         /\ work' = IF Len(asked.answers) = Len(work.cases) THEN CleaningUp(asked) ELSE asked
         /\ troubled' = IF error THEN troubled \cup {begun} ELSE troubled
    /\ UNCHANGED <<runner, storeVars, csv, starts, kills, begun, kept>>

\* A call that fails without its effect, or one for a session, a message or the embeddings.
FailCall ==
    /\ work # Null /\ work.at \notin {"ask", "clean_up", "record"}
    /\ work' = Failed
    /\ troubled' = troubled \cup {begun}
    /\ UNCHANGED <<runner, storeVars, csv, starts, kills, begun, kept>>

CleanMemory ==
    /\ At("clean_up") /\ work.doomed # <<>>
    /\ Archive(Head(work.doomed))
    /\ work' = [work EXCEPT !.doomed = Tail(@)]
    /\ UNCHANGED <<runner, texts, csv, historyVars>>

\* The workspace goes with all that is in it.
Cleaned ==
    LET gone == Config.isolate /\ Config.cleanup IN
    /\ At("clean_up") /\ work.doomed = <<>>
    /\ row' = [m \in DOMAIN row |-> IF gone /\ row[m].by = begun THEN [row[m] EXCEPT !.status = "gone"]
                                    ELSE row[m]]
    /\ texts' = {t \in texts : ~gone \/ t[1] # begun}
    /\ work' = [work EXCEPT !.at = "record"]
    /\ troubled' = IF Config.cleanup THEN troubled ELSE troubled \cup {begun}
    /\ kept' = IF Config.cleanup \/ ~Config.isolate THEN kept ELSE kept \cup {begun}
    /\ UNCHANGED <<runner, csv, starts, kills, begun>>

\* A clean-up that fails is given up: the row of a case is written all the same, the answers of
\* a group are lost.
FailCleaning ==
    /\ At("clean_up")
    /\ Config.cleanup /\ (Config.isolate \/ work.doomed # <<>>)
    /\ work' = [work EXCEPT !.at = "record", !.doomed = <<>>,
                            !.answers = IF Config.grouped THEN <<>> ELSE @]
    /\ troubled' = troubled \cup {begun}
    /\ kept' = IF Config.isolate THEN kept \cup {begun} ELSE kept
    /\ UNCHANGED <<runner, storeVars, csv, starts, kills, begun>>

\* append_result_csv
RecordCase ==
    /\ ~Config.grouped
    /\ csv' = csv \o work.answers
    /\ runner' = [runner EXCEPT !.left = @ \ {Min(@)}]

\* write_results_csv, if the group was answered.
RecordGroup ==
    /\ Config.grouped
    /\ csv' = IF work.answers # <<>> THEN work.answers ELSE csv
    /\ runner' = [runner EXCEPT !.left = {}]

Record ==
    /\ At("record")
    /\ RecordCase \/ RecordGroup
    /\ work' = Null
    /\ UNCHANGED <<storeVars, historyVars>>

Finish ==
    /\ runner # Null /\ work = Null /\ runner.left = {}
    /\ runner' = Null
    /\ UNCHANGED <<work, storeVars, csv, historyVars>>

\* What was not recorded is run again; what it stored stays.
Kill ==
    /\ runner # Null
    /\ kills < MaxKills
    /\ kills' = kills + 1
    /\ runner' = Null
    /\ work' = Null
    /\ troubled' = IF work = Null THEN troubled ELSE troubled \cup {begun}
    /\ kept' = IF work # Null /\ Config.isolate THEN kept \cup {begun} ELSE kept
    /\ UNCHANGED <<storeVars, csv, starts, begun>>

RunnerStep ==
    \/ BeginCase
    \/ OpenWorkspace
    \/ ReadTurn
    \/ StoreBatch
    \/ BatchesStored
    \/ DeleteMemory
    \/ AllDeleted
    \/ ImportTurn
    \/ ExtractCandidates
    \/ ApproveCandidate
    \/ AllApproved
    \/ Ask
    \/ FailCall
    \/ CleanMemory
    \/ Cleaned
    \/ FailCleaning
    \/ Record
    \/ Finish

-------------------------------------------------------------------------------
(* Properties. *)

\* Turns that are memories of a case when its conversation is over: the reference is what
\* _local_case_memory_entries keeps, less what a later turn of the same key replaces.
LocalMemories(c) ==
    LET says == Turns[c] IN
    {i \in DOMAIN says :
        /\ says[i].kind = "memory"
        /\ \A j \in i + 1 .. Len(says) :
              /\ says[j].kind # "forget"
              /\ says[i].key # Null => ~(says[j].kind = "memory" /\ says[j].key = says[i].key)}

\* When the query of a case is asked, its active memories in the store are those of the
\* conversation after the last request to forget, the newest one of every key, each stored
\* once: however the turns were batched, the live baseline and the local one compare the same
\* conversation (LiveMemoryBaseline.run_case and LocalMemoryBaseline).
LiveHoldsLocal ==
    At("ask") /\ ~Config.extraction /\ ~Config.grouped =>
        LET mine == {m \in DOMAIN row : row[m].by = begun /\ row[m].status = "active"} IN
        /\ {row[m].turn : m \in mine} = LocalMemories(Case)
        /\ Cardinality(mine) = Cardinality(LocalMemories(Case))

\* Between two cases, what is left in the store is accounted for: in a workspace of its own
\* only what was kept, whatever else failed, and in the shared one only what a case left of
\* which a call failed or that was killed.
LeftoversExplained ==
    \A m \in DOMAIN row : row[m].status \in Live =>
        \/ work # Null /\ row[m].by = begun
        \/ row[m].by \in (IF row[m].in = 0 THEN troubled ELSE kept)

\* Whatever failed and whenever the runner was killed and resumed, the output has at most one
\* row of a case, in the order of the dataset, and one of each when a run has ended.
EachCaseOnce ==
    /\ \A i, j \in DOMAIN csv : i < j =>
          \E k, l \in DOMAIN Dataset : k < l /\ csv[i].case = Dataset[k] /\ csv[j].case = Dataset[l]
    /\ runner # Null /\ work = Null /\ runner.left = {} /\ ~Config.grouped => Completed = Cases

===============================================================================
