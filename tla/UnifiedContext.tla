---------------------------- MODULE UnifiedContext ----------------------------
(***************************************************************************)
(* mb context: the command line asks the API for a context pack, for       *)
(* search results if no memory was recalled, and for the last messages of  *)
(* the session, adds snippets of the repository, and renders all of it     *)
(* within the token budget it gave the pack.  Messages are added           *)
(* meanwhile, and any call may fail.                                       *)
(*                                                                         *)
(* A section is its number of items and their length.  The recall behind   *)
(* the pack is any member of Answers (module Recall).                      *)
(***************************************************************************)
EXTENDS ContextPack, Conversation, SequencesExt

CONSTANTS
    Paths,                  \* of the repository's files
    ExcludedFiles,          \* paths of is_excluded_path
    TextFiles,              \* paths of is_text_candidate that can be decoded
    Changes, Hits,          \* values of git status and of the text search: sequences of paths
    SnippetLimits,          \* values of --repo-limit
    SearchItems,            \* values of the number of search results
    Rest                    \* characters of the headings and the repository's state

ASSUME UnifiedAssumption ==
    /\ IsFiniteSet(Paths) /\ Changes \subseteq Seq(Paths) /\ Hits \subseteq Seq(Paths)
    /\ Rest \in Nat /\ SnippetLimits \subseteq Nat /\ SearchItems \subseteq Nat

VARIABLE cli    \* the command in progress or ended, or Null

vars == <<conversationVars, pack, cli>>

MessageLength == 515    \* characters of a message, of a search result, of a snippet
SearchLength == 560
SnippetLength == 900

Ended == {"printed", "no_result", "failed"}

TypeOK ==
    /\ ConversationTypeOK
    /\ PackTypeOK
    /\ cli # Null =>
          /\ cli.at \in {"recall", "pack", "search", "session", "messages", "repo", "render",
                         "trim"} \cup Ended
          /\ cli.length \in Nat
          /\ cli.counts \in [{"memory", "session", "search", "repo"} -> Nat]

-------------------------------------------------------------------------------
(* The repository's part. *)

NotExcluded(paths) ==
    LET kept[k \in 0 .. Len(paths)] ==
            IF k = 0 THEN <<>>
            ELSE IF paths[k] \in ExcludedFiles THEN kept[k - 1] ELSE Append(kept[k - 1], paths[k])
    IN kept[Len(paths)]

\* parse_changed_files
ChangedFiles(status) == NotExcluded(status)

\* rg_hits has every line found; without rg, python_scan_hits has the text files in any order.
QueryHits(lines) ==
    {NotExcluded(lines)} \cup SetToSeqs(ToSet(NotExcluded(lines)) \cap TextFiles)

\* add_file_snippet: a path is shown once, and only if it is a text file.
WithSnippet(snippets, path, reason) ==
    IF path \in TextFiles \ ExcludedFiles /\ \A i \in DOMAIN snippets : snippets[i].path # path
    THEN Append(snippets, [path |-> path, reason |-> reason]) ELSE snippets

\* Fault: the search results come first.
HitsFirst(changed, hits) ==
    [i \in 1 .. Len(hits) |-> <<hits[i], "query_hit">>]
      \o [i \in 1 .. Len(changed) |-> <<changed[i], "changed_file">>]

CandidateFiles(changed, hits) ==
    [i \in 1 .. Len(changed) |-> <<changed[i], "changed_file">>]
      \o [i \in 1 .. Len(hits) |-> <<hits[i], "query_hit">>]

\* select_snippets looks at the limit after each file: a limit of 0 lets one in.
Snippets(changed, hits, limit) ==
    LET files == CandidateFiles(changed, hits)
        chosen[k \in 0 .. Len(files)] ==
            IF k = 0 THEN <<>>
            ELSE IF k > 1 /\ Len(chosen[k - 1]) >= limit THEN chosen[k - 1]
            ELSE WithSnippet(chosen[k - 1], files[k][1], files[k][2])
    IN chosen[Len(files)]

-------------------------------------------------------------------------------
\* --no-memory, --repo-only, --no-repo and the active session decide which parts are asked for.
StartContext(memory, session, repo, budget) ==
    /\ cli = Null /\ pack = NoPack /\ listing = Null
    /\ cli' = [at |-> IF memory THEN "recall" ELSE "session",
               session |-> session, repo |-> repo, budget |-> budget, markdown |-> 0,
               limit |-> 0, changed |-> <<>>, hits |-> <<>>, snippets |-> <<>>, length |-> 0,
               counts |-> [memory |-> 0, session |-> 0, search |-> 0, repo |-> 0]]
    /\ UNCHANGED <<conversationVars, pack>>

AskForPack ==
    /\ cli # Null /\ cli.at = "recall"
    /\ \E answer \in Answers : FormatPack(answer, cli.budget)
    /\ cli' = [cli EXCEPT !.at = "pack"]
    /\ UNCHANGED conversationVars

\* The Markdown is never blank: the pack counts as a source even if no memory is in it.
TakePack ==
    /\ cli # Null /\ cli.at = "pack" /\ Packed
    /\ cli' = [cli EXCEPT !.at = IF pack.answer = <<>> THEN "search" ELSE "session",
                          !.markdown = pack.length, !.counts.memory = 1]
    /\ pack' = NoPack
    /\ UNCHANGED conversationVars

SearchInstead ==
    /\ cli # Null /\ cli.at = "search"
    /\ \E n \in SearchItems : cli' = [cli EXCEPT !.at = "session", !.counts.search = n]
    /\ UNCHANGED <<conversationVars, pack>>

AskForMessages ==
    /\ cli # Null /\ cli.at = "session"
    /\ IF cli.session = Null
       THEN cli' = [cli EXCEPT !.at = "repo"] /\ UNCHANGED conversationVars
       ELSE /\ cli' = [cli EXCEPT !.at = "messages"]
            /\ \E limit \in ListLimits : BeginListing(cli.session, limit)
    /\ UNCHANGED pack

TakeMessages ==
    /\ cli # Null /\ cli.at = "messages" /\ Listed
    /\ cli' = [cli EXCEPT !.at = "repo", !.counts.session = Len(listing.items)]
    /\ listing' = Null
    /\ UNCHANGED <<sessions, message, writing, time, pack>>

\* collect_repo_context; a repository without snippets still counts as one source.
CollectRepo ==
    /\ cli # Null /\ cli.at = "repo"
    /\ IF ~cli.repo THEN cli' = [cli EXCEPT !.at = "render"]
       ELSE \E status \in Changes, lines \in Hits, limit \in SnippetLimits :
            \E hits \in QueryHits(lines) :
              LET changed == ChangedFiles(status)
                  snippets == Snippets(changed, hits, limit) IN
              cli' = [cli EXCEPT !.at = "render", !.snippets = snippets, !.limit = limit,
                                 !.changed = changed, !.hits = hits,
                                 !.counts.repo = IF snippets = <<>> THEN 1 ELSE Len(snippets)]
    /\ UNCHANGED <<conversationVars, pack>>

UnifiedLength ==
    Rest + cli.counts.session * MessageLength
         + (IF cli.counts.memory = 0 THEN 0 ELSE cli.markdown - Title)
         + cli.counts.search * SearchLength + Len(cli.snippets) * SnippetLength

Result == IF \A k \in DOMAIN cli.counts : cli.counts[k] = 0 THEN "no_result" ELSE "printed"

AfterRender(length) ==
    [cli EXCEPT !.at = IF OverBudget(length, cli.budget) THEN "trim" ELSE Result, !.length = length]

\* render_unified_context
RenderContext ==
    /\ cli # Null /\ cli.at = "render"
    /\ cli' = AfterRender(UnifiedLength)
    /\ UNCHANGED <<conversationVars, pack>>

TrimContext ==
    /\ cli # Null /\ cli.at = "trim"
    /\ cli' = AfterRender(Trimmed(cli.length))
    /\ UNCHANGED <<conversationVars, pack>>

\* A call of the API fails, or the session is not there.
FailContext ==
    /\ cli # Null /\ cli.at \in {"recall", "search", "session", "messages"}
    /\ cli' = [cli EXCEPT !.at = "failed"]
    /\ UNCHANGED <<conversationVars, pack>>

ContextStep ==
    \/ AskForPack
    \/ TakePack
    \/ SearchInstead
    \/ AskForMessages
    \/ TakeMessages
    \/ CollectRepo
    \/ RenderContext
    \/ TrimContext
    \/ FailContext

Init == ConversationInit /\ PackInit /\ cli = Null

Next ==
    \/ (WriteNext \/ ListingStep) /\ UNCHANGED <<pack, cli>>
    \/ PackStep /\ UNCHANGED <<conversationVars, cli>>
    \/ \E memory, repo \in BOOLEAN, session \in Sessions \cup {Null}, budget \in Budgets :
            StartContext(memory, session, repo, budget)
    \/ ContextStep

Spec == Init /\ [][Next]_vars

\* The command and the threads of its requests keep running.
FairSpec ==
    /\ Spec
    /\ WF_vars(PackStep /\ UNCHANGED <<conversationVars, cli>>)
    /\ WF_vars(ListingStep /\ UNCHANGED <<pack, cli>>)
    /\ WF_vars(ContextStep)

-------------------------------------------------------------------------------
(* Properties. *)

\* "Repo snippets should be selected in this order" (19-repo-session-aware-context-design.md):
\* changed files before search results, no file twice, no more than the limit (but one if the
\* limit is 0), and no text file left out while there is room.
SnippetsChosen ==
    cli # Null =>
        LET paths == {cli.snippets[i].path : i \in DOMAIN cli.snippets} IN
        /\ Cardinality(paths) = Len(cli.snippets)
        /\ Len(cli.snippets) <= IF cli.limit = 0 THEN 1 ELSE cli.limit
        /\ \A i, j \in DOMAIN cli.snippets :
              i < j /\ cli.snippets[j].reason = "changed_file" => cli.snippets[i].reason = "changed_file"
        /\ Len(cli.snippets) < cli.limit =>
              \A i \in DOMAIN CandidateFiles(cli.changed, cli.hits) :
                  CandidateFiles(cli.changed, cli.hits)[i][1] \in TextFiles
                      => CandidateFiles(cli.changed, cli.hits)[i][1] \in paths

\* The command ends wherever a text can be cut down to the budget: the loops of the pack and of
\* what is printed reach a text that fits, calls fail or answer, and nothing waits.
EveryContextEnds ==
    \A budget \in {b \in Budgets : CanFit(b)} :
        (cli # Null /\ cli.budget = budget) ~> (cli # Null /\ cli.at \in Ended)

\* "Runs recall and formats an agent-ready context package under `max_tokens`"
\* (08-api-design.md): whatever the budget, a package that is being formatted is formatted.
EveryPackEnds == pack # NoPack ~> Packed
===============================================================================
