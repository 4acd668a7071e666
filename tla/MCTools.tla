------------------------------ MODULE MCTools ------------------------------
(* The commands that run beside a fleet, for TLC, one at a time: `run',     *)
(* `external-review', `meta-review', `session extract' and `forge lint'.    *)
EXTENDS TLC, Naturals, Sequences

CONSTANTS Unset, \* what the modules call None
          RunOptions, Servers, Issues, IsPull, TitleOf, MaxSpans,         \* of RunIssue
          Run, ReviewOptions, Second, Slug,                               \* of Review
          Artifact, Corpus, Evidence, RepoLabels, MaxRuns,                \* of MetaReview
          Extraction, Item, IssueOf, Opening, Text, Milestone, Given,     \* of Extract
          Window, MaxTime,
          MaxIssue, Pull, User, ClosesOf, MentionsOf, NamesOf, Labelled,  \* of ForgeHistory
          Bodies, Scopes, MaxChanges

VARIABLES part,
          opts, upc, late, child, held, entities, class, files, trace, offset, copied, outcome,
          ropts, rpc, dir, job, disk, routcome,
          artifact, corpus, escalate, apply, dry, obedient, mpc, seen, found, posted, labels, runs,
          now, made, text, edited, members, xpc, from, todo, read, lines, missed,
          count, tasks, closed, assigned, pulls, merged, commits, changes, scope, fpc, page,
          hread, target, htodo, report, graph, occurred, stood, moved

uvars == <<opts, upc, late, child, held, entities, class, files, trace, offset, copied, outcome>>
rvars == <<ropts, rpc, dir, job, disk, routcome>>
mvars == <<artifact, corpus, escalate, apply, dry, obedient, mpc, seen, found, posted, labels, runs>>
xvars == <<now, made, text, edited, members, xpc, from, todo, read, lines, missed>>
fvars == <<count, tasks, closed, assigned, pulls, merged, commits, changes, scope, fpc, page,
           hread, target, htodo, report, graph, occurred, stood, moved>>

U == INSTANCE RunIssue WITH None <- Unset, Options <- RunOptions, pc <- upc
R == INSTANCE Review WITH None <- Unset, Options <- ReviewOptions,
                          opts <- ropts, pc <- rpc, outcome <- routcome
M == INSTANCE MetaReview WITH None <- Unset, pc <- mpc
X == INSTANCE Extract WITH None <- Unset, pc <- xpc
F == INSTANCE ForgeHistory WITH None <- Unset, pc <- fpc, read <- hread, todo <- htodo

ASSUME ToolsAssumption ==
  /\ U!RunAssumption /\ R!ReviewAssumption /\ M!MetaAssumption
  /\ X!ExtractAssumption /\ F!HistoryAssumption

-----------------------------------------------------------------------------
toolVars == <<part, uvars, rvars, mvars, xvars, fvars>>

\* The commands that are not run wait in one initial state.
ToolsInit ==
  /\ part \in {"run", "review", "meta", "extract", "forge"}
  /\ U!Init /\ (part # "run" => trace = <<>> /\ opts = CHOOSE o \in RunOptions : TRUE)
  /\ R!Init /\ ropts["r2"].zero /\ (part # "review" => ropts["r1"].zero)
  /\ M!Init /\ (part # "meta" => artifact.kind = "issue" /\ corpus.retired = {}
                                /\ {escalate, apply, dry, obedient} = {TRUE})
  /\ X!Init /\ (\A i \in DOMAIN text : text[i] = "t") /\ (part # "extract" => members = {})
  /\ F!Init /\ (part # "forge" => scope.by = "all" /\ count = 1 /\ tasks[1] = {2} /\ pulls = <<>>)

ToolsNext ==
  \/ part = "run" /\ U!Next /\ UNCHANGED <<part, rvars, mvars, xvars, fvars>>
  \/ part = "review" /\ R!Next /\ UNCHANGED <<part, uvars, mvars, xvars, fvars>>
  \/ part = "meta" /\ M!Next /\ UNCHANGED <<part, uvars, rvars, xvars, fvars>>
  \/ part = "extract" /\ X!Next /\ UNCHANGED <<part, uvars, rvars, mvars, fvars>>
  \/ part = "forge" /\ F!Next /\ UNCHANGED <<part, uvars, rvars, mvars, xvars>>

ToolsSpec ==
  /\ ToolsInit /\ [][ToolsNext]_toolVars
  /\ WF_uvars(part = "run" /\ U!Command) /\ WF_uvars(part = "run" /\ U!Kill)

VerdictTrue == U!VerdictTrue
TracesFresh == U!TracesFresh
GrantsAsAsked == U!GrantsAsAsked
TimeoutBounds == U!TimeoutBounds
ManifestTrue == R!ManifestTrue
NeverSilentlyTrusted == M!NeverSilentlyTrusted
Reproducible == X!Reproducible
SnapshotTrue == F!SnapshotTrue

-----------------------------------------------------------------------------
(* Values of the constants.                                                 *)

\* run: options that differ in every setting the code looks at.
O(issue, prompt, refs, allow, timeout, traced, agent, mode) ==
  [agent |-> agent, harness |-> Unset, detected |-> Unset, mode |-> mode,
   target |-> IF issue = "8" THEN "fail" ELSE Unset,
   agentMode |-> "auto", repoMode |-> Unset, issue |-> issue, prompt |-> prompt, refs |-> refs,
   allow |-> allow, timeout |-> timeout, traced |-> traced]
Tool(s, x) == [server |-> s, tool |-> x]
ToolsRunOptions == {
  O("7", FALSE, {"8", "page"}, <<>>, "set", TRUE, Unset, Unset),
  O(Unset, TRUE, {"7", "8", "page", "old"},
    <<Tool("s", Unset), Tool("s", "a"), Tool(Unset, "b"), Tool("q", "a")>>, "set", TRUE, "codex", "bypass"),
  O("7", TRUE, {"7"}, <<Tool("s", "a")>>, "none", FALSE, "antigravity", "bypass"),
  O("7", TRUE, {"7"}, <<Tool("s", "a"), Tool("s", Unset)>>, "none", FALSE, "codex", "auto"),
  O("8", FALSE, {}, <<>>, "set", FALSE, Unset, "auto"),
  O(Unset, FALSE, {}, <<>>, "none", FALSE, "antigravity", "bypass") }
ToolsTitleOf == "page" :> "page" @@ "old" :> "new"

\* external-review: two models that share a slug, of a local provider and a remote one.
ToolsSlug == "m:1" :> "m1" @@ "m1" :> "m1" @@ "big" :> "big"
ToolsReviewOptions ==
  LET Base == [out |-> Unset, pr |-> FALSE, milestone |-> FALSE, session |-> FALSE, files |-> 1,
               models |-> "ollama" :> <<"m:1", "m1">> @@ "gemini" :> <<"big">>,
               file |-> Unset, config |-> "key", env |-> Unset, zero |-> FALSE]
  IN { Base,
       [Base EXCEPT !.pr = TRUE, !.session = TRUE, !.models = "openai" :> <<"m:1", "m1">>],
       [Base EXCEPT !.out = "dir", !.files = 0, !.milestone = TRUE, !.config = "",
                    !.models = "openai" :> <<"big">> @@ "lmstudio" :> <<"big">>, !.zero = TRUE] }

\* meta-review: a pull request with every kind of risk, and an issue.
ToolsArtifact == {
  [kind |-> "pr", paths |-> {"a.go", "b.go"}, added |-> {"b.go"},
   decisions |-> {"d"}, asserts |-> 4, cue |-> TRUE],
  [kind |-> "issue", paths |-> {"a.go"}, added |-> {},
   decisions |-> {}, asserts |-> 0, cue |-> FALSE] }
ToolsCorpus == { [tree |-> {}, retired |-> {"d"}], [tree |-> {"a.go"}, retired |-> {}] }

\* session extract: an issue with two events, and a snapshot.
ToolsIssueOf == "open" :> 1 @@ "say" :> 1 @@ "again" :> 1
ToolsMilestone ==
  { [id |-> 5, title |-> "m", open |-> TRUE], [id |-> 6, title |-> "m", open |-> FALSE] }
ToolsGiven == "x" :> 5 @@ "y" :> 6
ToolsWindow == [since |-> Unset, until |-> Unset, snapshot |-> 0]

\* forge lint and graph: an epic whose child has one too, a cycle.
ToolsClosesOf == "p" :> {2} @@ "q" :> {2, 3}
ToolsMentionsOf == "p" :> {1, 2} @@ "q" :> {2, 3}
ToolsNamesOf == <<{2}, {}, {1}>>
ToolsBodies == {<<{2}, {3}, {}>>, <<{1, 2}, {1}, {2}>>}
ToolsScopes == [by : {"all", "label", "epic"}, epic : {1}]
=============================================================================
