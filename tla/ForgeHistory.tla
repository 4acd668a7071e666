---------------------------- MODULE ForgeHistory ----------------------------
(***************************************************************************)
(* `botfam forge lint', `forge graph' and `mangle export' (cli/review):    *)
(* the history of the forge, read page by page (forge/history.go) while    *)
(* people work, cut to a scope (forge/scope.go), and then judged by the    *)
(* rules of mangle/rules/forge_lint.mg or drawn (issuegraph).              *)
(*                                                                         *)
(* Lists are newest first, so what is made meanwhile pushes an item from   *)
(* one page to the next: it is read twice, never missed.  A page has one   *)
(* item here.  Closing keywords, mentions and labels do not change; bodies *)
(* of issues, that is their task lists, do.                                *)
(***************************************************************************)
EXTENDS Naturals, Sequences, FiniteSets, SequencesExt

CONSTANTS
  MaxIssue,   \* issues are numbered in the order they are made
  Pull,       \* pull requests
  User,
  ClosesOf,   \* the issues each pull request says it closes
  MentionsOf, \* and those it mentions, in any way
  NamesOf,    \* the issues that the prose of each issue names
  Labelled,   \* the issues of the milestone, or with the label, that is asked for
  Bodies,     \* what the task lists may be
  Scopes,     \* what may be asked for: all, a label (or milestone), or an epic
  MaxChanges, \* bound on what people do before and while a command runs
  None

Issue == 1..MaxIssue

HistoryAssumption ==
  /\ MaxIssue \in Nat /\ MaxChanges \in Nat /\ IsFiniteSet(Pull)
  /\ ClosesOf \in [Pull -> SUBSET Issue] /\ MentionsOf \in [Pull -> SUBSET Issue]
  /\ \A p \in Pull : ClosesOf[p] \subseteq MentionsOf[p]
  /\ NamesOf \in [Issue -> SUBSET Issue] /\ Labelled \subseteq Issue
  /\ Bodies \subseteq [Issue -> SUBSET Issue]
  /\ Scopes \subseteq [by : {"all", "label", "epic"}, epic : Issue]

VARIABLES
  count,    \* issues made so far
  tasks,    \* the issues in the task list of each
  closed,   \* closed issues
  assigned, \* <<issue, user>>
  pulls,    \* pull requests, in the order they were opened
  merged,   \* those that are merged
  commits,  \* <<pull, user>>: whose commits are on each
  changes,  \* how often people changed something
  scope, pc, page, \* the command
  read,     \* what it has read so far
  target,   \* the issues in scope
  todo,     \* pull requests whose commits it has not read
  report,   \* what the linter found
  graph,    \* what the grapher drew
  occurred, \* history: what the rules found in the forge at some time since the start
  stood,    \* history: what they found at all times
  moved     \* history: pull requests that were merged or pushed to since the start

forge == <<count, tasks, closed, assigned, pulls, merged, commits>>
command == <<scope, pc, page, read, target, todo, report, graph>>
vars == <<forge, changes, command, occurred, stood, moved>>

Nothing == [listed |-> {}, tasks |-> [i \in Issue |-> {}], closed |-> {}, assigned |-> {},
            pulls |-> {}, merged |-> {}, commits |-> {}]

TypeOK ==
  /\ count \in 0..MaxIssue /\ tasks \in [Issue -> SUBSET Issue] /\ closed \subseteq Issue
  /\ assigned \subseteq Issue \X User /\ pulls \in Seq(Pull) /\ merged \subseteq ToSet(pulls)
  /\ commits \subseteq ToSet(pulls) \X User /\ changes \in 0..MaxChanges
  /\ pc \in {"start", "issues", "pulls", "commits", "over"}
  /\ page \in Nat \ {0} /\ scope \in Scopes /\ target \subseteq Issue /\ todo \subseteq Pull
  /\ read \in [listed : SUBSET Issue, tasks : [Issue -> SUBSET Issue], closed : SUBSET Issue,
              assigned : SUBSET (Issue \X User), pulls : SUBSET Pull, merged : SUBSET Pull,
              commits : SUBSET (Pull \X User)]
  /\ moved \subseteq Pull

-----------------------------------------------------------------------------
(* The scope.                                                               *)

\* SelectIssues: the queue of an epic's children and theirs, until nothing is new.
Children_Bug(t, s) == {}
Children(t, s) == UNION {t[i] : i \in s}
Closure(t, epic) ==
  LET within[k \in 0..MaxIssue] ==
        IF k = 0 THEN {epic} ELSE within[k - 1] \cup Children(t, within[k - 1])
  IN within[MaxIssue]

SelectIssues(r) ==
  CASE scope.by = "all" -> Issue
    [] scope.by = "label" -> r.listed \cap Labelled
    [] OTHER -> Closure(r.tasks, scope.epic)

-----------------------------------------------------------------------------
(* The rules: misattributed work, double close, merged but open.            *)

Misattributed(r) ==
  {<<"misattributed", x[1][1], x[2][2], x[1][2]>> :
     x \in {y \in r.assigned \X r.commits : y[1][1] \in ClosesOf[y[2][1]] /\ y[2][2] # y[1][2]}}

DoubleClosed(r) ==
  {<<"double close", i>> : i \in {j \in Issue : Cardinality({p \in r.pulls : j \in ClosesOf[p]}) > 1}}

MergedButOpen(r) ==
  {<<"merged but open", x[1], x[2]>> :
     x \in {y \in Issue \X (r.merged \cap r.pulls) : y[1] \in ClosesOf[y[2]] \ r.closed}}

Lint(r) == Misattributed(r) \cup DoubleClosed(r) \cup MergedButOpen(r)

\* What the rules find in the forge itself.
Standing ==
  Lint([closed |-> closed, assigned |-> assigned, pulls |-> ToSet(pulls),
        merged |-> merged, commits |-> commits])

-----------------------------------------------------------------------------
(* The graph.                                                               *)

\* build: task lists and, on demand, prose; both ends in scope, none to itself.
Edges(r, nodes) ==
  LET pairs == {x \in nodes \X nodes : x[1] # x[2]} IN
    {<<x[1], x[2], "subtask">> : x \in {y \in pairs : y[2] \in r.tasks[y[1]]}}
    \cup {<<x[1], x[2], "mention">> : x \in {y \in pairs : y[2] \in NamesOf[y[1]] \ r.tasks[y[1]]}}

Build(r) == LET nodes == r.listed \cap SelectIssues(r) IN [nodes |-> nodes, edges |-> Edges(r, nodes)]
Epics(g) == {e[1] : e \in {x \in g.edges : x[3] = "subtask"}}

\* "epics + children" in the page: one pass over the edges, by their ends.
Ends(edges) == UNION {{e[1], e[2]} : e \in edges}
EdgesAt(g, n) == {e \in g.edges : (e[1] - 1) * MaxIssue + e[2] = n}
EpicsAndChildren(g) ==
  LET keep[n \in 0..(MaxIssue * MaxIssue)] ==
        IF n = 0 THEN Epics(g)
        ELSE keep[n - 1] \cup Ends({e \in EdgesAt(g, n) : {e[1], e[2]} \cap keep[n - 1] # {}})
  IN keep[MaxIssue * MaxIssue]

-----------------------------------------------------------------------------
(* The command.                                                             *)

Init ==
  /\ count \in 1..MaxIssue /\ tasks \in Bodies /\ closed = {}
  /\ assigned = {} /\ pulls \in {<<>>} \cup {<<p>> : p \in Pull} /\ merged = {} /\ commits = {}
  /\ changes = 0
  /\ scope \in Scopes /\ pc = "start" /\ page = 1 /\ read = Nothing
  /\ target = {} /\ todo = {} /\ report = None /\ graph = None
  /\ occurred = {} /\ stood = {} /\ moved = {}

history == <<occurred, stood, moved>>

Begin ==
  /\ pc = "start" /\ pc' = "issues"
  /\ occurred' = Standing /\ stood' = Standing
  /\ UNCHANGED <<forge, changes, scope, page, read, target, todo, report, graph, moved>>

\* ListAllIssues: the next page, until there is none.
MorePages(n) == page <= n

ListIssue ==
  /\ pc = "issues" /\ MorePages(count)
  /\ LET i == count + 1 - page IN
       read' = [read EXCEPT !.listed = @ \cup {i}, !.tasks[i] = tasks[i],
                            !.closed = @ \cup ({i} \cap closed),
                            !.assigned = @ \cup {a \in assigned : a[1] = i}]
  /\ page' = page + 1
  /\ UNCHANGED <<forge, changes, scope, pc, target, todo, report, graph, history>>

\* The grapher, which lists issues as the linter does, is done then; the linter goes on
\* to the pull requests.
Select ==
  /\ pc = "issues" /\ ~MorePages(count)
  /\ target' = SelectIssues(read) /\ page' = 1
  /\ \/ pc' = "pulls" /\ UNCHANGED graph
     \/ pc' = "over" /\ graph' = Build(read)
  /\ UNCHANGED <<forge, changes, scope, read, todo, report, history>>

\* ListAllPulls.
ListPull ==
  /\ pc = "pulls" /\ MorePages(Len(pulls))
  /\ LET p == pulls[Len(pulls) + 1 - page] IN
       read' = [read EXCEPT !.pulls = @ \cup {p}, !.merged = @ \cup ({p} \cap merged)]
  /\ page' = page + 1
  /\ UNCHANGED <<forge, changes, scope, pc, target, todo, report, graph, history>>

\* Export: the pull requests that close or mention an issue in scope.
Relevant(p) == scope.by = "all" \/ target \cap (ClosesOf[p] \cup MentionsOf[p]) # {}

PullsListed ==
  /\ pc = "pulls" /\ ~MorePages(Len(pulls))
  /\ pc' = "commits" /\ todo' = {p \in read.pulls : Relevant(p)}
  /\ UNCHANGED <<forge, changes, scope, page, read, target, report, graph, history>>

GetPullCommits(p) ==
  /\ pc = "commits" /\ p \in todo
  /\ todo' = todo \ {p}
  /\ read' = [read EXCEPT !.commits = @ \cup {c \in commits : c[1] = p}]
  /\ UNCHANGED <<forge, changes, scope, pc, page, target, report, graph, history>>

\* The facts: of the issues in scope and the pull requests that matter to them.
Export ==
  [read EXCEPT !.closed = @ \cap target, !.assigned = {a \in @ : a[1] \in target},
               !.pulls = {p \in @ : Relevant(p)}]

Evaluate ==
  /\ pc = "commits" /\ todo = {}
  /\ pc' = "over" /\ report' = Lint(Export)
  /\ UNCHANGED <<forge, changes, scope, page, read, target, todo, graph, history>>

\* A request fails, or the engine does: nothing is reported.
Fails ==
  /\ pc \notin {"start", "over"} /\ pc' = "over"
  /\ UNCHANGED <<forge, changes, scope, page, read, target, todo, report, graph, history>>

-----------------------------------------------------------------------------
(* People.                                                                  *)

Change ==
  /\ pc # "over" /\ changes < MaxChanges
  /\ changes' = changes + 1
  /\ occurred' = IF pc = "start" THEN {} ELSE occurred \cup Standing'
  /\ stood' = stood \cap Standing'
  /\ UNCHANGED command

Make ==
  /\ count < MaxIssue /\ count' = count + 1
  /\ UNCHANGED <<tasks, closed, assigned, pulls, merged, commits, moved>> /\ Change
Edit ==
  /\ tasks' \in Bodies \ {tasks}
  /\ UNCHANGED <<count, closed, assigned, pulls, merged, commits, moved>> /\ Change
CloseOrReopen(i) ==
  /\ i <= count /\ closed' = IF i \in closed THEN closed \ {i} ELSE closed \cup {i}
  /\ UNCHANGED <<count, tasks, assigned, pulls, merged, commits, moved>> /\ Change
Assign(i, u) ==
  /\ i <= count /\ assigned' = {a \in assigned : a[1] # i} \cup {<<i, u>>}
  /\ UNCHANGED <<count, tasks, closed, pulls, merged, commits, moved>> /\ Change
Propose(p) ==
  /\ p \notin ToSet(pulls) /\ pulls' = Append(pulls, p)
  /\ UNCHANGED <<count, tasks, closed, assigned, merged, commits, moved>> /\ Change

\* A merge closes the issues, as Gitea does, or leaves them open.
Merge(p) ==
  /\ p \in ToSet(pulls) \ merged /\ merged' = merged \cup {p}
  /\ closed' \in {closed, closed \cup {i \in ClosesOf[p] : i <= count}}
  /\ moved' = IF pc = "start" THEN {} ELSE moved \cup {p}
  /\ UNCHANGED <<count, tasks, assigned, pulls, commits>> /\ Change
Push(p, u) ==
  /\ p \in ToSet(pulls) /\ commits' = commits \cup {<<p, u>>}
  /\ moved' = IF pc = "start" THEN {} ELSE moved \cup {p}
  /\ UNCHANGED <<count, tasks, closed, assigned, pulls, merged>> /\ Change

Next ==
  \/ Begin \/ ListIssue \/ Select \/ ListPull \/ PullsListed \/ Evaluate \/ Fails
  \/ Make \/ Edit
  \/ \E i \in Issue : CloseOrReopen(i) \/ \E u \in User : Assign(i, u)
  \/ \E p \in Pull : GetPullCommits(p) \/ Propose(p) \/ Merge(p) \/ \E u \in User : Push(p, u)

Spec == Init /\ [][Next]_vars

-----------------------------------------------------------------------------
(* Properties.                                                              *)

\* The issues that were asked for: the least set with the epic and the children of
\* each of its members.
InScope ==
  CASE scope.by = "all" -> Issue
    [] scope.by = "label" -> read.listed \cap Labelled
    [] OTHER -> {i \in Issue : \A s \in SUBSET Issue :
                   scope.epic \in s /\ (\A j \in s : read.tasks[j] \subseteq s) => i \in s}

\* The linter is a gate: of the issues in its scope it reports every violation that the
\* forge had all the while it was read, and none that the forge had at no time, except
\* about a pull request that was merged or pushed to meanwhile.  (Of issues out of scope
\* that a pull request in it closes it says that they are open.)
\* The graph of a scope has just its issues, and whatever view of it has an
\* epic has its children.
SnapshotTrue ==
  /\ report # None =>
       /\ {v \in stood : v[2] \in InScope} \subseteq report
       /\ \A v \in report \ occurred : v[2] \in InScope => \E p \in moved : v[2] \in ClosesOf[p]
  /\ graph # None =>
       /\ graph.nodes = read.listed \cap InScope
       /\ \A e \in graph.edges :
            e[3] = "subtask" => {e[1], e[2]} \subseteq EpicsAndChildren(graph)
=============================================================================
