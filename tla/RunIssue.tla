------------------------------ MODULE RunIssue -----------------------------
(***************************************************************************)
(* `botfam run` (cli/ops/run.go): one goal prompt through one harness, and *)
(* the run directory it leaves, which the worker of a sprint leaves too.   *)
(*                                                                         *)
(* The harness is a child process with pipes for its output; descendants   *)
(* of it may outlive it and keep the pipes open, and cmd.Run waits for the *)
(* pipes.  The deadline of --timeout may pass between any two steps; the   *)
(* kill that follows it reaches the child only.  The command's context has *)
(* no signal handler: it is never cancelled, and Ctrl-C is a crash.        *)
(*                                                                         *)
(* The trace file is written by every harness that a collector serves.     *)
(***************************************************************************)
EXTENDS Naturals, Sequences, FiniteSets, SequencesExt

CONSTANTS Options,   \* command lines with the configuration they meet
          Servers,   \* MCP servers an allowlist may name
          Issues,    \* issues and pull requests, by number
          IsPull,    \* those of them that are pull requests
          TitleOf,   \* the title of each wiki page, by the name it is referred to
          MaxSpans,  \* bound on the length of the trace file
          None

Pages == DOMAIN TitleOf
Harness == {"codex", "claude-code", "antigravity"}
Mode == {"default", "auto", "bypass"}

\* Options have the flags agent, harness, target, mode, issue, prompt, timeout and traced;
\* detected, agentMode and repoMode of the context; the references in the prompt, or
\* in the issue's title when there is none; and the allowlist, whose tokens name a
\* server (None: a tool of the harness itself) and a tool (None: all of the server's).
RunAssumption ==
  /\ MaxSpans \in Nat \ {0} /\ None \notin Servers \cup Issues \cup Pages
  /\ IsPull \subseteq Issues /\ Issues \cap Pages = {}
  /\ \A o \in Options :
       /\ o.timeout \in {"none", "set"} /\ o.traced \in BOOLEAN
       /\ o.issue \in Issues \cup {None}
       /\ o.refs \subseteq Issues \cup Pages /\ IsFiniteSet(o.refs)
       /\ o.allow \in Seq(ToSet(o.allow))
       /\ \A t \in ToSet(o.allow) : t.server \in Servers \cup {None}

VARIABLES
  opts,      \* the options
  pc,        \* where the command is
  late,      \* has the deadline passed?
  child,     \* the harness: "none", "running", or how it ended
  held,      \* do descendants of it hold its pipes?
  entities,  \* the goal's forge entities
  class,     \* the failure class
  files,     \* the files in the run directory: absent, partial, whole
  trace,     \* the trace file: when each span was written
  offset,    \* its length when the run began
  copied,    \* the spans in otel-traces.jsonl
  outcome    \* what the command returned: "none", "ok", "error"

vars == <<opts, pc, late, child, held, entities, class, files, trace, offset, copied, outcome>>

FileOrder == <<"stdout.log", "stderr.log", "run.json", "prompt.md", "transcript.jsonl",
               "artifacts.json", "env.redacted.json", "otel-traces.jsonl">>

Entity == [key : Issues \cup Pages \cup {TitleOf[t] : t \in Pages},
           kind : {"issue", "pr", "wiki_page"}, error : BOOLEAN]

TypeOK ==
  /\ opts \in Options
  /\ pc \in {"options", "goal", "launch", "running", "ended", "write", "over"}
  /\ late \in BOOLEAN /\ held \in BOOLEAN
  /\ child \in {"none", "missing", "running", "zero", "nonzero", "signal"}
  /\ entities \subseteq Entity
  /\ class \in {"", "success", "timeout", "tool_error"}
  /\ files \in [ToSet(FileOrder) -> {"absent", "partial", "whole"}]
  /\ trace \in Seq({"before", "since"}) /\ Len(trace) <= MaxSpans
  /\ offset \in 0..MaxSpans
  /\ copied \in Seq({"before", "since"})
  /\ outcome \in {"none", "ok", "error", "killed"}

-----------------------------------------------------------------------------
(* Options.                                                                 *)

\* The first of a sequence of settings that is set.
FirstSet(settings) ==
  LET set == SelectSeq(settings, LAMBDA x : x # None) IN IF set = <<>> THEN None ELSE Head(set)
OrElse(x, default) == IF x = None THEN default ELSE x

Agent(o) == OrElse(FirstSet(<<o.agent, o.harness, o.detected>>), "codex")
AgentSet(o) == FirstSet(<<o.agent, o.harness>>) # None
PermissionMode(o) == OrElse(FirstSet(<<o.mode, o.agentMode, o.repoMode>>), "default")
Target(o) == OrElse(o.target, IF AgentSet(o) THEN "harness" ELSE "success")

Refused(o) ==
  \/ o.issue = None /\ ~o.prompt
  \/ o.agent # None /\ o.harness # None /\ o.agent # o.harness
  \/ PermissionMode(o) \notin Mode
  \/ o.allow # <<>> /\ Agent(o) \notin {"claude-code", "codex"}

PermissionArgs(harness, mode) ==
  IF mode = "default" THEN {}
  ELSE CASE harness = "claude-code" -> IF mode = "auto" THEN {"acceptEdits"} ELSE {"bypassPermissions"}
         [] harness = "codex" -> IF mode = "auto" THEN {"workspace-write"} ELSE {"bypass"}
         [] harness = "antigravity" -> {"skip-permissions"}

\* codexAllowToolsConfigArgs, token by token: a grant of all of a server's tools
\* swallows those of single ones; tools of the harness itself are dropped.
NoGrant == [all |-> FALSE, tools |-> {}]
Grant_Bug(grants, token) ==
  IF token.server = None THEN grants
  ELSE [grants EXCEPT ![token.server] =
          IF token.tool = None THEN [all |-> TRUE, tools |-> {}]
          ELSE [all |-> FALSE, tools |-> @.tools \cup {token.tool}]]
Grant(grants, token) ==
  IF token.server = None THEN grants
  ELSE [grants EXCEPT ![token.server] =
          IF token.tool = None THEN [all |-> TRUE, tools |-> {}]
          ELSE IF @.all THEN @ ELSE [all |-> FALSE, tools |-> @.tools \cup {token.tool}]]
GrantsUpTo(allow) ==
  LET granted[n \in 0..Len(allow)] ==
        IF n = 0 THEN [s \in Servers |-> NoGrant] ELSE Grant(granted[n - 1], allow[n])
  IN granted
CodexGrants(allow) == GrantsUpTo(allow)[Len(allow)]

\* What the harness is started with: claude takes the allowlist as it is, and the
\* prompt after all of it.
HarnessArgs(o) ==
  [permissions |-> PermissionArgs(Agent(o), PermissionMode(o)),
   tools |-> CASE Agent(o) = "codex" -> CodexGrants(o.allow)
               [] Agent(o) = "claude-code" -> ToSet(o.allow)
               [] OTHER -> {}]

-----------------------------------------------------------------------------
(* The goal.                                                                *)

KindOf(ref) == IF ref \in Pages THEN "wiki_page" ELSE "issue"
Same(e, f) == /\ e.key = f.key
              /\ (e.kind = "wiki_page") = (f.kind = "wiki_page")

\* upsertIssueEntity and upsertWikiEntity with mergeForgeEntity.
Upsert(found, e) ==
  IF \E f \in found : Same(e, f)
  THEN {IF Same(e, f) THEN [f EXCEPT !.kind = e.kind, !.error = @ \/ e.error] ELSE f : f \in found}
  ELSE found \cup {e}

\* The entity that the look-up of ref makes: a wiki page is found under its title.
Resolved(ref) ==
  [key |-> IF ref \in Pages THEN TitleOf[ref] ELSE ref,
   kind |-> IF ref \in IsPull THEN "pr" ELSE KindOf(ref), error |-> FALSE]
Unresolved(ref, error) == [key |-> ref, kind |-> KindOf(ref), error |-> error]

\* buildRunGoal: the references as such, the issue of the run, then the look-ups in the
\* order the references come in.
Found(r, answered) == IF r \in answered THEN Resolved(r) ELSE Unresolved(r, TRUE)
Asked(o) ==
  LET refs == o.refs \cup IF o.prompt \/ o.issue = None THEN {} ELSE {o.issue}
      bare == {Unresolved(r, FALSE) : r \in refs}
  IN IF o.issue = None THEN bare ELSE Upsert(bare, Resolved(o.issue))
GoalUpTo(o, answered, order) ==
  LET goal[n \in 0..Len(order)] ==
        IF n = 0 THEN Asked(o) ELSE Upsert(goal[n - 1], Found(order[n], answered))
  IN goal
Goal(o, answered, order) == GoalUpTo(o, answered, order)[Len(order)]

-----------------------------------------------------------------------------
(* The command.                                                             *)

Init ==
  /\ opts \in Options
  /\ pc = "options" /\ late = FALSE
  /\ child = "none" /\ held = FALSE
  /\ entities = {} /\ class = ""
  /\ files = [f \in ToSet(FileOrder) |-> "absent"]
  /\ trace \in {<<>>, <<"before">>} /\ offset = 0 /\ copied = <<>>
  /\ outcome = "none"

Return(how) == pc' = "over" /\ outcome' = how

Refuse ==
  /\ pc = "options" /\ Refused(opts)
  /\ Return("error")
  /\ UNCHANGED <<opts, late, child, held, entities, class, files, trace, offset, copied>>

\* GetIssue, for --issue; only then the run directory is made.
Accept ==
  /\ pc = "options" /\ ~Refused(opts)
  /\ pc' = "goal"
  /\ UNCHANGED <<opts, late, child, held, entities, class, files, trace, offset, copied, outcome>>

NoIssue ==
  /\ pc = "options" /\ ~Refused(opts) /\ opts.issue # None
  /\ Return("error")
  /\ UNCHANGED <<opts, late, child, held, entities, class, files, trace, offset, copied>>

\* A look-up that fails leaves the reference with its error; after the deadline all fail.
BuildGoal ==
  /\ pc = "goal"
  /\ \E answered \in SUBSET opts.refs, order \in SetToSeqs(opts.refs \ {opts.issue}) :
       /\ late => answered = {}
       /\ entities' = Goal(opts, answered, order)
  /\ pc' = "launch"
  /\ offset' = IF opts.traced THEN Len(trace) ELSE 0
  /\ UNCHANGED <<opts, late, child, held, class, files, trace, copied, outcome>>

\* The command may not be there, and after the deadline nothing is started.  The fake
\* target "fail" starts nothing either; other targets run the harness, or a shell.
Launch ==
  /\ pc = "launch"
  /\ child' \in IF late \/ Target(opts) = "fail" THEN {"missing"} ELSE {"missing", "running"}
  /\ pc' = "running"
  /\ UNCHANGED <<opts, late, held, entities, class, files, trace, offset, copied, outcome>>

\* cmd.Run returns: the child has ended and its pipes are closed.
Ended ==
  /\ pc = "running" /\ child # "running" /\ ~held
  /\ class' = CASE child = "zero" -> "success"
                [] child # "zero" /\ late /\ Target(opts) # "fail" -> "timeout"
                [] OTHER -> "tool_error"
  /\ pc' = "ended"
  /\ UNCHANGED <<opts, late, child, held, entities, files, trace, offset, copied, outcome>>

\* A success after the deadline is none.
Classify ==
  /\ pc = "ended"
  /\ class' = IF class = "success" /\ late THEN "timeout" ELSE class
  /\ pc' = "write"
  /\ UNCHANGED <<opts, late, child, held, entities, files, trace, offset, copied, outcome>>

\* The files of this run, by their place, and the one whose turn it is.
Expected == {k \in DOMAIN FileOrder : FileOrder[k] = "otel-traces.jsonl" => opts.traced}
Whole(k) == files[FileOrder[k]] = "whole"
Turn(k) == k \in Expected /\ ~Whole(k) /\ \A j \in Expected : j < k => Whole(j)
Written == \A k \in Expected : Whole(k)

BeginFile ==
  /\ pc = "write"
  /\ \E k \in Expected :
       /\ Turn(k) /\ files[FileOrder[k]] = "absent"
       /\ files' = [files EXCEPT ![FileOrder[k]] = "partial"]
  /\ UNCHANGED <<opts, pc, late, child, held, entities, class, trace, offset, copied, outcome>>

\* readOTELTraceDelta: what follows the offset, or all of a file that has shrunk.
Delta_Bug(from) == IF Len(trace) <= from THEN trace ELSE SubSeq(trace, from + 1, Len(trace))
Delta(from) == IF Len(trace) < from THEN trace ELSE SubSeq(trace, from + 1, Len(trace))

EndFile ==
  /\ pc = "write"
  /\ \E k \in Expected :
       /\ Turn(k) /\ files[FileOrder[k]] = "partial"
       /\ files' = [files EXCEPT ![FileOrder[k]] = "whole"]
       /\ copied' = IF FileOrder[k] = "otel-traces.jsonl" THEN Delta(offset) ELSE copied
  /\ UNCHANGED <<opts, pc, late, child, held, entities, class, trace, offset, outcome>>

\* The first write that fails ends the command.
FileFails ==
  /\ pc = "write" /\ ~Written
  /\ Return("error")
  /\ UNCHANGED <<opts, late, child, held, entities, class, files, trace, offset, copied>>

MayReport_Bug == TRUE
MayReport == class = "success"
Report ==
  /\ pc = "write" /\ Written
  /\ Return(IF MayReport THEN "ok" ELSE "error")
  /\ UNCHANGED <<opts, late, child, held, entities, class, files, trace, offset, copied>>

Command ==
  \/ Refuse \/ Accept \/ NoIssue \/ BuildGoal \/ Launch \/ Ended \/ Classify
  \/ BeginFile \/ EndFile \/ FileFails \/ Report

-----------------------------------------------------------------------------
(* Its surroundings.                                                        *)

Deadline ==
  /\ opts.timeout = "set" /\ ~late /\ pc \notin {"options", "over"}
  /\ late' = TRUE
  /\ UNCHANGED <<opts, pc, child, held, entities, class, files, trace, offset, copied, outcome>>

\* The harness ends by itself, and may leave descendants behind.
ChildEnds ==
  /\ child = "running"
  /\ child' \in {"zero", "nonzero", "signal"}
  /\ held' \in BOOLEAN
  /\ UNCHANGED <<opts, pc, late, entities, class, files, trace, offset, copied, outcome>>

\* exec.CommandContext kills it after the deadline.
MayKill_Bug == FALSE
MayKill == late
Kill ==
  /\ child = "running" /\ MayKill /\ pc = "running"
  /\ child' = "signal"
  /\ held' \in BOOLEAN
  /\ UNCHANGED <<opts, pc, late, entities, class, files, trace, offset, copied, outcome>>

PipesClose ==
  /\ held /\ held' = FALSE
  /\ UNCHANGED <<opts, pc, late, child, entities, class, files, trace, offset, copied, outcome>>

\* A span arrives, of this harness or of another.
Span ==
  /\ Len(trace) < MaxSpans
  /\ trace' = Append(trace, IF pc \in {"options", "goal"} THEN "before" ELSE "since")
  /\ UNCHANGED <<opts, pc, late, child, held, entities, class, files, offset, copied, outcome>>

\* The collector starts its file again.
Rotate ==
  /\ trace # <<>> /\ trace' = <<>>
  /\ UNCHANGED <<opts, pc, late, child, held, entities, class, files, offset, copied, outcome>>

\* The command is killed, with its harness or not.
Crash ==
  /\ pc \notin {"options", "over"}
  /\ Return("killed")
  /\ UNCHANGED <<opts, late, child, held, entities, class, files, trace, offset, copied>>

Next == Command \/ Deadline \/ ChildEnds \/ Kill \/ PipesClose \/ Span \/ Rotate \/ Crash

\* The command takes its steps and the kernel delivers the kill; nothing makes the
\* harness end by itself or its descendants close the pipes.
Spec == Init /\ [][Next]_vars /\ WF_vars(Command) /\ WF_vars(Kill)

-----------------------------------------------------------------------------

\* What the command says is what happened: success is reported for a harness that
\* exited with 0, with the whole run directory written; and a run.json is never there
\* without the whole output it is the verdict on.  Each issue and each page the prompt
\* refers to is one entity of its goal, by its number or the name it is referred to by:
\* a page that has another title is there under that, too.
VerdictTrue ==
  /\ outcome = "ok" =>
       child = "zero" /\ Written
  /\ files["run.json"] # "absent" =>
       /\ files["stdout.log"] = "whole" /\ files["stderr.log"] = "whole"
       /\ child \in {"zero", "nonzero", "signal", "missing"} /\ ~held
       /\ class = "timeout" => late
  /\ files["run.json"] = "whole" =>
       \A r \in opts.refs :
         Cardinality({e \in entities : e.key = r /\ (e.kind = "wiki_page") = (r \in Pages)}) = 1

\* Codex is started with leave to use a tool of a server just when the allowlist names
\* it or all of the server's, in whatever order; and no harness gets more than it has
\* by default when neither an option nor the configuration says so.
GrantsAsAsked ==
  LET granted == HarnessArgs(opts).tools
      asked == ToSet(opts.allow)
  IN /\ PermissionMode(opts) = "default" => HarnessArgs(opts).permissions = {}
     /\ Agent(opts) = "codex" =>
          \A s \in Servers :
            /\ granted[s].all <=> \E t \in asked : t.server = s /\ t.tool = None
            /\ \A t \in asked : t.server = s => granted[s].all \/ t.tool \in granted[s].tools
            /\ \A tool \in granted[s].tools : \E t \in asked : t.server = s /\ t.tool = tool

\* The traces of a run have no span from before it, wherever the collector's file
\* was rotated meanwhile.
TracesFresh == "before" \notin ToSet(copied)

\* --timeout bounds the run: past the deadline a running harness is killed and the
\* command returns, unless descendants of the harness keep its pipes open.
TimeoutBounds == (late /\ pc = "running") ~> (pc = "over" \/ held)
=============================================================================
