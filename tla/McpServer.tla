------------------------------ MODULE McpServer -----------------------------
(***************************************************************************)
(* `botfam serve`: the MCP server of one harness session (mcp/server.go,   *)
(* discovery.go, quarantine.go) with the forge tools it mounts             *)
(* (mcp/forge.go) and the ingester it starts (forge/client.go for the      *)
(* token of it).                                                           *)
(*                                                                         *)
(* Messages are handled one at a time, so a call is a step; only the       *)
(* ingester runs beside them.  serveStdio registers no client session:     *)
(* requestRootsWithCache always fails, no client roots reach a resolver,   *)
(* and nudges go to nobody.  What is left of the session is the actor that *)
(* the first call binds.  An operator edits the configuration meanwhile,   *)
(* and mints tokens.                                                       *)
(*                                                                         *)
(* Tools: worktree_init and worktree_sync, which need no actor, orient,    *)
(* and the forge's, of which some only read.  gitea-mcp itself is          *)
(* external: a forge call is the host and the token it is made with.       *)
(***************************************************************************)
EXTENDS FamIdentity

CONSTANTS Slash,    \* the root directory
          Environments, \* the environments a harness may start it in
          Configs   \* the configurations an operator may write

Environment ==
  [cwd : Dir, pwd : Dir \cup {None}, harness : Harness \cup {None},
   worker : {"no", "socket", "resolver"}]

ASSUME McpAssumption ==
  /\ Slash \in Dir /\ Toplevel[Slash] = None
  /\ Environments \subseteq Environment
  /\ \A c \in Configs : /\ None \notin DOMAIN c.agents
                         /\ \A k \in DOMAIN c.repos : None \notin DOMAIN c.repos[k].agents

VARIABLES
  cfg,      \* the configuration file
  minted,   \* the harnesses whose token file is there
  proc,     \* the environment: cwd, $PWD, the harness detected, the worker's variables
  live,     \* does the session resolver know a live session?
  up,       \* is the server serving?
  bound,    \* the actor the session is bound to
  host,     \* the forge of this process, once a forge call was made
  started,  \* ingestStarted
  ingest,   \* the ingester that runs, or None
  acted     \* history: who executed the tools that ran, and what trees they may change

vars == <<cfg, minted, proc, live, up, bound, host, started, ingest, acted>>

Tool == {"worktree", "read", "write"}
ReadOnly(tool) == tool = "read"
NothingDone == [actors |-> {}, trees |-> {}]

TypeOK ==
  /\ cfg \in Configs /\ minted \subseteq Harness /\ proc \in Environments
  /\ live \in {"no", "yes"} /\ up \in {"no", "yes"} /\ started \in {"no", "yes"}
  /\ bound \in Name \cup {None}
  /\ ingest # None => started = "yes" /\ ingest.spool \in Name

-----------------------------------------------------------------------------
(* The ingester.                                                            *)

\* NewClientForWorkDir: the token of the agent that the directory is of; when that
\* file is missing, the one of the harness that the actor runs under.
IngestToken(dir, actor) ==
  LET agents == Registry(cfg, dir).agents
      declared == IF actor \in DOMAIN agents THEN agents[actor] ELSE None
      harness == ResolveHarness(declared, None, proc.harness)
  IN IF DeclaredHarness(cfg, dir) \in minted THEN DeclaredHarness(cfg, dir)
     ELSE IF harness \in minted THEN harness ELSE None

\* maybeStartIngest: in the worktree of an agent that opted in, outside of workers,
\* once per server.  The spool is of the worktree's agent, whoever calls.
MayIngest(dir, actor) ==
  /\ actor # None
  /\ Runs(cfg, dir)
  /\ proc.worker = "no"
  /\ FlagEnabled(Registry(cfg, dir), FamActor(dir))
  /\ started = "no"

MaybeStartIngest(dir, actor) ==
  IF MayIngest(dir, actor)
  THEN /\ started' = "yes"
       /\ ingest' = [spool |-> FamActor(dir), token |-> IngestToken(dir, actor)]
  ELSE UNCHANGED <<started, ingest>>

\* maybeStartIngestForWorkDir, with the actor that the directory itself names.
MaybeStartIngestFor(dir) ==
  MaybeStartIngest(dir, ResolveLocate(cfg, dir, None, None, proc.harness).actor)

\* The ingester fails; a moment later its goroutine lets the next call start one.
IngestFails ==
  /\ ingest # None
  /\ ingest' = None
  /\ UNCHANGED <<cfg, minted, proc, live, up, bound, host, started, acted>>

IngestRearms ==
  /\ started = "yes" /\ ingest = None
  /\ started' = "no"
  /\ UNCHANGED <<cfg, minted, proc, live, up, bound, host, ingest, acted>>

-----------------------------------------------------------------------------
(* A tool call.                                                             *)

\* resolveWorkDir, without roots: the working directory, or $PWD under "/".
DiscoveryDir ==
  IF proc.cwd # Slash THEN proc.cwd
  ELSE IF proc.pwd # None /\
          ResolveLocate(cfg, proc.pwd, None, None, proc.harness) # NoContext
       THEN proc.pwd ELSE proc.cwd

\* The context of a call: without the client's name, only with the environment's
\* harness.
CallContext(dir, callActor) ==
  ResolveRegistry(cfg, dir, proc.pwd, callActor, None, proc.harness)

\* resolveActor: who executes, and is it somebody else's tree?  The session is bound
\* by the first call, unless that is a mutating one in a foreign tree.
Executing(callActor, dirActor) ==
  IF callActor # None THEN callActor ELSE IF bound # None THEN bound ELSE dirActor
Conflict(callActor) == bound # None /\ callActor # None /\ callActor # bound
Binding_Bug(executing, dirActor, tool) == bound
Binding(executing, dirActor, tool) ==
  IF bound # None THEN bound
  ELSE IF executing # dirActor /\ ~ReadOnly(tool) THEN None ELSE executing
Cross(executing, dirActor, tool) ==
  LET b == Binding(executing, dirActor, tool) IN
    (IF b # None THEN b ELSE executing) # dirActor

\* The serve gate.
Gate_Bug(c) == c.role # "unknown"
Gate(c) == c.role = "agent"

\* How a forge call goes: to the supervisor in a worker, unless it only reads or the
\* resolver knows no live session; else straight to the forge.
Route(tool) ==
  CASE tool = "worktree" -> "local"
    [] ReadOnly(tool) \/ proc.worker = "no" -> "direct"
    [] proc.worker = "socket" \/ live = "yes" -> "outbox"
    [] OTHER -> "direct"

Given(dir) == IF dir = None THEN DiscoveryDir ELSE dir

\* callTool: runPreamble and the handler.  A refused call still binds the session when
\* the refusal is the one for foreign trees.
Call(tool, arg, callActor) ==
  LET dir == Given(arg)
      c == CallContext(dir, callActor)
      executing == Executing(callActor, c.actor)
      cross == Cross(executing, c.actor, tool)
      allowed == ReadOnly(tool) \/ ~cross
  IN /\ up = "yes"
     /\ IF ~Gate(c) \/ Conflict(callActor)
        THEN UNCHANGED <<bound, host, started, ingest, acted>>
        ELSE /\ bound' = Binding(executing, c.actor, tool)
             /\ IF ~allowed
                THEN UNCHANGED <<host, started, ingest, acted>>
                ELSE LET actor == IF bound' # None THEN bound' ELSE executing IN
                       /\ MaybeStartIngest(dir, actor)
                       /\ acted' = [actors |-> acted.actors \cup {actor},
                                    trees |-> acted.trees \cup
                                                IF ReadOnly(tool) THEN {} ELSE {c.actor}]
                       /\ host' = IF Route(tool) = "direct" /\ host = None
                                  THEN c.forge ELSE host
     /\ UNCHANGED <<cfg, minted, proc, live, up>>

\* orient, and every resource, only look; and they start the ingester.
Orient(arg) ==
  /\ up = "yes"
  /\ MaybeStartIngestFor(Given(arg))
  /\ UNCHANGED <<cfg, minted, proc, live, up, bound, host, acted>>

ReadResource ==
  /\ up = "yes"
  /\ MaybeStartIngestFor(DiscoveryDir)
  /\ UNCHANGED <<cfg, minted, proc, live, up, bound, host, acted>>

-----------------------------------------------------------------------------

Init ==
  /\ cfg \in Configs /\ minted \in SUBSET Harness
  /\ proc \in Environments
  /\ live = "no" /\ up = "no"
  /\ bound = None /\ host = None /\ started = "no" /\ ingest = None
  /\ acted = NothingDone

\* Serve starts the ingester from the working directory, then reads messages ...
Serve ==
  /\ up = "no"
  /\ up' = "yes"
  /\ MaybeStartIngestFor(proc.cwd)
  /\ UNCHANGED <<cfg, minted, proc, live, bound, host, acted>>

\* ... until the input ends or a frame is malformed (readFrame).  The next session is
\* another process.
Ends ==
  /\ up = "yes"
  /\ up' = "no"
  /\ bound' = None /\ host' = None /\ started' = "no" /\ ingest' = None
  /\ acted' = NothingDone
  /\ UNCHANGED <<cfg, minted, proc, live>>

EditConfig ==
  /\ cfg' \in Configs
  /\ UNCHANGED <<minted, proc, live, up, bound, host, started, ingest, acted>>

Mint(h) ==
  /\ minted' = minted \cup {h}
  /\ UNCHANGED <<cfg, proc, live, up, bound, host, started, ingest, acted>>

SessionComesOrGoes ==
  /\ proc.worker = "resolver"
  /\ live' \in {"no", "yes"} \ {live}
  /\ UNCHANGED <<cfg, minted, proc, up, bound, host, started, ingest, acted>>

Next ==
  \/ Serve \/ Ends \/ EditConfig \/ SessionComesOrGoes
  \/ \E h \in Harness : Mint(h)
  \/ \E t \in Tool, d \in Dir \cup {None}, a \in Name \cup {None} : Call(t, d, a)
  \/ \E d \in Dir \cup {None} : Orient(d)
  \/ ReadResource \/ IngestFails \/ IngestRearms

Spec == Init /\ [][Next]_vars

-----------------------------------------------------------------------------
(* Properties.                                                              *)

\* A tool runs only where the runtime itself would start, and for the agent it would
\* start as: the serve gate and ResolveFam, which find out who owns a directory in
\* two different ways, agree.  Excused are the directories where they are known to
\* differ, and those that name nobody until the call does.
GateAgrees ==
  \A d \in Dir, a \in Name \cup {None} :
    LET c == CallContext(d, a) IN
      Gate(c) => \/ KnownDifference(cfg, c.dir)
                 \/ DirActor(cfg, c.dir) = None /\ c.actor = a
                 \/ Runs(cfg, c.dir) /\ FamActor(c.dir) = c.actor

\* One session acts as one agent, and changes things only in that agent's own tree,
\* in whatever order calls name actors and directories, are refused, and the
\* configuration changes between them.
OneActorActs ==
  Cardinality(acted.actors) <= 1 /\ acted.trees \subseteq acted.actors
=============================================================================
