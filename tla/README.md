# botfam in TLA+

A verification project for botfam: TLA+ modules translated from the Go source,
configurations that model-check them with TLC, and theorems about them that the
TLA+ proof system checks for every value of the constants.

## The system

botfam is a command-line tool that lets a family of AI agents work on one Gitea
forge. Each agent has a checkout and a harness that hosts botfam's MCP server; a
*sprint* is a supervisor process that hands issues to worker processes one by
one. Processes share no memory. They meet in files, in a SQLite database, in git
repositories and on the forge, and most of what is hard in this code is that
another process can act, or die, between any two of those accesses.

| Part | State it keeps | Operations | What makes it correct | Module |
|---|---|---|---|---|
| Lease (`eventdelivery/singlehost`) | the session file of a repository, its `flock`, the `Lease` object | Acquire, SetEndpoint, Release, Close | one holder; the file names it; no leaked lock; tokens grow | `Lease` |
| Forge-action outbox (`workerchannel`, `store`) | tables `forge_action_outbox`, `action_attempts` | ProposeForgeAction, release of claims on opening | a recorded action is never run again, an answer is what was recorded | `Outbox`, `ForgeAction` |
| One supervisor after another (`sprint.go`, `singlehost/server.go`) | the socket's path, the proposals still served | open, serve, release, close | an action is repeated only by a takeover; who holds the lease is reached | `Handover` |
| Supervisor loop (`cli/ops/sprint.go`) | tables `work_items`, `dispatches`, `work_item_state_transitions`; map `workers`; worker processes | dispatch, result, TTL, stop | an item is settled once, in the end; the log tells how | `Supervisor` |
| Sprint sessions (`sprint.go`, `sprint_inspect.go`) | table `runs`, marker `ended_at`, the session file | sprint start, run, end, ls, show | one running row per serving supervisor; `end` stops the right process and only then marks | `Sprint` |
| Session store (`eventdelivery/store`) | `session.db`, `session.sql`, the session's git repository | OpenSessionRepo, CaptureCrashedRun, Dump, snapshots | what a crash leaves is committed before it is changed; a reported change is committed | `SessionRepo` |
| Observation (`eventdelivery/observe`) | `raw_observations`, `work_items` | Translate, PollHeadSHA, PollCommitStatus, Standing, Ingest | history makes no work, news makes work | `Observe` |
| Agent spool (`ingest`, `mailbox`, `cli/ops/wait.go`) | Maildir `tmp/new/cur`, `cursors.json`, the writer lock | Ingester.Run, Poll, Deliver, wait | at-least-once from the forge to the agent's screen | `Spool` |
| Memory (`memory`, `cli/ops/memory_cmd.go`) | pages of a wiki repository, a clone per agent | Load, Write, Forget, publish | nobody overwrites a text unseen; a reported write is published | `MemoryStore` |
| Identity (`famctx`, `famconfig`) | `~/.botfam/config.toml` | ResolveFam, GitResolver, registries, flags | the two resolvers agree about who owns a directory | `FamIdentity` |
| MCP server (`mcp`, `forge/client.go`) | the bound actor, the hosted ingester, the forge's host | tool calls, orient, resources | nobody is let through whom the runtime would refuse; one session, one agent | `McpServer` |
| Worktrees (`provision`) | branches, the shared stash, identities, wiki clones | worktree init, sync | an agent's work stays in its worktree | `Worktree` |
| Setup (`cli/setup`, `harness`, `famconfig/config.go`) | `config.toml`, harness configurations, worktrees | setup, clone, newfam | commands side by side, or killed, lose nothing of each other's | `Provision` |
| `botfam run` (`cli/ops/run.go`) | a run directory | runIssue | the verdict is what happened; the deadline bounds the run | `RunIssue` |
| External review (`cli/review/external_review.go`) | an output directory | fan-out to models, manifest | the manifest names what is there | `Review` |
| Meta-review (`metareview`) | comments and labels | detect, classify, post | an unfounded risk is not posted as certain | `MetaReview` |
| Session extraction (`cli/ops/session_extract.go`) | none | session extract | two extractions of one snapshot agree | `Extract` |
| Lint and graph of the forge (`forge`, `mangle`, `issuegraph`, `cli/review`) | none | forge lint, forge graph, mangle | a scope's violations, no others | `ForgeHistory` |
| Wiki provider, generated RPC code, embedded docs | none | reads | — | not modelled |

How they interact. `setup`, `clone` and `newfam` (**`Provision`**) write the
configuration that every **identity** is resolved from, and the worktrees that
`worktree sync` keeps up to date (**`Worktree`**). `sprint start` seeds work items
in the session's database. `sprint run` takes the **lease**, opens the session
(which marks runs as crashed and releases claims of the **outbox**), stamps its
socket into the session file, and enters the **supervisor loop**, whose workers
are `botfam run`s or commands of their own. A worker's forge tools reach the
supervisor over the socket as proposals to the **outbox**, as long as the **MCP
server** of the worker finds it. `sprint end` and `sprint ls` read the session file
without a lock. Every harness hosts an **MCP server**, which starts an **ingester**
that copies forge notifications into the agent's **spool**; `botfam wait` drains it;
`botfam memory` edits the fam's **memory** in a clone of its wiki. Reviews,
extraction, lint and graph read the forge and write reports. The **observation
layer** is a library that turns forge threads into work items; no command calls
it yet.

Hard behaviour, in short: a lock on an inode and a file found by name; sequences
of statements without a transaction and with ignored errors; a process that dies
between any two of them and another that cleans up; a late result of a worker
that was given up; requests whose context is cancelled half-way; a lease given
back before the work under it is over; watermarks in whole seconds; a working
tree, a stash or a temporary file that two processes take for their own; two
resolvers of one identity; pages of a listing that changes while it is read.
`PROJECT.json` lists these hazards line by line with the properties that would
notice them.

## Modules

Every definition of a module has the lines it stands for in `PROJECT.json`
("map"). A name that ends in `_Bug` (or `_Swapped`, `_Eager`) is a faulty variant
of the definition after it; no specification uses it, and it serves to show that
a property fails when the code is wrong in that way.

- **`Lease`**: one variable for the name (`path`), one for what each inode holds
  (`content`), one for the lock of each inode (`flock`), and the locals of
  `Acquire` per process. An action is one system call or the stretch up to the
  next one: open, lock-and-truncate, write, unlock, unlink. The mutex of a Lease
  object makes the calls of a process sequential, so it has one `pc`. `high` and
  `torn` are history.
- **`Outbox`**: the columns of a row that decide anything, and a `pc` per
  goroutine. Each database statement of `ProposeForgeAction` is an action and can
  fail where the code lets it fail. `Open` and `Stop` are the supervisor.
- **`ForgeAction`**: the abstract specification of one forge action: runs may
  repeat until one result is recorded; then never again. `Outbox` implements it
  with `result = response` of a committed row.
- **`Handover`** EXTENDS `Outbox` and replaces its supervisor by several, one
  after the other, each with the listener its calls came in by. A supervisor
  gives the lease back, then closes; the next one may come between.
- **`Supervisor`**: the loop runs one handler at a time, and a handler is a list
  of statements (`todo`). A statement can succeed, fail (the error is dropped) or
  be cut off by a crash. Results of workers wait in `results`.
- **`Sprint`**: `sprint run` from the recovery of its run number to its release
  of the lease, and `sprint end` between its looks at the session file. The lease
  is exclusive here; `Lease` says when it is. PIDs outlive processes, and an
  unrelated process may get one.
- **`SessionRepo`**: the database and the artifacts are version numbers; the dump
  is an inode that is created, written and renamed; git is its index and its last
  commit. A snapshot is dump, create, write, rename, add, commit, and any process
  can die between two of them.
- **`Observe`**: a pass is a plan of events, each recorded and then, if it is
  news, turned into a work item; a pass can stop between the two.
- **`Spool`**: hosts of the ingester compete for the writer lock; time is in
  seconds as in the forge's `updated_at`. A poll sees one of `Pages`, the newest
  `PageLimit` of the unread threads (50 in the code), and never a second page; which
  of two threads of one second comes first is up to the forge. Readers list, read one
  by one, print and move.
- **`MemoryStore`**: the remote is a sequence of commits, a clone a prefix of it
  and the commits on top. A page has a banner line and a body, the two hunks git
  merges one by one; `Replay` is `git pull --rebase`.
- **`FamIdentity`**: constants and operators, no state. A directory is given by
  what the code asks of it (ancestors, toplevel of its worktree, names in its
  basename), a configuration by its roster and stanzas. `ResolveFam` and the
  chain of `GitResolver` and `famctx.Resolve` are translated separately;
  `KnownDifference` lists where they are known to differ.
- **`McpServer`** EXTENDS `FamIdentity`. Messages are handled one at a time, so a
  call is one action, with refusals, binding, the ingester it may start and the
  host it fixes; the operator edits the configuration and mints tokens between
  calls, and the ingester fails beside them.
- **`Worktree`**: a branch is the number of upstream commits it has; changes are
  named after the worktree they are made in; the stash is one sequence for all
  worktrees. An action is a git command.
- **`Provision`**: a file is its inode and the set of its entries, empty when
  truncated. `config.toml` is loaded, opened, written, renamed; a harness
  configuration is read and replaced under a lock, or truncated in place by
  `newfam`; a worktree is a directory, then linked, then has an identity.
- **`RunIssue`**: one run with the deadline, the child and what holds its pipes,
  the trace file others append to, and the files of the run directory one by one.
- **`Review`**: the goroutines of the models, and the files of the directory with what
  is in them: nothing yet (`empty`), a part (`partial`), an answer, or a mixture of two
  (`mixed`). `os.WriteFile` truncates and then writes: for a review and for the
  MANIFEST these are two steps, so that another goroutine, a failure or a kill may come
  between (`Answered`, `WriteReview`; `BeginManifest`, `EndManifest`). `Unfinished` is
  what a write that fails or is cut short leaves, of a MANIFEST one that is not whole
  and names some of the models.
- **`Review`**, **`MetaReview`**, **`Extract`**, **`ForgeHistory`**: the models that
  answer, and the forge that changes, are nondeterministic; options are records
  that differ in every setting the code looks at. `ForgeHistory` covers lint and
  graph, which share their listings and scopes, and evaluates the rules of
  `forge_lint.mg`.
- **`MC*`** instantiate modules for TLC. `MCSession`, `MCTools` and `MCFleet` hold
  several components that never meet and run one of them per behaviour
  (`part`); the others stay in an initial state. Their assumptions about
  constants are plain predicates (`SprintAssumption` and so on) that the MC module
  ASSUMEs of its instances.
- **`*Proofs`** hold the theorems: `SupervisorProofs`, `ObserveProofs`, `SpoolProofs`
  and `McpProofs` of the module they are named after; `OutboxProofs` of `Outbox` and
  `Handover`; `ProvisionProofs` of `Provision` and, as the instance `W` of `MCFleet`,
  of `Worktree`; `SessionProofs` of `Sprint` and, as the instances `R` and `M` of
  `MCSession`, of `SessionRepo` and `MemoryStore`; `ToolsProofs` of `Lease` and, as the
  instances `U`, `R`, `M`, `X` and `F` of `MCTools`, of `RunIssue`, `Review`,
  `MetaReview`, `Extract` and `ForgeHistory`. The instances leave every constant open.

## What TLC checks

| Run | Shows | Bounds |
|---|---|---|
| `lease` | no leaked lock, one lease per inode, the file names its holder, tokens grow | 3 processes (holder, late opener, successor), 2 inodes (before and after an unlink), tokens to 3 |
| `outbox` | one execution at a time, honest answers, `ForgeAction` implemented | 3 calls (runner, retry, latecomer), 2 actions, 2 responses, 3 runs of an action |
| `handover` | an action is repeated only by a takeover; a serving supervisor is reached | the same calls, 2 supervisors; 1.3 million states |
| `supervisor` | settled for good, the log tells the path, pending items settle | 3 items (one without a command), 3 workers, one at a time as in the code, 2 runs, 1 failing statement; crashes anywhere |
| `observe` | quiet history, no comment overlooked, changes make work | 2 comments, 2 values, one scalar of `Translate` and one of the polls; any number of failures and restarts |
| `spool` | nothing skipped but what a full page leaves out, and that only while more is unread than it has room for; duplicates only for faults, a standby takes over; printed before moved | a page of 2. 2 threads (one directed), 2 hosts, no reader, and 3 seconds with one fault (`LateFaults`) or 2 seconds (`ShortClock`) with two; or 1 host, 2 readers, 2 seconds and no fault but of the readers (`ReadFaults` 0); or 3 threads, 1 host and no reader, with 3 seconds and no fault or 2 seconds and one (`CrowdFaults`) |
| `session` | run rows true, `end` stops before it marks and signals only its own session; a crashed run is captured, a reported change committed; no text overwritten unseen, a reported write published | `Sprint`: 3 runs, 2 sessions. `SessionRepo`: 2 commands, 3 inodes, 3 versions of the database, 1 of the artifacts. `MemoryStore`: 2 agents with a process each, 2 facts, 4 commits, 2 pushes per command (5 in the code) |
| `mcp` | the gate agrees with the runtime, one session acts as one agent | 8 directories (`/`, the fam, two worktrees, a wiki clone, the base checkout, a directory in it, an unborn repository), 5 configurations, 7 environments, 3 names, 2 harnesses |
| `fleet` | an agent's changes stay home; stanzas, an operator's entries and registrations are kept; a finished clone is complete | a setup, a clone and a newfam of 2 fams with 1 agent, killed anywhere; 2 worktrees, 3 changes (one in a nested repository), 1 upstream commit |
| `tools` | a run's verdict, traces, grants and deadline; a review's manifest; a meta-review's trust; two extractions; lint and graph | 6 command lines, 2 spans; 2 reviews of up to 3 models; 2 artifacts, 1 run; 2 extractions, 3 items, 2 seconds; 3 issues, 2 pull requests, 2 changes meanwhile |

Why these bounds are enough to be interesting. Two inodes are the least for a
lock on an unlinked file and three processes the least for a late opener beside a
successor. Three calls allow a retry between the claim and the record of another,
two supervisors a takeover of it. Two supervisor runs with three workers allow a
crash, an orphan and a redispatch. Two values make a scalar change and change
back. Three seconds put activity before, in and after the second of a poll. Two
processes are enough for a snapshot beside a run, and three versions for a start,
a run and its changes. Four commits allow a page that both agents wrote to be
edited by both again, and two pushes a retry and its exhaustion. Three threads
overflow a page of two, so that a poll leaves one out and goes on. The directories
of `mcp` differ in every question the resolvers ask. One command of each kind, two
of them on one fam, meet in every file `Provision` has. Two worktrees are the least
for a stash that is shared. Three issues make an epic with a grandchild and a
cycle, and two changes a pull request that is merged between two pages while an
issue is reopened. The options of the reviews have two models of one slug for a local
provider and for a remote one. The bounds are in the guards of the actions or in the MC
modules (`MaxToken`, `MaxRuns`, `MaxStarts`, `MaxFaults`, `MaxClock`, `MaxEdits`,
`MaxVersion`, `MaxArtifacts`, `MaxCommits`, `MaxSpans`, `MaxTime`, `MaxIssue`,
`MaxChanges`, `Items`, `Comments`; `MaxAttempts` is the code's `maxPushAttempts`).
Where all processes may have died or the budget is spent a model stops, so those
runs do not check for deadlock.

Two runs check what a comment says and show that the code does otherwise; the
findings in `PROJECT.json` quote the comments.

| Run | The comment | What happens |
|---|---|---|
| `lease_exclusive` | the lease is exclusive over the repository | A opens the file; B releases: unlocks, A locks the old inode, B unlinks; C creates and locks a new one |
| `memory_shared` | the push and rebase loop handles concurrency between processes | two commands of one agent share a clone; the reset of one drops the commit of the other, whose push finds nothing to send and reports success |

More findings have no run of their own. Where a property would fail because of
one, the module keeps the case apart and the property excuses exactly that case,
so that everything else stays checked:

| Excused | In | By |
|---|---|---|
| activity in the second a poll has delivered; threads that a full page left out | `Spool` | `raced`; `crowded` |
| events recorded and cut off before their work item; heads that `Standing` records first | `Observe` | `torn`, `cut`; `ingested` |
| overlapping snapshots; files a capture sees and never stages | `SessionRepo` | `clash`, `overlapped`; `stray` |
| claims released under a running action; a path unlinked by the predecessor | `Handover` | `orphaned`; `cut` |
| syncs that overlap, or whose stash push found nothing | `Worktree` | `mixed` |
| two commands that had `config.toml` loaded at once; newfam beside another editor | `Provision` | `raced`; `exposed` |
| directories the resolvers disagree about; a base checkout that takes the call's actor | `McpServer` | `KnownDifference`; the second disjunct of `GateAgrees` |
| descendants of a harness that hold its pipes | `RunIssue` | `held` |
| models of one slug; the mixture that remote ones of them may leave; a directory two reviews were given; a MANIFEST that was cut short and names too few | `Review` | `SameFile`; `Shared`; `Alone`; `whole` |
| models that answer what they were not asked | `MetaReview` | `obedient` |
| items edited meanwhile; issues one of two extractions did not read | `Extract` | `edited`; `read` |
| pull requests that move while they are listed; issues out of scope | `ForgeHistory` | `moved`; `InScope` |

The others are a second agent beside one that timed out (`Supervisor`), label
sets that return to an earlier value (`Observe`), a recycled PID taken for a
supervisor (`Sprint`), a tombstone merged cleanly with a new body (`MemoryStore`),
names and e-mail addresses set in the wrong order and a fast-forward of another
branch than the message names (`Worktree`), and smaller ones about options and
reports.

### Fairness

Safety needs none. `Supervisor` assumes weak fairness of the loop's own steps (it
is one goroutine whose handlers do not block), strong fairness of handling a
result and of timing a worker out: `select` picks among ready channels at random,
and every tick looks at the clock. Nothing makes a worker end by itself, a
statement succeed, or a supervisor stay up; `PendingSettles` excuses the last
two. `Spool` assumes weak fairness of a running host (its ticker); nothing makes
a host start or an agent call `wait`. `RunIssue` assumes weak fairness of the
command's own steps, which wait for nothing but the child, and of the kill after
the deadline (a goroutine of `exec.CommandContext`); nothing makes the harness
end, or its descendants close the pipes.

## What is proved

The theorems hold for all sets of processes, inodes, sessions, calls, actions,
responses, supervisors, workers, items, hosts, readers, threads, commands, fams,
agents, worktrees, changes, directories, configurations, facts, options, issues, pages,
models, artifacts, items, pull requests and users, and for all values of
the bounds. They assume what the modules assume of their constants: `None` is not an
element of the sets (`LeaseAssumption`, `OutboxAssumption`, `HandoverAssumption`,
`SupervisorAssumption`, `ObserveAssumption`, `SpoolAssumption`, `SessionAssumption`) and
no roster's name (`McpAssumption`), the bounds are natural numbers, a thread has a
scalar that `Translate` looks at, every command is one of the three
(`ProvisionAssumption`), every change is made in a worktree (`FleetAssumption`), every
directory has a list of directories above it (`DirAssumption`), and of the commands
(`ToolsAssumption`) that an option has finitely many references and a list of tools, that
the forge has finitely many pull requests, that an issue has an item which opens it and
that milestones have different numbers. Three theorems assume more. `SettledOnce`
wants `MaxInFlight <= 1`, the value of `sprintMaxInFlight`; with two workers in flight a
handler can begin between the statements of another. `NobodyOverwritesBlindly` and
`SuccessMeansPublished` want that an agent has one process at a time (`AgentsAlone`): the
run `memory_shared` shows what happens in a clone that two share.

None of the safety properties is inductive by itself. For each component an
invariant adds what the next step needs; TLC checked it on the run's bounds before
it was proved, and the lemmas go action by action.

Lease. The inductive invariant `LeaseInv` adds three parts to the types and the
properties. `OpenFiles` ties `pc` to the files a process has open and says that
each of them was created. `NewInode` says that a running Acquire never locks the
inode of the lease it replaces. `TokensKept` says that on an inode nobody tore
whoever can write next (the running Acquire, the holder, or else the file itself)
knows a token at least as large as all granted before; `TokensAdvance` follows from
it at the next grant, and is not inductive without it. `ExclusiveUntilUnlinked` is
not part of `LeaseInv`: an inode has one lock, so `LocksAccountedFor` gives one lease
per inode, and `OpenFiles` puts every lease on an inode that was created, of which
there are two as soon as there are two leases.

Outbox. `IInv` adds `CallsWellFormed` and `RowsWellFormed` to the types and the
properties: a call that has begun has an action and a supervisor, one in flight has
run its action, one that succeeded has a response; a committed row has a response
of an action that was run. `SingleFlight` is inductive with these. Recorded results
follow: a row is committed only by the one call that holds its claim, and `Open`
releases claims only when no call is left, because the supervisor's death ended
them. The refinement is a step simulation: a claim maps to `Run`, a recorded commit
to `Record`, everything else to a stutter.

Handover takes that last premise away. What is left is proved of the actions that
were never released under a running call: `UnreleasedInOrder` says that at most one
call claims such an action, that the row says so while it runs and that the attempts
log follows the row; `TakeoverOnly` is its consequence. `Reachable` needs that one
supervisor at a time is between opening and releasing (`OneHolder`).

Supervisor. A handler is a list of statements, so the invariant is about lists.
`HandlerInOrder` says that the running handler is what is left of one settlement,
dispatch or rejection, followed by items that nothing has begun about; `PathsTold`
says how far the item of that handler got and what its log says by then, and that
the log of every other item is its path; `TrackedRun` that a tracked worker is the
only one of an item that is running. `LogTellsPath` follows. Settling for good needs
one more part, `OneInFlight`: no worker is tracked whose item is settled, because a
dispatch waits until nothing is in flight.

Observe. A pass is a plan of events. `PassInOrder` says that what it fetched is
recorded or still ahead, `LaterInOrder` and `HistoryInOrder` on which side of first
contact a comment lies, and `OneBaseline` that of two values of a scalar that are
recorded and not dispatched, and whose pass was not interrupted, both are one. The
events of a plan are distinct (`Diff` and the fetch order), which is why recording the
head of a plan takes it from what is ahead.

Spool. `NothingPassedBy` relates an event to every watermark: one that the
checkpoint, a host's memory or its latest delivery has passed is delivered or
excused, or on the list of the poll. What a page of any size has no room for when the
poll is made is noted in `crowded`, and `OnePageIsEnough` says what that excuse is for:
as long as a page has room for all that is unread, `crowded` is empty, because there is
never less unread than before. `NothingSkipped` then excuses no more than the comment
on the poller does. `FewCopies` counts: an event that no watermark
has passed has at most as many copies as there were faults, one less than the
property allows, so that delivering it once more is within it. `WithinHorizon` says
that no watermark is ahead of what some poll has reached, so that activity is beyond
every watermark or is noted in `raced`.
`ReaderInOrder` ties what a reader has printed to what it is about to move. Copies
are counted with `Cardinality`, so the spool is finite by invariant too.

Sprint. `OneHolds` says that the lease is held by the one process between Acquire and
its exit. With it `RowsInOrder` follows a run from the UPDATE of the crashed rows
through the INSERT to its loop: nobody else can touch the rows of a session
meanwhile. `FileInOrder` says whose the session file is while it is stamped: a
supervisor that has passed its start, of that session if it still has the lease.
`EndInOrder` carries this over to the PID that `sprint end` has read, and says that of
those it saw serving none is in its loop once it goes on to mark.

Session store. `Alone` says that a snapshot nothing has overlapped is the only one,
`Needed` that what it must see committed was there when it began, and `DumpInOrder`
follows that version from the read through the temporary file, the rename and the
index to the commit. With three commands a proof attempt, and then TLC, refuted what
`CapturedBeforeChange` said at first, that the capture still is the last commit when
the run changes the database: two later commands that overlap can commit a torn
dump on top of it. It now says what holds for any number of commands and what
recovery needs, that the capture is the last commit when the run goes on to open the
database; later commits leave it in the history.

Provision. `CompleteMeansReady` is not inductive: between the last worktree and the
report lie the edits of the harness configuration, and other commands work on the
same worktrees all the while. The invariant `Struck` says that an actor a command
has struck off its list has a worktree with an identity, and that a command is
past its worktrees only with an empty list. Every step of every command leaves
worktrees alone (`Elsewhere`, `Stays`) or moves one towards its identity and never
back (`AddTreeKeeps`, `FillTreeKeeps`, `SetIdentityKeeps`); `Inductive` puts them
together, and `CompleteReady` follows. For the two shared files `OneWriter` says
that until two commands race only one has `config.toml` loaded, `InTurn` who holds the
lock of the harness configuration, `NothingLost` that what an editor has yet to
write lacks nothing of what must stay, and `KeptOrOpen` that the file itself lacks
nothing, but while a newfam has it truncated.

Worktree. `Homes` extends `StaysHome` to the stash: what an agent pushed is its own,
but for what a mixed sync gave it. `OnTop` says that a sync which pushed something,
and which no other has disturbed, finds its own entry on top: whoever pushes or pops
in between is recorded in `mixed`, and an agent that pops by hand is not in a sync.

MCP server. `OneActorActs` counts the agents a session has acted as; the invariant
`Bound` says who that is, the actor the session is bound to. A call that runs a
tool has an actor (`GateNames`: the gate asks for an agent in a registry, no roster
names `None`, and a registered directory has an innermost stanza, `Matched`, by the
well-foundedness of the natural numbers), which becomes the session's or is it already, and
for a tool that changes something it is the tree's own (`Executor`). The end of a
session is the only step that unbinds it. `GateAgreement` compares the two resolvers
by cases: `GateContext` says what the gate has looked up in which directory, and
`ResolversAgree` that the chain of the runtime finds the same agent there unless
`KnownDifference` names the reason why not.

Memory store. `MemoryInv` follows a command from its load to the push. `Outgoing`
says that a clone has one commit on top of the wiki, the command's own as the rebases
left it, which `Fits` the page in the clone: a write has a body of its own and knew the
one that is there, a tombstone keeps the body. A push makes the clone's page the
wiki's, so `NoBlindOverwrite` follows; a rebase must show `Fits` of the page that was
pulled (`Replay`, a merge hunk by hunk), and a command whose tombstone was there already
is left with no commit (`Tombstone`). `Numbered` says that what is not published has a
number nobody published. The proof refuted what `AckedPublished` said at first, that
the page is published as the command made it: another agent's edit of the body may
merge into it before the push. TLC finds the counterexample with one fact and five
edits, beyond the run's bound. The property now says what the code promises for any
bound, that the commit is published, or a tombstone with the very banner was there.

RunIssue. `GrantsAsked` needs no invariant but that the options stay; it is about the
translation of an allowlist of any length, token by token (`AskedForStep`). For
`VerdictTrue`, `FilesInOrder` says that a file is begun when those before it are whole,
`HarnessDone` that nothing is written before the harness has ended and what its class
says of it is so, and `GoalKept` that the goal has one entity of each reference from the
launch on, in whatever order and with whatever failures they were looked up
(`GoalIsGoal`). `TracesKept` says that the spans from before the run lie before
the offset, or the file is shorter than the offset and is read from its start.

Review. `ReviewInv` is about runs that own their directory. `FileKept` says of the file
of a review, which models of one slug share, that it is not there and none of them has
begun it, or that one has written it and it is the whole answer of one that did, or a
mixture if they are remote; unless a write is under way or failed. `WritingKept` says that
a file which is being written and is not shared side by side is the truncated one: the
models of a local provider are asked in their order (`InOrder`), so while one writes, none
of the others does (`WritesAlone`). `ManifestKept` says that a MANIFEST is begun when all
reviews are accounted for, names reviews that ran, and all of them if it is whole.
`CutShort` shows that whatever a failed write or a kill leaves at any point keeps this. Of
two runs neither touches the directory of the other, unless both were given it.

MetaReview. `Believed` says that what the driver is about to post is what it may, through
the clamp, the second model and the deduplication of its candidates.

Extract. `Gathered` says of an extraction that began when the second of the snapshot was
over that it has a line for whatever it has passed, is in its window and nobody edited;
`TimesInOrder` that nothing has a time yet to come, so that what is made after such an
extraction began is outside the window. Two extractions then agree line by line.

ForgeHistory. `SnapInv` says between two pages that what stood all the while was read or
is still to come (`IssuesRead`, `PullsRead`), and that what was read stood at some time,
or is about a pull request that moved. Listings come newest first, so what people add
meanwhile pushes the unread to later pages and nothing is passed over; something may be
read twice. What was read of a pull request that is merged or pushed to meanwhile need
not have been true at any one time. The reports follow when the last page is
in, because the rules find what such facts say (`Finds`). The scopes are the least sets
closed under task lists, whatever cycles those have.

`CommandsKeepTheirWord` puts the seven invariants of these commands together, of the very
specification that TLC runs.

Recursion. The goal, the grants, the rebase and the scopes are recursive functions. The
library's induction theorems take an operator as a parameter, which the provers cannot
instantiate; `RecursionExists` says instead that a function defined by recursion over
`0..n` exists, with steps that are functions too, and `UpTo` that a set which has 0 and is
closed under successors up to `n` has all of `0..n`, from the well-foundedness of the
natural numbers. What a recursion keeps is then a set of numbers.

Only model-checked is liveness (`PendingSettles`, `ActivityArrives`, `TimeoutBounds`), since
fairness and ENABLED are outside what the prover handles. The invariants and action
properties of the runs that pass are all proved.

## What the models leave out

- `Lease`: `Renew` changes nothing. Directory errors of `ConfigPath` end a call
  before it touches state, like `AcquireAbandon`.
- `Outbox`, `Handover`: arguments and fencing tokens, which no decision depends on.
- `Supervisor`: the run-capture artifact, telemetry and the environment of workers.
- `Sprint`: PIDs that come back as another `sprint run`. `sprint start` and the
  snapshots are in `SessionRepo`.
- `SessionRepo`: git's lock files, so that add and commit are atomic; Restore,
  telemetry and what migrations do. Two runs exclude each other (`Lease`).
- `Observe`: the transition row beside a work item; several threads, which share
  nothing; the baseline a thread may bring (`ThreadRef.BaselineAt`), which no caller
  sets, so that it is always the start of the session.
- `Spool`: what a message says; a message that exists and cannot be read, which a
  `wait` moves without printing; legacy watermarks below the year 2001.
- `MemoryStore`: what a page looks like, so that the body is one hunk, and which
  titles share a page; the steps within a git command; the flags of `memory write`
  keep their defaults and all edits are made on one day, which is when banner
  lines of two edits can be equal.
- `FamIdentity`: symbolic links, the derivation of names and URLs; flags other than
  `legacy_ingest`, which are resolved alike.
- `McpServer`: the text of resources and diagnoses, the framing of messages beyond
  the end of input, and what gitea-mcp does with a call.
- `Worktree`: the contents of files, so that whether a merge or a pop applies is
  nondeterministic.
- `Provision`: the formats of the files, the symbolic link of a fam and the clone
  of the base checkout; git's own locks. `mint` is `McpServer`'s `Mint`.
- `Review`: what the MANIFEST says of prompt and material. The material and the
  prompt are written in one step that may fail half-way: one goroutine writes them, and
  a directory that another command writes into meanwhile is excused (`Alone`).
- `Extract`: the diff summary and the hygiene warnings, which read the forge anew after
  the timeline. The issues of the milestone are listed in one step; the code looks up
  the milestone's title and then filters page by page, so that an issue may also be
  missed, or come twice, when the listing shifts between two pages. `Reproducible` is
  about the timeline of the issues that both extractions read.
- `RunIssue`, `Review`, `MetaReview`, `Extract`, `ForgeHistory`: what files, prompts,
  comments and facts say; redaction; the Datalog engine, whose rules of
  `forge_lint.mg` are written out as sets.
- A power failure that undoes file operations: the models crash processes.

## Not modelled

- The wiki provider (`wiki`) reads pages and keeps nothing.
- `verify` builds and tests a commit in a detached worktree of its own; `doctor`,
  `credential`, `whoami`, `agent_docs` and `sprint show` print or render.
- The evaluation harness of the meta-review scores the same `Assess` as `MetaReview`.
- `contract`, `seam`, `skills`, `docs` and `version` are generated code, wiring and
  embedded text.

## Plan

1. A composition of `Lease` and `Sprint`, so that the exclusive lease of `Sprint`
   and of `SessionRepo` is the lease of `Lease` with its window after an unlink.
2. A composition of `McpServer` with `Spool`, whose hosts are the servers'
   ingesters.
3. Abstract specifications: a session whose committed generations survive, for
   `SessionRepo`; a map with compare-and-swap per fact, for `MemoryStore`; a queue
   with at-least-once delivery, for `Spool`.
