----------------------------- MODULE Provision -----------------------------
(***************************************************************************)
(* `botfam setup`, `clone` and `newfam` (cli/setup): commands that people  *)
(* and agents run side by side, on the files they all write.               *)
(*                                                                         *)
(* ~/.botfam/config.toml (famconfig/config.go) is loaded, extended with a  *)
(* stanza and written to config.toml.tmp, which is renamed over it; there  *)
(* is no lock and the name of the temporary file is fixed, so two commands *)
(* may write one inode.  The MCP configuration of a harness                *)
(* (harness/mcpconfig.go) is edited under a lock and replaced by a rename  *)
(* of a file of the writer's own -- except by newfam, which takes no lock  *)
(* and truncates it in place.                                              *)
(*                                                                         *)
(* A file is the set of the entries in it; truncated it is empty, which    *)
(* every loader takes for a file without entries.  An inode is named after *)
(* the command that made it.  Worktrees: `git worktree add` makes a branch *)
(* and a directory; the identity is set afterwards.                        *)
(***************************************************************************)
EXTENDS FiniteSets

CONSTANTS Proc,      \* runs of the commands
          CommandOf, \* which command each is
          SlugOf,    \* the fam it is run for
          Actor,     \* the agents of every fam
          None

Command == {"setup", "clone", "newfam"}
Slug == {SlugOf[p] : p \in Proc}

ASSUME ProvisionAssumption ==
  /\ CommandOf \in [Proc -> Command]
  /\ DOMAIN SlugOf = Proc /\ Slug \cap {"botfam", "collab", "own", "env"} = {}
  /\ None \notin Proc /\ None \notin [ino : Proc, has : SUBSET Slug]

VARIABLES
  config,   \* config.toml: its inode and the stanzas in it
  tmp,      \* config.toml.tmp, or None
  mcp,      \* the harness configuration: its inode and the entries in it
  lock,     \* the command that holds its flock
  branch,   \* the agents' branches, by fam and actor
  tree,     \* their worktrees: absent, a directory, a worktree, one with an identity
  pc,       \* where each command is
  todo,     \* the actors it has not provisioned yet
  view,     \* the file it has read: stanzas, then entries
  fd,       \* the inode it writes to; its own name while its `git worktree add` runs
  env,      \* did Get show it the operator's environment of the entry?
  raced,    \* history: a stanza was written over another command's
  exposed   \* history: newfam wrote the harness configuration beside another

files == <<config, tmp>>
trees == <<branch, tree, todo>>
vars == <<files, mcp, lock, trees, pc, view, fd, env, raced, exposed>>

\* Entries of the harness configuration.  "own" and "env" are the operator's: a
\* server, and a variable of the entry botfam.
\* The entry forge-<slug> goes by its slug.
Forge(p) == SlugOf[p]
OperatorEntries == {"own", "env"}
Entry == {"botfam", "collab"} \cup OperatorEntries \cup Slug

Writing == {"loaded", "open", "written"}
Editing == {"get", "set", "set*", "drop", "drop*", "retire", "retire*"}
Over == {"done", "failed", "dead"}

TypeOK ==
  /\ config.ino \in Proc \cup {None} /\ config.has \subseteq Slug
  /\ tmp = None \/ (tmp.ino \in Proc /\ tmp.has \subseteq Slug)
  /\ mcp.ino \in Proc \cup {None} /\ mcp.has \subseteq Entry
  /\ lock \in Proc \cup {None}
  /\ branch \subseteq Slug \X Actor
  /\ tree \in [Slug \X Actor -> {"absent", "directory", "plain", "identified"}]
  /\ pc \in [Proc -> {"start", "trees", "read", "truncated"} \cup Writing \cup Editing \cup Over]
  /\ todo \in [Proc -> SUBSET Actor]
  /\ fd \in [Proc -> Proc \cup {None}]
  /\ env \in [Proc -> BOOLEAN]
  /\ raced \in BOOLEAN /\ exposed \in BOOLEAN

Init ==
  /\ config = [ino |-> None, has |-> {}]
  /\ tmp = None
  /\ mcp = [ino |-> None, has |-> Entry \ {"botfam"}]
  /\ lock = None
  /\ branch = {}
  /\ tree = [x \in Slug \X Actor |-> "absent"]
  /\ pc = [p \in Proc |-> "start"]
  /\ todo = [p \in Proc |-> IF CommandOf[p] = "setup" THEN {} ELSE Actor]
  /\ view = [p \in Proc |-> {}]
  /\ fd = [p \in Proc |-> None]
  /\ env = [p \in Proc |-> FALSE]
  /\ raced = FALSE /\ exposed = FALSE

Goto(p, stage) == pc' = [pc EXCEPT ![p] = stage]
Others(p, stages) == \E q \in Proc \ {p} : pc[q] \in stages

-----------------------------------------------------------------------------
(* config.toml.                                                             *)

\* LoadOrInitConfig.
LoadConfig(p) ==
  /\ pc[p] = "start"
  /\ Goto(p, "loaded")
  /\ view' = [view EXCEPT ![p] = config.has]
  /\ raced' = (raced \/ Others(p, Writing))
  /\ UNCHANGED <<files, mcp, lock, trees, fd, env, exposed>>

\* UpsertRepo: the stanza of this fam is set, the others are kept.
Stanzas_Bug(p) == {SlugOf[p]}
Stanzas(p) == view[p] \cup {SlugOf[p]}

\* WriteConfig: open with O_TRUNC, write, rename.
OpenTmp(p) ==
  /\ pc[p] = "loaded"
  /\ Goto(p, "open")
  /\ tmp' = [ino |-> IF tmp = None THEN p ELSE tmp.ino, has |-> {}]
  /\ fd' = [fd EXCEPT ![p] = tmp'.ino]
  /\ UNCHANGED <<config, mcp, lock, trees, view, env, raced, exposed>>

WriteTmp(p) ==
  /\ pc[p] = "open"
  /\ Goto(p, "written")
  /\ IF tmp # None /\ tmp.ino = fd[p]
     THEN tmp' = [tmp EXCEPT !.has = Stanzas(p)] /\ UNCHANGED config
     ELSE UNCHANGED tmp /\ config' = IF config.ino = fd[p]
                                     THEN [config EXCEPT !.has = Stanzas(p)] ELSE config
  /\ UNCHANGED <<mcp, lock, trees, view, fd, env, raced, exposed>>

RenameTmp(p) ==
  /\ pc[p] = "written" /\ tmp # None
  /\ config' = tmp
  /\ tmp' = None
  /\ Goto(p, IF CommandOf[p] = "setup" THEN "get" ELSE "trees")
  /\ fd' = [fd EXCEPT ![p] = None]
  /\ UNCHANGED <<mcp, lock, trees, view, env, raced, exposed>>

\* Another command has renamed the file.
RenameFails(p) ==
  /\ pc[p] = "written" /\ tmp = None
  /\ Goto(p, "failed")
  /\ UNCHANGED <<files, mcp, lock, trees, view, fd, env, raced, exposed>>

-----------------------------------------------------------------------------
(* The worktrees of clone and newfam.                                       *)

Of(p, a) == <<SlugOf[p], a>>

\* git worktree add: clone makes a new branch; newfam uses one that is there.
\* Then the same git fills the directory and links it.
Adds(p, a) ==
  /\ pc[p] = "trees" /\ a \in todo[p] /\ fd[p] = None
  /\ tree[Of(p, a)] = "absent"
  /\ CommandOf[p] = "newfam" \/ Of(p, a) \notin branch

AddTree(p, a) ==
  /\ Adds(p, a)
  /\ branch' = branch \cup {Of(p, a)}
  /\ tree' = [tree EXCEPT ![Of(p, a)] = "directory"]
  /\ fd' = [fd EXCEPT ![p] = p]
  /\ UNCHANGED <<files, mcp, lock, todo, pc, view, env, raced, exposed>>

FillTree(p, a) ==
  /\ pc[p] = "trees" /\ a \in todo[p] /\ fd[p] = p
  /\ tree[Of(p, a)] = "directory"
  /\ tree' = [tree EXCEPT ![Of(p, a)] = "plain"]
  /\ fd' = [fd EXCEPT ![p] = None]
  /\ UNCHANGED <<files, mcp, lock, branch, todo, pc, view, env, raced, exposed>>

\* A branch where clone wants a new one, or a directory that is no worktree.
AddTreeFails(p, a) ==
  /\ pc[p] = "trees" /\ a \in todo[p] /\ fd[p] = None
  /\ tree[Of(p, a)] \in {"absent", "directory"} /\ ~Adds(p, a)
  /\ Goto(p, "failed")
  /\ UNCHANGED <<files, mcp, lock, trees, view, fd, env, raced, exposed>>

SetIdentity_Bug(p, a) ==
  /\ pc[p] = "trees" /\ a \in todo[p] /\ fd[p] = None
  /\ tree[Of(p, a)] \in {"plain", "identified"}
  /\ todo' = [todo EXCEPT ![p] = @ \ {a}]
  /\ UNCHANGED <<files, mcp, lock, branch, tree, pc, view, fd, env, raced, exposed>>

\* RenderGitIdentity and InitWorktree, also where the worktree was there before.
SetIdentity(p, a) ==
  /\ pc[p] = "trees" /\ a \in todo[p] /\ fd[p] = None
  /\ tree[Of(p, a)] \in {"plain", "identified"}
  /\ tree' = [tree EXCEPT ![Of(p, a)] = "identified"]
  /\ todo' = [todo EXCEPT ![p] = @ \ {a}]
  /\ UNCHANGED <<files, mcp, lock, branch, pc, view, fd, env, raced, exposed>>

\* clone registers the server after each agent of codex or antigravity, with the same
\* three edits: the last registration stands for them.
TreesDone(p) ==
  /\ pc[p] = "trees" /\ todo[p] = {}
  /\ Goto(p, IF CommandOf[p] = "newfam" THEN "read" ELSE "get")
  /\ UNCHANGED <<files, mcp, lock, trees, view, fd, env, raced, exposed>>

-----------------------------------------------------------------------------
(* The harness configuration.                                               *)

\* RegisterMCPServerGlobally: Get is outside of the lock, and its error is dropped.
Get(p) ==
  /\ pc[p] = "get"
  /\ Goto(p, "set")
  /\ env' = [env EXCEPT ![p] = "env" \in mcp.has]
  /\ exposed' = (exposed \/ Others(p, {"read", "truncated"}))
  /\ UNCHANGED <<files, mcp, lock, trees, view, fd, raced>>

\* withConfigLock.
MayLock_Bug == TRUE
MayLock == lock = None

Lock(p) ==
  /\ pc[p] \in {"set", "drop", "retire"} /\ MayLock
  /\ lock' = p
  /\ Goto(p, IF pc[p] = "set" THEN "set*" ELSE IF pc[p] = "drop" THEN "drop*" ELSE "retire*")
  /\ view' = [view EXCEPT ![p] = mcp.has]
  /\ exposed' = (exposed \/ Others(p, {"read", "truncated"}))
  /\ UNCHANGED <<files, mcp, trees, fd, env, raced>>

\* What Set and Remove leave of the file they have loaded: Set keeps what it does not
\* know, and writes the variables that Get has seen.
WithServer(has, known) == (has \ {"env"}) \cup {"botfam"} \cup (IF known THEN {"env"} ELSE {})
Without(has, entry) == has \ {entry}

Edited(p) ==
  CASE pc[p] = "set*" -> WithServer(view[p], env[p])
    [] pc[p] = "drop*" -> Without(view[p], "collab")
    [] pc[p] = "retire*" -> Without(view[p], Forge(p))

\* atomicWrite, and the lock goes.
Replace(p) ==
  /\ pc[p] \in {"set*", "drop*", "retire*"}
  /\ mcp' = [ino |-> p, has |-> Edited(p)]
  /\ lock' = None
  /\ Goto(p, IF pc[p] = "set*" THEN "drop" ELSE IF pc[p] = "drop*" THEN "retire" ELSE "done")
  /\ UNCHANGED <<files, trees, view, fd, env, raced, exposed>>

\* newfam's registerMCPServerGlobally: read, truncate, write.
ReadMcp(p) ==
  /\ pc[p] = "read" /\ fd[p] = None
  /\ view' = [view EXCEPT ![p] = mcp.has]
  /\ fd' = [fd EXCEPT ![p] = p]
  /\ exposed' = (exposed \/ Others(p, Editing \cup {"read", "truncated"}))
  /\ UNCHANGED <<files, mcp, lock, trees, pc, env, raced>>

Truncate(p) ==
  /\ pc[p] = "read" /\ fd[p] = p
  /\ Goto(p, "truncated")
  /\ mcp' = [mcp EXCEPT !.has = {}]
  /\ fd' = [fd EXCEPT ![p] = mcp.ino]
  /\ exposed' = (exposed \/ Others(p, Editing \cup {"truncated"}))
  /\ UNCHANGED <<files, lock, trees, view, env, raced>>

WriteInPlace(p) ==
  /\ pc[p] = "truncated"
  /\ Goto(p, "done")
  /\ mcp' = IF mcp.ino = fd[p] THEN [mcp EXCEPT !.has = view[p] \cup {"collab"}] ELSE mcp
  /\ UNCHANGED <<files, lock, trees, view, fd, env, raced, exposed>>

-----------------------------------------------------------------------------

\* The kernel gives the lock back.
Die(p) ==
  /\ pc[p] \notin Over
  /\ Goto(p, "dead")
  /\ lock' = IF lock = p THEN None ELSE lock
  /\ exposed' = (exposed \/ pc[p] = "truncated")
  /\ UNCHANGED <<files, mcp, trees, view, fd, env, raced>>

Run(p) ==
  \/ LoadConfig(p) \/ OpenTmp(p) \/ WriteTmp(p) \/ RenameTmp(p) \/ RenameFails(p)
  \/ \E a \in Actor : \/ AddTree(p, a) \/ FillTree(p, a)
                      \/ AddTreeFails(p, a) \/ SetIdentity(p, a)
  \/ TreesDone(p)
  \/ Get(p) \/ Lock(p) \/ Replace(p) \/ ReadMcp(p) \/ Truncate(p) \/ WriteInPlace(p)
  \/ Die(p)

Next == \E p \in Proc : Run(p)
Spec == Init /\ [][Next]_vars

-----------------------------------------------------------------------------

Finished(p) == pc[p] = "done"
Configured(p) == pc[p] \in {"trees", "read", "truncated", "done"} \cup Editing

\* Whatever commands are killed, the stanza that one has written stays in config.toml,
\* unless two had it loaded at once: WriteConfig is atomic only then.
StanzasKept ==
  raced \/ \A p \in Proc : Configured(p) => SlugOf[p] \in config.has

\* Any number of setups and clones, killed anywhere, lose nothing of what the operator
\* has in the harness configuration, and undo nothing of each other: the lock
\* and the rename hold (#272).  newfam beside them, or killed in the middle, may lose it all.
EditsKept ==
  \/ exposed
  \/ \E p \in Proc : pc[p] = "truncated"
  \/ /\ OperatorEntries \subseteq mcp.has
     /\ \A p \in Proc : CommandOf[p] # "newfam" /\ Finished(p) =>
          "botfam" \in mcp.has /\ Forge(p) \notin mcp.has

\* A command that reports success leaves no actor without a worktree of its own name,
\* also when it finds what an earlier one left when it was killed.
CompleteMeansReady ==
  \A p \in Proc : CommandOf[p] # "setup" /\ Finished(p) =>
    \A a \in Actor : tree[Of(p, a)] = "identified"
=============================================================================
