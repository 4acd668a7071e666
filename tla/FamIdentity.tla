----------------------------- MODULE FamIdentity ----------------------------
(***************************************************************************)
(* Who works in a directory?  The two resolvers of an identity: ResolveFam *)
(* (famconfig/famconfig.go), which the runtime of an agent goes by, and    *)
(* GitResolver with famctx.Resolve (famconfig/resolve.go, famctx.go),      *)
(* which the MCP server and general tooling go by; and the configuration   *)
(* both read, ~/.botfam/config.toml (famconfig/config.go).                 *)
(*                                                                         *)
(* Directories are given with what the code asks of them: the directories  *)
(* above, the toplevel of the git worktree, the names their basenames are. *)
(* A configuration is a record: the roster of all repositories, and the    *)
(* stanzas [repo.<k>].  A roster of agents is a function from the declared *)
(* names to harnesses, None for an agent without one.  The one flag that   *)
(* matters here, legacy_ingest, is a function from where it is set, None   *)
(* for the [flags] of the fam or the agent that overrides it, to "on",     *)
(* "off" or "typo".  No two stanzas have the same path (MatchRepo would    *)
(* choose by the order of a map).                                          *)
(***************************************************************************)
EXTENDS Naturals, Sequences, FiniteSets

LOCAL INSTANCE FiniteSetsExt

CONSTANTS
  Dir,       \* directories that a call may name
  Above,     \* Above[d]: d and the directories above it, innermost first
  Toplevel,  \* the toplevel of the git worktree of each, None outside git
  Unborn,    \* the directories whose repository has no commit yet
  Base,      \* the basename of each, when it can name an actor, or None
  Parsed,    \* the actor that ParseActor finds in the basename, or None
  WikiHome,  \* what is above the "/wiki" in the path, or None
  Name, Harness, None

ASSUME DirAssumption ==
  /\ None \notin Dir \cup Name \cup Harness
  /\ Above \in [Dir -> Seq(Dir)] /\ \A d \in Dir : Above[d] # <<>> /\ Above[d][1] = d
  /\ Toplevel \in [Dir -> Dir \cup {None}]
  /\ Base \in [Dir -> Name \cup {None}] /\ Parsed \in [Dir -> Name \cup {None}]
  /\ WikiHome \in [Dir -> Dir \cup {None}]
  /\ Unborn \subseteq Dir

-----------------------------------------------------------------------------
(* The configuration.                                                       *)

\* mergeRoster and mergeAgent: a stanza adds agents, and overrides what it sets.
MergeRoster(all, own) ==
  [n \in DOMAIN all \cup DOMAIN own |->
     IF n \in DOMAIN own /\ (n \notin DOMAIN all \/ own[n] # None) THEN own[n] ELSE all[n]]

\* mergeFlags: key by key, the stanza's flags win.
MergeFlags(all, own) ==
  [s \in DOMAIN all \cup DOMAIN own |-> IF s \in DOMAIN own THEN own[s] ELSE all[s]]

\* ResolveFlags and flagValue: the agent's own setting hides the fam's; what does not
\* parse is an error, which the caller takes for off.
FlagEnabled(reg, actor) ==
  LET s == IF actor \in DOMAIN reg.flags THEN actor ELSE None
  IN s \in DOMAIN reg.flags /\ reg.flags[s] = "on"

Depth(d, path) == CHOOSE i \in DOMAIN Above[d] : Above[d][i] = path

\* MatchRepo: of the stanzas whose path is the directory or above it, the innermost.
Matching(cfg, d) ==
  {k \in DOMAIN cfg.repos : \E i \in DOMAIN Above[d] : Above[d][i] = cfg.repos[k].path}
MatchRepo(cfg, d) ==
  CHOOSE k \in Matching(cfg, d) :
    \A j \in Matching(cfg, d) : Depth(d, cfg.repos[k].path) <= Depth(d, cfg.repos[j].path)

\* ResolveConfig and BuildRegistry; famConfigured and EnsureMembership ask the same.
Registered(cfg, d) == Matching(cfg, d) # {}
Registry(cfg, d) ==
  LET rc == cfg.repos[MatchRepo(cfg, d)] IN
    [fam    |-> MatchRepo(cfg, d),
     forge  |-> IF rc.forge # None THEN rc.forge ELSE cfg.forge,
     agents |-> MergeRoster(cfg.agents, rc.agents),
     users  |-> cfg.users \cup rc.users,
     flags  |-> MergeFlags(cfg.flags, rc.flags)]

\* ResolveHarness: what is detected at run time wins over what is declared.
Detected(client, env) == IF client # None THEN client ELSE env
ResolveHarness(declared, client, env) ==
  IF Detected(client, env) # None THEN Detected(client, env) ELSE declared

-----------------------------------------------------------------------------
(* ResolveFam: the basename of the worktree, stripped of its prefix, must be a  *)
(* declared agent that has a harness.                                           *)

FamActor(d) ==
  IF Parsed[Toplevel[d]] # None THEN Parsed[Toplevel[d]] ELSE Base[Toplevel[d]]

Runs(cfg, d) ==
  /\ Toplevel[d] # None
  /\ Registered(cfg, d)
  /\ FamActor(d) \notin Registry(cfg, d).users
  /\ FamActor(d) \in DOMAIN Registry(cfg, d).agents
  /\ Registry(cfg, d).agents[FamActor(d)] # None

\* The token file of the resolved agent is the one of its declared harness.
DeclaredHarness(cfg, d) == Registry(cfg, d).agents[FamActor(d)]

-----------------------------------------------------------------------------
(* GitResolver: the innermost directory with a prefix, up to the toplevel, unless *)
(* the basename of the toplevel itself is declared.                               *)

Resolvable(d) == Toplevel[d] # None /\ d \notin Unborn

WalkUp(d) ==
  LET named == {i \in DOMAIN Above[d] :
                  /\ Parsed[Above[d][i]] # None
                  /\ \A j \in 1..(i - 1) : Above[d][j] # Toplevel[d]}
  IN IF named = {} THEN None ELSE Parsed[Above[d][Min(named)]]

DirActor(cfg, d) ==
  LET base == Base[Toplevel[d]] IN
    IF Registered(cfg, d) /\ base \in DOMAIN Registry(cfg, d).agents \cup Registry(cfg, d).users
    THEN base ELSE WalkUp(d)

-----------------------------------------------------------------------------
(* famctx.Resolve.                                                          *)

\* The directories it tries, those of them that are there.  The client's roots are
\* never among them: see McpServer.
Candidates(d, pwd) == <<d, WikiHome[d], pwd>>

\* An agent first, and a user only then.  The base checkout is meant to have a role
\* of its own, but the test compares the toplevel with its parent.
Role(reg, actor) ==
  IF actor \in DOMAIN reg.agents THEN "agent"
  ELSE IF actor \in reg.users THEN "user" ELSE "unknown"

\* The token: of the effective harness for an agent, of the human for a user, but
\* only when no harness is detected.
TokenOf(reg, actor, client, env) ==
  CASE Role(reg, actor) = "agent" -> ResolveHarness(reg.agents[actor], client, env)
    [] Role(reg, actor) = "user" -> IF Detected(client, env) = None THEN actor ELSE None
    [] OTHER -> None

\* The context that one directory gives; callActor only fills in for a directory
\* that names nobody.
ContextOf(cfg, d, callActor, client, env) ==
  LET reg == Registry(cfg, d)
      actor == IF DirActor(cfg, d) # None THEN DirActor(cfg, d) ELSE callActor
  IN [dir |-> d, actor |-> actor, role |-> Role(reg, actor), forge |-> reg.forge,
      token |-> TokenOf(reg, actor, client, env)]

NoContext == [dir |-> None, actor |-> None, role |-> "unknown", forge |-> None, token |-> None]

First(cands, ok) ==
  LET good == {i \in DOMAIN cands : cands[i] \in ok} IN
    IF good = {} THEN None ELSE cands[CHOOSE i \in good : \A j \in good : i <= j]

\* ModeRegistry: the first directory with an identity must be registered.
ResolveRegistry(cfg, d, pwd, callActor, client, env) ==
  LET at == First(Candidates(d, pwd), {c \in Dir : Resolvable(c)}) IN
    IF at = None \/ ~Registered(cfg, at) THEN NoContext
    ELSE ContextOf(cfg, at, callActor, client, env)

\* ModeLocate: the first directory with an identity that is registered.
ResolveLocate(cfg, d, pwd, client, env) ==
  LET at == First(Candidates(d, pwd), {c \in Dir : Resolvable(c) /\ Registered(cfg, c)})
  IN IF at = None THEN NoContext ELSE ContextOf(cfg, at, None, client, env)

\* ModeAgentRuntime: the first directory that ResolveFam accepts.
ResolveRuntime(cfg, d, pwd) ==
  First(Candidates(d, pwd), {c \in Dir : Runs(cfg, c)})

-----------------------------------------------------------------------------
(* Where the two resolvers differ.                                          *)

\* ResolveFam asks for a harness; it refuses who is also a user; it does not look at
\* directories below the toplevel; and it strips the prefix even of a declared name.
KnownDifference(cfg, d) ==
  \/ Toplevel[d] # None /\ Registered(cfg, d) /\
       \/ \E n \in DOMAIN Registry(cfg, d).agents :
            n \in {DirActor(cfg, d), FamActor(d)} /\
            (Registry(cfg, d).agents[n] = None \/ n \in Registry(cfg, d).users)
       \/ WalkUp(d) # Parsed[Toplevel[d]]
       \/ Base[Toplevel[d]] \in DOMAIN Registry(cfg, d).agents \cup Registry(cfg, d).users
            /\ Parsed[Toplevel[d]] # None
  \/ d \in Unborn
=============================================================================
