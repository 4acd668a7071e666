----------------------------- MODULE MCSession -----------------------------
(* Sprint, SessionRepo and MemoryStore for TLC, one at a time: three runs   *)
(* of two sprints; two commands on a session's directory; two agents who    *)
(* share a memory.                                                          *)
EXTENDS Sprint, TLC

CONSTANTS MaxVersion, MaxArtifacts,   \* the bounds of SessionRepo
          Agent, Client, AgentOf, MaxAttempts, MaxEdits  \* of MemoryStore

VARIABLES part,
          db, art, sql, tmp, data, staged, head, stray, rpc, prog, got, fd, lease,
          needs, clash, overlapped,
          remote, base, own, mpc, cmd, seen, mine, tries, edits, acked

rvars == <<db, art, sql, tmp, data, staged, head, stray, rpc, prog, got, fd, lease,
           needs, clash, overlapped>>
mvars == <<remote, base, own, mpc, cmd, seen, mine, tries, edits, acked>>

\* One set stands for several that never meet: the processes of Sprint are the inodes of
\* SessionRepo too, the sessions its commands and the facts of MemoryStore.
R == INSTANCE SessionRepo WITH Proc <- Session, Inode <- Proc, pc <- rpc
M == INSTANCE MemoryStore WITH
  Fact <- Session, Actor <- Agent, Proc <- Client, ActorOf <- AgentOf, pc <- mpc

ASSUME SessionAssumption == SprintAssumption /\ R!RepoAssumption /\ M!MemoryAssumption

MCInit ==
  /\ part \in {"sprint", "repo", "memory"}
  /\ Init /\ R!Init /\ M!Init

MCNext ==
  \/ part = "sprint" /\ Next /\ UNCHANGED <<part, rvars, mvars>>
  \/ part = "repo" /\ R!Next /\ UNCHANGED <<part, vars, mvars>>
  \/ part = "memory" /\ M!Next /\ UNCHANGED <<part, vars, rvars>>

MCSpec == MCInit /\ [][MCNext]_<<part, vars, rvars, mvars>>

\* An agent's name serves for its one process too.
SessionAgentOf == [p \in Client |-> p]

\* The members of either set are interchangeable in each.
Symmetry == Permutations(Proc) \cup Permutations(Session)

CapturedBeforeChange == R!CapturedBeforeChange
ReportedIsCommitted == R!ReportedIsCommitted
NoBlindOverwrite == M!NoBlindOverwrite
AckedPublished == M!AckedPublished
=============================================================================
