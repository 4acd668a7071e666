------------------------------ MODULE Worktree ------------------------------
(***************************************************************************)
(* `botfam worktree init` and `worktree sync` (provision/worktree.go): the *)
(* linked worktrees of a fam, one per agent, over one repository.          *)
(*                                                                         *)
(* The worktrees have their own branches and files, but share main, the    *)
(* remote's refs and the STASH, which is one stack for the repository.     *)
(* Syncs of different worktrees interleave between any two git commands,   *)
(* and a sync may be killed between them.                                  *)
(*                                                                         *)
(* A branch is the number of upstream commits it has.  git itself is       *)
(* external: stash push says "no local changes" and succeeds when all that *)
(* status listed is inside nested repositories; stash pop takes the top    *)
(* entry, whoever pushed it, and keeps it when it does not apply.          *)
(***************************************************************************)
EXTENDS Integers, Sequences, SequencesExt

CONSTANTS Tree,        \* the linked worktrees
          Change,      \* uncommitted changes people and agents make
          Nested,      \* those of them in nested repositories (submodules)
          HomeOf,      \* the worktree each change is made in
          HasEmail,    \* has the operator told git an e-mail address?
          WikiTree,    \* the worktrees with a clone of the wiki
          MaxCommits   \* bound on the commits others push to main

WorktreeAssumption ==
  /\ Nested \subseteq Change
  /\ HomeOf \in [Change -> Tree]
  /\ HasEmail \in BOOLEAN
  /\ WikiTree \subseteq Tree
  /\ MaxCommits \in Nat

VARIABLES
  remote,   \* upstream commits on main at the forge
  fetched,  \* origin/main
  local,    \* the local branches main and topic (Absent: no local main)
  at,       \* the branch that is checked out in the main checkout
  own,      \* the local branches with commits the forge does not have
  branch,   \* the branch of each worktree
  dirty,    \* the uncommitted changes in each worktree
  made,     \* the changes made so far
  stash,    \* the stash, top first: [by, what]
  ident,    \* user.name and user.email of each worktree
  wiki,     \* the wiki clone of each worktree
  pc,       \* the sync of each worktree
  did,      \* its didStash
  mixed     \* history: worktrees in whose sync the stash was not its own

refs == <<remote, fetched, local, at, own>>
work == <<dirty, made, stash>>
vars == <<refs, branch, work, ident, wiki, pc, did, mixed>>

Absent == -1
Stage == {"idle", "ready", "fetched", "forwarded", "merged", "popped"}

TypeOK ==
  /\ remote \in 0..MaxCommits /\ fetched \in 0..MaxCommits
  /\ local \in [{"main", "topic"} -> Absent..MaxCommits]
  /\ at \in DOMAIN local /\ local[at] # Absent /\ own \subseteq DOMAIN local
  /\ branch \in [Tree -> 0..MaxCommits]
  /\ made \subseteq Change /\ dirty \in [Tree -> SUBSET made]
  /\ \A i \in DOMAIN stash : stash[i].by \in Tree /\ stash[i].what \subseteq made
  /\ ident \in [Tree -> {"none", "operator", "actor@localhost", "plus"}]
  /\ wiki \in [WikiTree -> {"clean", "dirty", "in stash"}]
  /\ pc \in [Tree -> Stage] /\ did \in [Tree -> BOOLEAN]
  /\ mixed \subseteq Tree

Init ==
  /\ remote = 0 /\ fetched = 0
  /\ at \in {"main", "topic"}
  /\ local \in {[main |-> 0, topic |-> 0], [main |-> Absent, topic |-> 0]}
  /\ local[at] # Absent
  /\ own \in SUBSET {at}
  /\ branch = [t \in Tree |-> 0]
  /\ dirty = [t \in Tree |-> {}] /\ made = {} /\ stash = <<>>
  /\ ident = [t \in Tree |-> "none"]
  /\ wiki = [t \in WikiTree |-> "clean"]
  /\ pc = [t \in Tree |-> "idle"] /\ did = [t \in Tree |-> FALSE]
  /\ mixed = {}

-----------------------------------------------------------------------------
(* What others do.                                                          *)

\* Somebody merges to main on the forge.
Push ==
  /\ remote < MaxCommits
  /\ remote' = remote + 1
  /\ UNCHANGED <<fetched, local, at, own, branch, work, ident, wiki, pc, did, mixed>>

\* An agent edits files, between syncs or during one.
Edit(c) ==
  /\ c \notin made
  /\ made' = made \cup {c}
  /\ dirty' = [dirty EXCEPT ![HomeOf[c]] = @ \cup {c}]
  /\ UNCHANGED <<refs, branch, stash, ident, wiki, pc, did, mixed>>

\* Somebody edits the clone of the wiki.
WikiEdit(t) ==
  /\ t \in WikiTree /\ wiki[t] = "clean"
  /\ wiki' = [wiki EXCEPT ![t] = "dirty"]
  /\ UNCHANGED <<refs, branch, work, ident, pc, did, mixed>>

\* After a failed sync, as its message says: the agent pops its own entry.
PopByHand(t) ==
  /\ pc[t] = "idle"
  /\ \E i \in DOMAIN stash :
       /\ stash[i].by = t
       /\ dirty' = [dirty EXCEPT ![t] = @ \cup stash[i].what]
       /\ stash' = RemoveAt(stash, i)
  /\ UNCHANGED <<refs, branch, made, ident, wiki, pc, did, mixed>>

-----------------------------------------------------------------------------
(* worktree init.                                                           *)

\* The e-mail for actor, from the names and the addresses git knows.
Email(actor, parentName) ==
  IF ~HasEmail THEN "actor@localhost"
  ELSE IF parentName \in {actor, "unset"} THEN "operator" ELSE "plus"

\* user.name is set before it is read: the parent's name is the actor's.
InitWorktree(t) ==
  /\ ident[t] = "none"
  /\ ident' = [ident EXCEPT ![t] = Email("actor", "actor")]
  /\ UNCHANGED <<refs, branch, work, wiki, pc, did, mixed>>

-----------------------------------------------------------------------------
(* worktree sync.                                                           *)

Others(t) == {u \in Tree \ {t} : pc[u] # "idle"}
Goto(t, stage) == pc' = [pc EXCEPT ![t] = stage]

\* The sync returns.  What it stashed and did not pop stays in the stash.
Return(t) ==
  /\ Goto(t, "idle")
  /\ did' = [did EXCEPT ![t] = FALSE]

\* A worktree with an identity (one without is refused), and what status lists
\* goes to the stash.  didStash is set although nothing may have been stashed.
Stash(t) ==
  LET what == dirty[t] \ Nested
  IN /\ pc[t] = "idle" /\ ident[t] # "none"
     /\ Goto(t, "ready")
     /\ did' = [did EXCEPT ![t] = dirty[t] # {}]
     /\ dirty' = [dirty EXCEPT ![t] = @ \ what]
     /\ stash' = IF what = {} THEN stash ELSE <<[by |-> t, what |-> what]>> \o stash
     /\ mixed' = mixed \cup (IF what = {} /\ dirty[t] # {} THEN {t} ELSE {})
                      \cup (IF what # {} THEN {u \in Others(t) : did[u]} ELSE {})
     /\ UNCHANGED <<refs, branch, made, ident, wiki>>

\* Whether the fetch succeeds or not.
Fetch(t) ==
  /\ pc[t] = "ready"
  /\ Goto(t, "fetched")
  /\ fetched' \in {fetched, remote}
  /\ UNCHANGED <<remote, local, at, own, branch, work, ident, wiki, did, mixed>>

\* `merge --ff-only origin/main` in the main checkout, on whatever branch is there.
FastForward(t) ==
  /\ pc[t] = "fetched"
  /\ fetched <= local[at] \/ at \notin own
  /\ Goto(t, "forwarded")
  /\ local' = [local EXCEPT ![at] = IF fetched > @ THEN fetched ELSE @]
  /\ UNCHANGED <<remote, fetched, at, own, branch, work, ident, wiki, did, mixed>>

\* It has diverged, or the files of the main checkout are in the way.
FastForwardFails(t) ==
  /\ pc[t] = "fetched"
  /\ fetched > local[at]
  /\ Return(t)
  /\ UNCHANGED <<refs, branch, work, ident, wiki, mixed>>

MergeTarget == IF local["main"] # Absent THEN local["main"] ELSE fetched

Merge(t) ==
  /\ pc[t] = "forwarded"
  /\ Goto(t, "merged")
  /\ branch' = [branch EXCEPT ![t] = IF MergeTarget > @ THEN MergeTarget ELSE @]
  /\ UNCHANGED <<refs, work, ident, wiki, did, mixed>>

\* A conflict, or changes in the way: the stash is left for the agent to pop.
MergeFails(t) ==
  /\ pc[t] = "forwarded"
  /\ MergeTarget > branch[t]
  /\ Return(t)
  /\ UNCHANGED <<refs, branch, work, ident, wiki, mixed>>

\* stash pop: the top entry.
MayPop_Bug(t) == TRUE
MayPop(t) == did[t]
Pop(t) ==
  /\ pc[t] = "merged" /\ MayPop(t) /\ stash # <<>>
  /\ Goto(t, "popped")
  /\ dirty' = [dirty EXCEPT ![t] = @ \cup Head(stash).what]
  /\ stash' = Tail(stash)
  /\ mixed' = mixed \cup IF t \in mixed THEN {u \in Others(t) : did[u]} ELSE {}
  /\ UNCHANGED <<refs, branch, made, ident, wiki, did>>

\* It does not apply, and is kept; or there is no entry.
PopFails(t) ==
  /\ pc[t] = "merged" /\ MayPop(t)
  /\ Return(t)
  /\ UNCHANGED <<refs, branch, work, ident, wiki, mixed>>

NoPop(t) ==
  /\ pc[t] = "merged" /\ ~MayPop(t)
  /\ Goto(t, "popped")
  /\ UNCHANGED <<refs, branch, work, ident, wiki, did, mixed>>

\* The wiki clone is a repository of its own: stash, pull, pop.  A pop that does
\* not apply is a warning.
SyncWiki(t) ==
  /\ pc[t] = "popped"
  /\ \/ UNCHANGED wiki
     \/ /\ t \in WikiTree /\ wiki[t] = "dirty"
        /\ wiki' = [wiki EXCEPT ![t] = "in stash"]
  /\ Return(t)
  /\ UNCHANGED <<refs, branch, work, ident, mixed>>

Die(t) ==
  /\ pc[t] # "idle"
  /\ Return(t)
  /\ UNCHANGED <<refs, branch, work, ident, wiki, mixed>>

Sync(t) ==
  \/ Stash(t) \/ Fetch(t) \/ FastForward(t) \/ FastForwardFails(t)
  \/ Merge(t) \/ MergeFails(t) \/ Pop(t) \/ PopFails(t) \/ NoPop(t) \/ SyncWiki(t) \/ Die(t)

Next ==
  \/ Push
  \/ \E c \in Change : Edit(c)
  \/ \E t \in Tree : WikiEdit(t) \/ PopByHand(t) \/ InitWorktree(t) \/ Sync(t)

Spec == Init /\ [][Next]_vars

-----------------------------------------------------------------------------

\* The changes of an agent turn up in another's worktree only when the syncs of the
\* two overlapped, or the stash of that sync was empty: SyncWorktree pops an entry
\* only after it pushed one.
StaysHome ==
  \A t \in Tree : \A c \in dirty[t] : HomeOf[c] = t \/ t \in mixed

=============================================================================
