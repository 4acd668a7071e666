----------------------------- MODULE MemoryStore ----------------------------
(***************************************************************************)
(* The shared memory of a fam: `botfam memory write` and `forget`          *)
(* (cli/ops/memory_cmd.go) over memory.Store (memory/store.go) and its git *)
(* backend (memory/gitexec.go).                                            *)
(*                                                                         *)
(* A fact is a page of the wiki's repository.  Every command resets the    *)
(* clone of its actor to the remote, loads the page, commits a new one and *)
(* publishes it: push, and when the remote moved on, rebase and push       *)
(* again.  The remote is a sequence of commits; a clone is the prefix of   *)
(* it that was fetched last, and the commits made since.                   *)
(*                                                                         *)
(* A page has two parts that change: the banner line and the body.  Git    *)
(* merges edits of different parts and refuses edits of the same one; a    *)
(* body is taken as one hunk.  All this happens on one day, and with the   *)
(* flags left at their defaults.                                           *)
(***************************************************************************)
EXTENDS Naturals, Sequences

CONSTANTS Fact,
          Actor,       \* agents: each has one clone
          Proc,        \* processes that run `botfam memory`
          ActorOf,     \* the agent each process works for
          None,
          MaxAttempts, \* maxPushAttempts
          MaxEdits     \* bound: commits that are ever made

Banner == [status : {"Live", "Historical"}, authors : SUBSET Actor, updated : BOOLEAN]
Page == [banner : Banner, body : 1..MaxEdits]
Commit == [id : 1..MaxEdits, op : {"write", "forget"}, fact : Fact, actor : Actor,
           page : Page, saw : Page \cup {None}]
Command == [op : {"write", "forget"}, fact : Fact]

MemoryAssumption ==
  /\ ActorOf \in [Proc -> Actor]
  /\ MaxAttempts \in Nat \ {0} /\ MaxEdits \in Nat
  /\ None \notin Fact \cup Page

VARIABLES
  remote,  \* the commits of the wiki
  base,    \* the part of them each clone has
  own,     \* the commits each clone has on top of that
  pc,      \* what each process is doing
  cmd,     \* its command: [op, fact], or None
  seen,    \* the page it loaded, None when there was none
  mine,    \* the commit it made, or None
  tries,   \* rebases so far
  edits,   \* how many commits were made
  acked    \* history: the commits whose command reported success

clones == <<base, own>>
local  == <<pc, cmd, seen, mine, tries>>
vars   == <<remote, clones, local, edits, acked>>

TypeOK ==
  /\ remote \in Seq(Commit)
  /\ base \in [Actor -> Seq(Commit)] /\ own \in [Actor -> Seq(Commit)]
  /\ \A a \in Actor : \E n \in 0..Len(remote) : base[a] = SubSeq(remote, 1, n)
  /\ pc \in [Proc -> {"idle", "opened", "loaded", "pushing", "rejected"}]
  /\ cmd \in [Proc -> Command \cup {None}]
  /\ seen \in [Proc -> Page \cup {None}]
  /\ mine \in [Proc -> Commit \cup {None}]
  /\ tries \in [Proc -> 0..MaxAttempts]
  /\ edits \in 0..MaxEdits
  /\ acked \subseteq Commit

Init ==
  /\ remote = <<>>
  /\ base = [a \in Actor |-> <<>>] /\ own = [a \in Actor |-> <<>>]
  /\ pc = [p \in Proc |-> "idle"]
  /\ cmd = [p \in Proc |-> None]
  /\ seen = [p \in Proc |-> None]
  /\ mine = [p \in Proc |-> None]
  /\ tries = [p \in Proc |-> 0]
  /\ edits = 0 /\ acked = {}

-----------------------------------------------------------------------------
(* Pages, and how git merges them.                                          *)

\* The page of a fact after some commits, or None.
PageIn(log, f) ==
  LET on == {k \in DOMAIN log : log[k].fact = f} IN
    IF on = {} THEN None ELSE log[CHOOSE k \in on : \A j \in on : j <= k].page

\* What `memory write` makes of the page it loaded (mergeForUpdate), and Forget.
Written(a, old, body) ==
  [banner |-> [status  |-> "Live",
               authors |-> (IF old = None THEN {} ELSE old.banner.authors) \cup {a},
               updated |-> old # None],
   body |-> body]

Forgotten(a, old) ==
  [banner |-> [old.banner EXCEPT !.status = "Historical", !.authors = @ \cup {a}],
   body |-> old.body]

\* A three-way merge of one part, and of a page: the page at the base, theirs and ours.
PartsMerge(b, t, o) == o = b \/ t = b \/ o = t
PartMerged(b, t, o) == IF o = b THEN t ELSE o

PagesMerge_Bug(b, t, o) == TRUE
PagesMerge(b, t, o) ==
  IF b = None THEN t \in {None, o}
  ELSE /\ PartsMerge(b.banner, t.banner, o.banner)
       /\ PartsMerge(b.body, t.body, o.body)

PageMerged(b, t, o) ==
  IF b = None THEN o
  ELSE [banner |-> PartMerged(b.banner, t.banner, o.banner),
        body   |-> PartMerged(b.body, t.body, o.body)]

\* git pull --rebase: replay the commits of the clone on the remote, one by one.  A
\* commit that changes nothing there is dropped.
ReplayOne(a, k, done) ==
  LET c == own[a][k]
      b == PageIn(base[a] \o SubSeq(own[a], 1, k - 1), c.fact)
      t == PageIn(remote \o done.new, c.fact)
      m == PageMerged(b, t, c.page)
  IN IF ~done.clean \/ ~PagesMerge(b, t, c.page)
     THEN [clean |-> FALSE, new |-> <<>>]
     ELSE [clean |-> TRUE,
           new |-> IF m = t THEN done.new ELSE Append(done.new, [c EXCEPT !.page = m])]
ReplayUpTo(a) ==
  LET r[k \in 0..Len(own[a])] ==
        IF k = 0 THEN [clean |-> TRUE, new |-> <<>>] ELSE ReplayOne(a, k, r[k - 1])
  IN r
Replay(a) == ReplayUpTo(a)[Len(own[a])]

-----------------------------------------------------------------------------
(* A command.                                                               *)

Become(p, to) == pc' = [pc EXCEPT ![p] = to]

\* The command ends; the clone is left as it is.
Return(p) ==
  /\ Become(p, "idle")
  /\ cmd' = [cmd EXCEPT ![p] = None]
  /\ seen' = [seen EXCEPT ![p] = None]
  /\ mine' = [mine EXCEPT ![p] = None]
  /\ tries' = [tries EXCEPT ![p] = 0]

\* CloneWiki: clone, or fetch and reset --hard to what the remote has.
Open(p, c) ==
  /\ pc[p] = "idle"
  /\ edits < MaxEdits
  /\ cmd' = [cmd EXCEPT ![p] = c]
  /\ base' = [base EXCEPT ![ActorOf[p]] = remote]
  /\ own' = [own EXCEPT ![ActorOf[p]] = <<>>]
  /\ Become(p, "opened")
  /\ UNCHANGED <<remote, seen, mine, tries, edits, acked>>

\* Load reads the page in the clone.  There is nothing to forget in a page that
\* is not there or is a tombstone already.
Load(p) ==
  /\ pc[p] = "opened"
  /\ LET page == PageIn(base[ActorOf[p]] \o own[ActorOf[p]], cmd[p].fact) IN
       IF cmd[p].op = "forget" /\ (page = None \/ page.banner.status = "Historical")
       THEN Return(p)
       ELSE /\ seen' = [seen EXCEPT ![p] = page]
            /\ Become(p, "loaded")
            /\ UNCHANGED <<cmd, mine, tries>>
  /\ UNCHANGED <<remote, clones, edits, acked>>

\* WriteCommit: write the page, add and commit it.  A commit that changes nothing
\* is an error of git.
WriteCommit(p) ==
  LET a == ActorOf[p]
      page == IF cmd[p].op = "write" THEN Written(a, seen[p], edits + 1)
                                     ELSE Forgotten(a, seen[p])
      commit == [id |-> edits + 1, op |-> cmd[p].op, fact |-> cmd[p].fact, actor |-> a,
                 page |-> page, saw |-> seen[p]]
  IN /\ pc[p] = "loaded"
     /\ edits < MaxEdits
     /\ page # PageIn(base[a] \o own[a], cmd[p].fact)
     /\ own' = [own EXCEPT ![a] = Append(@, commit)]
     /\ mine' = [mine EXCEPT ![p] = commit]
     /\ edits' = edits + 1
     /\ Become(p, "pushing")
     /\ UNCHANGED <<remote, base, cmd, seen, tries, acked>>

\* The remote takes a push only when the clone has all its commits.
FastForward(a) == base[a] = remote

\* The commits of the clone are now the remote's.
Publish(a) ==
  /\ remote' = base[a] \o own[a]
  /\ base' = [base EXCEPT ![a] = base[a] \o own[a]]
  /\ own' = [own EXCEPT ![a] = <<>>]

Push(p) ==
  /\ pc[p] = "pushing"
  /\ FastForward(ActorOf[p])
  /\ Publish(ActorOf[p])
  /\ acked' = acked \cup {mine[p]}
  /\ Return(p)
  /\ UNCHANGED edits

\* The push arrives and its answer does not: the command reports an error.
PushLost(p) ==
  /\ pc[p] = "pushing"
  /\ FastForward(ActorOf[p])
  /\ Publish(ActorOf[p])
  /\ Return(p)
  /\ UNCHANGED <<edits, acked>>

\* A non-fast-forward rejection.
OnRejected_Bug(p) ==
  /\ acked' = acked \cup {mine[p]}
  /\ Return(p)
OnRejected(p) ==
  /\ Become(p, "rejected")
  /\ UNCHANGED <<cmd, seen, mine, tries, acked>>

PushRejected(p) ==
  /\ pc[p] = "pushing"
  /\ ~FastForward(ActorOf[p])
  /\ OnRejected(p)
  /\ UNCHANGED <<remote, clones, edits>>

\* A clean rebase: try again, MaxAttempts times in all.
Rebase(p) ==
  /\ pc[p] = "rejected"
  /\ Replay(ActorOf[p]).clean
  /\ base' = [base EXCEPT ![ActorOf[p]] = remote]
  /\ own' = [own EXCEPT ![ActorOf[p]] = Replay(ActorOf[p]).new]
  /\ IF tries[p] + 1 < MaxAttempts
     THEN /\ tries' = [tries EXCEPT ![p] = @ + 1]
          /\ Become(p, "pushing")
          /\ UNCHANGED <<cmd, seen, mine>>
     ELSE Return(p)    \* ErrPushFailed
  /\ UNCHANGED <<remote, edits, acked>>

\* The rebase conflicts and is aborted (ErrConflict); or the network, git or the
\* process fails at some point.
Fail(p) ==
  /\ pc[p] # "idle"
  /\ Return(p)
  /\ UNCHANGED <<remote, clones, edits, acked>>

-----------------------------------------------------------------------------

Next == \E p \in Proc :
  \/ \E c \in Command : Open(p, c)
  \/ Load(p) \/ WriteCommit(p)
  \/ Push(p) \/ PushLost(p) \/ PushRejected(p) \/ Rebase(p) \/ Fail(p)

Spec == Init /\ [][Next]_vars

-----------------------------------------------------------------------------
(* Properties.                                                              *)

Before(k) == PageIn(SubSeq(remote, 1, k - 1), remote[k].fact)

\* Compare-and-swap: whoever published a new body had loaded the body that it
\* replaced, however many rebases were between, and a tombstone keeps the body
\* that it finds.  So no agent's text is overwritten by one who never saw it.
NoBlindOverwrite ==
  \A k \in DOMAIN remote :
    IF remote[k].op = "forget"
    THEN Before(k) # None /\ remote[k].page.body = Before(k).body
    ELSE /\ remote[k].saw = None <=> Before(k) = None
         /\ remote[k].saw # None => remote[k].saw.body = Before(k).body

\* A command that reported success has published its commit; or it was to make a
\* tombstone, and one with the very banner of its own was there already.
AckedPublished ==
  \A c \in acked : \E k \in DOMAIN remote :
    /\ remote[k].fact = c.fact
    /\ remote[k].id = c.id \/ (c.op = "forget" /\ remote[k].page.banner = c.page.banner)
=============================================================================
