----------------------------- MODULE SessionRepo ----------------------------
(***************************************************************************)
(* The directory of a session: its database, the dump of it (session.sql), *)
(* the artifacts of the workers, and the git repository that keeps the     *)
(* history of dump and artifacts (store/store.go, cli/ops/sprint.go).      *)
(*                                                                         *)
(* `sprint start` seeds the database and `sprint end` marks it; both then  *)
(* take a snapshot: dump, git add, git commit.  `sprint run` takes one     *)
(* before it touches the database, when git sees a change: what a run that *)
(* crashed left behind.  Only the runs exclude each other, by the lease.   *)
(*                                                                         *)
(* Every change of the database or of the artifacts makes a new version of *)
(* it.  A dump goes to session.sql.tmp, which is then renamed; the name is *)
(* the same for all processes, so files are inodes here.                   *)
(***************************************************************************)
EXTENDS Naturals

CONSTANTS Proc, Inode, None,
          MaxVersion,  \* bound: versions of the database
          MaxArtifacts \* bound: versions of the artifacts

RepoAssumption ==
  /\ None \notin Inode /\ None \notin Proc
  /\ MaxVersion \in Nat \ {0} /\ MaxArtifacts \in Nat

VARIABLES
  db,      \* version of session.db, 0 when there is none
  art,     \* version of the artifacts
  sql,     \* the inode named session.sql, or None
  tmp,     \* the inode named session.sql.tmp, or None
  data,    \* what each inode holds: a version of the database, or Torn
  staged,  \* the git index: versions of session.sql and artifacts
  head,    \* the last commit, likewise
  stray,   \* "yes" when the directory has a file that nothing stages
  pc,      \* what each process is doing
  prog,    \* the command it runs
  got,     \* the version it read for its dump
  fd,      \* the inode it writes
  lease,   \* the `sprint run` that holds the lease
  needs,   \* history: the versions each command must see committed
  clash,   \* history: "yes" for a process whose snapshot overlapped another
  overlapped \* history: "yes" once two snapshots did

files == <<sql, tmp, data>>
git   == <<staged, head>>
procs == <<pc, prog, got, fd, lease>>
hist  == <<needs, clash, overlapped>>
vars  == <<db, art, files, git, stray, procs, hist>>

Version == 0..MaxVersion
Torn == 0     \* not a dump: a file that was truncated, or no file
Tree == [sql : Version, art : 0..MaxArtifacts]
Snapshot == {"dumping", "dumped", "writing", "written", "renamed", "added"}

TypeOK ==
  /\ db \in Version /\ art \in 0..MaxArtifacts
  /\ sql \in Inode \cup {None} /\ tmp \in Inode \cup {None}
  /\ data \in [Inode -> Version]
  /\ staged \in Tree /\ head \in Tree
  /\ stray \in {"no", "yes"}
  /\ pc \in [Proc -> {"idle", "changing", "checked", "opened", "serving"} \cup Snapshot]
  /\ prog \in [Proc -> {"start", "end", "run", None}]
  /\ got \in [Proc -> Version]
  /\ fd \in [Proc -> Inode \cup {None}]
  /\ lease \in Proc \cup {None}
  /\ lease # None => prog[lease] = "run"
  /\ needs \in [Proc -> Tree]
  /\ clash \in [Proc -> {"no", "yes"}] /\ overlapped \in {"no", "yes"}

Nothing == [sql |-> Torn, art |-> 0]

Init ==
  /\ db = 0 /\ art = 0
  /\ sql = None /\ tmp = None /\ data = [i \in Inode |-> Torn]
  /\ staged = Nothing /\ head = Nothing
  /\ stray = "no"
  /\ pc = [p \in Proc |-> "idle"]
  /\ prog = [p \in Proc |-> None]
  /\ got = [p \in Proc |-> 0]
  /\ fd = [p \in Proc |-> None]
  /\ lease = None
  /\ needs = [p \in Proc |-> Nothing]
  /\ clash = [p \in Proc |-> "no"] /\ overlapped = "no"

Become(p, to) == pc' = [pc EXCEPT ![p] = to]

\* The command ends, well or not; the kernel frees what the process held.
Return(p) ==
  /\ Become(p, "idle")
  /\ prog' = [prog EXCEPT ![p] = None]
  /\ got' = [got EXCEPT ![p] = 0]
  /\ fd' = [fd EXCEPT ![p] = None]
  /\ lease' = IF lease = p THEN None ELSE lease
  /\ needs' = [needs EXCEPT ![p] = Nothing]
  /\ clash' = [clash EXCEPT ![p] = "no"]
  /\ UNCHANGED overlapped

-----------------------------------------------------------------------------
(* The snapshot: DumpToFile, git add, git commit.                           *)

\* A snapshot begins; it overlaps those under way.
Begin(p, needed) ==
  LET others == {q \in Proc \ {p} : pc[q] \in Snapshot} IN
    /\ Become(p, "dumping")
    /\ needs' = [needs EXCEPT ![p] = needed]
    /\ clash' = [q \in Proc |-> IF others # {} /\ q \in others \cup {p} THEN "yes" ELSE clash[q]]
    /\ overlapped' = IF others # {} THEN "yes" ELSE overlapped

\* sqlite3 .dump reads the database, the WAL included.  Keeping the dump that is
\* there would be the fault.
Dump_Bug(p) ==
  /\ pc[p] = "dumping"
  /\ got' = [got EXCEPT ![p] = db]
  /\ Become(p, IF sql = None THEN "dumped" ELSE "renamed")
  /\ UNCHANGED <<db, art, files, git, stray, prog, fd, lease, hist>>
Dump(p) ==
  /\ pc[p] = "dumping"
  /\ got' = [got EXCEPT ![p] = db]
  /\ Become(p, "dumped")
  /\ UNCHANGED <<db, art, files, git, stray, prog, fd, lease, hist>>

\* os.WriteFile opens session.sql.tmp, or creates it, and truncates it ...
CreateTmp(p) ==
  /\ pc[p] = "dumped"
  /\ \E i \in Inode :
       /\ IF tmp # None THEN i = tmp
          ELSE i # sql /\ \A q \in Proc : fd[q] # i
       /\ tmp' = i
       /\ fd' = [fd EXCEPT ![p] = i]
       /\ data' = [data EXCEPT ![i] = Torn]
  /\ Become(p, "writing")
  /\ UNCHANGED <<db, art, sql, git, stray, prog, got, lease, hist>>

\* ... and writes it.
WriteTmp(p) ==
  /\ pc[p] = "writing"
  /\ data' = [data EXCEPT ![fd[p]] = got[p]]
  /\ fd' = [fd EXCEPT ![p] = None]
  /\ got' = [got EXCEPT ![p] = 0]
  /\ Become(p, "written")
  /\ UNCHANGED <<db, art, sql, tmp, git, stray, prog, lease, hist>>

RenameTmp(p) ==
  /\ pc[p] = "written"
  /\ tmp # None
  /\ sql' = tmp
  /\ tmp' = None
  /\ Become(p, "renamed")
  /\ UNCHANGED <<db, art, data, git, stray, prog, got, fd, lease, hist>>

\* The rename fails, if only because another process renamed the file first, and
\* whatever has the name then is removed.
RenameFails(p) ==
  /\ pc[p] = "written"
  /\ tmp' = None
  /\ Return(p)
  /\ UNCHANGED <<db, art, sql, data, git, stray>>

\* What git sees of the working tree, and whether `git status` prints anything.
Tracked == [sql |-> IF sql = None THEN Torn ELSE data[sql], art |-> art]
Dirty == Tracked # head \/ staged # head \/ stray = "yes" \/ tmp # None

\* CaptureCrashedRun goes on only when `git status` prints something.
Clean(p) ==
  /\ pc[p] = "renamed" /\ prog[p] = "run"
  /\ ~Dirty
  /\ Become(p, "opened")
  /\ UNCHANGED <<db, art, files, git, stray, prog, got, fd, lease, hist>>

\* git add .gitignore session.sql artifacts.
Staged_Bug == [sql |-> Tracked.sql, art |-> staged.art]
Staged == Tracked

Add(p) ==
  /\ pc[p] = "renamed"
  /\ prog[p] = "run" => Dirty
  /\ staged' = Staged
  /\ Become(p, "added")
  /\ UNCHANGED <<db, art, files, head, stray, prog, got, fd, lease, hist>>

\* git commit, which fails when nothing is staged.
Commit(p) ==
  /\ pc[p] = "added"
  /\ staged # head
  /\ head' = staged
  /\ IF prog[p] = "run"
     THEN Become(p, "opened") /\ UNCHANGED <<prog, got, fd, lease, hist>>
     ELSE Return(p)
  /\ UNCHANGED <<db, art, files, staged, stray>>

-----------------------------------------------------------------------------
(* The commands.                                                            *)

\* sprint start: createSessionRepo.  It can die in WriteCompleteFile and leave its
\* temporary file of .gitignore behind, the first time.
Start(p) ==
  /\ pc[p] = "idle"
  /\ db < MaxVersion
  /\ db' = IF db = 0 THEN 1 ELSE db
  /\ prog' = [prog EXCEPT ![p] = "start"]
  /\ Become(p, "changing")
  /\ UNCHANGED <<art, files, git, stray, got, fd, lease, hist>>

StartDies(p) ==
  /\ pc[p] = "idle"
  /\ db = 0
  /\ stray' = "yes"
  /\ UNCHANGED <<db, art, files, git, procs, hist>>

\* sprint end, once the supervisor is gone (module Sprint).
End(p) ==
  /\ pc[p] = "idle"
  /\ db # 0 /\ db < MaxVersion
  /\ prog' = [prog EXCEPT ![p] = "end"]
  /\ Become(p, "changing")
  /\ UNCHANGED <<db, art, files, git, stray, got, fd, lease, hist>>

\* seedScopeGeneration, or the marker ended_at: one transaction, then the snapshot.
Change(p) ==
  /\ pc[p] = "changing"
  /\ db < MaxVersion
  /\ db' = db + 1
  /\ Begin(p, [sql |-> db + 1, art |-> 0])
  /\ UNCHANGED <<art, files, git, stray, prog, got, fd, lease>>

\* sprint run: the lease, and CaptureCrashedRun.  All that is there now must be in
\* git before the run changes anything.
Run(p) ==
  /\ pc[p] = "idle"
  /\ lease = None /\ db # 0
  /\ lease' = p
  /\ prog' = [prog EXCEPT ![p] = "run"]
  /\ Begin(p, [sql |-> db, art |-> art])
  /\ UNCHANGED <<db, art, files, git, stray, got, fd>>

\* ApplyMigrations, ReleaseOrphanedForgeActionClaims and the rows of the new run.
OpenDatabase(p) ==
  /\ pc[p] = "opened"
  /\ db < MaxVersion
  /\ db' = db + 1
  /\ Become(p, "serving")
  /\ needs' = [needs EXCEPT ![p] = Nothing]
  /\ clash' = [clash EXCEPT ![p] = "no"]
  /\ UNCHANGED <<art, files, git, stray, prog, got, fd, lease, overlapped>>

\* While it serves, the database changes and workers write artifacts.
ServeDatabase(p) ==
  /\ pc[p] = "serving"
  /\ db < MaxVersion
  /\ db' = db + 1
  /\ UNCHANGED <<art, files, git, stray, procs, hist>>

WorkerWrites(p) ==
  /\ pc[p] = "serving"
  /\ art < MaxArtifacts
  /\ art' = art + 1
  /\ UNCHANGED <<db, files, git, stray, procs, hist>>

\* A step fails, or the process dies, or a run stops.
Quit(p) ==
  /\ pc[p] # "idle"
  /\ Return(p)
  /\ UNCHANGED <<db, art, files, git, stray>>

-----------------------------------------------------------------------------

Next == \E p \in Proc :
  \/ Start(p) \/ StartDies(p) \/ End(p) \/ Change(p)
  \/ Run(p) \/ OpenDatabase(p) \/ ServeDatabase(p) \/ WorkerWrites(p)
  \/ Dump(p) \/ CreateTmp(p) \/ WriteTmp(p) \/ RenameTmp(p) \/ RenameFails(p)
  \/ Clean(p) \/ Add(p) \/ Commit(p)
  \/ Quit(p)

Spec == Init /\ [][Next]_vars

-----------------------------------------------------------------------------
(* Properties.                                                              *)

Commits(p) == pc[p] = "added" /\ pc'[p] = "idle" /\ head' # head
Covers(tree, needed) == tree.sql # Torn /\ tree.sql >= needed.sql /\ tree.art >= needed.art

\* Crash recovery loses nothing: when a new run goes on to open the database, the last
\* commit has the database and the artifacts as the crashed run left them, whatever was
\* left in session.sql.tmp and in the index; provided no other snapshot overlapped its
\* own.  (Two commands that overlap later may put a torn dump on top; git keeps both.)
CapturedBeforeChange ==
  [][\A p \in Proc : pc[p] # "opened" /\ pc'[p] = "opened" /\ clash[p] = "no" =>
       Covers(head', needs[p])]_vars

\* A `sprint start` or `sprint end` that reports success has its change in git.
ReportedIsCommitted ==
  [][\A p \in Proc :
       prog[p] \in {"start", "end"} /\ Commits(p) /\ clash[p] = "no" =>
         Covers(head', needs[p])]_vars

=============================================================================
