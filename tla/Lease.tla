------------------------------- MODULE Lease --------------------------------
(***************************************************************************)
(* The single-host lease of a repository: internal/eventdelivery/          *)
(* singlehost (lease.go, config.go, resolver.go).                          *)
(*                                                                         *)
(* Supervisor processes compete for one session file,                      *)
(* ~/.botfam/sprint-session-<repo>.config.toml.  Whoever holds the         *)
(* advisory lock (flock) of that file holds the lease, and the file's      *)
(* content tells readers who that is.  A lock belongs to an inode, not to  *)
(* the name: Release removes the name, and a process that opened the old   *)
(* inode before can still lock it afterwards.                              *)
(*                                                                         *)
(* A process is one OS process with its own PID: it starts idle and, once  *)
(* dead, never returns.  The mutex of the Lease object makes the calls of  *)
(* one process run one after the other, so a process has one pc.           *)
(***************************************************************************)
EXTENDS Naturals

CONSTANTS Proc,      \* processes that may hold the lease; a process is its PID
          Inode,     \* inodes the file system may hand out for the session file
          Session,   \* sprint session ids
          None,      \* no process, no inode, no session
          MaxToken   \* bound: no grant carries a token beyond it

ASSUME LeaseAssumption ==
  /\ None \notin Proc
  /\ None \notin Inode
  /\ None \notin Session
  /\ MaxToken \in Nat

VARIABLES
  path,      \* the inode the session file's name refers to, or None
  used,      \* the inodes created so far
  content,   \* what each inode holds
  flock,     \* the process whose open file holds the lock of each inode
  pc,        \* what each process is doing
  fd,        \* the inode a running Acquire has open (the local f)
  next,      \* the fencing token that Acquire will write
  file,      \* the inode of the granted lease (l.file), or None
  token,     \* the fencing token of the granted lease (l.fencingToken)
  high,      \* history: the highest token granted on each inode
  torn       \* history: inodes a process truncated and left empty

leaseVars == <<path, used, content, flock, pc, fd, next, file, token>>
history   == <<high, torn>>
vars      == <<leaseVars, history>>

(* The fields of SessionFile that decide anything.  A file that is empty    *)
(* (just created, or truncated) decodes as the zero SessionFile.            *)
SessionFile == [token : Nat, pid : Proc \cup {None}, session : Session \cup {None}]
ZeroFile    == [token |-> 0, pid |-> None, session |-> None]

Pc == {"idle", "opened", "truncated", "stamping", "unlinking", "dead"}

TypeOK ==
  /\ path \in Inode \cup {None}
  /\ used \in SUBSET Inode
  /\ content \in [Inode -> SessionFile]
  /\ flock \in [Inode -> Proc \cup {None}]
  /\ pc \in [Proc -> Pc]
  /\ fd \in [Proc -> Inode \cup {None}]
  /\ next \in [Proc -> Nat]
  /\ file \in [Proc -> Inode \cup {None}]
  /\ token \in [Proc -> Nat]
  /\ high \in [Inode -> Nat]
  /\ torn \in SUBSET Inode

Init ==
  /\ path = None
  /\ used = {}
  /\ content = [i \in Inode |-> ZeroFile]
  /\ flock = [i \in Inode |-> None]
  /\ pc = [p \in Proc |-> "idle"]
  /\ fd = [p \in Proc |-> None]
  /\ next = [p \in Proc |-> 0]
  /\ file = [p \in Proc |-> None]
  /\ token = [p \in Proc |-> 0]
  /\ high = [i \in Inode |-> 0]
  /\ torn = {}

Holds(p) == file[p] # None

-----------------------------------------------------------------------------
(* The advisory lock.  A name that ends in _Bug is a faulty variant of the  *)
(* definition after it: it is used only to show that a property notices.    *)

LockFree_Bug(i) == TRUE
LockFree(i) == flock[i] = None

Unlock_Bug(i) == UNCHANGED flock
Unlock(i) == flock' = [flock EXCEPT ![i] = None]

-----------------------------------------------------------------------------
(* Acquire: open, lock, truncate, write.                                    *)

\* Opening leaves the content alone: the flags hold no O_TRUNC.
ContentOnOpen_Bug(i) == content' = [content EXCEPT ![i] = ZeroFile]
ContentOnOpen(i) == UNCHANGED content

\* os.OpenFile(path, O_CREATE|O_RDWR): the inode of the name, or a new one.
AcquireOpen(p) ==
  /\ pc[p] = "idle"
  /\ \/ /\ path # None
        /\ fd' = [fd EXCEPT ![p] = path]
        /\ ContentOnOpen(path)
        /\ UNCHANGED <<path, used>>
     \/ /\ path = None
        /\ \E i \in Inode \ used :
             /\ path' = i
             /\ used' = used \cup {i}
             /\ fd' = [fd EXCEPT ![p] = i]
             /\ ContentOnOpen(i)
  /\ pc' = [pc EXCEPT ![p] = "opened"]
  /\ UNCHANGED <<flock, next, file, token, high, torn>>

\* Acquire answers Granted: false (the lock is taken, whoever the file names)
\* or an error before anything was written: f is closed, a lock just taken on
\* it is dropped again, and an earlier lease of the process stays.
AcquireAbandon(p) ==
  /\ pc[p] = "opened"
  /\ fd' = [fd EXCEPT ![p] = None]
  /\ pc' = [pc EXCEPT ![p] = "idle"]
  /\ UNCHANGED <<path, used, content, flock, next, file, token, high, torn>>

\* The token after the one the file holds; 1 when the file holds none.
TokenAfter_Bug(f) == IF f.token > 0 THEN f.token ELSE 1
TokenAfter(f) == IF f.token > 0 THEN f.token + 1 ELSE 1

\* flock(LOCK_EX|LOCK_NB) succeeds: decode the file, then truncate it.
AcquireLock(p) ==
  /\ pc[p] = "opened"
  /\ LockFree(fd[p])
  /\ TokenAfter(content[fd[p]]) <= MaxToken
  /\ flock' = [flock EXCEPT ![fd[p]] = p]
  /\ next' = [next EXCEPT ![p] = TokenAfter(content[fd[p]])]
  /\ content' = [content EXCEPT ![fd[p]] = ZeroFile]
  /\ pc' = [pc EXCEPT ![p] = "truncated"]
  /\ UNCHANGED <<path, used, fd, file, token, high, torn>>

\* What Acquire writes: no session yet, that is SetEndpoint's.
Granted(p) == [token |-> next[p], pid |-> p, session |-> None]

\* Encode and Sync succeed.  The lock of an earlier lease of this process is
\* dropped (a lock on the same inode would have refused the new one).
AcquireGrant(p) ==
  /\ pc[p] = "truncated"
  /\ content' = [content EXCEPT ![fd[p]] = Granted(p)]
  /\ flock' = [i \in Inode |-> IF i = file[p] THEN None ELSE flock[i]]
  /\ file' = [file EXCEPT ![p] = fd[p]]
  /\ token' = [token EXCEPT ![p] = next[p]]
  /\ fd' = [fd EXCEPT ![p] = None]
  /\ pc' = [pc EXCEPT ![p] = "idle"]
  /\ next' = [next EXCEPT ![p] = 0]
  /\ high' = [high EXCEPT ![fd[p]] = IF next[p] > @ THEN next[p] ELSE @]
  /\ UNCHANGED <<path, used, torn>>

\* Encode fails (the file stays empty) or Sync fails (the file names p, which
\* holds nothing): unlock, close, error.
AcquireWriteError(p) ==
  /\ pc[p] = "truncated"
  /\ \/ /\ torn' = torn \cup {fd[p]}
        /\ UNCHANGED content
     \/ /\ content' = [content EXCEPT ![fd[p]] = Granted(p)]
        /\ UNCHANGED torn
  /\ Unlock(fd[p])
  /\ fd' = [fd EXCEPT ![p] = None]
  /\ next' = [next EXCEPT ![p] = 0]
  /\ pc' = [pc EXCEPT ![p] = "idle"]
  /\ UNCHANGED <<path, used, file, token, high>>

-----------------------------------------------------------------------------
(* SetEndpoint: truncate and rewrite the held file, naming the session.     *)

SetEndpointTruncate(p) ==
  /\ pc[p] = "idle"
  /\ Holds(p)
  /\ content' = [content EXCEPT ![file[p]] = ZeroFile]
  /\ pc' = [pc EXCEPT ![p] = "stamping"]
  /\ UNCHANGED <<path, used, flock, fd, next, file, token, high, torn>>

SetEndpointWrite(p) ==
  /\ pc[p] = "stamping"
  /\ \E s \in Session :
       content' = [content EXCEPT ![file[p]] = [token |-> token[p], pid |-> p, session |-> s]]
  /\ pc' = [pc EXCEPT ![p] = "idle"]
  /\ UNCHANGED <<path, used, flock, fd, next, file, token, high, torn>>

\* Encode fails: the lease is kept over an empty file.
SetEndpointError(p) ==
  /\ pc[p] = "stamping"
  /\ torn' = torn \cup {file[p]}
  /\ pc' = [pc EXCEPT ![p] = "idle"]
  /\ UNCHANGED <<path, used, content, flock, fd, next, file, token, high>>

-----------------------------------------------------------------------------
(* Giving the lease back.                                                   *)

\* Release, first half: unlock, then close.
ReleaseUnlock(p) ==
  /\ pc[p] = "idle"
  /\ Holds(p)
  /\ Unlock(file[p])
  /\ file' = [file EXCEPT ![p] = None]
  /\ pc' = [pc EXCEPT ![p] = "unlinking"]
  /\ UNCHANGED <<path, used, content, fd, next, token, high, torn>>

\* Release, second half: os.Remove(path) removes whatever the name refers to.
ReleaseRemove(p) ==
  /\ pc[p] = "unlinking"
  /\ path' = None
  /\ token' = [token EXCEPT ![p] = 0]
  /\ pc' = [pc EXCEPT ![p] = "idle"]
  /\ UNCHANGED <<used, content, flock, fd, next, file, high, torn>>

\* Close: unlock and close, the file stays.
Close(p) ==
  /\ pc[p] = "idle"
  /\ Holds(p)
  /\ Unlock(file[p])
  /\ file' = [file EXCEPT ![p] = None]
  /\ token' = [token EXCEPT ![p] = 0]
  /\ UNCHANGED <<path, used, content, pc, fd, next, high, torn>>

\* The process ends, cleanly or not: the kernel closes its files, and with
\* them goes every lock it holds.
Exit(p) ==
  /\ pc[p] # "dead"
  /\ pc' = [pc EXCEPT ![p] = "dead"]
  /\ flock' = [i \in Inode |-> IF flock[i] = p THEN None ELSE flock[i]]
  /\ torn' = torn \cup (IF pc[p] = "truncated" THEN {fd[p]} ELSE {})
                  \cup (IF pc[p] = "stamping" THEN {file[p]} ELSE {})
  /\ fd' = [fd EXCEPT ![p] = None]
  /\ file' = [file EXCEPT ![p] = None]
  /\ next' = [next EXCEPT ![p] = 0]
  /\ token' = [token EXCEPT ![p] = 0]
  /\ UNCHANGED <<path, used, content, high>>

-----------------------------------------------------------------------------

Next == \E p \in Proc :
  \/ AcquireOpen(p) \/ AcquireAbandon(p) \/ AcquireLock(p)
  \/ AcquireGrant(p) \/ AcquireWriteError(p)
  \/ SetEndpointTruncate(p) \/ SetEndpointWrite(p) \/ SetEndpointError(p)
  \/ ReleaseUnlock(p) \/ ReleaseRemove(p) \/ Close(p) \/ Exit(p)

Spec == Init /\ [][Next]_vars

-----------------------------------------------------------------------------
(* Properties.                                                              *)

\* A lock is held exactly by the process whose lease or running Acquire it
\* serves: no early return of Acquire, no Release, Close or death leaves a
\* lock behind that would make every later Acquire answer "busy", and a
\* process that believes it holds the lease has the lock.
LocksAccountedFor ==
  \A i \in Inode, p \in Proc :
    flock[i] = p <=> \/ file[p] = i
                     \/ pc[p] = "truncated" /\ fd[p] = i

\* Two processes never hold leases on the same inode, so at most one holds a
\* lease on the file readers see; and while no session file was ever removed
\* (nobody ran Release to its end) at most one process holds a lease at all.
ExclusiveUntilUnlinked ==
  \A p, q \in Proc :
    p # q /\ Holds(p) /\ Holds(q) =>
      /\ file[p] # file[q]
      /\ ~(used \subseteq {path})

\* Nobody scribbles over the session file of a live lease.  It names its holder
\* and the holder's token, or nothing while SetEndpoint rewrites it or after a
\* write failed half-way.  So a reader never takes another process for the holder.
FileNamesHolder ==
  \A p \in Proc : Holds(p) =>
    \/ content[file[p]].pid = p /\ content[file[p]].token = token[p]
    \/ /\ content[file[p]] = ZeroFile
       /\ pc[p] = "stamping" \/ file[p] \in torn

\* A new lease carries a larger fencing token than every lease granted before on
\* the same file, unless an earlier holder died or failed between truncating
\* the file and writing it.
TokensAdvance ==
  [][\A p \in Proc :
       file'[p] # file[p] /\ file'[p] # None =>
         token'[p] > high[file'[p]] \/ file'[p] \in torn]_vars

\* What Acquire's comment says: the lease is exclusive over the repository.
Exclusive == \A p, q \in Proc : Holds(p) /\ Holds(q) => p = q
=============================================================================
