---------------------------- MODULE ToolsProofs -----------------------------
(***************************************************************************)
(* Proofs about what one worker has on its host: the lease, and the         *)
(* commands that run beside a fleet (RunIssue, Review, MetaReview, Extract, *)
(* ForgeHistory), for any processes, options, artifacts and histories.  All *)
(* commands but the lease are taken as MCTools instantiates them.           *)
(***************************************************************************)
EXTENDS Lease, MCTools, SequenceTheorems, FiniteSetTheorems, WellFoundedInduction, TLAPS

(* The lease.                                                               *)

\* The pc of a process says which inodes it has open, and every open inode
\* was created.
OpenFiles ==
  /\ path # None => path \in used
  /\ \A p \in Proc :
       /\ fd[p] # None <=> pc[p] \in {"opened", "truncated"}
       /\ fd[p] # None => fd[p] \in used
       /\ file[p] # None => file[p] \in used
       /\ pc[p] = "stamping" => file[p] # None
       /\ pc[p] \in {"unlinking", "dead"} => file[p] = None

\* On a file nobody tore, whoever can write next knows a token that is large
\* enough: the running Acquire, the holder, or else the file itself.
TokensKept ==
  \A i \in Inode \ torn :
    /\ \A p \in Proc : pc[p] = "truncated" /\ fd[p] = i => next[p] > high[i]
    /\ \A p \in Proc : file[p] = i => token[p] >= high[i]
    /\ flock[i] = None => content[i].token >= high[i]

\* A process never locks the inode of its own lease a second time.
NewInode == \A p \in Proc : pc[p] = "truncated" => fd[p] # file[p]

LeaseInv ==
  /\ TypeOK
  /\ OpenFiles
  /\ LocksAccountedFor
  /\ NewInode
  /\ FileNamesHolder
  /\ TokensKept

-----------------------------------------------------------------------------

\* The token Acquire computes from a file is larger than the one it read.
LEMMA TokenAfterLarger ==
  ASSUME NEW f \in SessionFile
  PROVE  TokenAfter(f) \in Nat /\ TokenAfter(f) > f.token
BY DEF TokenAfter, SessionFile

\* Typing is inductive together with OpenFiles, which keeps fd and file from
\* being None where an action writes through them.
LEMMA TypingStep ==
  TypeOK /\ OpenFiles /\ [Next]_vars => TypeOK' /\ OpenFiles'
<1> SUFFICES ASSUME TypeOK, OpenFiles, [Next]_vars PROVE TypeOK' /\ OpenFiles'
  OBVIOUS
<1>1. TypeOK'
  <2> USE LeaseAssumption DEF TypeOK, OpenFiles, Pc, SessionFile, ZeroFile
  <2>1. ASSUME NEW p \in Proc, AcquireOpen(p) PROVE TypeOK'
    BY <2>1 DEF AcquireOpen, ContentOnOpen
  <2>2. ASSUME NEW p \in Proc, AcquireAbandon(p) PROVE TypeOK'
    BY <2>2 DEF AcquireAbandon
  <2>3. ASSUME NEW p \in Proc, AcquireLock(p) PROVE TypeOK'
    BY <2>3, TokenAfterLarger DEF AcquireLock, LockFree
  <2>4. ASSUME NEW p \in Proc, AcquireGrant(p) PROVE TypeOK'
    BY <2>4 DEF AcquireGrant, Granted
  <2>5. ASSUME NEW p \in Proc, AcquireWriteError(p) PROVE TypeOK'
    BY <2>5 DEF AcquireWriteError, Granted, Unlock
  <2>6. ASSUME NEW p \in Proc, SetEndpointTruncate(p) PROVE TypeOK'
    BY <2>6 DEF SetEndpointTruncate
  <2>7. ASSUME NEW p \in Proc, SetEndpointWrite(p) PROVE TypeOK'
    BY <2>7 DEF SetEndpointWrite
  <2>8. ASSUME NEW p \in Proc, SetEndpointError(p) PROVE TypeOK'
    BY <2>8 DEF SetEndpointError
  <2>9. ASSUME NEW p \in Proc, ReleaseUnlock(p) PROVE TypeOK'
    BY <2>9 DEF ReleaseUnlock, Unlock
  <2>10. ASSUME NEW p \in Proc, ReleaseRemove(p) PROVE TypeOK'
    BY <2>10 DEF ReleaseRemove
  <2>11. ASSUME NEW p \in Proc, Close(p) PROVE TypeOK'
    BY <2>11 DEF Close, Unlock
  <2>12. ASSUME NEW p \in Proc, Exit(p) PROVE TypeOK'
    BY <2>12 DEF Exit
  <2>13. CASE UNCHANGED vars
    BY <2>13 DEF vars, leaseVars, history
  <2> QED
    BY <2>1, <2>2, <2>3, <2>4, <2>5, <2>6, <2>7, <2>8, <2>9, <2>10, <2>11,
       <2>12, <2>13 DEF Next
<1>2. OpenFiles'
  <2> USE LeaseAssumption DEF TypeOK, OpenFiles, Pc, Holds
  <2>1. ASSUME NEW p \in Proc, AcquireOpen(p) PROVE OpenFiles'
    BY <2>1 DEF AcquireOpen, ContentOnOpen
  <2>2. ASSUME NEW p \in Proc, AcquireAbandon(p) PROVE OpenFiles'
    BY <2>2 DEF AcquireAbandon
  <2>3. ASSUME NEW p \in Proc, AcquireLock(p) PROVE OpenFiles'
    BY <2>3 DEF AcquireLock, LockFree
  <2>4. ASSUME NEW p \in Proc, AcquireGrant(p) PROVE OpenFiles'
    BY <2>4 DEF AcquireGrant, Granted
  <2>5. ASSUME NEW p \in Proc, AcquireWriteError(p) PROVE OpenFiles'
    BY <2>5 DEF AcquireWriteError, Granted, Unlock
  <2>6. ASSUME NEW p \in Proc, SetEndpointTruncate(p) PROVE OpenFiles'
    BY <2>6 DEF SetEndpointTruncate
  <2>7. ASSUME NEW p \in Proc, SetEndpointWrite(p) PROVE OpenFiles'
    BY <2>7 DEF SetEndpointWrite
  <2>8. ASSUME NEW p \in Proc, SetEndpointError(p) PROVE OpenFiles'
    BY <2>8 DEF SetEndpointError
  <2>9. ASSUME NEW p \in Proc, ReleaseUnlock(p) PROVE OpenFiles'
    BY <2>9 DEF ReleaseUnlock, Unlock
  <2>10. ASSUME NEW p \in Proc, ReleaseRemove(p) PROVE OpenFiles'
    BY <2>10 DEF ReleaseRemove
  <2>11. ASSUME NEW p \in Proc, Close(p) PROVE OpenFiles'
    BY <2>11 DEF Close, Unlock
  <2>12. ASSUME NEW p \in Proc, Exit(p) PROVE OpenFiles'
    BY <2>12 DEF Exit
  <2>13. CASE UNCHANGED vars
    BY <2>13 DEF vars, leaseVars, history
  <2> QED
    BY <2>1, <2>2, <2>3, <2>4, <2>5, <2>6, <2>7, <2>8, <2>9, <2>10, <2>11,
       <2>12, <2>13 DEF Next
<1> QED
  BY <1>1, <1>2

\* The lock discipline: who takes a lock, keeps it and drops it.
LEMMA LocksStep ==
  TypeOK /\ OpenFiles /\ LocksAccountedFor /\ NewInode /\ [Next]_vars
    => LocksAccountedFor' /\ NewInode'
<1> SUFFICES ASSUME TypeOK, OpenFiles, LocksAccountedFor, NewInode, [Next]_vars
             PROVE  LocksAccountedFor' /\ NewInode'
  OBVIOUS
<1> USE LeaseAssumption DEF TypeOK, OpenFiles, Pc, LocksAccountedFor, NewInode
<1>1. ASSUME NEW p \in Proc, AcquireOpen(p) PROVE LocksAccountedFor' /\ NewInode'
  BY <1>1 DEF AcquireOpen, ContentOnOpen
<1>2. ASSUME NEW p \in Proc, AcquireAbandon(p) PROVE LocksAccountedFor' /\ NewInode'
  BY <1>2 DEF AcquireAbandon
<1>3. ASSUME NEW p \in Proc, AcquireLock(p) PROVE LocksAccountedFor' /\ NewInode'
  BY <1>3 DEF AcquireLock, LockFree
<1>4. ASSUME NEW p \in Proc, AcquireGrant(p) PROVE LocksAccountedFor' /\ NewInode'
  BY <1>4 DEF AcquireGrant, Granted
<1>5. ASSUME NEW p \in Proc, AcquireWriteError(p) PROVE LocksAccountedFor' /\ NewInode'
  BY <1>5 DEF AcquireWriteError, Granted, Unlock
<1>6. ASSUME NEW p \in Proc, SetEndpointTruncate(p) PROVE LocksAccountedFor' /\ NewInode'
  BY <1>6 DEF SetEndpointTruncate
<1>7. ASSUME NEW p \in Proc, SetEndpointWrite(p) PROVE LocksAccountedFor' /\ NewInode'
  BY <1>7 DEF SetEndpointWrite
<1>8. ASSUME NEW p \in Proc, SetEndpointError(p) PROVE LocksAccountedFor' /\ NewInode'
  BY <1>8 DEF SetEndpointError
<1>9. ASSUME NEW p \in Proc, ReleaseUnlock(p) PROVE LocksAccountedFor' /\ NewInode'
  BY <1>9 DEF ReleaseUnlock, Unlock
<1>10. ASSUME NEW p \in Proc, ReleaseRemove(p) PROVE LocksAccountedFor' /\ NewInode'
  BY <1>10 DEF ReleaseRemove
<1>11. ASSUME NEW p \in Proc, Close(p) PROVE LocksAccountedFor' /\ NewInode'
  BY <1>11 DEF Close, Unlock
<1>12. ASSUME NEW p \in Proc, Exit(p) PROVE LocksAccountedFor' /\ NewInode'
  BY <1>12 DEF Exit
<1>13. CASE UNCHANGED vars
  BY <1>13 DEF vars, leaseVars, history
<1> QED
  BY <1>1, <1>2, <1>3, <1>4, <1>5, <1>6, <1>7, <1>8, <1>9, <1>10, <1>11,
   <1>12, <1>13 DEF Next

\* The content of a held file: written only by whoever holds its lock.
LEMMA NamesStep ==
  LeaseInv /\ [Next]_vars => FileNamesHolder'
<1> SUFFICES ASSUME LeaseInv, [Next]_vars PROVE FileNamesHolder'
  OBVIOUS
<1> USE LeaseAssumption DEF LeaseInv, TypeOK, SessionFile, OpenFiles, Pc, Holds, ZeroFile,
        LocksAccountedFor, NewInode, FileNamesHolder
<1>1. ASSUME NEW p \in Proc, AcquireOpen(p) PROVE FileNamesHolder'
  BY <1>1 DEF AcquireOpen, ContentOnOpen
<1>2. ASSUME NEW p \in Proc, AcquireAbandon(p) PROVE FileNamesHolder'
  BY <1>2 DEF AcquireAbandon
<1>3. ASSUME NEW p \in Proc, AcquireLock(p) PROVE FileNamesHolder'
  BY <1>3 DEF AcquireLock, LockFree
<1>4. ASSUME NEW p \in Proc, AcquireGrant(p) PROVE FileNamesHolder'
  BY <1>4 DEF AcquireGrant, Granted
<1>5. ASSUME NEW p \in Proc, AcquireWriteError(p) PROVE FileNamesHolder'
  BY <1>5 DEF AcquireWriteError, Granted, Unlock
<1>6. ASSUME NEW p \in Proc, SetEndpointTruncate(p) PROVE FileNamesHolder'
  BY <1>6 DEF SetEndpointTruncate
<1>7. ASSUME NEW p \in Proc, SetEndpointWrite(p) PROVE FileNamesHolder'
  BY <1>7 DEF SetEndpointWrite
<1>8. ASSUME NEW p \in Proc, SetEndpointError(p) PROVE FileNamesHolder'
  BY <1>8 DEF SetEndpointError
<1>9. ASSUME NEW p \in Proc, ReleaseUnlock(p) PROVE FileNamesHolder'
  BY <1>9 DEF ReleaseUnlock, Unlock
<1>10. ASSUME NEW p \in Proc, ReleaseRemove(p) PROVE FileNamesHolder'
  BY <1>10 DEF ReleaseRemove
<1>11. ASSUME NEW p \in Proc, Close(p) PROVE FileNamesHolder'
  BY <1>11 DEF Close, Unlock
<1>12. ASSUME NEW p \in Proc, Exit(p) PROVE FileNamesHolder'
  BY <1>12 DEF Exit
<1>13. CASE UNCHANGED vars
  BY <1>13 DEF vars, leaseVars, history
<1> QED
  BY <1>1, <1>2, <1>3, <1>4, <1>5, <1>6, <1>7, <1>8, <1>9, <1>10, <1>11,
     <1>12, <1>13 DEF Next

\* The largest granted token survives in the file, its holder or the writer.
LEMMA TokensStep ==
  LeaseInv /\ [Next]_vars => TokensKept'
<1> SUFFICES ASSUME LeaseInv, [Next]_vars PROVE TokensKept'
  OBVIOUS
<1> USE LeaseAssumption DEF LeaseInv, TypeOK, SessionFile, OpenFiles, Pc, Holds, ZeroFile,
        LocksAccountedFor, NewInode, FileNamesHolder, TokensKept
<1>1. ASSUME NEW p \in Proc, AcquireOpen(p) PROVE TokensKept'
  BY <1>1 DEF AcquireOpen, ContentOnOpen
<1>2. ASSUME NEW p \in Proc, AcquireAbandon(p) PROVE TokensKept'
  BY <1>2 DEF AcquireAbandon
<1>3. ASSUME NEW p \in Proc, AcquireLock(p) PROVE TokensKept'
  BY <1>3, TokenAfterLarger DEF AcquireLock, LockFree
<1>4. ASSUME NEW p \in Proc, AcquireGrant(p) PROVE TokensKept'
  <2> USE <1>4 DEF AcquireGrant, Granted
  <2> SUFFICES ASSUME NEW i \in Inode, i \notin torn
               PROVE  /\ \A q \in Proc : pc'[q] = "truncated" /\ fd'[q] = i => next'[q] > high'[i]
                      /\ \A q \in Proc : file'[q] = i => token'[q] >= high'[i]
                      /\ flock'[i] = None => content'[i].token >= high'[i]
    OBVIOUS
  <2>1. \A q \in Proc : pc'[q] = "truncated" /\ fd'[q] = i => next'[q] > high'[i]
    OBVIOUS
  <2>2. \A q \in Proc : file'[q] = i => token'[q] >= high'[i]
    OBVIOUS
  <2>3. flock'[i] = None => content'[i].token >= high'[i]
    OBVIOUS
  <2> QED
    BY <2>1, <2>2, <2>3
<1>5. ASSUME NEW p \in Proc, AcquireWriteError(p) PROVE TokensKept'
  BY <1>5 DEF AcquireWriteError, Granted, Unlock
<1>6. ASSUME NEW p \in Proc, SetEndpointTruncate(p) PROVE TokensKept'
  BY <1>6 DEF SetEndpointTruncate
<1>7. ASSUME NEW p \in Proc, SetEndpointWrite(p) PROVE TokensKept'
  BY <1>7 DEF SetEndpointWrite
<1>8. ASSUME NEW p \in Proc, SetEndpointError(p) PROVE TokensKept'
  BY <1>8 DEF SetEndpointError
<1>9. ASSUME NEW p \in Proc, ReleaseUnlock(p) PROVE TokensKept'
  BY <1>9 DEF ReleaseUnlock, Unlock
<1>10. ASSUME NEW p \in Proc, ReleaseRemove(p) PROVE TokensKept'
  BY <1>10 DEF ReleaseRemove
<1>11. ASSUME NEW p \in Proc, Close(p) PROVE TokensKept'
  BY <1>11 DEF Close, Unlock
<1>12. ASSUME NEW p \in Proc, Exit(p) PROVE TokensKept'
  BY <1>12 DEF Exit
<1>13. CASE UNCHANGED vars
  BY <1>13 DEF vars, leaseVars, history
<1> QED
  BY <1>1, <1>2, <1>3, <1>4, <1>5, <1>6, <1>7, <1>8, <1>9, <1>10, <1>11,
     <1>12, <1>13 DEF Next

\* The conjunction is an inductive invariant.
THEOREM LeaseInductive == Spec => []LeaseInv
<1>1. Init => LeaseInv
  BY LeaseAssumption DEF Init, LeaseInv, TypeOK, Pc, SessionFile, ZeroFile, OpenFiles,
     LocksAccountedFor, NewInode, FileNamesHolder, TokensKept, Holds
<1>2. LeaseInv /\ [Next]_vars => LeaseInv'
  BY TypingStep, LocksStep, NamesStep, TokensStep DEF LeaseInv
<1> QED
  BY <1>1, <1>2, PTL DEF Spec

\* Type correctness for all processes, inodes and sessions.
THEOREM LeaseTypeCorrect == Spec => []TypeOK
<1>1. LeaseInv => TypeOK
  BY DEF LeaseInv
<1> QED
  BY <1>1, LeaseInductive, PTL

\* No lock is leaked, and a holder has the lock (LocksAccountedFor).
THEOREM NoLeakedLock == Spec => []LocksAccountedFor
<1>1. LeaseInv => LocksAccountedFor
  BY DEF LeaseInv
<1> QED
  BY <1>1, LeaseInductive, PTL

\* The session file of a live lease is never overwritten by another process.
THEOREM HolderNamed == Spec => []FileNamesHolder
<1>1. LeaseInv => FileNamesHolder
  BY DEF LeaseInv
<1> QED
  BY <1>1, LeaseInductive, PTL

\* Mutual exclusion on every file, and altogether until a name is removed: two
\* leases on one inode would be two owners of one lock, and while the name was
\* never removed there is only one inode.
THEOREM MutualExclusion == Spec => []ExclusiveUntilUnlinked
<1>1. LeaseInv => ExclusiveUntilUnlinked
  <2> SUFFICES ASSUME LeaseInv, NEW p \in Proc, NEW q \in Proc, p # q, Holds(p), Holds(q)
               PROVE  file[p] # file[q] /\ ~(used \subseteq {path})
    BY DEF ExclusiveUntilUnlinked
  <2>1. file[p] \in Inode /\ file[q] \in Inode
    BY DEF LeaseInv, TypeOK, Holds
  <2>2. flock[file[p]] = p /\ flock[file[q]] = q
    BY <2>1 DEF LeaseInv, LocksAccountedFor
  <2>3. file[p] \in used /\ file[q] \in used
    BY DEF LeaseInv, OpenFiles, Holds
  <2> QED
    BY <2>2, <2>3
<1> QED
  BY <1>1, LeaseInductive, PTL

\* Fencing tokens advance from one lease of a file to the next.
THEOREM FencingTokens == Spec => TokensAdvance
<1>1. LeaseInv /\ [Next]_vars =>
        [\A p \in Proc :
           file'[p] # file[p] /\ file'[p] # None =>
             token'[p] > high[file'[p]] \/ file'[p] \in torn]_vars
  <2> SUFFICES ASSUME LeaseInv, [Next]_vars, NEW p \in Proc,
                      file'[p] # file[p], file'[p] # None
               PROVE  token'[p] > high[file'[p]] \/ file'[p] \in torn
    OBVIOUS
  <2>1. AcquireGrant(p)
    BY DEF LeaseInv, TypeOK, Next, vars, leaseVars, history, AcquireOpen, AcquireAbandon,
       AcquireLock, AcquireGrant, AcquireWriteError, SetEndpointTruncate,
       SetEndpointWrite, SetEndpointError, ReleaseUnlock, ReleaseRemove, Close, Exit
  <2>2. /\ pc[p] = "truncated"
        /\ file'[p] = fd[p] /\ token'[p] = next[p]
    BY <2>1 DEF AcquireGrant, LeaseInv, TypeOK
  <2>3. fd[p] \in Inode
    BY <2>2 DEF LeaseInv, TypeOK, OpenFiles
  <2> QED
    BY <2>2, <2>3 DEF LeaseInv, TokensKept
<1> QED
  BY <1>1, LeaseInductive, PTL DEF Spec, TokensAdvance

-----------------------------------------------------------------------------
(* Recursion over 0..n, which the library has for operators only.           *)

\* A set of natural numbers that is not empty has a least element.
LEMMA Least ==
  ASSUME NEW T \in SUBSET Nat, T # {}
  PROVE  \E x \in T : \A y \in T : x <= y
<1>1. PICK x \in T : \A y \in T : ~ (<<y, x>> \in OpToRel(<, Nat))
  BY NatLessThanWellFounded, WFMin
<1>2. \A y \in T : x <= y
  <2> SUFFICES ASSUME NEW y \in T PROVE x <= y
    OBVIOUS
  <2>1. ~ (<<y, x>> \in {p \in Nat \X Nat : p[1] < p[2]})
    BY <1>1 DEF OpToRel
  <2>2. x \in Nat /\ y \in Nat
    OBVIOUS
  <2>3. ~ (y < x)
    BY <2>1, <2>2
  <2> QED
    BY <2>2, <2>3
<1> QED
  BY <1>2

\* What holds of 0, and of each number up to n when it holds of the one before, holds
\* of all: in terms of the set of the numbers it holds of.
LEMMA UpTo ==
  ASSUME NEW n \in Nat, NEW T, 0 \in T, \A k \in 1..n : k - 1 \in T => k \in T
  PROVE  0..n \subseteq T
<1> SUFFICES ASSUME ~ (0..n \subseteq T) PROVE FALSE
  OBVIOUS
<1> DEFINE D == {k \in 0..n : k \notin T}
<1>1. D \in SUBSET Nat /\ D # {}
  OBVIOUS
<1>2. PICK d \in D : \A c \in D : d <= c
  BY <1>1, Least
<1>3. d \in 1..n
  BY <1>2
<1>4. d - 1 \in 0..n /\ d - 1 \notin D
  BY <1>2, <1>3
<1> QED
  BY <1>3, <1>4

\* A function defined by recursion over 0..n exists, with all its values in S.
Steps(n, S) == [1..n -> [S -> S]]
Recursion(n, S, start, step, f) ==
  f \in [0..n -> S] /\ f[0] = start /\ \A k \in 1..n : f[k] = step[k][f[k - 1]]

LEMMA RecursionExists ==
  ASSUME NEW n \in Nat, NEW S, NEW start \in S, NEW step \in Steps(n, S)
  PROVE  \E f : Recursion(n, S, start, step, f)
<1> DEFINE Good(m) == \E f \in [0..m -> S] : f[0] = start /\ \A k \in 1..m : f[k] = step[k][f[k - 1]]
           T == {m \in 0..n : Good(m)}
<1>0. step \in [1..n -> [S -> S]]
  BY DEF Steps
<1>1. Good(0)
  <2> DEFINE g == [k \in 0..0 |-> start]
  <2>1. g \in [0..0 -> S] /\ g[0] = start /\ 1..0 = {}
    OBVIOUS
  <2> QED
    BY <2>1
<1>2. ASSUME NEW m \in 1..n, Good(m - 1) PROVE Good(m)
  <2>1. PICK f \in [0..(m - 1) -> S] : f[0] = start /\ \A k \in 1..(m - 1) : f[k] = step[k][f[k - 1]]
    BY <1>2
  <2> DEFINE g == [k \in 0..m |-> IF k = m THEN step[m][f[m - 1]] ELSE f[k]]
  <2>2. f[m - 1] \in S
    OBVIOUS
  <2>3. step[m] \in [S -> S] /\ step[m][f[m - 1]] \in S
    BY <1>0, <2>2
  <2>4. g \in [0..m -> S]
    BY <2>3
  <2>5. \A k \in 0..(m - 1) : g[k] = f[k]
    OBVIOUS
  <2>6. g[0] = start
    BY <2>1, <2>5
  <2>7. \A k \in 1..m : g[k] = step[k][g[k - 1]]
    <3> SUFFICES ASSUME NEW k \in 1..m PROVE g[k] = step[k][g[k - 1]]
      OBVIOUS
    <3>1. k - 1 \in 0..(m - 1)
      OBVIOUS
    <3>2. CASE k = m
      BY <2>5, <3>1, <3>2
    <3>3. CASE k # m
      BY <2>1, <2>5, <3>1, <3>3
    <3> QED
      BY <3>2, <3>3
  <2> QED
    BY <2>4, <2>6, <2>7
<1> HIDE DEF Good
<1>3. 0 \in T
  BY <1>1
<1>4. \A k \in 1..n : k - 1 \in T => k \in T
  BY <1>2
<1>5. n \in T
  <2>1. 0..n \subseteq T
    BY <1>3, <1>4, UpTo
  <2> QED
    BY <2>1
<1> QED
  BY <1>5 DEF Good, Recursion

-----------------------------------------------------------------------------
(* RunIssue: the operators.                                                 *)

\* What the assumptions say of the options of a run.
LEMMA OptionsOf ==
  ASSUME NEW o \in RunOptions
  PROVE  /\ o.issue \in Issues \cup {Unset} /\ o.refs \subseteq Issues \cup DOMAIN TitleOf
         /\ IsFiniteSet(o.refs)
         /\ Len(o.allow) \in Nat /\ DOMAIN o.allow = 1..Len(o.allow)
         /\ U!ToSet(o.allow) = {o.allow[i] : i \in 1..Len(o.allow)}
         /\ \A i \in 1..Len(o.allow) : o.allow[i].server \in Servers \cup {Unset}
         /\ MaxSpans \in Nat /\ Unset \notin Servers \cup Issues \cup DOMAIN TitleOf
<1> DEFINE S == U!ToSet(o.allow)
<1>a. U!IsFiniteSet(o.refs) <=> IsFiniteSet(o.refs)
  BY DEF U!IsFiniteSet, IsFiniteSet
<1>1. /\ o.issue \in Issues \cup {Unset} /\ o.refs \subseteq Issues \cup DOMAIN TitleOf
      /\ IsFiniteSet(o.refs) /\ o.allow \in Seq(S) /\ \A t \in S : t.server \in Servers \cup {Unset}
      /\ MaxSpans \in Nat /\ Unset \notin Servers \cup Issues \cup DOMAIN TitleOf
  BY <1>a, ToolsAssumption DEF U!RunAssumption, U!Pages
<1>2. Len(o.allow) \in Nat /\ DOMAIN o.allow = 1..Len(o.allow)
  <2> HIDE DEF S
  <2> QED
    BY <1>1
<1>3. S = {o.allow[i] : i \in 1..Len(o.allow)}
  BY <1>2 DEF U!ToSet
<1> QED
  BY <1>1, <1>2, <1>3

GrantTable(tools) == [Servers -> [all : BOOLEAN, tools : SUBSET tools]]

\* The grants of an allowlist, token by token (run.go: codexAllowToolsConfigArgs).
LEMMA GrantsStep ==
  ASSUME NEW o \in RunOptions
  PROVE  LET g == U!GrantsUpTo(o.allow)
             tools == {o.allow[i].tool : i \in 1..Len(o.allow)}
         IN /\ g \in [0..Len(o.allow) -> GrantTable(tools)]
            /\ g[0] = [s \in Servers |-> U!NoGrant]
            /\ \A n \in 1..Len(o.allow) : g[n] = U!Grant(g[n - 1], o.allow[n])
<1> DEFINE N == Len(o.allow)
           tools == {o.allow[i].tool : i \in 1..N}
           S == GrantTable(tools)
           base == [s \in Servers |-> U!NoGrant]
           step == [n \in 1..N |-> [g \in S |-> U!Grant(g, o.allow[n])]]
           eq(f) == f = [n \in 0..N |-> IF n = 0 THEN base ELSE U!Grant(f[n - 1], o.allow[n])]
<1>1. N \in Nat /\ \A i \in 1..N : o.allow[i].server \in Servers \cup {Unset}
  BY OptionsOf
<1>2. base \in S
  BY DEF GrantTable, U!NoGrant
<1>3. ASSUME NEW n \in 1..N, NEW g \in S PROVE U!Grant(g, o.allow[n]) \in S
  <2>1. o.allow[n].tool \in tools
    OBVIOUS
  <2> DEFINE t == o.allow[n]
  <2>2. t.tool \in tools /\ (t.server \in Servers \/ t.server = Unset)
    BY <1>1, <2>1
  <2> HIDE DEF t, tools
  <2>3. U!Grant(g, t) \in S
    BY <2>2 DEF U!Grant, GrantTable
  <2> QED
    BY <2>3 DEF t
<1>4. step \in [1..N -> [S -> S]]
  BY <1>3
<1>5a. \A n \in 1..N : \A g \in S : step[n][g] = U!Grant(g, o.allow[n])
  OBVIOUS
<1> HIDE DEF N, S, base, step
<1>5. PICK f \in [0..N -> S] : f[0] = base /\ \A n \in 1..N : f[n] = step[n][f[n - 1]]
  <2>1. step \in Steps(N, S) /\ N \in Nat
    BY <1>1, <1>4 DEF Steps
  <2>2. \E f : Recursion(N, S, base, step, f)
    BY <1>2, <2>1, RecursionExists
  <2> QED
    BY <2>2 DEF Recursion
<1>6. \A n \in 1..N : n - 1 \in 0..N /\ f[n] = U!Grant(f[n - 1], o.allow[n])
  BY <1>1, <1>5, <1>5a
<1>7. eq(f)
  BY <1>1, <1>5, <1>6
<1>8. U!GrantsUpTo(o.allow) = CHOOSE h : eq(h)
  BY DEF U!GrantsUpTo, N, base
<1> DEFINE g == U!GrantsUpTo(o.allow)
<1>9. eq(g)
  BY <1>7, <1>8
<1> HIDE DEF g
<1>10. g[0] = base /\ \A n \in 1..N : g[n] = U!Grant(g[n - 1], o.allow[n])
  <2>1. 0 \in 0..N /\ \A n \in 1..N : n \in 0..N /\ n # 0
    BY <1>1
  <2> QED
    BY <1>9, <2>1
<1>11. \A n \in 0..N : g[n] \in S
  <2> DEFINE T == {n \in 0..N : g[n] \in S}
  <2>1. 0 \in T
    BY <1>1, <1>2, <1>10
  <2>2. \A n \in 1..N : n - 1 \in T => n \in T
    BY <1>1, <1>3, <1>10 DEF N
  <2>3. 0..N \subseteq T
    BY <1>1, <2>1, <2>2, UpTo
  <2> QED
    BY <2>3
<1>12. g \in [0..N -> S]
  BY <1>9, <1>11
<1> QED
  BY <1>10, <1>12 DEF g, N, S, base

\* What one token grants of a server.
LEMMA GrantOf ==
  ASSUME NEW tools, NEW g \in GrantTable(tools), NEW t, NEW s \in Servers
  PROVE  U!Grant(g, t)[s] =
           IF t.server # s \/ t.server = Unset THEN g[s]
           ELSE IF t.tool = Unset THEN [all |-> TRUE, tools |-> {}]
           ELSE IF g[s].all THEN g[s] ELSE [all |-> FALSE, tools |-> g[s].tools \cup {t.tool}]
  BY DEF U!Grant, GrantTable

\* What some tokens ask of a server, and whether a grant is that.
AskedFor(g, s, tokens) ==
  /\ g.all <=> \E t \in tokens : t.server = s /\ t.tool = Unset
  /\ \A t \in tokens : t.server = s => g.all \/ t.tool \in g.tools
  /\ \A tool \in g.tools : \E t \in tokens : t.server = s /\ t.tool = tool

LEMMA AskedForStep ==
  ASSUME NEW tools, NEW g \in GrantTable(tools), NEW t, NEW s \in Servers, NEW tokens,
         Unset \notin Servers, AskedFor(g[s], s, tokens)
  PROVE  AskedFor(U!Grant(g, t)[s], s, tokens \cup {t})
<1> DEFINE h == U!Grant(g, t)[s]
<1>0. h = IF t.server # s \/ t.server = Unset THEN g[s]
            ELSE IF t.tool = Unset THEN [all |-> TRUE, tools |-> {}]
            ELSE IF g[s].all THEN g[s] ELSE [all |-> FALSE, tools |-> g[s].tools \cup {t.tool}]
  BY GrantOf
<1> HIDE DEF h
<1>1. CASE t.server # s
  <2>1. h = g[s]
    BY <1>0, <1>1
  <2> QED
    BY <1>1, <2>1 DEF AskedFor, h
<1>2. CASE t.server = s /\ t.tool = Unset
  <2>1. h = [all |-> TRUE, tools |-> {}]
    BY <1>0, <1>2
  <2>2. h.all = TRUE /\ h.tools = {}
    BY <2>1
  <2> HIDE DEF h
  <2> QED
    BY <1>2, <2>2 DEF AskedFor, h
<1>3. CASE t.server = s /\ t.tool # Unset /\ g[s].all
  <2>1. h = g[s]
    BY <1>0, <1>3
  <2> QED
    BY <1>3, <2>1 DEF AskedFor, h
<1>4. CASE t.server = s /\ t.tool # Unset /\ ~ g[s].all
  <2>1. h = [all |-> FALSE, tools |-> g[s].tools \cup {t.tool}]
    BY <1>0, <1>4
  <2>2. h.all = FALSE /\ h.tools = g[s].tools \cup {t.tool}
    BY <2>1
  <2> HIDE DEF h
  <2> QED
    BY <1>4, <2>2 DEF AskedFor, h
<1> QED
  BY <1>1, <1>2, <1>3, <1>4

\* Codex is granted just what the allowlist asks for.
LEMMA CodexAsked ==
  ASSUME NEW o \in RunOptions, NEW s \in Servers
  PROVE  AskedFor(U!CodexGrants(o.allow)[s], s, U!ToSet(o.allow))
<1> DEFINE N == Len(o.allow)
           g == U!GrantsUpTo(o.allow)
           tools == {o.allow[i].tool : i \in 1..N}
           tokens(n) == {o.allow[i] : i \in 1..n}
           T == {n \in 0..N : AskedFor(g[n][s], s, tokens(n))}
<1>1. N \in Nat /\ Unset \notin Servers /\ U!ToSet(o.allow) = tokens(N)
  BY OptionsOf
<1>2. /\ g \in [0..N -> GrantTable(tools)]
      /\ g[0] = [x \in Servers |-> U!NoGrant]
      /\ \A n \in 1..N : g[n] = U!Grant(g[n - 1], o.allow[n])
  BY GrantsStep
<1> HIDE DEF g, N
<1>3. 0 \in T
  <2>1. g[0][s] = [all |-> FALSE, tools |-> {}] /\ tokens(0) = {}
    BY <1>2 DEF U!NoGrant
  <2> QED
    BY <1>1, <2>1 DEF AskedFor
<1>4. \A n \in 1..N : n - 1 \in T => n \in T
  <2> SUFFICES ASSUME NEW n \in 1..N, n - 1 \in T PROVE n \in T
    OBVIOUS
  <2>1. tokens(n) = tokens(n - 1) \cup {o.allow[n]}
    <3>1. 1..n = 1..(n - 1) \cup {n}
      BY <1>1
    <3> QED
      BY <3>1
  <2>2. g[n - 1] \in GrantTable(tools)
    BY <1>1, <1>2
  <2>3. AskedFor(g[n - 1][s], s, tokens(n - 1))
    OBVIOUS
  <2> HIDE DEF tokens, tools
  <2>4. AskedFor(U!Grant(g[n - 1], o.allow[n])[s], s, tokens(n - 1) \cup {o.allow[n]})
    BY <1>1, <2>2, <2>3, AskedForStep
  <2>5. n \in 0..N /\ g[n] = U!Grant(g[n - 1], o.allow[n])
    BY <1>1, <1>2
  <2>6. AskedFor(g[n][s], s, tokens(n))
    BY <2>1, <2>4, <2>5
  <2> QED
    BY <2>5, <2>6
<1>5. N \in T
  <2> HIDE DEF T
  <2>1. 0..N \subseteq T
    BY <1>1, <1>3, <1>4, UpTo
  <2> QED
    BY <1>1, <2>1
<1> QED
  BY <1>1, <1>5 DEF U!CodexGrants, g, N

\* The default mode of permissions adds no flag, and codex is granted just what the
\* allowlist asks for, server by server.
LEMMA GrantsFromOptions == opts \in RunOptions => GrantsAsAsked
<1> SUFFICES ASSUME opts \in RunOptions PROVE GrantsAsAsked
  OBVIOUS
<1>1. U!PermissionMode(opts) = "default" => U!HarnessArgs(opts).permissions = {}
  BY DEF U!HarnessArgs, U!PermissionArgs
<1>2. U!Agent(opts) = "codex" => U!HarnessArgs(opts).tools = U!CodexGrants(opts.allow)
  BY DEF U!HarnessArgs
<1>3. \A s \in Servers : AskedFor(U!CodexGrants(opts.allow)[s], s, U!ToSet(opts.allow))
  BY CodexAsked
<1> QED
  BY <1>1, <1>2, <1>3 DEF GrantsAsAsked, U!GrantsAsAsked, AskedFor

\* `botfam run' never starts a harness with more, or less, than the operator's options
\* ask for (run.go: permission modes and the codex allowlist), for any allowlist.
THEOREM GrantsAsked == U!Spec => []GrantsAsAsked
<1>1. U!Init => opts \in RunOptions
  BY DEF U!Init
<1>2. opts \in RunOptions /\ [U!Next]_(U!vars) => (opts \in RunOptions)'
  BY DEF U!Next, U!vars, U!Command, U!Refuse, U!Accept, U!NoIssue, U!BuildGoal, U!Launch, U!Ended,
     U!Classify, U!BeginFile, U!EndFile, U!FileFails, U!Report, U!Deadline, U!ChildEnds, U!Kill,
     U!PipesClose, U!Span, U!Rotate, U!Crash
<1> QED
  BY <1>1, <1>2, GrantsFromOptions, PTL DEF U!Spec

-----------------------------------------------------------------------------
(* RunIssue: the goal.                                                      *)

\* No two of some forge entities are of the same issue or page.
Distinct(goal) == \A e, f \in goal : U!Same(e, f) => e = f
\* One of them is the one a reference is to.
IsOf(e, r) == e.key = r /\ (e.kind = "wiki_page") = (r \in U!Pages)
Names(goal, r) == \E e \in goal : IsOf(e, r)

\* Upsert changes what an entity is, never which issue or page it is of.
LEMMA UpsertKeeps ==
  ASSUME NEW goal \in SUBSET U!Entity, NEW e \in U!Entity, Distinct(goal)
  PROVE  /\ U!Upsert(goal, e) \in SUBSET U!Entity
         /\ Distinct(U!Upsert(goal, e))
         /\ \A r : Names(goal, r) => Names(U!Upsert(goal, e), r)
<1> DEFINE new(f) == IF U!Same(e, f) THEN [f EXCEPT !.kind = e.kind, !.error = f.error \/ e.error] ELSE f
<1>1. CASE \E f \in goal : U!Same(e, f)
  <2>1. U!Upsert(goal, e) = {new(f) : f \in goal}
    BY <1>1 DEF U!Upsert
  <2>2. \A f \in goal : /\ new(f) \in U!Entity
                         /\ new(f).key = f.key
                         /\ (new(f).kind = "wiki_page") = (f.kind = "wiki_page")
    BY DEF U!Entity, U!Same
  <2> HIDE DEF new
  <2>3. U!Upsert(goal, e) \in SUBSET U!Entity
    BY <2>1, <2>2
  <2>4. Distinct(U!Upsert(goal, e))
    <3>1. \A f, g \in goal : U!Same(new(f), new(g)) => new(f) = new(g)
      BY <2>2 DEF Distinct, U!Same
    <3> QED
      BY <2>1, <3>1 DEF Distinct
  <2>5. \A r : \A f \in goal : IsOf(f, r) => IsOf(new(f), r)
    BY <2>2 DEF IsOf
  <2> QED
    BY <2>1, <2>3, <2>4, <2>5 DEF Names
<1>2. CASE ~ \E f \in goal : U!Same(e, f)
  <2>1. U!Upsert(goal, e) = goal \cup {e}
    BY <1>2 DEF U!Upsert
  <2>2. \A f \in goal : ~ U!Same(e, f) /\ ~ U!Same(f, e)
    BY <1>2 DEF U!Same
  <2>3. Distinct(goal \cup {e})
    BY <2>2 DEF Distinct
  <2> QED
    BY <2>1, <2>3 DEF Names
<1> QED
  BY <1>1, <1>2

\* A goal as it should be: one entity for each reference.
GoalOf(o, goal) ==
  /\ goal \in SUBSET U!Entity /\ Distinct(goal)
  /\ \A r \in o.refs : Names(goal, r)

\* What a look-up makes of a reference, whether it answers or not.
LEMMA FoundIsEntity ==
  ASSUME NEW r \in Issues \cup U!Pages, NEW b \in BOOLEAN
  PROVE  U!Unresolved(r, b) \in U!Entity /\ U!Resolved(r) \in U!Entity
  BY DEF U!Unresolved, U!Resolved, U!Entity, U!KindOf, U!Pages

\* Before anything is looked up: the references as they were asked for (run.go:
\* buildRunGoal).
LEMMA AskedIsGoal ==
  ASSUME NEW o \in RunOptions
  PROVE  GoalOf(o, U!Asked(o))
<1> DEFINE refs == o.refs \cup IF o.prompt \/ o.issue = Unset THEN {} ELSE {o.issue}
           bare == {U!Unresolved(r, FALSE) : r \in refs}
<1>1. refs \subseteq Issues \cup U!Pages /\ o.refs \subseteq refs
  BY OptionsOf DEF U!Pages
<1>2. bare \in SUBSET U!Entity
  BY <1>1, FoundIsEntity
<1>2a. \A r : /\ U!Unresolved(r, FALSE).key = r
              /\ U!Unresolved(r, FALSE).kind = U!KindOf(r)
  BY DEF U!Unresolved
<1>3. Distinct(bare)
  <2> SUFFICES ASSUME NEW e \in bare, NEW f \in bare, U!Same(e, f) PROVE e = f
    BY DEF Distinct
  <2>1. PICK q \in refs, r \in refs : e = U!Unresolved(q, FALSE) /\ f = U!Unresolved(r, FALSE)
    OBVIOUS
  <2>2. e.key = f.key
    BY DEF U!Same
  <2> QED
    BY <1>2a, <2>1, <2>2
<1>4. \A r \in o.refs : Names(bare, r)
  <2> SUFFICES ASSUME NEW r \in o.refs PROVE Names(bare, r)
    OBVIOUS
  <2>1. U!Unresolved(r, FALSE) \in bare
    BY <1>1
  <2>2. (U!KindOf(r) = "wiki_page") = (r \in U!Pages)
    BY DEF U!KindOf
  <2> QED
    BY <1>2a, <2>1, <2>2 DEF Names, IsOf
<1>5. U!Asked(o) = IF o.issue = Unset THEN bare ELSE U!Upsert(bare, U!Resolved(o.issue))
  BY DEF U!Asked
<1> HIDE DEF bare
<1>6. CASE o.issue = Unset
  BY <1>2, <1>3, <1>4, <1>5, <1>6 DEF GoalOf
<1>7. CASE o.issue # Unset
  <2>1. U!Resolved(o.issue) \in U!Entity
    BY <1>7, OptionsOf, FoundIsEntity
  <2> QED
    BY <1>2, <1>3, <1>4, <1>5, <1>7, <2>1, UpsertKeeps DEF GoalOf
<1> QED
  BY <1>6, <1>7

\* Whatever look-ups answer and in whatever order they come.
LEMMA GoalIsGoal ==
  ASSUME NEW o \in RunOptions, NEW answered \in SUBSET o.refs,
         NEW order \in U!SetToSeqs(o.refs \ {o.issue})
  PROVE  GoalOf(o, U!Goal(o, answered, order))
<1> DEFINE rest == o.refs \ {o.issue}
           N == Len(order)
           S == {goal \in SUBSET U!Entity : GoalOf(o, goal)}
           base == U!Asked(o)
           after(n, goal) == U!Upsert(goal, U!Found(order[n], answered))
           step == [n \in 1..N |-> [goal \in S |-> after(n, goal)]]
           eq(f) == f = [n \in 0..N |-> IF n = 0 THEN base ELSE after(n, f[n - 1])]
<1>1. N \in Nat /\ \A n \in 1..N : order[n] \in o.refs
  <2>1. IsFiniteSet(rest)
    BY OptionsOf, FS_Subset
  <2>2. U!Cardinality(rest) = Cardinality(rest)
    BY DEF U!Cardinality, Cardinality
  <2> DEFINE c == Cardinality(rest)
  <2>3. c \in Nat
    BY <2>1, FS_CardinalityType
  <2>4. order \in [1..c -> rest]
    BY <2>2 DEF U!SetToSeqs
  <2> HIDE DEF c
  <2>5. Len(order) = c
    BY <2>3, <2>4
  <2> QED
    BY <2>3, <2>4, <2>5
<1>2. base \in S
  BY AskedIsGoal DEF GoalOf
<1>3. ASSUME NEW n \in 1..N, NEW goal \in S PROVE after(n, goal) \in S
  <2>1. order[n] \in Issues \cup U!Pages
    BY <1>1, OptionsOf DEF U!Pages
  <2> DEFINE e == U!Found(order[n], answered)
  <2>2. e \in U!Entity
    BY <2>1, FoundIsEntity DEF U!Found
  <2> HIDE DEF e
  <2>3. GoalOf(o, U!Upsert(goal, e))
    BY <2>2, UpsertKeeps DEF GoalOf
  <2> QED
    BY <2>3 DEF e, GoalOf
<1> HIDE DEF after
<1>4. step \in [1..N -> [S -> S]]
  BY <1>3
<1>5. \A n \in 1..N : \A goal \in S : step[n][goal] = after(n, goal)
  OBVIOUS
<1> HIDE DEF N, S, base, step
<1>6. PICK f \in [0..N -> S] : f[0] = base /\ \A n \in 1..N : f[n] = step[n][f[n - 1]]
  <2>1. step \in Steps(N, S) /\ N \in Nat
    BY <1>1, <1>4 DEF Steps
  <2>2. \E f : Recursion(N, S, base, step, f)
    BY <1>2, <2>1, RecursionExists
  <2> QED
    BY <2>2 DEF Recursion
<1>7. \A n \in 1..N : n - 1 \in 0..N /\ f[n] = after(n, f[n - 1])
  BY <1>1, <1>5, <1>6
<1>8. eq(f)
  BY <1>1, <1>6, <1>7
<1>9. U!GoalUpTo(o, answered, order) = CHOOSE h : eq(h)
  BY DEF U!GoalUpTo, N, base, after
<1> DEFINE g == U!GoalUpTo(o, answered, order)
<1>10. eq(g)
  BY <1>8, <1>9
<1> HIDE DEF g
<1>11. g[0] = base /\ \A n \in 1..N : n \in 0..N /\ g[n] = after(n, g[n - 1])
  <2>1. 0 \in 0..N /\ \A n \in 1..N : n \in 0..N /\ n # 0
    BY <1>1
  <2> QED
    BY <1>10, <2>1
<1>12. g[N] \in S
  <2> DEFINE T == {n \in 0..N : g[n] \in S}
  <2>1. 0 \in T
    BY <1>1, <1>2, <1>11
  <2>2. \A n \in 1..N : n - 1 \in T => n \in T
    BY <1>1, <1>3, <1>11 DEF N
  <2> HIDE DEF T
  <2>3. 0..N \subseteq T
    BY <1>1, <2>1, <2>2, UpTo
  <2> QED
    BY <1>1, <2>3 DEF T
<1> QED
  BY <1>12 DEF U!Goal, g, N, S

\* So a reference is to one entity of it.
LEMMA OneEntity ==
  ASSUME NEW o, NEW goal, GoalOf(o, goal), NEW r \in o.refs
  PROVE  U!Cardinality({e \in goal : IsOf(e, r)}) = 1
<1> DEFINE E == {e \in goal : IsOf(e, r)}
<1>1. PICK x \in goal : IsOf(x, r)
  BY DEF GoalOf, Names
<1>2. \A e \in E : e = x
  BY <1>1 DEF GoalOf, Distinct, IsOf, U!Same
<1>3. E = {x}
  BY <1>1, <1>2
<1>4. U!Cardinality(E) = Cardinality(E)
  BY DEF U!Cardinality, Cardinality
<1> QED
  BY <1>3, <1>4, FS_Singleton

-----------------------------------------------------------------------------
(* RunIssue: the command.                                                   *)

Place == 1..8
Started == \E k \in Place : files[U!FileOrder[k]] # "absent"
\* The harness is done with, and what its class says of it is so.
Settled ==
  /\ child \in {"missing", "zero", "nonzero", "signal"} /\ ~held
  /\ class = "timeout" => late
  /\ class = "success" => child = "zero"
\* The spans of the trace file from before the run are before the offset.
TraceKept == \A i \in 1..Len(trace) : trace[i] = "before" => i <= offset /\ offset <= Len(trace)

\* Nothing is started before Launch, and what is not done with has written nothing.
HarnessDone ==
  /\ upc \in {"options", "goal", "launch"} => child = "none" /\ ~held
  /\ upc = "running" => child # "none"
  /\ upc \in {"ended", "write"} \/ Started => Settled
  /\ upc \notin {"write", "over"} => ~Started
FilesInOrder ==
  /\ \A j, k \in U!Expected : j < k /\ files[U!FileOrder[k]] # "absent" => U!Whole(j)
  /\ outcome = "ok" => upc = "over" /\ child = "zero" /\ U!Written
GoalKept == upc \in {"launch", "running", "ended", "write"} \/ Started => GoalOf(opts, entities)
TracesKept ==
  /\ upc \in {"launch", "running", "ended", "write"} /\ opts.traced => TraceKept
  /\ \A i \in 1..Len(copied) : copied[i] = "since"

RunInv == U!TypeOK /\ HarnessDone /\ FilesInOrder /\ GoalKept /\ TracesKept

\* The files of a run have a place each in the order in which they are written.
LEMMA FilesPlaced ==
  /\ DOMAIN U!FileOrder = Place
  /\ U!ToSet(U!FileOrder) = {U!FileOrder[k] : k \in Place}
  /\ \A j, k \in Place : U!FileOrder[j] = U!FileOrder[k] => j = k
  /\ U!FileOrder[1] = "stdout.log" /\ U!FileOrder[2] = "stderr.log" /\ U!FileOrder[3] = "run.json"
  /\ \A k \in 1..7 : U!FileOrder[k] # "otel-traces.jsonl"
  /\ U!FileOrder[8] = "otel-traces.jsonl"
<1>1. DOMAIN U!FileOrder = Place
  BY DEF U!FileOrder, Place
<1> QED
  BY <1>1 DEF U!FileOrder, Place, U!ToSet

\* Those of this run: the trace is copied on demand.
LEMMA ExpectedPlaces ==
  /\ U!Expected = {k \in Place : k = 8 => opts.traced}
  /\ U!Expected \subseteq Place
  /\ 1 \in U!Expected /\ 2 \in U!Expected /\ 3 \in U!Expected
<1>1. \A k \in Place : U!FileOrder[k] = "otel-traces.jsonl" <=> k = 8
  BY FilesPlaced DEF Place
<1>2. U!Expected = {k \in Place : k = 8 => opts.traced}
  BY <1>1, FilesPlaced DEF U!Expected
<1> QED
  BY <1>2 DEF Place

\* Nothing is written and nothing runs at the start.
LEMMA RunInitially == U!Init => RunInv
<1> SUFFICES ASSUME U!Init PROVE RunInv
  OBVIOUS
<1>1. /\ opts \in RunOptions /\ upc = "options" /\ late = FALSE /\ child = "none" /\ held = FALSE
      /\ entities = {} /\ class = "" /\ files = [f \in U!ToSet(U!FileOrder) |-> "absent"]
      /\ trace \in {<<>>, <<"before">>} /\ offset = 0 /\ copied = <<>> /\ outcome = "none"
  BY DEF U!Init
<1>2. MaxSpans \in Nat \ {0}
  BY ToolsAssumption DEF U!RunAssumption
<1>3. ~Started
  BY <1>1, FilesPlaced DEF Started
<1>4. \A k \in U!Expected : files[U!FileOrder[k]] = "absent"
  BY <1>1, FilesPlaced, ExpectedPlaces
<1>5. U!TypeOK
  <2>1. trace \in Seq({"before", "since"}) /\ Len(trace) <= MaxSpans
    <3>1. CASE trace = <<>>
      BY <1>2, <3>1
    <3>2. CASE trace = <<"before">>
      BY <1>2, <3>2
    <3> QED
      BY <1>1, <3>1, <3>2
  <2>2. files \in [U!ToSet(U!FileOrder) -> {"absent", "partial", "whole"}]
    BY <1>1
  <2>3. copied \in Seq({"before", "since"}) /\ offset \in 0..MaxSpans
    <3>a. copied = <<>> /\ offset = 0
      BY <1>1
    <3>1. copied \in Seq({"before", "since"})
      BY <3>a
    <3>2. offset \in 0..MaxSpans
      BY <3>a, <1>2
    <3> QED
      BY <3>1, <3>2
  <2>4. entities \subseteq U!Entity
    BY <1>1
  <2> QED
    BY <1>1, <2>1, <2>2, <2>3, <2>4 DEF U!TypeOK
<1>6. Len(copied) = 0
  BY <1>1
<1>7. /\ ~(upc \in {"ended", "write"}) /\ ~(upc \in {"launch", "running", "ended", "write"})
      /\ upc # "running" /\ outcome # "ok"
  BY <1>1
<1>8. \A i \in 1..Len(copied) : copied[i] = "since"
  BY <1>6
<1>9. \A j, k \in U!Expected : j < k /\ files[U!FileOrder[k]] # "absent" => U!Whole(j)
  BY <1>4
<1> QED
  BY <1>1, <1>3, <1>5, <1>7, <1>8, <1>9 DEF RunInv, HarnessDone, FilesInOrder, GoalKept, TracesKept

\* A span more, and what is copied of a trace.
LEMMA TraceLonger ==
  ASSUME NEW S, NEW s \in Seq(S), NEW x \in S
  PROVE  /\ Append(s, x) \in Seq(S) /\ Len(Append(s, x)) = Len(s) + 1
         /\ \A i \in 1..(Len(s) + 1) : Append(s, x)[i] = IF i = Len(s) + 1 THEN x ELSE s[i]
  OBVIOUS

\* What is copied of the trace file comes from after the offset, unless the file was
\* truncated meanwhile (run.go: copyTraceDelta).
LEMMA DeltaOfTrace ==
  ASSUME NEW S, trace \in Seq(S), NEW n \in Nat
  PROVE  /\ U!Delta(n) \in Seq(S)
         /\ \A i \in 1..Len(U!Delta(n)) :
              \E j \in 1..Len(trace) : U!Delta(n)[i] = trace[j] /\ (Len(trace) < n \/ j > n)
<1> DEFINE l == Len(trace)
<1>0. l \in Nat /\ \A i \in 1..l : trace[i] \in S
  OBVIOUS
<1>1. CASE l < n
  BY <1>0, <1>1 DEF U!Delta
<1>2. CASE ~ (l < n)
  <2>1. U!Delta(n) = SubSeq(trace, n + 1, l)
    BY <1>2 DEF U!Delta
  <2> HIDE DEF l
  <2> DEFINE m == n + 1
             d == SubSeq(trace, m, l)
  <2>2. m \in Int /\ l \in Int /\ \A i \in m..l : trace[i] \in S
    BY <1>0
  <2>3. \A i \in 1..(l - m + 1) : m + i - 1 \in 1..l /\ m + i - 1 > n
    BY <1>0
  <2>4. m <= l => l - m + 1 \in Nat
    BY <1>0
  <2>5. l - m + 1 >= 0
    BY <1>0, <1>2
  <2> HIDE DEF m
  <2>6. /\ d \in Seq(S) /\ Len(d) = (IF m <= l THEN l - m + 1 ELSE 0)
        /\ \A i \in 1..(l - m + 1) : d[i] = trace[m + i - 1]
    BY <2>2, SubSeqProperties
  <2> HIDE DEF d
  <2>7. 1..Len(d) \subseteq 1..(l - m + 1)
    BY <2>2, <2>5, <2>6
  <2>8. \A i \in 1..Len(d) : m + i - 1 \in 1..l /\ m + i - 1 > n /\ d[i] = trace[m + i - 1]
    BY <2>3, <2>6, <2>7
  <2>9. U!Delta(n) = d
    BY <2>1 DEF d, m
  <2> QED
    BY <2>6, <2>8, <2>9 DEF l
<1> QED
  BY <1>1, <1>2

\* What a step leaves alone stays typed, and so do the files and the goal.
LEMMA RunTyped ==
  ASSUME RunInv, U!Next PROVE U!TypeOK'
<1> USE DEF RunInv
<1>1. /\ opts \in RunOptions
      /\ upc \in {"options", "goal", "launch", "running", "ended", "write", "over"}
      /\ late \in BOOLEAN /\ held \in BOOLEAN
      /\ child \in {"none", "missing", "running", "zero", "nonzero", "signal"}
      /\ entities \subseteq U!Entity
      /\ class \in {"", "success", "timeout", "tool_error"}
      /\ files \in [U!ToSet(U!FileOrder) -> {"absent", "partial", "whole"}]
      /\ trace \in Seq({"before", "since"}) /\ Len(trace) <= MaxSpans
      /\ offset \in 0..MaxSpans
      /\ copied \in Seq({"before", "since"})
      /\ outcome \in {"none", "ok", "error", "killed"}
  BY DEF U!TypeOK
<1>2. MaxSpans \in Nat \ {0}
  BY ToolsAssumption DEF U!RunAssumption
<1>2a. /\ trace \in Seq({"before", "since"}) /\ Len(trace) \in Nat /\ Len(trace) <= MaxSpans
       /\ offset \in Nat /\ MaxSpans \in Nat
  <2>1. trace \in Seq({"before", "since"}) /\ Len(trace) <= MaxSpans /\ offset \in 0..MaxSpans
    BY <1>1
  <2> QED
    BY <1>2, <2>1
<1> USE DEF U!TypeOK
<1> HIDE DEF RunInv
<1>3. CASE U!Refuse
  BY <1>1, <1>3 DEF U!Refuse, U!Return
<1>4. CASE U!Accept
  BY <1>1, <1>4 DEF U!Accept
<1>5. CASE U!NoIssue
  BY <1>1, <1>5 DEF U!NoIssue, U!Return
<1>6. CASE U!BuildGoal
  <2>1. entities' \subseteq U!Entity
    BY <1>1, <1>6, GoalIsGoal DEF U!BuildGoal, GoalOf
  <2>2. offset' \in 0..MaxSpans
    <3>1. offset' = Len(trace) \/ offset' = 0
      BY <1>6 DEF U!BuildGoal
    <3> QED
      BY <1>2a, <3>1
  <2> QED
    BY <1>1, <1>6, <2>1, <2>2 DEF U!BuildGoal
<1>7. CASE U!Launch
  BY <1>1, <1>7 DEF U!Launch
<1>8. CASE U!Ended
  BY <1>1, <1>8 DEF U!Ended
<1>9. CASE U!Classify
  BY <1>1, <1>9 DEF U!Classify
<1>10. CASE U!BeginFile
  BY <1>1, <1>10 DEF U!BeginFile
<1>11. CASE U!EndFile
  <2>1. PICK k \in U!Expected :
          /\ files' = [files EXCEPT ![U!FileOrder[k]] = "whole"]
          /\ copied' = IF U!FileOrder[k] = "otel-traces.jsonl" THEN U!Delta(offset) ELSE copied
    BY <1>11 DEF U!EndFile
  <2>2. files' \in [U!ToSet(U!FileOrder) -> {"absent", "partial", "whole"}]
    BY <1>1, <2>1
  <2>3. U!Delta(offset) \in Seq({"before", "since"})
    BY <1>2a, DeltaOfTrace
  <2>4. copied' \in Seq({"before", "since"})
    BY <1>1, <2>1, <2>3
  <2> QED
    BY <1>1, <1>11, <2>2, <2>4 DEF U!EndFile
<1>12. CASE U!FileFails
  BY <1>1, <1>12 DEF U!FileFails, U!Return
<1>13. CASE U!Report
  BY <1>1, <1>13 DEF U!Report, U!Return
<1>14. CASE U!Deadline
  BY <1>1, <1>14 DEF U!Deadline
<1>15. CASE U!ChildEnds
  BY <1>1, <1>15 DEF U!ChildEnds
<1>16. CASE U!Kill
  BY <1>1, <1>16 DEF U!Kill
<1>17. CASE U!PipesClose
  BY <1>1, <1>17 DEF U!PipesClose
<1>18. CASE U!Span
  <2>1. trace' \in Seq({"before", "since"}) /\ Len(trace') <= MaxSpans
    <3>1. Len(trace) < MaxSpans /\ trace' = Append(trace, IF upc \in {"options", "goal"} THEN "before" ELSE "since")
      BY <1>18 DEF U!Span
    <3>2. PICK x \in {"before", "since"} : trace' = Append(trace, x)
      BY <3>1
    <3>3. Len(trace') = Len(trace) + 1 /\ trace' \in Seq({"before", "since"})
      BY <1>2a, <3>2, TraceLonger
    <3> QED
      BY <1>2a, <3>1, <3>3
  <2> QED
    BY <1>1, <1>18, <2>1 DEF U!Span
<1>19. CASE U!Rotate
  <2>1. trace' = <<>>
    BY <1>19 DEF U!Rotate
  <2>2. trace' \in Seq({"before", "since"}) /\ Len(trace') = 0
    BY <2>1
  <2>3. Len(trace') <= MaxSpans
    BY <1>2, <2>2
  <2> QED
    BY <1>1, <1>19, <2>2, <2>3 DEF U!Rotate
<1>20. CASE U!Crash
  BY <1>1, <1>20 DEF U!Crash, U!Return
<1> QED
  BY <1>3, <1>4, <1>5, <1>6, <1>7, <1>8, <1>9, <1>10, <1>11, <1>12, <1>13, <1>14, <1>15, <1>16,
     <1>17, <1>18, <1>19, <1>20 DEF U!Next, U!Command

\* The harness is settled when the command has seen it end, and nothing undoes that.
LEMMA HarnessStep ==
  ASSUME RunInv, U!Next PROVE HarnessDone'
<1> USE DEF RunInv, HarnessDone
<1>1. CASE U!Refuse
  BY <1>1 DEF U!Refuse, U!Return, Settled, Started
<1>2. CASE U!Accept
  BY <1>2 DEF U!Accept, Settled, Started
<1>3. CASE U!NoIssue
  BY <1>3 DEF U!NoIssue, U!Return, Settled, Started
<1>4. CASE U!BuildGoal
  BY <1>4 DEF U!BuildGoal, Settled, Started
<1>5. CASE U!Launch
  BY <1>5 DEF U!Launch, Settled, Started
<1>6. CASE U!Ended
  <2>1. upc = "running" /\ child # "running" /\ ~held /\ upc' = "ended" /\ UNCHANGED <<child, held, late, files>>
    BY <1>6 DEF U!Ended
  <2>2. class' \in {"success", "timeout", "tool_error"}
        /\ (class' = "success" => child = "zero") /\ (class' = "timeout" => late)
    <3>1. CASE child = "zero"
      BY <1>6, <3>1 DEF U!Ended
    <3>2. CASE child # "zero" /\ late /\ U!Target(opts) # "fail"
      BY <1>6, <3>2 DEF U!Ended
    <3>3. CASE child # "zero" /\ ~ (late /\ U!Target(opts) # "fail")
      BY <1>6, <3>3 DEF U!Ended
    <3> QED
      BY <3>1, <3>2, <3>3
  <2>3. child \in {"missing", "zero", "nonzero", "signal"}
    BY <2>1 DEF U!TypeOK
  <2> QED
    BY <2>1, <2>2, <2>3 DEF Settled, Started
<1>7. CASE U!Classify
  BY <1>7 DEF U!Classify, Settled, Started
<1>8. CASE U!BeginFile
  <2>1. Settled /\ upc = "write"
    BY <1>8 DEF U!BeginFile
  <2> QED
    BY <1>8, <2>1 DEF U!BeginFile, HarnessDone, Settled
<1>9. CASE U!EndFile
  <2>1. Settled /\ upc = "write"
    BY <1>9 DEF U!EndFile
  <2> QED
    BY <1>9, <2>1 DEF U!EndFile, HarnessDone, Settled
<1>10. CASE U!FileFails
  BY <1>10 DEF U!FileFails, U!Return, Settled, Started
<1>11. CASE U!Report
  BY <1>11 DEF U!Report, U!Return, Settled, Started
<1>12. CASE U!Deadline
  BY <1>12 DEF U!Deadline, Settled, Started
<1>13. CASE U!ChildEnds
  BY <1>13 DEF U!ChildEnds, Settled, Started
<1>14. CASE U!Kill
  BY <1>14 DEF U!Kill, Settled, Started
<1>15. CASE U!PipesClose
  BY <1>15 DEF U!PipesClose, Settled, Started
<1>16. CASE U!Span
  BY <1>16 DEF U!Span, Settled, Started
<1>17. CASE U!Rotate
  BY <1>17 DEF U!Rotate, Settled, Started
<1>18. CASE U!Crash
  BY <1>18 DEF U!Crash, U!Return, Settled, Started
<1> QED
  BY <1>1, <1>2, <1>3, <1>4, <1>5, <1>6, <1>7, <1>8, <1>9,
     <1>10, <1>11, <1>12, <1>13, <1>14, <1>15, <1>16, <1>17, <1>18 DEF U!Next, U!Command

\* The goal is built once, before the harness is launched, and stays.
LEMMA GoalStep ==
  ASSUME RunInv, U!Next PROVE GoalKept'
<1> USE DEF RunInv, GoalKept, HarnessDone
<1>1. CASE U!Refuse
  BY <1>1 DEF U!Refuse, U!Return, Started
<1>2. CASE U!Accept
  BY <1>2 DEF U!Accept, Started
<1>3. CASE U!NoIssue
  BY <1>3 DEF U!NoIssue, U!Return, Started
<1>4. CASE U!BuildGoal
  <2>1. opts \in RunOptions
    BY DEF U!TypeOK
  <2>2. GoalOf(opts, entities')
    BY <1>4, <2>1, GoalIsGoal DEF U!BuildGoal
  <2> QED
    BY <1>4, <2>2 DEF U!BuildGoal
<1>5. CASE U!Launch
  BY <1>5 DEF U!Launch, Started
<1>6. CASE U!Ended
  BY <1>6 DEF U!Ended, Started
<1>7. CASE U!Classify
  BY <1>7 DEF U!Classify, Started
<1>8. CASE U!BeginFile
  <2>1. upc = "write" /\ UNCHANGED <<opts, entities>>
    BY <1>8 DEF U!BeginFile
  <2> QED
    BY <2>1
<1>9. CASE U!EndFile
  <2>1. upc = "write" /\ UNCHANGED <<opts, entities>>
    BY <1>9 DEF U!EndFile
  <2> QED
    BY <2>1
<1>10. CASE U!FileFails
  BY <1>10 DEF U!FileFails, U!Return, Started
<1>11. CASE U!Report
  BY <1>11 DEF U!Report, U!Return, Started
<1>12. CASE U!Deadline
  BY <1>12 DEF U!Deadline, Started
<1>13. CASE U!ChildEnds
  BY <1>13 DEF U!ChildEnds, Started
<1>14. CASE U!Kill
  BY <1>14 DEF U!Kill, Started
<1>15. CASE U!PipesClose
  BY <1>15 DEF U!PipesClose, Started
<1>16. CASE U!Span
  BY <1>16 DEF U!Span, Started
<1>17. CASE U!Rotate
  BY <1>17 DEF U!Rotate, Started
<1>18. CASE U!Crash
  BY <1>18 DEF U!Crash, U!Return, Started
<1> QED
  BY <1>1, <1>2, <1>3, <1>4, <1>5, <1>6, <1>7, <1>8, <1>9,
     <1>10, <1>11, <1>12, <1>13, <1>14, <1>15, <1>16, <1>17, <1>18 DEF U!Next, U!Command

\* The offset marks what was in the file before the run, however spans are added and
\* the file is rotated.
LEMMA TracesStep ==
  ASSUME RunInv, U!Next PROVE TracesKept'
<1> USE DEF RunInv, TracesKept, TraceKept
<1>0. /\ trace \in Seq({"before", "since"}) /\ Len(trace) \in Nat /\ offset \in Nat
      /\ \A i \in 1..Len(trace) : trace[i] \in {"before", "since"}
  <2>1. trace \in Seq({"before", "since"}) /\ offset \in 0..MaxSpans
    BY DEF U!TypeOK
  <2>2. MaxSpans \in Nat
    BY ToolsAssumption DEF U!RunAssumption
  <2> QED
    BY <2>1, <2>2
<1>1. CASE U!Refuse
  BY <1>1 DEF U!Refuse, U!Return
<1>2. CASE U!Accept
  BY <1>2 DEF U!Accept
<1>3. CASE U!NoIssue
  BY <1>3 DEF U!NoIssue, U!Return
<1>4. CASE U!BuildGoal
  <2>1. upc' = "launch" /\ UNCHANGED <<opts, trace, copied>> /\ offset' = IF opts.traced THEN Len(trace) ELSE 0
    BY <1>4 DEF U!BuildGoal
  <2> QED
    BY <1>0, <2>1
<1>5. CASE U!Launch
  BY <1>5 DEF U!Launch
<1>6. CASE U!Ended
  BY <1>6 DEF U!Ended
<1>7. CASE U!Classify
  BY <1>7 DEF U!Classify
<1>8. CASE U!BeginFile
  <2>1. UNCHANGED <<upc, opts, trace, offset, copied>>
    BY <1>8 DEF U!BeginFile
  <2> QED
    BY <2>1
<1>9. CASE U!EndFile
  <2>1. upc = "write" /\ UNCHANGED <<upc, opts, trace, offset>>
    BY <1>9 DEF U!EndFile
  <2>2. PICK k \in U!Expected : copied' = IF U!FileOrder[k] = "otel-traces.jsonl" THEN U!Delta(offset) ELSE copied
    BY <1>9 DEF U!EndFile
  <2>3. CASE U!FileOrder[k] = "otel-traces.jsonl"
    <3>1. opts.traced
      BY <2>3 DEF U!Expected
    <3>2. TraceKept
      BY <2>1, <3>1
    <3>3. \A i \in 1..Len(U!Delta(offset)) :
            \E j \in 1..Len(trace) : U!Delta(offset)[i] = trace[j] /\ (Len(trace) < offset \/ j > offset)
      BY <1>0, DeltaOfTrace
    <3>4. \A j \in 1..Len(trace) : Len(trace) < offset \/ j > offset => trace[j] # "before"
      BY <1>0, <3>2
    <3>5. \A i \in 1..Len(U!Delta(offset)) : U!Delta(offset)[i] = "since"
      BY <1>0, <3>3, <3>4
    <3> QED
      BY <2>1, <2>2, <2>3, <3>5
  <2>4. CASE U!FileOrder[k] # "otel-traces.jsonl"
    BY <2>1, <2>2, <2>4
  <2> QED
    BY <2>3, <2>4
<1>10. CASE U!FileFails
  BY <1>10 DEF U!FileFails, U!Return
<1>11. CASE U!Report
  BY <1>11 DEF U!Report, U!Return
<1>12. CASE U!Deadline
  BY <1>12 DEF U!Deadline
<1>13. CASE U!ChildEnds
  BY <1>13 DEF U!ChildEnds
<1>14. CASE U!Kill
  BY <1>14 DEF U!Kill
<1>15. CASE U!PipesClose
  BY <1>15 DEF U!PipesClose
<1>16. CASE U!Span
  <2>1. UNCHANGED <<upc, opts, offset, copied>>
    BY <1>16 DEF U!Span
  <2> DEFINE x == IF upc \in {"options", "goal"} THEN "before" ELSE "since"
  <2>2. trace' = Append(trace, x) /\ x \in {"before", "since"}
    BY <1>16 DEF U!Span
  <2>3. upc \in {"launch", "running", "ended", "write"} => x # "before"
    OBVIOUS
  <2> HIDE DEF x
  <2>4. Len(trace') = Len(trace) + 1
        /\ \A i \in 1..(Len(trace) + 1) : trace'[i] = IF i = Len(trace) + 1 THEN x ELSE trace[i]
    BY <1>0, <2>2, TraceLonger
  <2> QED
    BY <1>0, <2>1, <2>3, <2>4
<1>17. CASE U!Rotate
  <2>1. trace' = <<>> /\ UNCHANGED <<upc, opts, offset, copied>>
    BY <1>17 DEF U!Rotate
  <2>2. 1..Len(trace') = {}
    BY <2>1
  <2> QED
    BY <2>1, <2>2
<1>18. CASE U!Crash
  BY <1>18 DEF U!Crash, U!Return
<1> QED
  BY <1>1, <1>2, <1>3, <1>4, <1>5, <1>6, <1>7, <1>8, <1>9,
     <1>10, <1>11, <1>12, <1>13, <1>14, <1>15, <1>16, <1>17, <1>18 DEF U!Next, U!Command

\* The files are written in their order, each after the one before it is whole.
LEMMA FilesStep ==
  ASSUME RunInv, U!Next PROVE FilesInOrder'
<1> USE DEF RunInv, FilesInOrder
<1>0. files \in [U!ToSet(U!FileOrder) -> {"absent", "partial", "whole"}]
  BY DEF U!TypeOK
<1>0a. opts' = opts => U!Expected' = U!Expected
  BY DEF U!Expected
<1>1. CASE U!Refuse
  BY <1>1, <1>0a DEF U!Refuse, U!Return, U!Written, U!Whole
<1>2. CASE U!Accept
  BY <1>2, <1>0a DEF U!Accept, U!Written, U!Whole
<1>3. CASE U!NoIssue
  BY <1>3, <1>0a DEF U!NoIssue, U!Return, U!Written, U!Whole
<1>4. CASE U!BuildGoal
  BY <1>4, <1>0a DEF U!BuildGoal, U!Written, U!Whole
<1>5. CASE U!Launch
  BY <1>5, <1>0a DEF U!Launch, U!Written, U!Whole
<1>6. CASE U!Ended
  BY <1>6, <1>0a DEF U!Ended, U!Written, U!Whole
<1>7. CASE U!Classify
  BY <1>7, <1>0a DEF U!Classify, U!Written, U!Whole
<1>8. CASE U!BeginFile
  <2>0. opts' = opts /\ outcome' = outcome /\ upc = "write"
    BY <1>8 DEF U!BeginFile
  <2>1. PICK k \in U!Expected : /\ U!Turn(k) /\ files[U!FileOrder[k]] = "absent"
                                /\ files' = [files EXCEPT ![U!FileOrder[k]] = "partial"]
    BY <1>8 DEF U!BeginFile
  <2>2. \A j \in Place : files'[U!FileOrder[j]] = IF j = k THEN "partial" ELSE files[U!FileOrder[j]]
    BY <1>0, <2>1, FilesPlaced, ExpectedPlaces
  <2> QED
    BY <1>0, <1>0a, <2>0, <2>1, <2>2, ExpectedPlaces DEF U!Turn, U!Whole, Place
<1>9. CASE U!EndFile
  <2>0. opts' = opts /\ outcome' = outcome /\ upc = "write"
    BY <1>9 DEF U!EndFile
  <2>1. PICK k \in U!Expected : /\ U!Turn(k)
                                /\ files' = [files EXCEPT ![U!FileOrder[k]] = "whole"]
    BY <1>9 DEF U!EndFile
  <2>2. \A j \in Place : files'[U!FileOrder[j]] = IF j = k THEN "whole" ELSE files[U!FileOrder[j]]
    BY <1>0, <2>1, FilesPlaced, ExpectedPlaces
  <2> QED
    BY <1>0, <1>0a, <2>0, <2>1, <2>2, ExpectedPlaces DEF U!Turn, U!Whole, Place
<1>10. CASE U!FileFails
  BY <1>10, <1>0a DEF U!FileFails, U!Return, U!Written, U!Whole
<1>11. CASE U!Report
  <2>1. /\ upc = "write" /\ U!Written /\ upc' = "over" /\ UNCHANGED <<files, child, opts>>
        /\ (outcome' = "ok" => class = "success")
    BY <1>11 DEF U!Report, U!Return, U!MayReport
  <2>2. outcome' = "ok" => child = "zero"
    BY <2>1 DEF HarnessDone, Settled
  <2> QED
    BY <1>0a, <2>1, <2>2 DEF U!Written, U!Whole
<1>12. CASE U!Deadline
  BY <1>12, <1>0a DEF U!Deadline, U!Written, U!Whole
<1>13. CASE U!ChildEnds
  BY <1>13, <1>0a DEF U!ChildEnds, U!Written, U!Whole
<1>14. CASE U!Kill
  BY <1>14, <1>0a DEF U!Kill, U!Written, U!Whole
<1>15. CASE U!PipesClose
  BY <1>15, <1>0a DEF U!PipesClose, U!Written, U!Whole
<1>16. CASE U!Span
  BY <1>16, <1>0a DEF U!Span, U!Written, U!Whole
<1>17. CASE U!Rotate
  BY <1>17, <1>0a DEF U!Rotate, U!Written, U!Whole
<1>18. CASE U!Crash
  BY <1>18, <1>0a DEF U!Crash, U!Return, U!Written, U!Whole
<1> QED
  BY <1>1, <1>2, <1>3, <1>4, <1>5, <1>6, <1>7, <1>8, <1>9,
     <1>10, <1>11, <1>12, <1>13, <1>14, <1>15, <1>16, <1>17, <1>18 DEF U!Next, U!Command

\* The parts together are inductive.
LEMMA RunInductive == RunInv /\ [U!Next]_(U!vars) => RunInv'
<1> SUFFICES ASSUME RunInv, [U!Next]_(U!vars) PROVE RunInv'
  OBVIOUS
<1>1. CASE U!Next
  BY <1>1, RunTyped, HarnessStep, FilesStep, GoalStep, TracesStep DEF RunInv
<1>2. CASE UNCHANGED U!vars
  <2>1. UNCHANGED <<opts, upc, late, child, held, entities, class, files, trace, offset, copied, outcome>>
    BY <1>2 DEF U!vars
  <2>2. U!TypeOK'
    BY <2>1 DEF RunInv, U!TypeOK
  <2>3. HarnessDone'
    BY <2>1 DEF RunInv, HarnessDone, Settled, Started
  <2>4. FilesInOrder'
    BY <2>1 DEF RunInv, FilesInOrder, U!Expected, U!Whole, U!Written
  <2>5. GoalKept'
    BY <2>1 DEF RunInv, GoalKept, Started
  <2>6. TracesKept'
    BY <2>1 DEF RunInv, TracesKept, TraceKept
  <2> QED
    BY <2>2, <2>3, <2>4, <2>5, <2>6 DEF RunInv
<1> QED
  BY <1>1, <1>2

\* And so they hold throughout `botfam run'.
THEOREM RunInductiveInvariant == U!Spec => []RunInv
  BY RunInitially, RunInductive, PTL DEF U!Spec

\* Type correctness of `botfam run', for any options, servers, issues and spans.
THEOREM RunTypeCorrect == U!Spec => []U!TypeOK
<1>1. RunInv => U!TypeOK
  BY DEF RunInv
<1> QED
  BY <1>1, RunInductiveInvariant, PTL

\* What is copied is from since the run.
LEMMA TracesFromInvariant == RunInv => TracesFresh
<1> SUFFICES ASSUME RunInv PROVE TracesFresh
  OBVIOUS
<1>1. copied \in Seq({"before", "since"}) /\ \A i \in 1..Len(copied) : copied[i] = "since"
  BY DEF RunInv, TracesKept, U!TypeOK
<1> QED
  BY <1>1 DEF TracesFresh, U!TracesFresh, U!ToSet

\* The trace that is kept with a run has no span from before it, although the collector
\* may rotate the file meanwhile (run.go: the offset taken at launch).
THEOREM TracesOfTheRun == U!Spec => []TracesFresh
  BY TracesFromInvariant, RunInductiveInvariant, PTL

\* A verdict is written last, about a harness that has ended and a goal that is complete.
LEMMA VerdictFromInvariant == RunInv => VerdictTrue
<1> SUFFICES ASSUME RunInv PROVE VerdictTrue
  OBVIOUS
<1>1. outcome = "ok" => child = "zero" /\ U!Written
  BY DEF RunInv, FilesInOrder
<1>2. ASSUME files["run.json"] # "absent"
      PROVE  /\ files["stdout.log"] = "whole" /\ files["stderr.log"] = "whole"
             /\ Settled /\ GoalOf(opts, entities)
  <2>1. Started
    BY <1>2, FilesPlaced DEF Started, Place
  <2>2. U!Whole(1) /\ U!Whole(2)
    BY <1>2, FilesPlaced, ExpectedPlaces DEF RunInv, FilesInOrder
  <2> QED
    BY <2>1, <2>2, FilesPlaced DEF RunInv, HarnessDone, GoalKept, U!Whole
<1>3. ASSUME files["run.json"] = "whole", NEW r \in opts.refs
      PROVE  U!Cardinality({e \in entities : e.key = r /\ (e.kind = "wiki_page") = (r \in U!Pages)}) = 1
  <2>1. GoalOf(opts, entities)
    BY <1>2, <1>3
  <2> QED
    BY <2>1, OneEntity DEF IsOf
<1> QED
  BY <1>1, <1>2, <1>3 DEF VerdictTrue, U!VerdictTrue, Settled

\* run.json is true whenever it is there: it follows whole logs of a harness that has
\* ended, names its class as it was, has each reference once, and the command reports
\* success only of a harness that exited with zero (run.go: writeRunArtifacts).
THEOREM VerdictOfTheRun == U!Spec => []VerdictTrue
  BY VerdictFromInvariant, RunInductiveInvariant, PTL

-----------------------------------------------------------------------------
(* Review.                                                                  *)

\* The run has a directory that no other run was given.
Owns(r) == dir[r] # Unset /\ R!Alone(r)
Early == {"options", "material", "prompt", "dispatch"}
ManifestName == <<"MANIFEST">>
PromptName == <<"combined-prompt">>
OfReview(r, j) == R!Content(r, R!FileOf(j))

PromptKept(r) ==
  rpc[r] \in {"dispatch", "wait", "manifest"} \/ R!Content(r, ManifestName) # {} =>
    R!Content(r, PromptName) = {<<r>>}
\* A manifest is the end of a run whose reviews are all accounted for.
ManifestKept(r) ==
  /\ R!Content(r, ManifestName) # {} => rpc[r] \in {"manifest", "over"}
  /\ rpc[r] = "manifest" \/ R!Content(r, ManifestName) # {} =>
       \A j \in DOMAIN job[r] : job[r][j] \in {"failed", "ran", "skipped"}
  /\ \A m \in R!Content(r, ManifestName) :
       m.models \subseteq R!Ran(r) /\ (m.whole => m.models = R!Ran(r))
  /\ routcome[r] = "ok" => \E m \in R!Content(r, ManifestName) : m.whole
\* A file that is being written is the truncated one, unless several goroutines write it.
WritingKept(r, j) == job[r][j] = "writing" /\ ~R!Shared(r, j) => OfReview(r, j) = {<<"empty">>}
\* Unless a write to it failed, a review's file is not there and no review that has it was
\* begun, or one of them is being written, or one was and the file is whole and of such a
\* one, or a mixture when the reviews that share it are written side by side.
FileKept(r, j) ==
  (\A k \in R!SameFile(r, j) : job[r][k] \notin {"lost", "unwritten", "writing"}) =>
    \/ /\ OfReview(r, j) = {}
       /\ \A k \in R!SameFile(r, j) : job[r][k] \notin {"written", "ran"}
    \/ \E k \in R!SameFile(r, j) :
         /\ job[r][k] \in {"written", "ran"}
         /\ OfReview(r, j) = {<<r, k[2]>>} \/ (R!Shared(r, j) /\ OfReview(r, j) = {<<"mixed">>})
EarlyKept(r) == rpc[r] \in Early => \A j : OfReview(r, j) = {}
DirectoryKept(r) ==
  /\ PromptKept(r) /\ ManifestKept(r) /\ EarlyKept(r)
  /\ \A j \in DOMAIN job[r] : FileKept(r, j) /\ WritingKept(r, j)
\* The models of a local provider are asked in their order: when one was, those before it
\* are dealt with.
InOrder(r) ==
  rpc[r] = "wait" =>
    /\ DOMAIN job[r] = R!Asked(ropts[r])
    /\ \A p \in R!Local \cap DOMAIN ropts[r].models : LET order == ropts[r].models[p] IN
         \A i, k \in DOMAIN order :
           i < k /\ job[r][<<p, order[k]>>] # "asked" => job[r][<<p, order[i]>>] \in R!Settled

ReviewInv ==
  /\ ropts \in [Run -> ReviewOptions]
  /\ DOMAIN job = Run /\ DOMAIN dir = Run /\ DOMAIN rpc = Run /\ DOMAIN routcome = Run
  /\ \A f \in disk : \E q \in Run : dir[q] # Unset /\ f[1] = dir[q]
  /\ \A r \in Run : /\ rpc[r] = "options" => dir[r] = Unset
                    /\ rpc[r] \in Early => job[r] = <<>>
                    /\ rpc[r] \notin {"options", "over"} => dir[r] # Unset
                    /\ routcome[r] = "ok" => rpc[r] = "over"
                    /\ InOrder(r)
                    /\ Owns(r) => DirectoryKept(r)

\* What the manifest says follows from what is kept of its directory.
LEMMA ManifestFromInvariant == ReviewInv => ManifestTrue
<1> SUFFICES ASSUME ReviewInv, NEW r \in Run, Owns(r)
             PROVE  /\ routcome[r] = "ok" => \E m \in R!Content(r, ManifestName) : m.whole
                    /\ \A m \in R!Content(r, ManifestName) :
                         /\ \A j \in m.models : OfReview(r, j) # {}
                         /\ \A j \in DOMAIN job[r] : \A c \in OfReview(r, j) :
                              /\ \/ \E k \in R!SameFile(r, j) : job[r][k] = "ran" /\ c = <<r, k[2]>>
                                 \/ R!Shared(r, j) /\ c = <<"mixed">>
                              /\ m.whole => \E k \in R!SameFile(r, j) : k \in m.models
                         /\ R!Content(r, PromptName) = {<<r>>}
  BY DEF ManifestTrue, R!ManifestTrue, Owns, ManifestName, PromptName, OfReview
<1>1. DirectoryKept(r)
  BY DEF ReviewInv
<1>2. routcome[r] = "ok" => \E m \in R!Content(r, ManifestName) : m.whole
  BY <1>1 DEF DirectoryKept, ManifestKept
<1>3. ASSUME NEW m \in R!Content(r, ManifestName)
      PROVE  /\ \A j \in m.models : OfReview(r, j) # {}
             /\ \A j \in DOMAIN job[r] : \A c \in OfReview(r, j) :
                  /\ \/ \E k \in R!SameFile(r, j) : job[r][k] = "ran" /\ c = <<r, k[2]>>
                     \/ R!Shared(r, j) /\ c = <<"mixed">>
                  /\ m.whole => \E k \in R!SameFile(r, j) : k \in m.models
             /\ R!Content(r, PromptName) = {<<r>>}
  <2>1. /\ \A j \in DOMAIN job[r] : job[r][j] \in {"failed", "ran", "skipped"}
        /\ m.models \subseteq R!Ran(r) /\ (m.whole => m.models = R!Ran(r))
    BY <1>1 DEF DirectoryKept, ManifestKept
  <2>2. R!Content(r, PromptName) = {<<r>>}
    BY <1>1 DEF DirectoryKept, PromptKept
  <2>3. \A j \in DOMAIN job[r] :
          \/ OfReview(r, j) = {} /\ \A k \in R!SameFile(r, j) : job[r][k] # "ran"
          \/ \E k \in R!SameFile(r, j) :
               /\ job[r][k] = "ran"
               /\ OfReview(r, j) = {<<r, k[2]>>} \/ (R!Shared(r, j) /\ OfReview(r, j) = {<<"mixed">>})
    <3> SUFFICES ASSUME NEW j \in DOMAIN job[r]
                 PROVE  \/ OfReview(r, j) = {} /\ \A k \in R!SameFile(r, j) : job[r][k] # "ran"
                        \/ \E k \in R!SameFile(r, j) :
                             /\ job[r][k] = "ran"
                             /\ \/ OfReview(r, j) = {<<r, k[2]>>}
                                \/ R!Shared(r, j) /\ OfReview(r, j) = {<<"mixed">>}
      OBVIOUS
    <3>1. FileKept(r, j)
      BY <1>1 DEF DirectoryKept
    <3>2. \A k \in R!SameFile(r, j) : job[r][k] \in {"failed", "ran", "skipped"}
      BY <2>1 DEF R!SameFile
    <3> QED
      BY <3>1, <3>2 DEF FileKept
  <2>4. \A j \in DOMAIN job[r] : j \in R!SameFile(r, j) /\ R!SameFile(r, j) \subseteq DOMAIN job[r]
    BY DEF R!SameFile
  <2>5. \A j \in R!Ran(r) : j \in DOMAIN job[r] /\ job[r][j] = "ran"
    BY DEF R!Ran
  <2>6. \A j \in DOMAIN job[r] : job[r][j] = "ran" => j \in R!Ran(r)
    BY DEF R!Ran
  <2>7. \A j \in m.models : OfReview(r, j) # {}
    BY <2>1, <2>3, <2>4, <2>5
  <2>8. ASSUME NEW j \in DOMAIN job[r], NEW c \in OfReview(r, j)
        PROVE  /\ \/ \E k \in R!SameFile(r, j) : job[r][k] = "ran" /\ c = <<r, k[2]>>
                  \/ R!Shared(r, j) /\ c = <<"mixed">>
               /\ m.whole => \E k \in R!SameFile(r, j) : k \in m.models
    <3>1. PICK k \in R!SameFile(r, j) :
            /\ job[r][k] = "ran"
            /\ OfReview(r, j) = {<<r, k[2]>>} \/ (R!Shared(r, j) /\ OfReview(r, j) = {<<"mixed">>})
      BY <2>3
    <3>2. c = <<r, k[2]>> \/ (R!Shared(r, j) /\ c = <<"mixed">>)
      BY <3>1
    <3>3. m.whole => k \in m.models
      BY <2>1, <2>4, <2>6, <3>1
    <3> QED
      BY <3>1, <3>2, <3>3
  <2> QED
    BY <2>2, <2>7, <2>8
<1> QED
  BY <1>2, <1>3

\* No run has a directory at the start.
LEMMA ReviewInitially == R!Init => ReviewInv
  BY DEF R!Init, ReviewInv, Owns, InOrder

\* Put changes one file of one directory.
LEMMA PutContent ==
  ASSUME NEW r, NEW name, NEW said, NEW q, NEW other, disk' = R!Put(r, name, said), dir' = dir
  PROVE  R!Content(q, other)' = IF dir[q] = dir[r] /\ other = name THEN {said} ELSE R!Content(q, other)
<1> DEFINE old == {f \in disk : ~(f[1] = dir[r] /\ f[2] = name)}
           new == <<dir[r], name, said>>
<1>1. disk' = old \cup {new}
  BY DEF R!Put
<1>2. R!Content(q, other)' = {f[3] : f \in {g \in disk' : g[1] = dir[q] /\ g[2] = other}}
  BY DEF R!Content
<1>3. R!Content(q, other) = {f[3] : f \in {g \in disk : g[1] = dir[q] /\ g[2] = other}}
  BY DEF R!Content
<1>4. CASE dir[q] = dir[r] /\ other = name
  <2>1. {g \in disk' : g[1] = dir[q] /\ g[2] = other} = {new}
    BY <1>1, <1>4
  <2>2. new[3] = said
    OBVIOUS
  <2> HIDE DEF new
  <2> QED
    BY <1>2, <1>4, <2>1, <2>2
<1>5. CASE ~ (dir[q] = dir[r] /\ other = name)
  <2>1. {g \in disk' : g[1] = dir[q] /\ g[2] = other} = {g \in disk : g[1] = dir[q] /\ g[2] = other}
    BY <1>1, <1>5
  <2> QED
    BY <1>2, <1>3, <1>5, <2>1
<1> QED
  BY <1>4, <1>5

LEMMA FileNames ==
  /\ ManifestName # PromptName
  /\ \A j : R!FileOf(j) # ManifestName /\ R!FileOf(j) # PromptName
  /\ \A o : <<R!Material(o)>> # ManifestName /\ <<R!Material(o)>> # PromptName
            /\ \A j : R!FileOf(j) # <<R!Material(o)>>
<1>1. \A o : R!Material(o) \in {"session", "pr", "files"}
  BY DEF R!Material
<1> QED
  BY <1>1 DEF ManifestName, PromptName, R!FileOf

\* A run whose state and files are left alone keeps its directory, and so does one that
\* merely ends.
LEMMA DirectoryStays ==
  ASSUME NEW r, DirectoryKept(r), rpc'[r] \in {rpc[r], "over"}, job'[r] = job[r],
         routcome'[r] = "ok" => routcome[r] = "ok", \A n : R!Content(r, n)' = R!Content(r, n)
  PROVE  DirectoryKept(r)'
<1>1. PromptKept(r)' /\ ManifestKept(r)' /\ EarlyKept(r)'
  BY DEF DirectoryKept, PromptKept, ManifestKept, EarlyKept, Early, R!Ran, OfReview
<1>2. ASSUME NEW j \in DOMAIN job[r] PROVE FileKept(r, j)' /\ WritingKept(r, j)'
  <2>1. FileKept(r, j) /\ WritingKept(r, j) /\ R!SameFile(r, j)' = R!SameFile(r, j)
    BY DEF DirectoryKept, R!SameFile
  <2>2. OfReview(r, j)' = OfReview(r, j) /\ R!Shared(r, j)' = R!Shared(r, j)
    BY <2>1 DEF OfReview, R!Shared
  <2> QED
    BY <2>1, <2>2 DEF FileKept, WritingKept
<1> QED
  BY <1>1, <1>2 DEF DirectoryKept

\* So do the runs beside the one that takes a step.
LEMMA OthersStay ==
  ASSUME ReviewInv, NEW q \in Run, NEW r \in Run \ {q}, Owns(r)',
         rpc'[r] = rpc[r], job'[r] = job[r], routcome'[r] = routcome[r],
         \A x \in Run \ {q} : dir'[x] = dir[x],
         \/ dir' = dir /\ \E n, c : disk' = R!Put(q, n, c)
         \/ (dir'[q] = dir[q] \/ dir[q] = Unset) /\ disk' = disk
  PROVE  DirectoryKept(r)'
<1>1. Owns(r)
  BY DEF Owns, R!Alone
<1>2. dir[q] # dir[r] /\ dir'[r] = dir[r]
  BY <1>1 DEF Owns, R!Alone
<1>3. \A n : R!Content(r, n)' = R!Content(r, n)
  <2>1. CASE dir' = dir /\ \E n, c : disk' = R!Put(q, n, c)
    BY <1>2, <2>1, PutContent
  <2>2. CASE disk' = disk
    BY <1>2, <2>2 DEF R!Content
  <2> QED
    BY <2>1, <2>2
<1> QED
  BY <1>1, <1>3, DirectoryStays DEF ReviewInv

\* What holds of the files of all runs, from what holds of the run that takes the step.
LEMMA ReviewAssembled ==
  ASSUME ReviewInv, NEW q \in Run, ropts' = ropts,
         DOMAIN job' = Run, DOMAIN dir' = Run, DOMAIN rpc' = Run, DOMAIN routcome' = Run,
         \A r \in Run \ {q} : /\ rpc'[r] = rpc[r] /\ job'[r] = job[r] /\ dir'[r] = dir[r]
                              /\ routcome'[r] = routcome[r],
         \/ dir' = dir /\ dir[q] # Unset /\ \E n, c : disk' = R!Put(q, n, c)
         \/ (dir'[q] = dir[q] \/ dir[q] = Unset) /\ disk' = disk,
         /\ rpc'[q] = "options" => dir'[q] = Unset
         /\ rpc'[q] \in Early => job'[q] = <<>>
         /\ rpc'[q] \notin {"options", "over"} => dir'[q] # Unset
         /\ routcome'[q] = "ok" => rpc'[q] = "over"
         /\ InOrder(q)'
         /\ Owns(q)' => DirectoryKept(q)'
  PROVE  ReviewInv'
<1>1. \A r \in Run : Owns(r)' => DirectoryKept(r)'
  BY OthersStay
<1>2. \A f \in disk' : \E x \in Run : dir'[x] # Unset /\ f[1] = dir'[x]
  <2>1. CASE disk' = disk
    BY <2>1 DEF ReviewInv
  <2>2. CASE dir' = dir /\ dir[q] # Unset /\ \E n, c : disk' = R!Put(q, n, c)
    <3>1. PICK n, c : disk' = R!Put(q, n, c)
      BY <2>2
    <3>2. \A f \in disk' : f \in disk \/ f[1] = dir[q]
      BY <3>1 DEF R!Put
    <3> QED
      BY <2>2, <3>2 DEF ReviewInv
  <2> QED
    BY <2>1, <2>2
<1>3. \A r \in Run :
        /\ rpc'[r] = "options" => dir'[r] = Unset
        /\ rpc'[r] \in Early => job'[r] = <<>>
        /\ rpc'[r] \notin {"options", "over"} => dir'[r] # Unset
        /\ routcome'[r] = "ok" => rpc'[r] = "over"
  BY DEF ReviewInv
<1>4. \A r \in Run : InOrder(r)'
  <2> SUFFICES ASSUME NEW r \in Run \ {q} PROVE InOrder(r)'
    OBVIOUS
  <2>1. InOrder(r) /\ rpc'[r] = rpc[r] /\ job'[r] = job[r] /\ ropts' = ropts
    BY DEF ReviewInv
  <2> QED
    BY <2>1 DEF InOrder
<1> QED
  BY <1>1, <1>2, <1>3, <1>4 DEF ReviewInv

\* A file written in its own directory, and no other.
LEMMA OwnContent ==
  ASSUME NEW q, NEW name, NEW said, disk' = R!Put(q, name, said), dir' = dir
  PROVE  /\ R!Content(q, name)' = {said}
         /\ \A n : n # name => R!Content(q, n)' = R!Content(q, n)
  BY PutContent

\* A file that is written before the reviews are asked for.
LEMMA EarlyWrite ==
  ASSUME NEW q, DirectoryKept(q), rpc[q] \in Early, job[q] = <<>>, job'[q] = job[q], dir' = dir,
         NEW name, NEW said, disk' = R!Put(q, name, said),
         name # ManifestName, \A j : R!FileOf(j) # name,
         rpc'[q] \in {"prompt", "dispatch", "over"}, routcome'[q] # "ok",
         rpc'[q] = "dispatch" => name = PromptName /\ said = <<q>>
  PROVE  DirectoryKept(q)'
<1>1. /\ R!Content(q, ManifestName) = {} /\ \A j : OfReview(q, j) = {}
  BY DEF DirectoryKept, ManifestKept, EarlyKept, Early
<1>2. R!Content(q, name)' = {said} /\ \A n : n # name => R!Content(q, n)' = R!Content(q, n)
  BY OwnContent
<1>3. R!Content(q, ManifestName)' = {} /\ \A j : OfReview(q, j)' = {}
  BY <1>1, <1>2 DEF OfReview
<1>4. DOMAIN job'[q] = {}
  OBVIOUS
<1> QED
  BY <1>2, <1>3, <1>4 DEF DirectoryKept, PromptKept, ManifestKept, EarlyKept

\* A MANIFEST that is written, to the end or not, when the reviews are accounted for.
LEMMA ManifestWrite ==
  ASSUME NEW q, DirectoryKept(q), rpc[q] \in {"wait", "manifest"}, job'[q] = job[q], dir' = dir,
         \A j \in DOMAIN job[q] : job[q][j] \in {"failed", "ran", "skipped"},
         NEW c, disk' = R!Put(q, ManifestName, c),
         c.models \subseteq R!Ran(q), c.whole => c.models = R!Ran(q),
         rpc'[q] \in {"manifest", "over"}, routcome'[q] = "ok" => rpc'[q] = "over" /\ c.whole
  PROVE  DirectoryKept(q)'
<1>1. R!Content(q, ManifestName)' = {c} /\ \A n : n # ManifestName => R!Content(q, n)' = R!Content(q, n)
  BY OwnContent
<1>2. R!Content(q, PromptName)' = {<<q>>}
  BY <1>1, FileNames DEF DirectoryKept, PromptKept
<1>3. R!Ran(q)' = R!Ran(q)
  BY DEF R!Ran
<1>4. PromptKept(q)' /\ ManifestKept(q)' /\ EarlyKept(q)'
  BY <1>1, <1>2, <1>3 DEF PromptKept, ManifestKept, EarlyKept, Early
<1>5. ASSUME NEW j \in DOMAIN job[q] PROVE FileKept(q, j)' /\ WritingKept(q, j)'
  <2>1. FileKept(q, j) /\ WritingKept(q, j) /\ R!SameFile(q, j)' = R!SameFile(q, j)
    BY DEF DirectoryKept, R!SameFile
  <2>2. OfReview(q, j)' = OfReview(q, j) /\ R!Shared(q, j)' = R!Shared(q, j)
    BY <1>1, <2>1, FileNames DEF OfReview, R!Shared
  <2> QED
    BY <2>1, <2>2 DEF FileKept, WritingKept
<1> QED
  BY <1>4, <1>5 DEF DirectoryKept

\* The models of a provider are a sequence without repetition.
LEMMA OrderOf ==
  ASSUME ReviewInv, NEW q \in Run, NEW p \in DOMAIN ropts[q].models
  PROVE  LET order == ropts[q].models[p] IN
         /\ DOMAIN order \subseteq Nat
         /\ \A i, k \in DOMAIN order : order[i] = order[k] => i = k
         /\ \A i \in DOMAIN order : <<p, order[i]>> \in R!Asked(ropts[q])
<1> DEFINE order == ropts[q].models[p]
<1>1. ropts[q] \in ReviewOptions
  BY DEF ReviewInv
<1>2. order \in Seq(R!Model) /\ R!IsInjective(order)
  BY <1>1, ToolsAssumption DEF R!ReviewAssumption
<1>3. DOMAIN order \subseteq Nat
  BY <1>2
<1>4. \A i, k \in DOMAIN order : order[i] = order[k] => i = k
  BY <1>2 DEF R!IsInjective
<1>5. \A i \in DOMAIN order : order[i] \in R!ToSet(order)
  BY DEF R!ToSet
<1>6. \A i \in DOMAIN order : <<p, order[i]>> \in R!Asked(ropts[q])
  BY <1>5 DEF R!Asked
<1> QED
  BY <1>3, <1>4, <1>6

\* A review that is asked for is one of its provider's models.
LEMMA PlaceOf ==
  ASSUME ReviewInv, NEW q \in Run, NEW j \in R!Asked(ropts[q])
  PROVE  /\ j[1] \in DOMAIN ropts[q].models
         /\ \E i \in DOMAIN ropts[q].models[j[1]] : j = <<j[1], ropts[q].models[j[1]][i]>>
<1>1. PICK p \in DOMAIN ropts[q].models : j \in {p} \X R!ToSet(ropts[q].models[p])
  BY DEF R!Asked
<1>2. j[1] = p /\ j[2] \in R!ToSet(ropts[q].models[p]) /\ j = <<p, j[2]>>
  BY <1>1
<1>3. PICK i \in DOMAIN ropts[q].models[p] : j[2] = ropts[q].models[p][i]
  BY <1>2 DEF R!ToSet
<1> QED
  BY <1>2, <1>3

\* When a review moves on, the models of its provider are still asked in their order.
LEMMA StillInOrder ==
  ASSUME ReviewInv, NEW q \in Run, NEW j \in DOMAIN job[q], rpc[q] = "wait", NEW v,
         job[q][j] \notin R!Settled, job[q][j] = "asked" => R!MayAnswer(q, j),
         job' = [job EXCEPT ![q][j] = v], ropts' = ropts
  PROVE  InOrder(q)'
<1>1. DOMAIN job[q] = R!Asked(ropts[q]) /\ DOMAIN job = Run
  BY DEF ReviewInv, InOrder
<1>2. /\ DOMAIN job'[q] = DOMAIN job[q] /\ job'[q][j] = v
      /\ \A k \in DOMAIN job[q] \ {j} : job'[q][k] = job[q][k]
  BY <1>1
<1>3. ASSUME NEW p \in R!Local \cap DOMAIN ropts[q].models,
             NEW i \in DOMAIN ropts[q].models[p], NEW k \in DOMAIN ropts[q].models[p], i < k,
             job'[q][<<p, ropts[q].models[p][k]>>] # "asked"
      PROVE  job'[q][<<p, ropts[q].models[p][i]>>] \in R!Settled
  <2> DEFINE order == ropts[q].models[p]
             a == <<p, order[i]>>
             b == <<p, order[k]>>
  <2>1. /\ DOMAIN order \subseteq Nat
        /\ \A x, y \in DOMAIN order : order[x] = order[y] => x = y
        /\ a \in DOMAIN job[q] /\ b \in DOMAIN job[q]
    BY <1>1, OrderOf
  <2>2. a # b
    BY <1>3, <2>1
  <2>3. job[q][b] # "asked" => job[q][a] \in R!Settled
    BY <1>3 DEF ReviewInv, InOrder
  <2>4. CASE b = j
    <3>1. j[1] = p /\ j[2] = order[k]
      BY <2>4
    <3>2. job[q][j] = "asked" => job[q][a] \in R!Settled
      BY <1>3, <3>1 DEF R!MayAnswer
    <3> HIDE DEF a, b
    <3>3. job[q][a] \in R!Settled
      BY <2>3, <2>4, <3>2
    <3>4. job'[q][a] = job[q][a]
      BY <1>2, <2>1, <2>2, <2>4
    <3>5. job'[q][a] \in R!Settled
      BY <3>3, <3>4
    <3> QED
      BY <3>5 DEF a
  <2>5. CASE b # j
    <3> HIDE DEF a, b
    <3>1. job[q][b] # "asked"
      BY <1>2, <1>3, <2>1, <2>5 DEF b
    <3>2. job[q][a] \in R!Settled /\ a # j
      BY <2>3, <3>1
    <3>3. job'[q][a] \in R!Settled
      BY <1>2, <2>1, <3>2
    <3> QED
      BY <3>3 DEF a
  <2> QED
    BY <2>4, <2>5
<1> QED
  BY <1>1, <1>2, <1>3 DEF InOrder

\* Beside a review that is being written and not shared, no other one of its file is
\* under way or may begin.
LEMMA WritesAlone ==
  ASSUME ReviewInv, NEW q \in Run, rpc[q] = "wait", NEW k \in DOMAIN job[q], job[q][k] = "writing",
         ~R!Shared(q, k), NEW j \in R!SameFile(q, k), j # k
  PROVE  job[q][j] \in R!Settled \/ (job[q][j] = "asked" /\ ~R!MayAnswer(q, j))
<1>1. DOMAIN job[q] = R!Asked(ropts[q]) /\ j \in DOMAIN job[q] /\ R!FileOf(j) = R!FileOf(k)
  BY DEF ReviewInv, InOrder, R!SameFile
<1>2. k[1] \in R!Local /\ j[1] = k[1]
  <2>1. R!SameFile(q, k) # {k}
    OBVIOUS
  <2> QED
    BY <1>1, <2>1 DEF R!Shared, R!FileOf
<1> DEFINE p == k[1]
           order == ropts[q].models[p]
<1>3. PICK x \in DOMAIN order : k = <<p, order[x]>>
  BY <1>1, PlaceOf
<1>4. p \in DOMAIN ropts[q].models
  BY <1>1, PlaceOf
<1>5. PICK y \in DOMAIN order : j = <<p, order[y]>>
  BY <1>1, <1>2, PlaceOf
<1>6. DOMAIN order \subseteq Nat
  BY <1>4, OrderOf
<1>7. x # y
  BY <1>3, <1>5
<1>8. x < y \/ y < x
  BY <1>3, <1>5, <1>6, <1>7
<1>9. \A i, l \in DOMAIN order :
        i < l /\ job[q][<<p, order[l]>>] # "asked" => job[q][<<p, order[i]>>] \in R!Settled
  BY <1>2, <1>4 DEF ReviewInv, InOrder
<1>10. job[q][k] # "asked" /\ job[q][k] \notin R!Settled
  BY DEF R!Settled
<1>11. CASE y < x
  BY <1>3, <1>5, <1>9, <1>10, <1>11
<1>12. CASE x < y
  <2>1. job[q][j] = "asked"
    BY <1>3, <1>5, <1>9, <1>10, <1>12
  <2>2. R!MayAnswer(q, j) => job[q][k] \in R!Settled
    <3>1. j[2] = order[y] /\ j[1] = p
      BY <1>5
    <3> QED
      BY <1>2, <1>3, <1>12, <3>1 DEF R!MayAnswer
  <2> QED
    BY <1>10, <2>1, <2>2
<1> QED
  BY <1>8, <1>11, <1>12

\* One review moves on and its file, if any, changes: what is left is what holds of the
\* reviews of that file.
LEMMA OneFile ==
  ASSUME ReviewInv, NEW q \in Run, NEW j \in DOMAIN job[q], rpc[q] = "wait", NEW v,
         job[q][j] \notin R!Settled, job[q][j] = "asked" => R!MayAnswer(q, j),
         job' = [job EXCEPT ![q][j] = v], UNCHANGED <<ropts, rpc, dir, routcome>>,
         disk' = disk \/ \E c : disk' = R!Put(q, R!FileOf(j), c),
         DirectoryKept(q) => \A i \in R!SameFile(q, j) : FileKept(q, i)' /\ WritingKept(q, i)'
  PROVE  ReviewInv'
<1>1. /\ DOMAIN job = Run /\ DOMAIN job' = Run /\ \A r \in Run \ {q} : job'[r] = job[r]
      /\ DOMAIN job'[q] = DOMAIN job[q]
      /\ \A k \in DOMAIN job[q] \ {j} : job'[q][k] = job[q][k]
  BY DEF ReviewInv
<1>2. \A n : n # R!FileOf(j) => R!Content(q, n)' = R!Content(q, n)
  <2>1. CASE disk' = disk
    BY <2>1 DEF R!Content
  <2>2. CASE \E c : disk' = R!Put(q, R!FileOf(j), c)
    BY <2>2, OwnContent
  <2> QED
    BY <2>1, <2>2
<1>3. ASSUME Owns(q)' PROVE DirectoryKept(q)'
  <2>1. DirectoryKept(q)
    BY <1>3 DEF ReviewInv, Owns, R!Alone
  <2>2. R!Content(q, ManifestName)' = {} /\ R!Content(q, PromptName)' = {<<q>>} /\ routcome[q] # "ok"
    BY <1>2, <2>1, FileNames DEF DirectoryKept, ManifestKept, PromptKept, ReviewInv
  <2>3. ASSUME NEW i \in DOMAIN job[q] PROVE FileKept(q, i)' /\ WritingKept(q, i)'
    <3>1. CASE R!FileOf(i) = R!FileOf(j)
      <4>1. i \in R!SameFile(q, j)
        BY <3>1 DEF R!SameFile
      <4> QED
        BY <2>1, <4>1
    <3>2. CASE R!FileOf(i) # R!FileOf(j)
      <4>1. R!SameFile(q, i)' = R!SameFile(q, i) /\ i # j
        BY <1>1, <3>2 DEF R!SameFile
      <4>2. \A k \in R!SameFile(q, i) : job'[q][k] = job[q][k]
        BY <1>1, <3>2 DEF R!SameFile
      <4>3. OfReview(q, i)' = OfReview(q, i) /\ R!Shared(q, i)' = R!Shared(q, i)
        BY <1>2, <3>2, <4>1 DEF OfReview, R!Shared
      <4>4. FileKept(q, i) /\ WritingKept(q, i)
        BY <2>1 DEF DirectoryKept
      <4>5. FileKept(q, i)'
        BY <4>1, <4>2, <4>3, <4>4 DEF FileKept
      <4>6. WritingKept(q, i)'
        BY <1>1, <4>1, <4>3, <4>4 DEF WritingKept
      <4> QED
        BY <4>5, <4>6
    <3> QED
      BY <3>1, <3>2
  <2> QED
    BY <1>1, <2>2, <2>3 DEF DirectoryKept, ManifestKept, PromptKept, EarlyKept, Early
<1>4. InOrder(q)'
  BY StillInOrder
<1>5. dir[q] # Unset
  BY DEF ReviewInv
<1>6. /\ DOMAIN dir' = Run /\ DOMAIN rpc' = Run /\ DOMAIN routcome' = Run /\ ropts' = ropts
      /\ \A r \in Run \ {q} : rpc'[r] = rpc[r] /\ dir'[r] = dir[r] /\ routcome'[r] = routcome[r]
      /\ rpc'[q] = "wait" /\ dir'[q] = dir[q] /\ dir' = dir /\ routcome'[q] # "ok"
  BY DEF ReviewInv
<1> QED
  BY <1>1, <1>3, <1>4, <1>5, <1>6, ReviewAssembled DEF Early

\* Of reviews that share a file, either all or none are written side by side.
LEMMA SharedAlike ==
  ASSUME NEW q, NEW j \in DOMAIN job[q], NEW i \in R!SameFile(q, j)
  PROVE  /\ R!SameFile(q, i) = R!SameFile(q, j) /\ j \in R!SameFile(q, i)
         /\ R!Shared(q, j) => R!Shared(q, i)
         /\ OfReview(q, i) = OfReview(q, j) /\ OfReview(q, i)' = OfReview(q, j)'
<1>1. R!FileOf(i) = R!FileOf(j) /\ i \in DOMAIN job[q]
  BY DEF R!SameFile
<1>2. R!SameFile(q, i) = R!SameFile(q, j) /\ j \in R!SameFile(q, j)
  BY <1>1 DEF R!SameFile
<1>3. i[1] = j[1]
  BY <1>1 DEF R!FileOf
<1>4. R!SameFile(q, j) # {j} => R!SameFile(q, i) # {i}
  BY <1>2
<1>5. R!FileOf(i)' = R!FileOf(i) /\ R!FileOf(j)' = R!FileOf(j)
  BY DEF R!FileOf
<1> QED
  BY <1>1, <1>2, <1>3, <1>4, <1>5 DEF R!Shared, OfReview

\* A model answers, and its file is opened or cannot be.
LEMMA AnsweredStep ==
  ASSUME ReviewInv, NEW q \in Run, NEW j \in DOMAIN job[q], R!Answered(q, j)
  PROVE  ReviewInv'
<1>1. /\ UNCHANGED <<ropts, rpc, dir, routcome>> /\ rpc[q] = "wait" /\ job[q][j] = "asked"
      /\ R!MayAnswer(q, j) /\ DOMAIN job = Run
  BY DEF R!Answered, R!MayAnswer, ReviewInv
<1>2. PICK v \in {"writing", "lost"} :
        /\ job' = [job EXCEPT ![q][j] = v]
        /\ v = "writing" => disk' = R!Put(q, R!FileOf(j), <<"empty">>)
        /\ v = "lost" => disk' = disk
  BY DEF R!Answered
<1>3. /\ DOMAIN job'[q] = DOMAIN job[q] /\ job'[q][j] = v
      /\ \A k \in DOMAIN job[q] \ {j} : job'[q][k] = job[q][k]
  BY <1>1, <1>2
<1>4. ASSUME DirectoryKept(q), NEW i \in R!SameFile(q, j) PROVE FileKept(q, i)' /\ WritingKept(q, i)'
  <2>1. /\ R!SameFile(q, i)' = R!SameFile(q, i) /\ j \in R!SameFile(q, i) /\ i \in DOMAIN job[q]
        /\ R!Shared(q, i)' = R!Shared(q, i) /\ OfReview(q, i)' = OfReview(q, j)'
    BY <1>3, SharedAlike DEF R!SameFile, R!Shared
  <2>2. FileKept(q, i)'
    BY <1>2, <1>3, <2>1 DEF FileKept
  <2>3. CASE v = "writing"
    <3>1. OfReview(q, i)' = {<<"empty">>}
      BY <1>1, <1>2, <2>1, <2>3, OwnContent DEF OfReview
    <3> QED
      BY <2>2, <3>1 DEF WritingKept
  <2>4. CASE v = "lost"
    <3>1. OfReview(q, i)' = OfReview(q, i)
      BY <1>1, <1>2, <2>4 DEF OfReview, R!Content
    <3>2. WritingKept(q, i)
      BY <1>4, <2>1 DEF DirectoryKept
    <3>3. job'[q][i] = "writing" => job[q][i] = "writing"
      BY <1>3, <2>1, <2>4
    <3> QED
      BY <2>1, <2>2, <3>1, <3>2, <3>3 DEF WritingKept
  <2> QED
    BY <2>3, <2>4
<1>5. job[q][j] \notin R!Settled
  BY <1>1 DEF R!Settled
<1>6. disk' = disk \/ \E c : disk' = R!Put(q, R!FileOf(j), c)
  BY <1>2
<1> QED
  BY <1>1, <1>2, <1>4, <1>5, <1>6, OneFile

\* The answer is written to the file, whole, over what another goroutine has written
\* since, or in part.
LEMMA WrittenStep ==
  ASSUME ReviewInv, NEW q \in Run, NEW j \in DOMAIN job[q], R!WriteReview(q, j)
  PROVE  ReviewInv'
<1>1. /\ UNCHANGED <<ropts, rpc, dir, routcome>> /\ rpc[q] = "wait" /\ job[q][j] = "writing"
      /\ DOMAIN job = Run
  BY DEF R!WriteReview, ReviewInv
<1>2. PICK v \in {"written", "lost"} :
        /\ job' = [job EXCEPT ![q][j] = v]
        /\ v = "written" =>
             \/ disk' = R!Put(q, R!FileOf(j), <<q, j[2]>>)
             \/ OfReview(q, j) # {<<"empty">>} /\ disk' = R!Put(q, R!FileOf(j), <<"mixed">>)
        /\ v = "lost" => disk' \in {disk, R!Put(q, R!FileOf(j), <<"partial">>)}
  BY DEF R!WriteReview, OfReview
<1>3. /\ DOMAIN job'[q] = DOMAIN job[q] /\ job'[q][j] = v
      /\ \A k \in DOMAIN job[q] \ {j} : job'[q][k] = job[q][k]
  BY <1>1, <1>2
<1>4. ASSUME DirectoryKept(q), NEW i \in R!SameFile(q, j) PROVE FileKept(q, i)' /\ WritingKept(q, i)'
  <2>1. /\ R!SameFile(q, i)' = R!SameFile(q, i) /\ R!SameFile(q, i) = R!SameFile(q, j)
        /\ j \in R!SameFile(q, i) /\ i \in DOMAIN job[q]
        /\ R!Shared(q, i)' = R!Shared(q, i) /\ (R!Shared(q, j) => R!Shared(q, i))
        /\ OfReview(q, i)' = OfReview(q, j)'
    BY <1>3, SharedAlike DEF R!SameFile, R!Shared
  <2>2. FileKept(q, i)'
    <3>1. CASE v = "lost"
      BY <1>3, <2>1, <3>1 DEF FileKept
    <3>2. CASE v = "written" /\ disk' = R!Put(q, R!FileOf(j), <<q, j[2]>>)
      <4>1. OfReview(q, i)' = {<<q, j[2]>>}
        BY <1>1, <2>1, <3>2, OwnContent DEF OfReview
      <4> QED
        BY <1>3, <2>1, <3>2, <4>1 DEF FileKept
    <3>3. CASE /\ v = "written" /\ OfReview(q, j) # {<<"empty">>}
               /\ disk' = R!Put(q, R!FileOf(j), <<"mixed">>)
      <4>1. OfReview(q, i)' = {<<"mixed">>}
        BY <1>1, <2>1, <3>3, OwnContent DEF OfReview
      <4>2. R!Shared(q, j)
        BY <1>1, <1>4, <3>3 DEF DirectoryKept, WritingKept
      <4> QED
        BY <1>3, <2>1, <3>3, <4>1, <4>2 DEF FileKept
    <3> QED
      BY <1>2, <3>1, <3>2, <3>3
  <2>3. ASSUME job'[q][i] = "writing", ~R!Shared(q, i) PROVE FALSE
    <3>1. i # j /\ job[q][i] = "writing"
      BY <1>2, <1>3, <2>1, <2>3
    <3>2. job[q][j] \in R!Settled \/ job[q][j] = "asked"
      BY <1>1, <2>1, <2>3, <3>1, WritesAlone
    <3> QED
      BY <1>1, <3>2 DEF R!Settled
  <2> QED
    BY <2>1, <2>2, <2>3 DEF WritingKept
<1>5. job[q][j] \notin R!Settled /\ job[q][j] # "asked"
  BY <1>1 DEF R!Settled
<1>6. disk' = disk \/ \E c : disk' = R!Put(q, R!FileOf(j), c)
  BY <1>2
<1> QED
  BY <1>1, <1>2, <1>4, <1>5, <1>6, OneFile

\* A review that fails, or whose result is recorded: its file has been dealt with.
LEMMA RecordedStep ==
  ASSUME ReviewInv, NEW q \in Run, NEW j \in DOMAIN job[q], R!AnswerFails(q, j) \/ R!Record(q, j)
  PROVE  ReviewInv'
<1>1. /\ UNCHANGED <<ropts, rpc, dir, routcome, disk>> /\ rpc[q] = "wait" /\ DOMAIN job = Run
      /\ job[q][j] = "asked" => R!MayAnswer(q, j)
  BY DEF R!AnswerFails, R!Record, R!MayAnswer, ReviewInv
<1>2. PICK v : /\ job' = [job EXCEPT ![q][j] = v]
               /\ \/ job[q][j] = "asked" /\ v = "failed"
                  \/ job[q][j] = "written" /\ v = "ran"
                  \/ job[q][j] = "lost" /\ v = "unwritten"
  <2>1. CASE R!AnswerFails(q, j)
    BY <2>1 DEF R!AnswerFails, R!MayAnswer
  <2>2. CASE R!Record(q, j)
    <3> DEFINE v == IF job[q][j] = "written" THEN "ran" ELSE "unwritten"
    <3>1. job' = [job EXCEPT ![q][j] = v] /\ job[q][j] \in {"written", "lost"}
      BY <2>2 DEF R!Record
    <3> QED
      BY <3>1
  <2> QED
    BY <2>1, <2>2
<1>3. /\ DOMAIN job'[q] = DOMAIN job[q]
      /\ \A k \in DOMAIN job[q] :
           /\ job'[q][k] \in {"lost", "unwritten", "writing"}
                <=> job[q][k] \in {"lost", "unwritten", "writing"}
           /\ job'[q][k] \in {"written", "ran"} <=> job[q][k] \in {"written", "ran"}
           /\ job'[q][k] = "writing" <=> job[q][k] = "writing"
  BY <1>1, <1>2
<1>4. ASSUME DirectoryKept(q), NEW i \in R!SameFile(q, j) PROVE FileKept(q, i)' /\ WritingKept(q, i)'
  <2>1. /\ R!SameFile(q, i)' = R!SameFile(q, i) /\ R!SameFile(q, i) \subseteq DOMAIN job[q]
        /\ i \in DOMAIN job[q]
    BY <1>3 DEF R!SameFile
  <2>2. OfReview(q, i)' = OfReview(q, i) /\ R!Shared(q, i)' = R!Shared(q, i)
    BY <1>1, <2>1 DEF OfReview, R!Content, R!Shared
  <2>3. FileKept(q, i) /\ WritingKept(q, i)
    BY <1>4, <2>1 DEF DirectoryKept
  <2>4. FileKept(q, i)'
    BY <1>3, <2>1, <2>2, <2>3 DEF FileKept
  <2>5. WritingKept(q, i)'
    BY <1>3, <2>1, <2>2, <2>3 DEF WritingKept
  <2> QED
    BY <2>4, <2>5
<1>5. job[q][j] \notin R!Settled
  BY <1>2 DEF R!Settled
<1> QED
  BY <1>1, <1>2, <1>4, <1>5, OneFile

\* A run that ends before its time leaves what a write that was cut short leaves.
LEMMA CutShort ==
  ASSUME ReviewInv, NEW q \in Run, rpc[q] # "over", rpc' = [rpc EXCEPT ![q] = "over"],
         NEW said \in {"error", "killed"}, routcome' = [routcome EXCEPT ![q] = said],
         UNCHANGED <<ropts, dir, job>>, disk' \in R!Unfinished(q)
  PROVE  ReviewInv'
<1>0. DOMAIN job = Run /\ DOMAIN dir = Run /\ DOMAIN rpc = Run /\ DOMAIN routcome = Run
  BY DEF ReviewInv
<1>1. rpc'[q] = "over" /\ routcome'[q] # "ok"
  BY <1>0
<1>2. \/ disk' = disk
      \/ /\ rpc[q] \in {"material", "prompt"}
         /\ \E o : \/ disk' = R!Put(q, <<R!Material(o)>>, <<"partial">>)
                   \/ disk' = R!Put(q, PromptName, <<"partial">>)
      \/ /\ rpc[q] = "manifest"
         /\ \E S \in SUBSET R!Ran(q) : disk' = R!Put(q, ManifestName, [models |-> S, whole |-> FALSE])
  BY DEF R!Unfinished, PromptName, ManifestName
<1>3. ASSUME Owns(q)' PROVE DirectoryKept(q)'
  <2>1. DirectoryKept(q)
    BY <1>3 DEF ReviewInv, Owns, R!Alone
  <2>2. CASE disk' = disk
    <3>1. \A n : R!Content(q, n)' = R!Content(q, n)
      BY <2>2 DEF R!Content
    <3> QED
      BY <1>1, <2>1, <3>1, DirectoryStays
  <2>3. CASE rpc[q] \in {"material", "prompt"} /\ disk' # disk
    <3>1. rpc[q] \in Early /\ job[q] = <<>>
      BY <2>3 DEF Early, ReviewInv
    <3>2. PICK n : /\ disk' = R!Put(q, n, <<"partial">>)
                   /\ n # ManifestName /\ \A j : R!FileOf(j) # n
      BY <1>2, <2>3, FileNames
    <3> QED
      BY <1>1, <2>1, <3>1, <3>2, EarlyWrite
  <2>4. CASE rpc[q] = "manifest" /\ disk' # disk
    <3>1. PICK S \in SUBSET R!Ran(q) : disk' = R!Put(q, ManifestName, [models |-> S, whole |-> FALSE])
      BY <1>2, <2>4
    <3> DEFINE c == [models |-> S, whole |-> FALSE]
    <3>2. c.models \subseteq R!Ran(q) /\ ~c.whole /\ disk' = R!Put(q, ManifestName, c)
      BY <3>1
    <3> HIDE DEF c
    <3>3. \A j \in DOMAIN job[q] : job[q][j] \in {"failed", "ran", "skipped"}
      BY <2>1, <2>4 DEF DirectoryKept, ManifestKept
    <3> QED
      BY <1>1, <2>1, <2>4, <3>2, <3>3, ManifestWrite
  <2> QED
    BY <1>2, <2>2, <2>3, <2>4
<1>4. disk' = disk \/ (dir[q] # Unset /\ \E n, c : disk' = R!Put(q, n, c))
  BY <1>2 DEF ReviewInv
<1>5. InOrder(q)'
  BY <1>1 DEF InOrder
<1>6. \A r \in Run \ {q} : rpc'[r] = rpc[r] /\ routcome'[r] = routcome[r]
  BY <1>0
<1>7. DOMAIN rpc' = Run /\ DOMAIN routcome' = Run
  BY <1>0
<1> QED
  BY <1>0, <1>1, <1>3, <1>4, <1>5, <1>6, <1>7, ReviewAssembled DEF Early

\* The reviews are asked for: every model of a local provider waits for its turn.
LEMMA DispatchStep ==
  ASSUME ReviewInv, NEW q \in Run, R!Dispatch(q)
  PROVE  ReviewInv'
<1>0. /\ DOMAIN job = Run /\ DOMAIN dir = Run /\ DOMAIN rpc = Run /\ DOMAIN routcome = Run
      /\ rpc[q] = "dispatch" /\ rpc' = [rpc EXCEPT ![q] = "wait"]
      /\ UNCHANGED <<ropts, dir, disk, routcome>>
  BY DEF ReviewInv, R!Dispatch, R!Goto
<1> DEFINE jobs == [j \in R!Asked(ropts[q]) |-> IF R!Serves(ropts[q], j[1]) THEN "asked" ELSE "skipped"]
<1>1. job' = [job EXCEPT ![q] = jobs]
  BY DEF R!Dispatch
<1>2. /\ \A j \in DOMAIN jobs : jobs[j] \in {"asked", "skipped"}
      /\ DOMAIN jobs = R!Asked(ropts[q])
      /\ \A j \in DOMAIN jobs : j[1] \in R!Local => jobs[j] = "asked"
  BY DEF R!Serves
<1> HIDE DEF jobs
<1>3. job'[q] = jobs /\ DOMAIN job' = Run /\ \A r \in Run \ {q} : job'[r] = job[r]
  BY <1>0, <1>1
<1>4. InOrder(q)'
  <2>1. ASSUME NEW p \in R!Local \cap DOMAIN ropts[q].models, NEW k \in DOMAIN ropts[q].models[p]
        PROVE  job'[q][<<p, ropts[q].models[p][k]>>] = "asked"
    <3>1. <<p, ropts[q].models[p][k]>> \in DOMAIN jobs
      BY <1>2, OrderOf
    <3> QED
      BY <1>2, <1>3, <3>1
  <2> QED
    BY <1>0, <1>2, <1>3, <2>1 DEF InOrder
<1>5. ASSUME Owns(q)' PROVE DirectoryKept(q)'
  <2>1. DirectoryKept(q)
    BY <1>0, <1>5 DEF ReviewInv, Owns, R!Alone
  <2>2. \A n : R!Content(q, n)' = R!Content(q, n)
    BY <1>0 DEF R!Content
  <2>3. /\ R!Content(q, ManifestName) = {} /\ R!Content(q, PromptName) = {<<q>>}
        /\ \A j : OfReview(q, j) = {} /\ OfReview(q, j)' = {}
        /\ routcome[q] # "ok"
    BY <1>0, <2>1, <2>2 DEF DirectoryKept, ManifestKept, PromptKept, EarlyKept, Early, OfReview, ReviewInv
  <2>4. ASSUME NEW j \in DOMAIN jobs PROVE FileKept(q, j)' /\ WritingKept(q, j)'
    <3>1. R!SameFile(q, j)' \subseteq DOMAIN jobs
      BY <1>3 DEF R!SameFile
    <3> QED
      BY <1>2, <1>3, <2>3, <3>1 DEF FileKept, WritingKept
  <2> QED
    BY <1>0, <1>3, <2>2, <2>3, <2>4 DEF DirectoryKept, PromptKept, ManifestKept, EarlyKept, Early
<1>6. dir[q] # Unset /\ routcome'[q] # "ok"
  BY <1>0 DEF ReviewInv
<1>7. rpc'[q] = "wait" /\ \A r \in Run \ {q} : rpc'[r] = rpc[r]
  BY <1>0
<1> QED
  BY <1>0, <1>3, <1>4, <1>5, <1>6, <1>7, ReviewAssembled DEF Early

\* The command is given a directory.
LEMMA StartStep ==
  ASSUME ReviewInv, NEW q \in Run, R!Start(q)
  PROVE  ReviewInv'
<1>0. /\ DOMAIN job = Run /\ DOMAIN dir = Run /\ DOMAIN rpc = Run /\ DOMAIN routcome = Run
      /\ rpc[q] = "options" /\ rpc' = [rpc EXCEPT ![q] = "material"]
      /\ UNCHANGED <<ropts, job, disk, routcome>>
  BY DEF ReviewInv, R!Start, R!Goto
<1>1. PICK d : dir' = [dir EXCEPT ![q] = d] /\ d # Unset
  <2>1. PICK sec \in Second :
          dir' = [dir EXCEPT ![q] = IF ropts[q].out # Unset THEN <<ropts[q].out>>
                                    ELSE <<sec, R!Named(ropts[q])>>]
    BY DEF R!Start
  <2>2. <<ropts[q].out>> \in R!Dir
    BY DEF ReviewInv, R!Dir
  <2>3. <<sec, R!Named(ropts[q])>> \in R!Dir
    BY DEF R!Dir, R!Named
  <2>4. Unset \notin R!Dir
    BY ToolsAssumption DEF R!ReviewAssumption
  <2> QED
    BY <2>1, <2>2, <2>3, <2>4
<1>2. /\ dir[q] = Unset /\ job[q] = <<>> /\ rpc'[q] = "material"
      /\ \A r \in Run \ {q} : rpc'[r] = rpc[r] /\ dir'[r] = dir[r]
  BY <1>0, <1>1 DEF ReviewInv, Early
<1>3. routcome'[q] # "ok"
  BY <1>0 DEF ReviewInv
<1>4. ASSUME Owns(q)' PROVE DirectoryKept(q)'
  <2>1. \A f \in disk : f[1] # d
    BY <1>0, <1>1, <1>2, <1>4 DEF ReviewInv, Owns, R!Alone
  <2>2. \A n : R!Content(q, n)' = {}
    BY <1>0, <1>1, <2>1 DEF R!Content
  <2>3. DOMAIN job'[q] = {}
    BY <1>0, <1>2
  <2> QED
    BY <1>2, <1>3, <2>2, <2>3 DEF DirectoryKept, PromptKept, ManifestKept, EarlyKept, OfReview
<1>5. InOrder(q)'
  BY <1>2 DEF InOrder
<1>6. dir'[q] # Unset /\ DOMAIN dir' = Run /\ DOMAIN rpc' = Run
  BY <1>0, <1>1
<1> QED
  BY <1>0, <1>2, <1>4, <1>5, <1>6, <1>3, ReviewAssembled

\* What is reviewed and the prompt are written before the reviews are asked for.
LEMMA MaterialStep ==
  ASSUME ReviewInv, NEW q \in Run, R!Assemble(q) \/ R!WritePrompt(q)
  PROVE  ReviewInv'
<1>0. /\ DOMAIN job = Run /\ DOMAIN dir = Run /\ DOMAIN rpc = Run /\ DOMAIN routcome = Run
      /\ UNCHANGED <<ropts, dir, job, routcome>>
  BY DEF ReviewInv, R!Assemble, R!WritePrompt, R!Goto
<1>1. PICK label \in {"prompt", "dispatch"} :
        /\ rpc' = [rpc EXCEPT ![q] = label] /\ rpc[q] \in {"material", "prompt"}
        /\ \/ disk' = disk /\ label = "prompt"
           \/ \E o : disk' = R!Put(q, <<R!Material(o)>>, <<q>>) /\ label = "prompt"
           \/ disk' = R!Put(q, PromptName, <<q>>) /\ label = "dispatch"
  <2>1. CASE R!Assemble(q)
    BY <2>1 DEF R!Assemble, R!Goto
  <2>2. CASE R!WritePrompt(q)
    BY <2>2 DEF R!WritePrompt, R!Goto, PromptName
  <2> QED
    BY <2>1, <2>2
<1>2. /\ job[q] = <<>> /\ rpc[q] \in Early /\ rpc'[q] = label /\ dir[q] # Unset
      /\ \A r \in Run \ {q} : rpc'[r] = rpc[r]
      /\ routcome'[q] # "ok"
  BY <1>0, <1>1 DEF ReviewInv, Early
<1>3. ASSUME Owns(q)' PROVE DirectoryKept(q)'
  <2>1. DirectoryKept(q)
    BY <1>0, <1>3 DEF ReviewInv, Owns, R!Alone
  <2>2. CASE disk' = disk /\ label = "prompt"
    <3>1. \A n : R!Content(q, n)' = R!Content(q, n)
      BY <1>0, <2>2 DEF R!Content
    <3>2. R!Content(q, ManifestName)' = {} /\ \A j : OfReview(q, j)' = {}
      BY <1>1, <1>2, <2>1, <3>1 DEF DirectoryKept, ManifestKept, EarlyKept, OfReview
    <3>3. DOMAIN job'[q] = {}
      BY <1>0, <1>2
    <3> QED
      BY <1>2, <2>2, <3>2, <3>3 DEF DirectoryKept, PromptKept, ManifestKept, EarlyKept
  <2>3. CASE ~(disk' = disk /\ label = "prompt")
    <3>1. PICK n : /\ disk' = R!Put(q, n, <<q>>) /\ n # ManifestName /\ \A j : R!FileOf(j) # n
                   /\ label = "dispatch" => n = PromptName
      BY <1>1, <2>3, FileNames
    <3> QED
      BY <1>0, <1>2, <2>1, <3>1, EarlyWrite
  <2> QED
    BY <2>2, <2>3
<1>4. disk' = disk \/ \E n, c : disk' = R!Put(q, n, c)
  BY <1>1
<1>5. InOrder(q)'
  BY <1>2 DEF InOrder
<1>6. DOMAIN rpc' = Run
  BY <1>0, <1>1
<1> QED
  BY <1>0, <1>2, <1>3, <1>4, <1>5, <1>6, ReviewAssembled DEF Early

\* The MANIFEST is begun when every review is accounted for, and written to the end.
LEMMA ManifestStep ==
  ASSUME ReviewInv, NEW q \in Run, R!BeginManifest(q) \/ R!EndManifest(q)
  PROVE  ReviewInv'
<1>0. /\ DOMAIN job = Run /\ DOMAIN dir = Run /\ DOMAIN rpc = Run /\ DOMAIN routcome = Run
      /\ UNCHANGED <<ropts, dir, job>>
  BY DEF ReviewInv, R!BeginManifest, R!EndManifest
<1>1. PICK c :
        /\ rpc[q] \in {"wait", "manifest"}
        /\ \/ /\ c.whole /\ rpc' = [rpc EXCEPT ![q] = "over"]
              /\ DOMAIN routcome' = Run /\ \A r \in Run \ {q} : routcome'[r] = routcome[r]
           \/ ~c.whole /\ rpc' = [rpc EXCEPT ![q] = "manifest"] /\ routcome' = routcome
        /\ disk' = R!Put(q, ManifestName, c)
        /\ c.models \subseteq R!Ran(q) /\ (c.whole => c.models = R!Ran(q))
        /\ rpc[q] = "wait" =>
             \A j \in DOMAIN job[q] : job[q][j] \in R!Settled /\ job[q][j] # "unwritten"
  <2>1. CASE R!BeginManifest(q)
    <3> DEFINE said == [models |-> {}, whole |-> FALSE]
    <3>1. said.models = {} /\ ~said.whole /\ disk' = R!Put(q, ManifestName, said)
      BY <2>1 DEF R!BeginManifest, ManifestName
    <3>2. \A j \in DOMAIN job[q] : job[q][j] \in R!Settled /\ job[q][j] # "unwritten"
      BY <2>1 DEF R!BeginManifest, R!MayReport
    <3>3. rpc[q] = "wait" /\ rpc' = [rpc EXCEPT ![q] = "manifest"] /\ routcome' = routcome
      BY <2>1 DEF R!BeginManifest, R!Goto
    <3> HIDE DEF said
    <3> QED
      BY <3>1, <3>2, <3>3
  <2>2. CASE R!EndManifest(q)
    <3> DEFINE said == [models |-> R!Ran(q), whole |-> TRUE]
    <3>1. said.models = R!Ran(q) /\ said.whole /\ disk' = R!Put(q, ManifestName, said)
      BY <2>2 DEF R!EndManifest, ManifestName
    <3>2. DOMAIN routcome' = Run /\ \A r \in Run \ {q} : routcome'[r] = routcome[r]
      BY <1>0, <2>2 DEF R!EndManifest
    <3>3. rpc[q] = "manifest" /\ rpc' = [rpc EXCEPT ![q] = "over"]
      BY <2>2 DEF R!EndManifest
    <3> HIDE DEF said
    <3> QED
      BY <3>1, <3>2, <3>3
  <2> QED
    BY <2>1, <2>2
<1>2. /\ rpc'[q] \in {"manifest", "over"} /\ DOMAIN rpc' = Run /\ DOMAIN routcome' = Run
      /\ \A r \in Run \ {q} : rpc'[r] = rpc[r] /\ routcome'[r] = routcome[r]
  BY <1>0, <1>1
<1>3. routcome'[q] = "ok" => rpc'[q] = "over" /\ c.whole
  BY <1>0, <1>1 DEF ReviewInv
<1>4. ASSUME Owns(q)' PROVE DirectoryKept(q)'
  <2>1. DirectoryKept(q)
    BY <1>0, <1>4 DEF ReviewInv, Owns, R!Alone
  <2>2. \A j \in DOMAIN job[q] : job[q][j] \in {"failed", "ran", "skipped"}
    BY <1>1, <2>1 DEF DirectoryKept, ManifestKept, R!Settled
  <2> QED
    BY <1>0, <1>1, <1>2, <1>3, <2>1, <2>2, ManifestWrite
<1>5. dir[q] # Unset
  BY <1>1 DEF ReviewInv
<1>6. InOrder(q)'
  BY <1>2 DEF InOrder
<1>7. \E n, x : disk' = R!Put(q, n, x)
  BY <1>1
<1> QED
  BY <1>0, <1>2, <1>3, <1>4, <1>5, <1>6, <1>7, ReviewAssembled DEF Early

\* Every step of every run keeps the directories that belong to one run alone.
LEMMA ReviewInductive == ReviewInv /\ [R!Next]_(R!vars) => ReviewInv'
<1> SUFFICES ASSUME ReviewInv, [R!Next]_(R!vars) PROVE ReviewInv'
  OBVIOUS
<1>1. CASE UNCHANGED R!vars
  <2>1. UNCHANGED <<ropts, rpc, dir, job, disk, routcome>>
    BY <1>1 DEF R!vars
  <2>2. \A r \in Run : Owns(r)' => DirectoryKept(r)'
    <3> SUFFICES ASSUME NEW r \in Run, Owns(r)' PROVE DirectoryKept(r)'
      OBVIOUS
    <3>1. DirectoryKept(r) /\ \A n : R!Content(r, n)' = R!Content(r, n)
      BY <2>1 DEF ReviewInv, Owns, R!Alone, R!Content
    <3> QED
      BY <2>1, <3>1, DirectoryStays
  <2>3. \A r \in Run : InOrder(r)'
    BY <2>1 DEF ReviewInv, InOrder
  <2> QED
    BY <2>1, <2>2, <2>3 DEF ReviewInv
<1>2. ASSUME NEW q \in Run,
             R!Refuse(q) \/ R!AssembleFails(q) \/ R!Report(q) \/ R!ManifestFails(q) \/ R!Kill(q)
      PROVE  ReviewInv'
  <2>1. /\ rpc[q] # "over" /\ rpc' = [rpc EXCEPT ![q] = "over"] /\ UNCHANGED <<ropts, dir, job>>
        /\ \E said \in {"error", "killed"} : routcome' = [routcome EXCEPT ![q] = said]
    BY <1>2 DEF R!Refuse, R!AssembleFails, R!Report, R!ManifestFails, R!Kill, R!Fail
  <2>2. disk' \in R!Unfinished(q)
    <3>1. CASE R!Refuse(q) \/ R!Report(q)
      BY <3>1 DEF R!Refuse, R!Report, R!Unfinished
    <3>2. CASE R!AssembleFails(q) \/ R!ManifestFails(q) \/ R!Kill(q)
      BY <3>2 DEF R!AssembleFails, R!ManifestFails, R!Kill
    <3> QED
      BY <1>2, <3>1, <3>2
  <2> QED
    BY <2>1, <2>2, CutShort
<1>3. ASSUME NEW q \in Run, NEW j \in DOMAIN job[q],
             R!Answered(q, j) \/ R!WriteReview(q, j) \/ R!AnswerFails(q, j) \/ R!Record(q, j)
      PROVE  ReviewInv'
  BY <1>3, AnsweredStep, WrittenStep, RecordedStep
<1> QED
  BY <1>1, <1>2, <1>3, StartStep, MaterialStep, DispatchStep, ManifestStep DEF R!Next

\* In a directory that no other command was given, a MANIFEST tells the truth, also one
\* that was cut short: each review it names is there, and each review that is there is
\* the answer of a model that ran, whole, unless models of a remote provider with one
\* file wrote it side by side; a whole MANIFEST names them all, a success leaves it
\* whole, and the prompt beside it is that of the command (external_review.go: the
\* parallel goroutines, which truncate and write their files, and the MANIFEST after
\* them), for any number of commands and models.
THEOREM ManifestOfTheRun == R!Spec => []ManifestTrue
  BY ManifestFromInvariant, ReviewInitially, ReviewInductive, PTL DEF R!Spec

-----------------------------------------------------------------------------
(* MetaReview.                                                              *)

\* What the driver is about to post, and what it has put on the artifact, is what a
\* model was allowed to say; the sequence of comments is one.
Believed(s) ==
  \A x \in s : x.label # "risk/hollow-validation" /\ (x.label \in M!Mechanical \/ x.confidence = "low")
MetaInv ==
  /\ M!TypeOK /\ posted \in Seq(SUBSET M!Suggestion)
  /\ obedient /\ ~escalate => Believed(found)
  /\ NeverSilentlyTrusted

\* Nothing is found or posted at the start.
LEMMA MetaInitially == M!Init => MetaInv
<1> SUFFICES ASSUME M!Init PROVE MetaInv
  OBVIOUS
<1>1. found = {} /\ labels = {} /\ posted = <<>>
  BY DEF M!Init
<1>2. M!TypeOK
  <2>1. MaxRuns \in Nat
    BY ToolsAssumption DEF M!MetaAssumption
  <2>2. runs \in 0..MaxRuns
    BY <2>1 DEF M!Init
  <2>3. DOMAIN posted = {}
    BY <1>1
  <2> QED
    BY <1>1, <2>2, <2>3 DEF M!Init, M!TypeOK
<1> QED
  BY <1>1, <1>2 DEF MetaInv, NeverSilentlyTrusted, M!NeverSilentlyTrusted, Believed

\* A clean answer about some candidates, and what the clamp and the deduplication leave of it.
LEMMA AnswersValidated ==
  ASSUME NEW cands, NEW s \in M!Answers(cands)
  PROVE  /\ M!Validated(s) \subseteq M!Suggestion
         /\ obedient => \A x \in M!Validated(s) : \E c \in cands : x.label = c[1]
<1>1. \A x \in s : x \in M!Suggestion \cup M!Unclean
  BY DEF M!Answers
<1>2. \A x \in M!Unclean : x.label = "other"
  BY DEF M!Unclean
<1>3. M!Validated(s) \subseteq M!Suggestion
  BY <1>1, <1>2 DEF M!Validated, M!PerArtifactLabels, M!Mechanical
<1>4. ASSUME obedient, NEW x \in M!Validated(s)
      PROVE  \E c \in cands : x.label = c[1]
  <2>1. x.label \in M!Labels(cands)
    BY <1>4 DEF M!Answers, M!Validated
  <2> QED
    BY <2>1 DEF M!Labels
<1> QED
  BY <1>3, <1>4

LEMMA ClampedLow ==
  ASSUME NEW s, s \subseteq M!Suggestion
  PROVE  /\ M!Clamp(s) \subseteq M!Suggestion
         /\ ~ escalate => \A x \in M!Clamp(s) : x.confidence = "low" /\ \E y \in s : x.label = y.label
  BY DEF M!Clamp, M!Suggestion

\* Each step of the driver, whatever the model answers and whatever it is asked about.
LEMMA MetaInductive == MetaInv /\ [M!Next]_(M!vars) => MetaInv'
<1> SUFFICES ASSUME MetaInv, [M!Next]_(M!vars)
             PROVE  MetaInv'
  OBVIOUS
<1> USE DEF MetaInv, NeverSilentlyTrusted
<1>0. MaxRuns \in Nat
  BY ToolsAssumption DEF M!MetaAssumption
<1>1. CASE M!Fetch
  <2>1. PICK d \in BOOLEAN : seen' = M!Diffed(artifact, d)
    BY <1>1 DEF M!Fetch
  <2>2. \E a \in Artifact, diff \in BOOLEAN : seen' = M!Diffed(a, diff)
    BY <2>1 DEF M!TypeOK
  <2>3. runs' \in 0..MaxRuns
    BY <1>0, <1>1 DEF M!Fetch, M!TypeOK
  <2> QED
    BY <1>1, <2>2, <2>3 DEF M!Fetch, M!TypeOK, M!NeverSilentlyTrusted, Believed, M!options
<1>2. CASE M!Confirm
  <2>1. UNCHANGED <<obedient, escalate, posted, labels>>
    BY <1>2 DEF M!Confirm, M!options
  <2>2. CASE UNCHANGED found
    BY <1>2, <2>1, <2>2 DEF M!Confirm, M!TypeOK, M!NeverSilentlyTrusted, Believed, M!options
  <2>3. CASE ~ UNCHANGED found
    <3>1. PICK s \in M!Answers(M!MechanicalOf(M!Cands)) : found' = M!Validated(s)
      BY <1>2, <2>3 DEF M!Confirm
    <3>2. found' \subseteq M!Suggestion
      BY <3>1, AnswersValidated
    <3>3. obedient => \A x \in found' : x.label \in M!Mechanical
      BY <3>1, AnswersValidated DEF M!MechanicalOf
    <3>4. Believed(found)' \/ ~ obedient
      BY <3>3 DEF Believed, M!Mechanical
    <3> QED
      BY <1>2, <2>1, <3>2, <3>4 DEF M!Confirm, M!TypeOK, M!NeverSilentlyTrusted, M!options
  <2> QED
    BY <2>2, <2>3
<1>3. CASE M!Judge
  <2>1. UNCHANGED <<obedient, escalate, posted, labels>>
    BY <1>3 DEF M!Judge, M!options
  <2>2. PICK s \in IF M!JudgmentOf(M!Cands) = {} THEN {{}} ELSE M!Answers(M!JudgmentOf(M!Cands)) \cup {{}} :
               found' = M!Dedupe(found \cup M!Clamp(M!Validated(s)))
    BY <1>3 DEF M!Judge
  <2>3. M!Validated(s) \subseteq M!Suggestion
    BY <2>2, AnswersValidated DEF M!Validated
  <2>4. obedient => \A x \in M!Validated(s) : \E c \in M!JudgmentOf(M!Cands) : x.label = c[1]
    BY <2>2, AnswersValidated DEF M!Validated
  <2>5. obedient /\ ~ escalate => \A x \in M!Validated(s) : x.label # "risk/hollow-validation"
    BY <2>4 DEF M!JudgmentOf
  <2>6. found' \subseteq found \cup M!Clamp(M!Validated(s))
    BY <2>2 DEF M!Dedupe
  <2>7. obedient /\ ~ escalate => Believed(found)'
    BY <2>3, <2>5, <2>6, ClampedLow, <2>1 DEF Believed
  <2>8. found' \subseteq M!Suggestion
    BY <2>3, <2>6, ClampedLow DEF M!TypeOK
  <2> QED
    <3>1. M!TypeOK'
      BY <1>3, <2>1, <2>8 DEF M!Judge, M!TypeOK, M!options
    <3> QED
      BY <2>1, <2>7, <3>1 DEF M!NeverSilentlyTrusted
<1>4. CASE M!Post
  <2>1. UNCHANGED <<obedient, escalate, found, labels>>
    BY <1>4 DEF M!Post, M!options
  <2>2. posted' \in Seq(SUBSET M!Suggestion)
        /\ \A i \in DOMAIN posted' : posted'[i] = found \/ (i \in DOMAIN posted /\ posted'[i] = posted[i])
    BY <1>4 DEF M!Post, M!TypeOK
  <2> QED
    BY <1>4, <2>1, <2>2 DEF M!Post, M!TypeOK, M!NeverSilentlyTrusted, Believed, M!options
<1>5. CASE M!ApplyLabels
  <2>1. labels' \subseteq labels \cup M!Wanted
    BY <1>5 DEF M!ApplyLabels
  <2>2. M!Wanted \subseteq M!PerArtifactLabels
    BY DEF M!Wanted, M!TypeOK, M!Suggestion
  <2>3. obedient /\ ~ escalate => M!Wanted \subseteq M!Mechanical
    BY DEF M!Wanted, Believed
  <2> QED
    BY <1>5, <2>1, <2>2, <2>3 DEF M!ApplyLabels, M!TypeOK, M!NeverSilentlyTrusted, Believed, M!options
<1>6. CASE M!Changes
  BY <1>6 DEF M!Changes, M!TypeOK, M!NeverSilentlyTrusted, Believed, M!options
<1>7. CASE UNCHANGED M!vars
  BY <1>7 DEF M!vars, M!TypeOK, M!NeverSilentlyTrusted, Believed
<1> QED
  BY <1>1, <1>2, <1>3, <1>4, <1>5, <1>6, <1>7 DEF M!Next

\* And so it holds throughout `meta-review'.
THEOREM MetaInductiveInvariant == M!Spec => []MetaInv
  BY MetaInitially, MetaInductive, PTL DEF M!Spec

\* Without a stronger model, and with models that answer what they are asked, no hollow
\* validation is posted, no risk as more than speculative, and no label but a mechanical
\* one is put on the artifact (metareview/driver.go), for any corpus and any answers.
THEOREM NeverTrusted == M!Spec => []NeverSilentlyTrusted
<1>1. MetaInv => NeverSilentlyTrusted
  BY DEF MetaInv
<1> QED
  BY <1>1, MetaInductiveInvariant, PTL

-----------------------------------------------------------------------------
(* Extract.                                                                 *)

\* Did the extraction begin when the second of the snapshot was over?
Late(x) == from[x] # Unset /\ Window.snapshot # Unset /\ from[x] > Window.snapshot

\* Nothing has a time that is yet to come; an extraction that has not begun has read
\* nothing, and what it has gathered is in its window.
TimesInOrder ==
  /\ \A i \in Item : made[i] # Unset => made[i] <= now
  /\ \A i \in Opening : made[i] # Unset
  /\ \A x \in Extraction :
       /\ from[x] # Unset => from[x] <= now
       /\ xpc[x] = "start" => read[x] = {} /\ todo[x] = {} /\ from[x] = Unset
       /\ xpc[x] \in {"read", "done"} => from[x] # Unset
       /\ \A l \in lines[x] : X!Includes(l[1])

\* What a late extraction has passed of what is in the window, and nobody has edited,
\* it has gathered: the openings with the list, the rest issue by issue.
Gathered ==
  \A x \in Extraction : Late(x) =>
    \A i \in Item \ edited :
      /\ made[i] # Unset /\ X!Includes(made[i])
      /\ IssueOf[i] \in read[x] \/ (i \in Opening /\ IssueOf[i] \in todo[x])
      => X!Line(i) \in lines[x]

ExtractInv == X!TypeOK /\ TimesInOrder /\ Gathered

\* No extraction has begun at the start.
LEMMA ExtractInitially == X!Init => ExtractInv
<1> SUFFICES ASSUME X!Init PROVE ExtractInv
  OBVIOUS
<1>1. MaxTime \in Nat /\ Opening \subseteq Item /\ Unset \notin Nat
  BY ToolsAssumption DEF X!ExtractAssumption
<1>2. now = 0 /\ now \in X!Time
  BY <1>1 DEF X!Init, X!Time
<1>3. X!TypeOK
  BY <1>1, <1>2 DEF X!Init, X!TypeOK
<1> QED
  <2>1. \A x \in Extraction : read[x] = {} /\ todo[x] = {} /\ from[x] = Unset /\ lines[x] = {} /\ xpc[x] = "start"
    BY DEF X!Init
  <2>2. \A i \in Item : made[i] # Unset => made[i] = 0
    BY DEF X!Init
  <2>3. \A i \in Opening : made[i] = 0
    BY <1>1 DEF X!Init
  <2>4. TimesInOrder
    BY <1>1, <1>2, <2>1, <2>2, <2>3 DEF TimesInOrder
  <2>5. Gathered
    BY <2>1 DEF Gathered, Late
  <2> QED
    BY <1>3, <2>4, <2>5 DEF ExtractInv

\* The lines of some items: which they are, and that they are in the window.
LEMMA LinesOf ==
  ASSUME NEW items, items \subseteq Item
  PROVE  /\ \A l \in X!Lines(items) : X!Includes(l[1])
         /\ \A i \in items : made[i] # Unset /\ X!Includes(made[i]) => X!Line(i) \in X!Lines(items)
         /\ X!TypeOK => X!Lines(items) \subseteq X!Time \X X!Issue \X Text
  BY DEF X!Lines, X!Line, X!TypeOK, X!Issue

\* Each step of an extraction, and of the people who write and edit meanwhile.
LEMMA ExtractInductive == ExtractInv /\ [X!Next]_(X!vars) => ExtractInv'
<1> SUFFICES ASSUME ExtractInv, [X!Next]_(X!vars) PROVE ExtractInv'
  OBVIOUS
<1> USE DEF ExtractInv
<1>0. /\ MaxTime \in Nat /\ Opening \subseteq Item /\ Unset \notin Nat
      /\ Window.snapshot \in Nat \cup {Unset}
  BY ToolsAssumption DEF X!ExtractAssumption
<1>a. now \in Nat /\ X!Time \subseteq Nat /\ Unset \notin X!Time
  BY <1>0 DEF X!TypeOK, X!Time
<1>d. (\A i \in Item : made[i] \in Nat \cup {Unset}) /\ (\A x \in Extraction : from[x] \in Nat \cup {Unset})
  BY <1>a DEF X!TypeOK
<1>b. \A i \in Item : X!Line(i) = <<made[i], IssueOf[i], text[i]>>
  BY DEF X!Line
<1>c. \A t : X!Includes(t)' = X!Includes(t)
  BY DEF X!Includes
\* Steps that only add to what is in the lists of an extraction or leave it.
<1>1. CASE X!Tick
  <2>1. now' \in X!Time /\ now' > now
    BY <1>0, <1>1, <1>a DEF X!Tick, X!Time
  <2>2. UNCHANGED <<made, text, edited, members, xpc, from, todo, read, lines, missed>>
    BY <1>1 DEF X!Tick
  <2>3. X!TypeOK'
    BY <2>1, <2>2 DEF X!TypeOK
  <2>4. TimesInOrder'
    <3>1. now' \in Nat
      BY <2>1, <1>a
    <3> QED
      BY <2>1, <2>2, <3>1, <1>a, <1>c, <1>d DEF TimesInOrder
  <2>5. Gathered'
    BY <2>2, <1>c DEF Gathered, Late, X!Line
  <2> QED
    BY <2>3, <2>4, <2>5
<1>2. ASSUME NEW i \in Item, X!Happens(i) PROVE ExtractInv'
  <2>1. /\ made[i] = Unset /\ made' = [made EXCEPT ![i] = now]
        /\ UNCHANGED <<now, text, edited, members, xpc, from, todo, read, lines, missed>>
    BY <1>2 DEF X!Happens
  <2>2. X!TypeOK'
    BY <2>1 DEF X!TypeOK
  <2>3. TimesInOrder'
    BY <2>1, <1>0, <1>a, <1>c DEF TimesInOrder, X!TypeOK
  <2>4. ASSUME NEW x \in Extraction, Late(x)', NEW j \in Item \ edited,
               made'[j] # Unset, X!Includes(made'[j]),
               IssueOf[j] \in read[x] \/ (j \in Opening /\ IssueOf[j] \in todo[x])
        PROVE  X!Line(j)' \in lines[x]
    <3>1. Late(x)
      BY <2>1, <2>4 DEF Late
    <3>2. CASE j = i
      <4>1. now > Window.snapshot
        BY <3>1, <1>0, <1>a, <1>d DEF Late, TimesInOrder
      <4>2. made'[j] = now
        BY <2>1, <3>2 DEF X!TypeOK
      <4> QED
        BY <4>1, <4>2, <2>4, <3>1, <1>0, <1>a DEF X!Includes, Late
    <3>3. CASE j # i
      BY <2>1, <2>4, <3>1, <3>3 DEF Gathered, X!Line, X!TypeOK
    <3> QED
      BY <3>2, <3>3
  <2>5. Gathered'
    BY <2>1, <2>4, <1>c DEF Gathered
  <2> QED
    BY <2>2, <2>3, <2>5
<1>3. ASSUME NEW i \in Item, X!Edit(i) PROVE ExtractInv'
  <2>1. /\ edited' = edited \cup {i} /\ text' \in [Item -> Text]
        /\ \A j \in Item : j # i => text'[j] = text[j]
        /\ UNCHANGED <<now, made, members, xpc, from, todo, read, lines, missed>>
    BY <1>3 DEF X!Edit, X!TypeOK
  <2>2. X!TypeOK'
    BY <2>1 DEF X!TypeOK
  <2>3. TimesInOrder'
    BY <2>1, <1>c DEF TimesInOrder
  <2>4. Gathered'
    BY <2>1, <1>c DEF Gathered, Late, X!Line
  <2> QED
    BY <2>2, <2>3, <2>4
<1>4. ASSUME NEW s \in X!Issue, X!Link(s) PROVE ExtractInv'
  <2>1. /\ members' \subseteq X!Issue
        /\ UNCHANGED <<now, made, text, edited, xpc, from, todo, read, lines, missed>>
    BY <1>4 DEF X!Link, X!TypeOK
  <2>2. X!TypeOK'
    BY <2>1 DEF X!TypeOK
  <2>3. TimesInOrder'
    BY <2>1, <1>c DEF TimesInOrder
  <2>4. Gathered'
    BY <2>1, <1>c DEF Gathered, Late, X!Line
  <2> QED
    BY <2>2, <2>3, <2>4
\* A step of an extraction.
<1>5. ASSUME NEW x \in Extraction, X!Begin(x) PROVE ExtractInv'
  <2>0. /\ xpc[x] = "start" /\ xpc' = [xpc EXCEPT ![x] = "read"] /\ from' = [from EXCEPT ![x] = now]
        /\ todo' = [todo EXCEPT ![x] = members]
        /\ lines' = [lines EXCEPT ![x] = X!Lines({i \in Opening : IssueOf[i] \in members})]
        /\ UNCHANGED <<now, made, text, edited, members, read, missed>>
    BY <1>5 DEF X!Begin, X!people
  <2> DEFINE opened == {i \in Opening : IssueOf[i] \in members}
  <2>1. opened \subseteq Item
    BY <1>0
  <2>2. X!TypeOK'
    BY <2>0, <2>1, LinesOf DEF X!TypeOK
  <2>3. TimesInOrder'
    BY <2>0, <2>1, LinesOf, <1>0, <1>a, <1>c, <1>d DEF TimesInOrder, X!TypeOK
  <2>4. ASSUME NEW y \in Extraction, Late(y)', NEW i \in Item \ edited, made[i] # Unset, X!Includes(made[i]),
               IssueOf[i] \in read[y] \/ (i \in Opening /\ IssueOf[i] \in todo'[y])
        PROVE  X!Line(i) \in lines'[y]
    <3>1. CASE y = x
      <4>1. i \in opened
        BY <2>0, <2>4, <3>1 DEF TimesInOrder, X!TypeOK
      <4> QED
        BY <2>0, <2>1, <2>4, <3>1, <4>1, LinesOf DEF X!TypeOK
    <3>2. CASE y # x
      BY <2>0, <2>4, <3>2 DEF Gathered, Late, X!TypeOK
    <3> QED
      BY <3>1, <3>2
  <2>5. Gathered'
    BY <2>0, <2>4, <1>c DEF Gathered, X!Line
  <2> QED
    BY <2>2, <2>3, <2>5
<1>6. ASSUME NEW x \in Extraction, X!BeginFails(x) PROVE ExtractInv'
  <2>1. /\ xpc[x] = "start" /\ xpc' = [xpc EXCEPT ![x] = "failed"]
        /\ UNCHANGED <<now, made, text, edited, members, from, todo, read, lines, missed>>
    BY <1>6 DEF X!BeginFails, X!people
  <2>2. X!TypeOK'
    BY <2>1 DEF X!TypeOK
  <2>3. TimesInOrder'
    BY <2>1, <1>0, <1>a, <1>c, <1>d DEF TimesInOrder, X!TypeOK
  <2>4. Gathered'
    BY <2>1, <1>c DEF Gathered, Late, X!Line, X!TypeOK
  <2> QED
    BY <2>2, <2>3, <2>4
<1>7. ASSUME NEW x \in Extraction, X!Write(x) PROVE ExtractInv'
  <2>1. /\ xpc[x] = "read" /\ xpc' = [xpc EXCEPT ![x] = "done"]
        /\ UNCHANGED <<now, made, text, edited, members, from, todo, read, lines, missed>>
    BY <1>7 DEF X!Write, X!people
  <2>2. X!TypeOK'
    BY <2>1 DEF X!TypeOK
  <2>3. TimesInOrder'
    BY <2>1, <1>0, <1>a, <1>c, <1>d DEF TimesInOrder, X!TypeOK
  <2>4. Gathered'
    BY <2>1, <1>c DEF Gathered, Late, X!Line, X!TypeOK
  <2> QED
    BY <2>2, <2>3, <2>4
<1>8. ASSUME NEW x \in Extraction, NEW s \in X!Issue, X!Read(x, s) PROVE ExtractInv'
  <2>0. /\ xpc[x] = "read" /\ s \in todo[x]
        /\ todo' = [todo EXCEPT ![x] = @ \ {s}] /\ read' = [read EXCEPT ![x] = @ \cup {s}]
        /\ lines' = [lines EXCEPT ![x] = @ \cup X!Lines(X!Of(s) \ Opening)]
        /\ UNCHANGED <<now, made, text, edited, members, xpc, from, missed>>
    BY <1>8 DEF X!Read, X!people
  <2>1. X!Of(s) \ Opening \subseteq Item
    BY DEF X!Of
  <2>2. X!TypeOK'
    BY <2>0, <2>1, LinesOf DEF X!TypeOK
  <2>3. TimesInOrder'
    BY <2>0, <2>1, LinesOf, <1>0, <1>a, <1>c, <1>d DEF TimesInOrder, X!TypeOK
  <2>4. ASSUME NEW y \in Extraction, Late(y), NEW i \in Item \ edited, made[i] # Unset, X!Includes(made[i]),
               IssueOf[i] \in read'[y] \/ (i \in Opening /\ IssueOf[i] \in todo'[y])
        PROVE  X!Line(i) \in lines'[y]
    <3>1. CASE X!Line(i) \in lines[y]
      BY <2>0, <3>1 DEF X!TypeOK
    <3>2. CASE X!Line(i) \notin lines[y]
      <4>1. y = x /\ IssueOf[i] = s /\ i \notin Opening
        BY <2>0, <2>4, <3>2 DEF Gathered, X!TypeOK
      <4>2. X!Line(i) \in X!Lines(X!Of(s) \ Opening)
        BY <2>1, <2>4, <4>1, LinesOf DEF X!Of
      <4> QED
        BY <2>0, <4>1, <4>2 DEF X!TypeOK
    <3> QED
      BY <3>1, <3>2
  <2>5. Gathered'
    BY <2>0, <2>4, <1>c DEF Gathered, Late, X!Line
  <2> QED
    BY <2>2, <2>3, <2>5
<1>9. ASSUME NEW x \in Extraction, NEW s \in X!Issue, X!ReadFails(x, s) PROVE ExtractInv'
  <2>1. /\ xpc[x] = "read" /\ s \in todo[x]
        /\ todo' = [todo EXCEPT ![x] = @ \ {s}] /\ missed' = [missed EXCEPT ![x] = @ \cup {s}]
        /\ UNCHANGED <<now, made, text, edited, members, xpc, from, read, lines>>
    BY <1>9 DEF X!ReadFails, X!people
  <2>2. X!TypeOK'
    BY <2>1 DEF X!TypeOK
  <2>3. TimesInOrder'
    BY <2>1, <1>0, <1>a, <1>c, <1>d DEF TimesInOrder, X!TypeOK
  <2>4. Gathered'
    BY <2>1, <1>c DEF Gathered, Late, X!Line, X!TypeOK
  <2> QED
    BY <2>2, <2>3, <2>4
<1>10. CASE UNCHANGED X!vars
  <2>1. UNCHANGED <<now, made, text, edited, members, xpc, from, todo, read, lines, missed>>
    BY <1>10 DEF X!vars
  <2> QED
    BY <2>1, <1>c DEF X!TypeOK, TimesInOrder, Gathered, Late, X!Line
<1> QED
  BY <1>1, <1>2, <1>3, <1>4, <1>5, <1>6, <1>7, <1>8, <1>9, <1>10 DEF X!Next

\* And so it holds throughout.
THEOREM ExtractInductiveInvariant == X!Spec => []ExtractInv
  BY ExtractInitially, ExtractInductive, PTL DEF X!Spec

\* Two late extractions agree about what nobody edited and both have read.
LEMMA ReproducibleFromInvariant == ExtractInv => Reproducible
<1> SUFFICES ASSUME ExtractInv, NEW x \in Extraction, NEW y \in Extraction, {xpc[x], xpc[y]} = {"done"},
                    Window.snapshot # Unset, from[x] > Window.snapshot, from[y] > Window.snapshot,
                    NEW i \in Item \ edited, IssueOf[i] \in read[x] \cap read[y], made[i] # Unset
             PROVE  X!Line(i) \in lines[x] <=> X!Line(i) \in lines[y]
  BY DEF Reproducible, X!Reproducible
<1>1. Late(x) /\ Late(y)
  BY DEF Late, ExtractInv, TimesInOrder
<1>2. \A z \in {x, y} : X!Includes(made[i]) => X!Line(i) \in lines[z]
  BY <1>1 DEF ExtractInv, Gathered
<1>3. X!Line(i)[1] = made[i]
  BY DEF X!Line
<1> QED
  BY <1>2, <1>3 DEF ExtractInv, TimesInOrder

\* Extracting a session twice after its snapshot gives the same lines, for all that was
\* not edited (session extract), for any number of extractions, items and times.
THEOREM ExtractsAgree == X!Spec => []Reproducible
  BY ReproducibleFromInvariant, ExtractInductiveInvariant, PTL

-----------------------------------------------------------------------------
(* ForgeHistory: the operators.                                             *)

\* The queue of an epic, as rounds over its children, ends with the least set that has
\* the epic and the children of each member.
LEMMA ClosureIsLeast ==
  ASSUME NEW t \in [F!Issue -> SUBSET F!Issue], NEW e \in F!Issue
  PROVE  F!Closure(t, e) = {i \in F!Issue : \A s \in SUBSET F!Issue :
                              e \in s /\ (\A j \in s : t[j] \subseteq s) => i \in s}
<1> DEFINE N == MaxIssue
           S == SUBSET F!Issue
           base == {e}
           step == [k \in 1..N |-> [s \in S |-> s \cup F!Children(t, s)]]
           eq(f) == f = [k \in 0..N |-> IF k = 0 THEN base ELSE f[k - 1] \cup F!Children(t, f[k - 1])]
<1>1. N \in Nat /\ F!Issue = 1..N
  BY ToolsAssumption DEF F!HistoryAssumption, F!Issue
<1>1a. N \in Nat /\ 0 \in 0..N
  BY <1>1
<1>2. base \in S /\ e \in base
  OBVIOUS
<1>3. \A s \in S : s \cup F!Children(t, s) \in S
  BY DEF F!Children
<1>4. step \in [1..N -> [S -> S]]
  BY <1>3
<1>5. \A k \in 1..N : \A s \in S : step[k][s] = s \cup F!Children(t, s)
  OBVIOUS
<1> HIDE DEF N, S, base, step
<1>6. PICK f \in [0..N -> S] : f[0] = base /\ \A k \in 1..N : f[k] = step[k][f[k - 1]]
  <2>1. step \in Steps(N, S)
    BY <1>4 DEF Steps
  <2>2. \E f : Recursion(N, S, base, step, f)
    BY <1>1a, <1>2, <2>1, RecursionExists
  <2> QED
    BY <2>2 DEF Recursion
<1>7. \A k \in 1..N : k - 1 \in 0..N /\ f[k] = f[k - 1] \cup F!Children(t, f[k - 1])
  BY <1>1, <1>5, <1>6
<1>8. eq(f)
  BY <1>1, <1>6, <1>7
<1> DEFINE within == CHOOSE h : eq(h)
<1>9. eq(within)
  BY <1>8
<1>10. F!Closure(t, e) = within[N]
  BY DEF F!Closure, N, base
<1> HIDE DEF within
<1>11. within[0] = base /\ \A k \in 1..N : within[k] = within[k - 1] \cup F!Children(t, within[k - 1])
  <2>1. 0 \in 0..N /\ \A k \in 1..N : k \in 0..N /\ k # 0
    BY <1>1
  <2> QED
    BY <1>9, <2>1
<1>12. \A k \in 0..N : within[k] \in S /\ e \in within[k]
  <2> DEFINE T == {k \in 0..N : within[k] \in S /\ e \in within[k]}
  <2>1. 0 \in T
    BY <1>1a, <1>2, <1>11
  <2>2. \A k \in 1..N : k - 1 \in T => k \in T
    BY <1>1, <1>3, <1>11
  <2>3. 0..N \subseteq T
    BY <1>1a, <2>1, <2>2, UpTo
  <2> QED
    BY <2>3
<1>13. ASSUME NEW s \in S, e \in s, \A j \in s : t[j] \subseteq s PROVE \A k \in 0..N : within[k] \subseteq s
  <2> DEFINE T == {k \in 0..N : within[k] \subseteq s}
  <2>1. 0 \in T
    <3>1. base \subseteq s
      BY <1>13 DEF base
    <3> QED
      BY <1>1a, <1>11, <3>1
  <2>2. \A k \in 1..N : k - 1 \in T => k \in T
    <3> SUFFICES ASSUME NEW k \in 1..N, k - 1 \in T PROVE k \in T
      OBVIOUS
    <3>1. within[k] = within[k - 1] \cup F!Children(t, within[k - 1]) /\ within[k - 1] \subseteq s
      BY <1>11
    <3>2. F!Children(t, within[k - 1]) \subseteq s
      BY <1>13, <3>1 DEF F!Children
    <3>3. k \in 0..N
      BY <1>1a
    <3> QED
      BY <3>1, <3>2, <3>3
  <2>3. 0..N \subseteq T
    BY <1>1a, <2>1, <2>2, UpTo
  <2> QED
    BY <2>3
<1>14. \A j \in within[N] : t[j] \subseteq within[N]
  <2> DEFINE Closed(s) == F!Children(t, s) \subseteq s
             T == {k \in 0..N : Closed(within[k]) \/ Cardinality(within[k]) >= k + 1}
  <2>0. IsFiniteSet(F!Issue) /\ Cardinality(F!Issue) = N
    BY <1>1, FS_Interval
  <2>0a. \A k \in 0..N : IsFiniteSet(within[k]) /\ Cardinality(within[k]) \in Nat /\ Cardinality(within[k]) <= N
    BY <1>12, <2>0, FS_Subset, FS_CardinalityType DEF S
  <2>1. 0 \in T
    <3>1. Cardinality(within[0]) = 1
      BY <1>11, FS_Singleton DEF base
    <3> QED
      BY <1>1a, <3>1
  <2>2. ASSUME NEW k \in 1..N, k - 1 \in T PROVE k \in T
    <3> DEFINE a == within[k - 1]
               b == within[k]
    <3>1. k - 1 \in 0..N /\ k \in 0..N /\ b = a \cup F!Children(t, a)
      BY <1>1, <1>11
    <3>2. CASE Closed(a)
      <4>1. b = a
        BY <3>1, <3>2
      <4> QED
        BY <3>1, <3>2, <4>1
    <3>3. CASE ~Closed(a)
      <4>1. PICK x \in b : x \notin a
        BY <3>1, <3>3
      <4>2. IsFiniteSet(a) /\ Cardinality(a) \in Nat /\ Cardinality(a) >= k - 1 + 1
        <5>1. IsFiniteSet(a) /\ Cardinality(a) \in Nat
          BY <3>1, <2>0a
        <5>2. Cardinality(a) >= k - 1 + 1
          BY <2>2, <3>3
        <5> QED
          BY <5>1, <5>2
      <4>3. Cardinality(a \cup {x}) = Cardinality(a) + 1 /\ a \cup {x} \in SUBSET b
        BY <3>1, <4>1, <4>2, FS_AddElement
      <4>4. Cardinality(a \cup {x}) <= Cardinality(b) /\ Cardinality(b) \in Nat
        BY <3>1, <2>0a, <4>3, FS_Subset
      <4>5. Cardinality(b) >= k + 1
        BY <4>2, <4>3, <4>4
      <4> QED
        BY <3>1, <4>5
    <3> QED
      BY <3>2, <3>3
  <2>3. 0..N \subseteq T
    BY <1>1a, <2>1, <2>2, UpTo
  <2>4. N \in 0..N
    BY <1>1
  <2>5. Closed(within[N])
    BY <1>1, <2>0a, <2>3, <2>4
  <2> QED
    BY <2>5 DEF F!Children
<1>15. N \in 0..N
  BY <1>1
<1> QED
  BY <1>10, <1>12, <1>13, <1>14, <1>15 DEF S

\* What is asked for is what is selected.
LEMMA SelectsInScope ==
  ASSUME F!TypeOK
  PROVE  F!SelectIssues(hread) = F!InScope /\ F!InScope \subseteq F!Issue
<1>1. /\ scope.by \in {"all", "label", "epic"} /\ scope.epic \in F!Issue
      /\ hread.listed \subseteq F!Issue /\ hread.tasks \in [F!Issue -> SUBSET F!Issue]
  BY ToolsAssumption DEF F!TypeOK, F!HistoryAssumption
<1>2. F!Closure(hread.tasks, scope.epic) =
        {i \in F!Issue : \A s \in SUBSET F!Issue :
           scope.epic \in s /\ (\A j \in s : hread.tasks[j] \subseteq s) => i \in s}
  BY <1>1, ClosureIsLeast
<1> QED
  BY <1>1, <1>2 DEF F!SelectIssues, F!InScope

\* The pass over the edges keeps both ends of an edge from an epic to its child.
LEMMA EpicsKept ==
  ASSUME NEW g, g.edges \subseteq F!Issue \X F!Issue \X {"subtask", "mention"},
         NEW e \in g.edges, e[3] = "subtask"
  PROVE  {e[1], e[2]} \subseteq F!EpicsAndChildren(g)
<1> DEFINE N == MaxIssue * MaxIssue
           S == SUBSET F!Issue
           base == F!Epics(g)
           after(n, s) == s \cup F!Ends({d \in F!EdgesAt(g, n) : {d[1], d[2]} \cap s # {}})
           step == [n \in 1..N |-> [s \in S |-> after(n, s)]]
           eq(f) == f = [n \in 0..N |-> IF n = 0 THEN base ELSE after(n, f[n - 1])]
           place == (e[1] - 1) * MaxIssue + e[2]
<1>0. MaxIssue \in Nat /\ F!Issue = 1..MaxIssue
  BY ToolsAssumption DEF F!HistoryAssumption, F!Issue
<1>1. N \in Nat /\ 0 \in 0..N
  <2> DEFINE m == MaxIssue * MaxIssue
  <2>1. \A a \in Nat : a * a \in Nat
    OBVIOUS
  <2> QED
    BY <1>0, <2>1
<1>1a. place \in 1..N
  <2>1. e[1] \in 1..MaxIssue /\ e[2] \in 1..MaxIssue
    BY <1>0
  <2> DEFINE a == e[1]
             b == e[2]
             m == MaxIssue
  <2>2. a \in 1..m /\ b \in 1..m /\ m \in Nat
    BY <1>0, <2>1
  <2> HIDE DEF a, b, m
  <2>3. (m - a) * m \in Nat /\ (a - 1) * m \in Nat
    <3>1. \A x, y \in Nat : x * y \in Nat
      OBVIOUS
    <3>2. m - a \in Nat /\ a - 1 \in Nat /\ m \in Nat
      BY <2>2
    <3> QED
      BY <3>1, <3>2
  <2>4. m * m = (m - a) * m + (a - 1) * m + m
    BY <2>2
  <2>5. (a - 1) * m + b \in 1..(m * m)
    BY <2>2, <2>3, <2>4
  <2> QED
    BY <2>5 DEF a, b, m
<1>2. base \in S
  BY <1>0 DEF F!Epics
<1>3. \A n \in 1..N : \A s \in S : after(n, s) \in S
  <2> SUFFICES ASSUME NEW n \in 1..N, NEW s \in S PROVE after(n, s) \subseteq F!Issue
    OBVIOUS
  <2> DEFINE D == {d \in F!EdgesAt(g, n) : {d[1], d[2]} \cap s # {}}
  <2>1. \A d \in D : d[1] \in F!Issue /\ d[2] \in F!Issue
    BY DEF F!EdgesAt
  <2> HIDE DEF D
  <2>2. F!Ends(D) \subseteq F!Issue
    BY <2>1 DEF F!Ends
  <2> QED
    BY <2>2 DEF D
<1> HIDE DEF after
<1>4. step \in [1..N -> [S -> S]]
  BY <1>3
<1>5. \A n \in 1..N : \A s \in S : step[n][s] = after(n, s)
  OBVIOUS
<1> HIDE DEF N, S, base, step, place
<1>6. PICK f \in [0..N -> S] : f[0] = base /\ \A n \in 1..N : f[n] = step[n][f[n - 1]]
  <2>1. step \in Steps(N, S)
    BY <1>4 DEF Steps
  <2>2. \E f : Recursion(N, S, base, step, f)
    BY <1>1, <1>2, <2>1, RecursionExists
  <2> QED
    BY <2>2 DEF Recursion
<1>7. \A n \in 1..N : n - 1 \in 0..N /\ f[n] = after(n, f[n - 1])
  BY <1>1, <1>5, <1>6
<1>8. eq(f)
  BY <1>1, <1>6, <1>7
<1> DEFINE keep == CHOOSE h : eq(h)
<1>9. eq(keep)
  BY <1>8
<1>10. F!EpicsAndChildren(g) = keep[N]
  BY DEF F!EpicsAndChildren, N, base, after
<1> HIDE DEF keep
<1>11. keep[0] = base /\ \A n \in 1..N : n \in 0..N /\ keep[n] = after(n, keep[n - 1])
  <2>1. 0 \in 0..N /\ \A n \in 1..N : n \in 0..N /\ n # 0
    BY <1>1
  <2> QED
    BY <1>9, <2>1
<1>12. e[1] \in base
  BY DEF base, F!Epics
<1>13. \A n \in 0..N : e[1] \in keep[n] /\ (n >= place => e[2] \in keep[n])
  <2> DEFINE T == {n \in 0..N : e[1] \in keep[n] /\ (n >= place => e[2] \in keep[n])}
  <2>1. 0 \in T
    BY <1>1, <1>1a, <1>11, <1>12
  <2>2. ASSUME NEW n \in 1..N, n - 1 \in T PROVE n \in T
    <3>1. n \in 0..N /\ keep[n] = after(n, keep[n - 1]) /\ e[1] \in keep[n - 1]
      BY <1>11, <2>2
    <3>2. keep[n - 1] \subseteq keep[n]
      BY <3>1 DEF after
    <3>3. CASE n > place
      <4>1. n - 1 >= place
        BY <1>1, <1>1a, <3>3
      <4> QED
        BY <2>2, <3>1, <3>2, <4>1
    <3>4. CASE n = place
      <4>1. e \in {d \in F!EdgesAt(g, n) : {d[1], d[2]} \cap keep[n - 1] # {}}
        BY <3>1, <3>4 DEF F!EdgesAt, place
      <4>2. e[2] \in keep[n]
        BY <3>1, <4>1 DEF after, F!Ends
      <4> QED
        BY <3>1, <3>2, <4>2
    <3>5. CASE n < place
      BY <1>1, <1>1a, <3>1, <3>2, <3>5
    <3> QED
      BY <1>1, <1>1a, <3>3, <3>4, <3>5
  <2>3. 0..N \subseteq T
    BY <1>1, <2>1, <2>2, UpTo
  <2> QED
    BY <2>3
<1>14. N \in 0..N /\ N >= place
  BY <1>1, <1>1a
<1> QED
  BY <1>10, <1>13, <1>14

\* So a graph is what SnapshotTrue says of it.
GraphTrue(g) ==
  /\ g.nodes = hread.listed \cap F!InScope
  /\ \A e \in g.edges : e[3] = "subtask" => {e[1], e[2]} \subseteq F!EpicsAndChildren(g)

LEMMA GraphOfScope ==
  ASSUME F!TypeOK PROVE GraphTrue(F!Build(hread))
<1> DEFINE g == F!Build(hread)
           nodes == hread.listed \cap F!SelectIssues(hread)
<1>1. g = [nodes |-> nodes, edges |-> F!Edges(hread, nodes)]
  BY DEF F!Build
<1>2. nodes = hread.listed \cap F!InScope /\ nodes \subseteq F!Issue
  BY SelectsInScope
<1>3. F!Edges(hread, nodes) \subseteq F!Issue \X F!Issue \X {"subtask", "mention"}
  <2> HIDE DEF nodes
  <2> QED
    BY <1>2 DEF F!Edges
<1> HIDE DEF nodes, g
<1>4. g.nodes = nodes /\ g.edges \subseteq F!Issue \X F!Issue \X {"subtask", "mention"}
  BY <1>1, <1>3
<1>5. \A e \in g.edges : e[3] = "subtask" => {e[1], e[2]} \subseteq F!EpicsAndChildren(g)
  BY <1>4, EpicsKept
<1> QED
  BY <1>2, <1>4, <1>5 DEF GraphTrue, g

\* The violations that the rules find, by kind.
Wrong(i, w, u) == <<"misattributed", i, w, u>>
Doubled(j) == <<"double close", j>>
LeftOpen(i, p) == <<"merged but open", i, p>>

LEMMA LintFinds ==
  ASSUME NEW r, r.assigned \subseteq F!Issue \X User, r.commits \subseteq Pull \X User,
         r.pulls \subseteq Pull, r.merged \subseteq Pull
  PROVE  /\ \A i, w, u : Wrong(i, w, u) \in F!Lint(r) <=>
              /\ <<i, u>> \in r.assigned /\ w # u
              /\ \E p \in Pull : <<p, w>> \in r.commits /\ i \in ClosesOf[p]
         /\ \A j : Doubled(j) \in F!Lint(r) <=>
              /\ j \in F!Issue
              /\ \E p, q \in r.pulls : p # q /\ j \in ClosesOf[p] /\ j \in ClosesOf[q]
         /\ \A i, p : LeftOpen(i, p) \in F!Lint(r) <=>
              p \in r.merged /\ p \in r.pulls /\ i \in ClosesOf[p] /\ i \notin r.closed
         /\ \A v \in F!Lint(r) :
              \/ \E i, w, u : v = Wrong(i, w, u)
              \/ \E j : v = Doubled(j)
              \/ \E i, p : v = LeftOpen(i, p)
<1> DEFINE A == F!Misattributed(r)
           on(j) == {p \in r.pulls : j \in ClosesOf[p]}
           B == F!DoubleClosed(r)
           C == F!MergedButOpen(r)
<1>1. F!Lint(r) = A \cup B \cup C
  BY DEF F!Lint
<1>0. \A p \in Pull : ClosesOf[p] \subseteq F!Issue
  BY ToolsAssumption DEF F!HistoryAssumption
<1>2. ASSUME NEW v \in A
      PROVE \E i, w, u : /\ v = Wrong(i, w, u) /\ <<i, u>> \in r.assigned /\ w # u
                         /\ \E p \in Pull : <<p, w>> \in r.commits /\ i \in ClosesOf[p]
  <2>1. PICK x \in r.assigned \X r.commits :
          /\ v = <<"misattributed", x[1][1], x[2][2], x[1][2]>>
          /\ x[1][1] \in ClosesOf[x[2][1]] /\ x[2][2] # x[1][2]
    BY DEF F!Misattributed
  <2>2. PICK i, u : x[1] = <<i, u>> /\ <<i, u>> \in r.assigned
    BY <2>1
  <2>3. PICK p \in Pull, w \in User : x[2] = <<p, w>> /\ <<p, w>> \in r.commits
    BY <2>1
  <2>4. v = Wrong(i, w, u) /\ i \in ClosesOf[p] /\ w # u
    BY <2>1, <2>2, <2>3 DEF Wrong
  <2> QED
    BY <2>2, <2>3, <2>4
<1>3. ASSUME NEW i, NEW w, NEW u, <<i, u>> \in r.assigned, w # u,
             NEW p \in Pull, <<p, w>> \in r.commits, i \in ClosesOf[p]
      PROVE Wrong(i, w, u) \in A
  <2> DEFINE x == <<<<i, u>>, <<p, w>>>>
  <2>1. x \in r.assigned \X r.commits /\ x[1][1] = i /\ x[1][2] = u /\ x[2][1] = p /\ x[2][2] = w
    BY <1>3
  <2> HIDE DEF x
  <2> QED
    BY <1>3, <2>1 DEF F!Misattributed, Wrong
<1>4. ASSUME NEW j PROVE F!Cardinality(on(j)) > 1 <=> \E p, q \in on(j) : p # q
  <2>1. F!Cardinality(on(j)) = Cardinality(on(j))
    BY DEF F!Cardinality, Cardinality
  <2>2. IsFiniteSet(Pull)
    BY ToolsAssumption DEF F!HistoryAssumption, F!IsFiniteSet, IsFiniteSet
  <2> DEFINE S == on(j)
  <2>3. IsFiniteSet(S)
    BY <2>2, FS_Subset
  <2> HIDE DEF S
  <2>4. Cardinality(S) \in Nat
    BY <2>3, FS_CardinalityType
  <2>5. ASSUME NEW p \in S, NEW q \in S, p # q PROVE Cardinality(S) > 1
    <3>1. Cardinality(S) # 0
      BY <2>3, FS_EmptySet
    <3>2. Cardinality(S) # 1
      BY <2>3, <2>5, FS_Singleton
    <3> QED
      BY <2>4, <3>1, <3>2
  <2>6. ASSUME Cardinality(S) > 1 PROVE \E p, q \in S : p # q
    <3>1. S # {}
      BY <2>4, <2>6, FS_EmptySet
    <3>2. PICK p \in S : TRUE
      BY <3>1
    <3>3. S # {p}
      <4>1. Cardinality({p}) = 1
        BY FS_Singleton
      <4>2. Cardinality(S) # 1
        BY <2>4, <2>6
      <4> QED
        BY <4>1, <4>2
    <3> QED
      BY <3>2, <3>3
  <2> QED
    BY <2>1, <2>5, <2>6 DEF S
<1>5. \A v : v \in B <=> \E j \in F!Issue : (\E p, q \in on(j) : p # q) /\ v = Doubled(j)
  BY <1>4 DEF F!DoubleClosed, Doubled
<1>6. ASSUME NEW v \in C
      PROVE \E i, p : /\ v = LeftOpen(i, p) /\ p \in r.merged /\ p \in r.pulls
                      /\ i \in ClosesOf[p] /\ i \notin r.closed
  BY DEF F!MergedButOpen, LeftOpen
<1>7. ASSUME NEW i, NEW p, p \in r.merged, p \in r.pulls, i \in ClosesOf[p], i \notin r.closed
      PROVE LeftOpen(i, p) \in C
  <2> DEFINE x == <<i, p>>
  <2>1. x \in F!Issue \X (r.merged \cap r.pulls) /\ x[1] = i /\ x[2] = p
    BY <1>0, <1>7
  <2> HIDE DEF x
  <2> QED
    BY <1>7, <2>1 DEF F!MergedButOpen, LeftOpen
<1> HIDE DEF A, B, C
<1>8. /\ \A v \in A : v[1] = "misattributed"
      /\ \A v \in B : v[1] = "double close"
      /\ \A v \in C : v[1] = "merged but open"
  <2>1. ASSUME NEW v \in A PROVE v[1] = "misattributed"
    <3>1. PICK i, w, u : /\ v = Wrong(i, w, u) /\ <<i, u>> \in r.assigned /\ w # u
                         /\ \E p \in Pull : <<p, w>> \in r.commits /\ i \in ClosesOf[p]
      BY <1>2
    <3> QED
      BY <3>1 DEF Wrong
  <2>2. ASSUME NEW v \in B PROVE v[1] = "double close"
    <3>1. PICK j : v = Doubled(j)
      BY <1>5
    <3> QED
      BY <3>1 DEF Doubled
  <2>3. ASSUME NEW v \in C PROVE v[1] = "merged but open"
    <3>1. PICK i, p : v = LeftOpen(i, p)
      BY <1>6
    <3> QED
      BY <3>1 DEF LeftOpen
  <2> QED
    BY <2>1, <2>2, <2>3
<1>10. ASSUME NEW i, NEW w, NEW u
       PROVE Wrong(i, w, u) \in F!Lint(r) <=>
              /\ <<i, u>> \in r.assigned /\ w # u
              /\ \E p \in Pull : <<p, w>> \in r.commits /\ i \in ClosesOf[p]
  <2>1. Wrong(i, w, u) \in F!Lint(r) <=> Wrong(i, w, u) \in A
    <3>1. Wrong(i, w, u)[1] = "misattributed"
      BY DEF Wrong
    <3> QED
      BY <1>1, <1>8, <3>1
  <2>2. ASSUME Wrong(i, w, u) \in A
        PROVE  /\ <<i, u>> \in r.assigned /\ w # u
               /\ \E p \in Pull : <<p, w>> \in r.commits /\ i \in ClosesOf[p]
    <3>1. PICK j, k, l : /\ Wrong(i, w, u) = Wrong(j, k, l) /\ <<j, l>> \in r.assigned /\ k # l
                         /\ \E p \in Pull : <<p, k>> \in r.commits /\ j \in ClosesOf[p]
      BY <1>2, <2>2
    <3>2. i = j /\ w = k /\ u = l
      BY <3>1 DEF Wrong
    <3> QED
      BY <3>1, <3>2
  <2> QED
    BY <1>3, <2>1, <2>2
<1>11. ASSUME NEW j
       PROVE Doubled(j) \in F!Lint(r) <=>
              /\ j \in F!Issue
              /\ \E p, q \in r.pulls : p # q /\ j \in ClosesOf[p] /\ j \in ClosesOf[q]
  <2>1. Doubled(j) \in F!Lint(r) <=> Doubled(j) \in B
    <3>1. Doubled(j)[1] = "double close"
      BY DEF Doubled
    <3> QED
      BY <1>1, <1>8, <3>1
  <2>2. Doubled(j) \in B <=> j \in F!Issue /\ \E p, q \in on(j) : p # q
    <3>1. \A i : Doubled(i) = Doubled(j) => i = j
      BY DEF Doubled
    <3> QED
      BY <1>5, <3>1
  <2> QED
    BY <2>1, <2>2
<1>12. ASSUME NEW i, NEW p
       PROVE LeftOpen(i, p) \in F!Lint(r) <=>
              p \in r.merged /\ p \in r.pulls /\ i \in ClosesOf[p] /\ i \notin r.closed
  <2>1. LeftOpen(i, p) \in F!Lint(r) <=> LeftOpen(i, p) \in C
    <3>1. LeftOpen(i, p)[1] = "merged but open"
      BY DEF LeftOpen
    <3> QED
      BY <1>1, <1>8, <3>1
  <2>2. ASSUME LeftOpen(i, p) \in C
        PROVE  p \in r.merged /\ p \in r.pulls /\ i \in ClosesOf[p] /\ i \notin r.closed
    <3>1. PICK j, q : /\ LeftOpen(i, p) = LeftOpen(j, q) /\ q \in r.merged /\ q \in r.pulls
                      /\ j \in ClosesOf[q] /\ j \notin r.closed
      BY <1>6, <2>2
    <3>2. i = j /\ p = q
      BY <3>1 DEF LeftOpen
    <3> QED
      BY <3>1, <3>2
  <2> QED
    BY <1>7, <2>1, <2>2
<1>13. ASSUME NEW v \in F!Lint(r)
       PROVE  \/ \E i, w, u : v = Wrong(i, w, u)
              \/ \E j : v = Doubled(j)
              \/ \E i, p : v = LeftOpen(i, p)
  <2>1. CASE v \in A
    <3>1. PICK i, w, u : /\ v = Wrong(i, w, u) /\ <<i, u>> \in r.assigned /\ w # u
                         /\ \E p \in Pull : <<p, w>> \in r.commits /\ i \in ClosesOf[p]
      BY <1>2, <2>1
    <3> QED
      BY <3>1
  <2>2. CASE v \in B
    BY <1>5, <2>2
  <2>3. CASE v \in C
    BY <1>6, <2>3
  <2> QED
    BY <1>1, <2>1, <2>2, <2>3
<1> QED
  BY <1>10, <1>11, <1>12, <1>13

\* An issue, and a pull request, whose page is still to come.
Unread(i) == fpc = "issues" /\ i <= count + 1 - page
Ahead(p) ==
  /\ fpc \in {"issues", "pulls"}
  /\ \E k \in 1..Len(pulls) : pulls[k] = p /\ (fpc = "pulls" => k <= Len(pulls) + 1 - page)
Coming(p) == Ahead(p) \/ p \in hread.pulls

\* What the command read was so, and what people change leaves that be.
ReadBefore ==
  /\ \A a \in assigned : a[1] <= count
  /\ \A i \in closed : i <= count
  /\ hread.pulls \subseteq F!ToSet(pulls) /\ hread.merged \subseteq merged
  /\ hread.commits \subseteq commits /\ htodo \subseteq hread.pulls
  /\ fpc = "start" => moved = {} /\ hread = F!Nothing /\ page = 1

Watched ==
  /\ stood \subseteq F!Standing
  /\ fpc = "start" => stood = {}
  /\ fpc # "start" => F!Standing \subseteq occurred

\* What stood all the while was read, or is still to come; what was read stood at some
\* time, or is about a pull request that moved.
IssuesRead ==
  \A i \in F!Issue :
    /\ \A u, w \in User : Wrong(i, w, u) \in stood => Unread(i) \/ <<i, u>> \in hread.assigned
    /\ \A p \in Pull : LeftOpen(i, p) \in stood => i \notin hread.closed
    /\ \A p \in Pull \ moved, u, w \in User :
         <<i, u>> \in hread.assigned /\ <<p, w>> \in commits /\ i \in ClosesOf[p] /\ u # w
           => Wrong(i, w, u) \in occurred
    /\ \A p \in merged \ moved :
         i \in ClosesOf[p] /\ i \notin hread.closed => Unread(i) \/ LeftOpen(i, p) \in occurred

PullsRead ==
  \A i \in F!Issue :
    /\ \A u, w \in User : Wrong(i, w, u) \in stood =>
         \E p \in Pull : /\ i \in ClosesOf[p] /\ <<p, w>> \in commits /\ Coming(p)
                         /\ fpc = "commits" /\ F!Relevant(p) /\ p \notin htodo => <<p, w>> \in hread.commits
    /\ Doubled(i) \in stood =>
         \E p, q \in Pull : p # q /\ i \in ClosesOf[p] /\ i \in ClosesOf[q] /\ Coming(p) /\ Coming(q)
    /\ \A p \in Pull : LeftOpen(i, p) \in stood => Coming(p) /\ (p \in hread.pulls => p \in hread.merged)

Judged ==
  /\ fpc # "over" => report = Unset /\ graph = Unset
  /\ fpc \in {"pulls", "commits"} => target = F!SelectIssues(hread)
  /\ F!SnapshotTrue

\* The parts, together with the types.
SnapInv ==
  /\ F!TypeOK
  /\ ReadBefore
  /\ Watched
  /\ fpc \in {"issues", "pulls", "commits"} => IssuesRead /\ PullsRead
  /\ Judged

\* What the rules find in a forge, in terms of its state.
Finds(listed, cl, as, pl, mg, cm) ==
  /\ \A i, w, u : Wrong(i, w, u) \in listed <=>
       /\ <<i, u>> \in as /\ w # u
       /\ \E p \in Pull : <<p, w>> \in cm /\ i \in ClosesOf[p]
  /\ \A j : Doubled(j) \in listed <=>
       /\ j \in F!Issue
       /\ \E p, q \in F!ToSet(pl) : p # q /\ j \in ClosesOf[p] /\ j \in ClosesOf[q]
  /\ \A i, p : LeftOpen(i, p) \in listed <=> p \in mg /\ i \in ClosesOf[p] /\ i \notin cl
  /\ \A v \in listed :
       \/ \E i, w, u : v = Wrong(i, w, u)
       \/ \E j : v = Doubled(j)
       \/ \E i, p : v = LeftOpen(i, p)

\* What the linter finds in a record of the forge.
LEMMA ForgeFinds ==
  ASSUME NEW cl, NEW as, as \subseteq F!Issue \X User, NEW pl \in Seq(Pull),
         NEW mg, mg \subseteq F!ToSet(pl), NEW cm, cm \subseteq F!ToSet(pl) \X User
  PROVE  Finds(F!Lint([closed |-> cl, assigned |-> as, pulls |-> F!ToSet(pl), merged |-> mg, commits |-> cm]),
               cl, as, pl, mg, cm)
<1> DEFINE r == [closed |-> cl, assigned |-> as, pulls |-> F!ToSet(pl), merged |-> mg, commits |-> cm]
<1>1. /\ r.closed = cl /\ r.assigned = as /\ r.pulls = F!ToSet(pl) /\ r.merged = mg /\ r.commits = cm
  OBVIOUS
<1>2. F!ToSet(pl) \subseteq Pull
  BY DEF F!ToSet
<1> HIDE DEF r
<1>3. r.assigned \subseteq F!Issue \X User /\ r.commits \subseteq Pull \X User /\ r.pulls \subseteq Pull /\ r.merged \subseteq Pull
  BY <1>1, <1>2
<1>4. /\ \A i, w, u : Wrong(i, w, u) \in F!Lint(r) <=>
              /\ <<i, u>> \in r.assigned /\ w # u
              /\ \E p \in Pull : <<p, w>> \in r.commits /\ i \in ClosesOf[p]
      /\ \A j : Doubled(j) \in F!Lint(r) <=>
              /\ j \in F!Issue
              /\ \E p, q \in r.pulls : p # q /\ j \in ClosesOf[p] /\ j \in ClosesOf[q]
      /\ \A i, p : LeftOpen(i, p) \in F!Lint(r) <=>
              p \in r.merged /\ p \in r.pulls /\ i \in ClosesOf[p] /\ i \notin r.closed
      /\ \A v \in F!Lint(r) :
              \/ \E i, w, u : v = Wrong(i, w, u)
              \/ \E j : v = Doubled(j)
              \/ \E i, p : v = LeftOpen(i, p)
  BY <1>3, LintFinds
<1>5. \A i, w, u : Wrong(i, w, u) \in F!Lint(r) <=>
        /\ <<i, u>> \in as /\ w # u
        /\ \E p \in Pull : <<p, w>> \in cm /\ i \in ClosesOf[p]
  BY <1>1, <1>4
<1>6. \A j : Doubled(j) \in F!Lint(r) <=>
        /\ j \in F!Issue
        /\ \E p, q \in F!ToSet(pl) : p # q /\ j \in ClosesOf[p] /\ j \in ClosesOf[q]
  BY <1>1, <1>4
<1>7. \A i, p : LeftOpen(i, p) \in F!Lint(r) <=> p \in mg /\ i \in ClosesOf[p] /\ i \notin cl
  BY <1>1, <1>4
<1> QED
  BY <1>4, <1>5, <1>6, <1>7 DEF r, Finds

\* And in the forge itself.
LEMMA StandingFinds ==
  ASSUME F!TypeOK PROVE Finds(F!Standing, closed, assigned, pulls, merged, commits)
<1>1. /\ assigned \subseteq F!Issue \X User /\ pulls \in Seq(Pull) /\ merged \subseteq F!ToSet(pulls)
      /\ commits \subseteq F!ToSet(pulls) \X User
  BY DEF F!TypeOK
<1> QED
  BY <1>1, ForgeFinds DEF F!Standing

\* What the types say of the numbers and sequences of the history.
LEMMA HistoryTypes ==
  ASSUME F!TypeOK
  PROVE  /\ MaxIssue \in Nat /\ F!Issue = 1..MaxIssue /\ count \in Nat /\ page \in Nat \ {0}
         /\ pulls \in Seq(Pull) /\ Len(pulls) \in Nat
         /\ \A k \in 1..Len(pulls) : pulls[k] \in Pull
         /\ F!ToSet(pulls) = {pulls[k] : k \in 1..Len(pulls)}
         /\ F!ToSet(pulls) \subseteq Pull /\ merged \subseteq Pull /\ commits \subseteq Pull \X User
         /\ \A p \in Pull : ClosesOf[p] \subseteq F!Issue
<1>1. /\ MaxIssue \in Nat /\ F!Issue = 1..MaxIssue
      /\ \A p \in Pull : ClosesOf[p] \subseteq F!Issue
  BY ToolsAssumption DEF F!HistoryAssumption, F!Issue
<1>2. /\ count \in Nat /\ page \in Nat \ {0} /\ pulls \in Seq(Pull)
      /\ merged \subseteq F!ToSet(pulls) /\ commits \subseteq F!ToSet(pulls) \X User
  BY <1>1 DEF F!TypeOK
<1>3. Len(pulls) \in Nat /\ DOMAIN pulls = 1..Len(pulls) /\ \A k \in 1..Len(pulls) : pulls[k] \in Pull
  BY <1>2
<1>4. F!ToSet(pulls) = {pulls[k] : k \in 1..Len(pulls)}
  BY <1>3 DEF F!ToSet
<1> QED
  BY <1>1, <1>2, <1>3, <1>4

\* An issue that is still to be read stays so when more are made.
LEMMA PagesMoveOn ==
  ASSUME NEW i \in Nat, NEW n \in Nat, NEW m \in Nat, NEW pg \in Nat, n <= m, i <= n + 1 - pg
  PROVE  i <= m + 1 - pg
  OBVIOUS

\* Whatever people do, without a step of the command.
LEMMA PeopleStep ==
  ASSUME SnapInv, F!TypeOK', F!Change, count <= count', commits \subseteq commits', merged \subseteq merged',
         \A a \in assigned' : a[1] <= count', \A i \in closed' : i <= count',
         Len(pulls) <= Len(pulls'), \A k \in 1..Len(pulls) : pulls'[k] = pulls[k],
         fpc = "start" => moved' = {},
         fpc # "start" =>
           /\ moved \subseteq moved'
           /\ \A p \in Pull \ moved' : /\ p \in merged' => p \in merged
                                       /\ \A w \in User : <<p, w>> \in commits' => <<p, w>> \in commits
  PROVE  SnapInv'
<1>0. /\ fpc # "over" /\ fpc' = fpc /\ scope' = scope /\ page' = page /\ hread' = hread /\ target' = target
      /\ htodo' = htodo /\ report' = report /\ graph' = graph
      /\ occurred' = (IF fpc = "start" THEN {} ELSE occurred \cup F!Standing')
      /\ stood' = stood \cap F!Standing'
  BY DEF F!Change, F!command
<1>1. F!TypeOK /\ ReadBefore /\ Watched /\ Judged /\ (fpc \in {"issues", "pulls", "commits"} => IssuesRead /\ PullsRead)
  BY DEF SnapInv
<1>2. /\ MaxIssue \in Nat /\ F!Issue = 1..MaxIssue /\ count \in Nat /\ count' \in Nat /\ page \in Nat \ {0}
      /\ Len(pulls) \in Nat /\ Len(pulls') \in Nat
      /\ F!ToSet(pulls) = {pulls[k] : k \in 1..Len(pulls)}
      /\ F!ToSet(pulls') = {pulls'[k] : k \in 1..Len(pulls')}
  <2>1. count' \in Nat /\ pulls' \in Seq(Pull)
    BY ToolsAssumption DEF F!TypeOK, F!HistoryAssumption
  <2>2. Len(pulls') \in Nat /\ DOMAIN pulls' = 1..Len(pulls')
    BY <2>1
  <2>3. F!ToSet(pulls') = {pulls'[k] : k \in 1..Len(pulls')}
    BY <2>2 DEF F!ToSet
  <2> QED
    BY <1>1, <2>1, <2>2, <2>3, HistoryTypes
<1>3. ReadBefore'
  <2>1. F!ToSet(pulls) \subseteq F!ToSet(pulls')
    BY <1>2
  <2>2. hread'.pulls \subseteq F!ToSet(pulls') /\ hread'.merged \subseteq merged'
        /\ hread'.commits \subseteq commits' /\ htodo' \subseteq hread'.pulls
    BY <1>0, <1>1, <2>1 DEF ReadBefore
  <2>3. F!ToSet(pulls)' = F!ToSet(pulls')
    BY DEF F!ToSet
  <2>4. fpc' = "start" => moved' = {} /\ hread' = F!Nothing' /\ page' = 1
    BY <1>0, <1>1 DEF ReadBefore, F!Nothing
  <2> QED
    BY <2>2, <2>3, <2>4 DEF ReadBefore
<1>4. Watched'
  BY <1>0, <1>1 DEF Watched
<1>5. ASSUME fpc \in {"issues", "pulls", "commits"} PROVE IssuesRead'
  <2>1. ASSUME NEW i \in F!Issue, Unread(i) PROVE Unread(i)'
    <3>1. i \in Nat /\ count \in Nat /\ count' \in Nat /\ page \in Nat
      BY <1>2
    <3>2. fpc = "issues" /\ i <= count + 1 - page
      BY <2>1 DEF Unread
    <3>3. i <= count' + 1 - page
      BY <3>1, <3>2, PagesMoveOn
    <3> QED
      BY <1>0, <3>2, <3>3 DEF Unread
  <2>2. stood' \subseteq stood /\ occurred \subseteq occurred' /\ moved \subseteq moved' /\ IssuesRead
    BY <1>0, <1>1, <1>5
  <2>3. SUFFICES ASSUME NEW i \in F!Issue
        PROVE  /\ \A u, w \in User : Wrong(i, w, u) \in stood' => Unread(i)' \/ <<i, u>> \in hread'.assigned
               /\ \A p \in Pull : LeftOpen(i, p) \in stood' => i \notin hread'.closed
               /\ \A p \in Pull \ moved', u, w \in User :
                    <<i, u>> \in hread'.assigned /\ <<p, w>> \in commits' /\ i \in ClosesOf[p] /\ u # w
                      => Wrong(i, w, u) \in occurred'
               /\ \A p \in merged' \ moved' :
                    i \in ClosesOf[p] /\ i \notin hread'.closed => Unread(i)' \/ LeftOpen(i, p) \in occurred'
    BY DEF IssuesRead, Wrong, LeftOpen, F!Issue
  <2>4. \A u, w \in User : Wrong(i, w, u) \in stood' => Unread(i)' \/ <<i, u>> \in hread'.assigned
    BY <1>0, <2>1, <2>2 DEF IssuesRead
  <2>5. \A p \in Pull : LeftOpen(i, p) \in stood' => i \notin hread'.closed
    BY <1>0, <2>2 DEF IssuesRead
  <2>6. ASSUME NEW p \in Pull \ moved', NEW u \in User, NEW w \in User, <<i, u>> \in hread'.assigned,
               <<p, w>> \in commits', i \in ClosesOf[p], u # w
        PROVE  Wrong(i, w, u) \in occurred'
    <3>1. <<p, w>> \in commits /\ p \in Pull \ moved /\ <<i, u>> \in hread.assigned
      BY <1>0, <1>5, <2>2, <2>6
    <3>2. Wrong(i, w, u) \in occurred
      BY <2>2, <2>6, <3>1 DEF IssuesRead
    <3> QED
      BY <2>2, <3>2
  <2>7. ASSUME NEW p \in merged' \ moved', i \in ClosesOf[p], i \notin hread'.closed
        PROVE  Unread(i)' \/ LeftOpen(i, p) \in occurred'
    <3>0. p \in Pull
      <4>1. merged' \subseteq F!ToSet(pulls') /\ pulls' \in Seq(Pull)
        BY DEF F!TypeOK, F!ToSet
      <4>2. F!ToSet(pulls') \subseteq Pull
        BY <4>1 DEF F!ToSet
      <4> QED
        BY <4>1, <4>2
    <3>1. p \in merged \ moved /\ i \notin hread.closed
      BY <1>0, <1>5, <2>2, <2>7, <3>0
    <3>2. Unread(i) \/ LeftOpen(i, p) \in occurred
      BY <2>2, <2>7, <3>1 DEF IssuesRead
    <3> QED
      BY <2>1, <2>2, <3>2
  <2> QED
    BY <2>4, <2>5, <2>6, <2>7
<1>6. ASSUME fpc \in {"issues", "pulls", "commits"} PROVE PullsRead'
  <2>1. ASSUME NEW p, Coming(p) PROVE Coming(p)'
    <3>1. CASE p \in hread.pulls
      BY <1>0, <3>1 DEF Coming
    <3>2. CASE Ahead(p)
      <4>1. PICK k \in 1..Len(pulls) : pulls[k] = p /\ (fpc = "pulls" => k <= Len(pulls) + 1 - page)
        BY <3>2 DEF Ahead
      <4>2. k \in 1..Len(pulls') /\ pulls'[k] = p /\ (fpc' = "pulls" => k <= Len(pulls') + 1 - page')
        BY <1>0, <1>2, <4>1
      <4> QED
        BY <1>0, <3>2, <4>2 DEF Coming, Ahead
    <3> QED
      BY <2>1, <3>1, <3>2 DEF Coming
  <2>2. stood' \subseteq stood /\ PullsRead
    BY <1>0, <1>1, <1>6
  <2>3. \A p : F!Relevant(p)' = F!Relevant(p)
    BY <1>0 DEF F!Relevant
  <2>4. SUFFICES ASSUME NEW i \in F!Issue
        PROVE  /\ \A u, w \in User : Wrong(i, w, u) \in stood' =>
                    \E p \in Pull : /\ i \in ClosesOf[p] /\ <<p, w>> \in commits' /\ Coming(p)'
                                    /\ fpc' = "commits" /\ F!Relevant(p)' /\ p \notin htodo' => <<p, w>> \in hread'.commits
               /\ Doubled(i) \in stood' =>
                    \E p, q \in Pull : p # q /\ i \in ClosesOf[p] /\ i \in ClosesOf[q] /\ Coming(p)' /\ Coming(q)'
               /\ \A p \in Pull : LeftOpen(i, p) \in stood' => Coming(p)' /\ (p \in hread'.pulls => p \in hread'.merged)
    BY DEF PullsRead, Wrong, Doubled, LeftOpen, F!Issue
  <2>5. ASSUME NEW u \in User, NEW w \in User, Wrong(i, w, u) \in stood'
        PROVE  \E p \in Pull : /\ i \in ClosesOf[p] /\ <<p, w>> \in commits' /\ Coming(p)'
                               /\ fpc' = "commits" /\ F!Relevant(p)' /\ p \notin htodo' => <<p, w>> \in hread'.commits
    <3>1. PICK p \in Pull : /\ i \in ClosesOf[p] /\ <<p, w>> \in commits /\ Coming(p)
                            /\ fpc = "commits" /\ F!Relevant(p) /\ p \notin htodo => <<p, w>> \in hread.commits
      BY <2>2, <2>5 DEF PullsRead
    <3>2. <<p, w>> \in commits' /\ Coming(p)' /\ (F!Relevant(p)' => F!Relevant(p))
      BY <2>1, <2>3, <3>1
    <3> QED
      BY <1>0, <3>1, <3>2
  <2>6. ASSUME Doubled(i) \in stood'
        PROVE  \E p, q \in Pull : p # q /\ i \in ClosesOf[p] /\ i \in ClosesOf[q] /\ Coming(p)' /\ Coming(q)'
    <3>1. PICK p, q \in Pull : p # q /\ i \in ClosesOf[p] /\ i \in ClosesOf[q] /\ Coming(p) /\ Coming(q)
      BY <2>2, <2>6 DEF PullsRead
    <3>2. Coming(p)' /\ Coming(q)'
      BY <2>1, <3>1
    <3> QED
      BY <3>1, <3>2
  <2>7. ASSUME NEW p \in Pull, LeftOpen(i, p) \in stood'
        PROVE Coming(p)' /\ (p \in hread'.pulls => p \in hread'.merged)
    <3>1. Coming(p) /\ (p \in hread.pulls => p \in hread.merged)
      BY <2>2, <2>7 DEF PullsRead
    <3> QED
      BY <1>0, <2>1, <3>1
  <2> QED
    BY <2>5, <2>6, <2>7
<1>7. Judged'
  <2>1. report' = Unset /\ graph' = Unset
    BY <1>0, <1>1 DEF Judged
  <2>2. F!SelectIssues(hread)' = F!SelectIssues(hread)
    BY <1>0 DEF F!SelectIssues, F!Closure, F!Children
  <2> QED
    BY <1>0, <1>1, <2>1, <2>2 DEF Judged, F!SnapshotTrue
<1> QED
  BY <1>0, <1>3, <1>4, <1>5, <1>6, <1>7 DEF SnapInv

\* The steps of the command leave the forge alone.
LEMMA ForgeStays ==
  ASSUME SnapInv, UNCHANGED F!forge
  PROVE  /\ UNCHANGED <<count, tasks, closed, assigned, pulls, merged, commits>>
         /\ F!Standing' = F!Standing /\ F!ToSet(pulls)' = F!ToSet(pulls)
         /\ F!TypeOK /\ ReadBefore /\ Watched /\ Judged
         /\ (fpc \in {"issues", "pulls", "commits"} => IssuesRead /\ PullsRead)
<1>1. UNCHANGED <<count, tasks, closed, assigned, pulls, merged, commits>>
  BY DEF F!forge
<1>2. F!ToSet(pulls)' = F!ToSet(pulls)
  BY <1>1 DEF F!ToSet
<1>3. F!Standing' = F!Standing
  BY <1>1, <1>2 DEF F!Standing, F!Lint, F!Misattributed, F!DoubleClosed, F!MergedButOpen
<1> QED
  BY <1>1, <1>2, <1>3 DEF SnapInv

\* At the start everything is to be read.
LEMMA BeginStep ==
  ASSUME SnapInv, F!Begin PROVE SnapInv'
<1>1. /\ fpc = "start" /\ fpc' = "issues" /\ occurred' = F!Standing /\ stood' = F!Standing
      /\ UNCHANGED <<changes, scope, page, hread, target, htodo, report, graph, moved>> /\ UNCHANGED F!forge
  BY DEF F!Begin
<1>2. /\ UNCHANGED <<count, tasks, closed, assigned, pulls, merged, commits>>
      /\ F!Standing' = F!Standing /\ F!ToSet(pulls)' = F!ToSet(pulls)
      /\ F!TypeOK /\ ReadBefore /\ Watched /\ Judged
  BY <1>1, ForgeStays
<1>3. Finds(F!Standing, closed, assigned, pulls, merged, commits)
  BY <1>2, StandingFinds
<1>4. /\ count \in Nat /\ F!Issue = 1..MaxIssue /\ Len(pulls) \in Nat
      /\ F!ToSet(pulls) = {pulls[k] : k \in 1..Len(pulls)} /\ F!ToSet(pulls) \subseteq Pull
  BY <1>2, HistoryTypes
<1>5. /\ page = 1 /\ moved = {} /\ hread.listed = {} /\ hread.closed = {} /\ hread.assigned = {}
      /\ hread.pulls = {} /\ hread.merged = {} /\ hread.commits = {}
  BY <1>1, <1>2 DEF ReadBefore, F!Nothing
<1>6. F!TypeOK'
  BY <1>1, <1>2 DEF F!TypeOK
<1>7. ReadBefore'
  BY <1>1, <1>2 DEF ReadBefore
<1>8. Watched'
  BY <1>1, <1>2 DEF Watched
<1>9. \A i \in F!Issue : i <= count => Unread(i)'
  <2> SUFFICES ASSUME NEW i \in F!Issue, i <= count PROVE Unread(i)'
    OBVIOUS
  <2>1. i \in Nat
    BY <1>4
  <2> QED
    BY <1>1, <1>2, <1>4, <1>5, <2>1 DEF Unread
<1>10. \A p \in F!ToSet(pulls) : Coming(p)'
  <2> SUFFICES ASSUME NEW p \in F!ToSet(pulls) PROVE Coming(p)'
    OBVIOUS
  <2>1. PICK k \in 1..Len(pulls) : pulls[k] = p
    BY <1>4
  <2> QED
    BY <1>1, <1>2, <2>1 DEF Coming, Ahead
<1>11. IssuesRead'
  <2>1. SUFFICES ASSUME NEW i \in F!Issue
        PROVE  /\ \A u, w \in User : Wrong(i, w, u) \in stood' => Unread(i)' \/ <<i, u>> \in hread'.assigned
               /\ \A p \in Pull : LeftOpen(i, p) \in stood' => i \notin hread'.closed
               /\ \A p \in Pull \ moved', u, w \in User :
                    <<i, u>> \in hread'.assigned /\ <<p, w>> \in commits' /\ i \in ClosesOf[p] /\ u # w
                      => Wrong(i, w, u) \in occurred'
               /\ \A p \in merged' \ moved' :
                    i \in ClosesOf[p] /\ i \notin hread'.closed => Unread(i)' \/ LeftOpen(i, p) \in occurred'
    BY DEF IssuesRead, Wrong, LeftOpen, F!Issue
  <2>2. ASSUME NEW u \in User, NEW w \in User, Wrong(i, w, u) \in stood' PROVE Unread(i)'
    <3>1. <<i, u>> \in assigned
      BY <1>1, <1>3, <2>2 DEF Finds
    <3>2. i <= count
      BY <1>2, <3>1 DEF ReadBefore
    <3> QED
      BY <1>9, <3>2
  <2>3. hread'.closed = {} /\ hread'.assigned = {}
    BY <1>1, <1>5
  <2>4. ASSUME NEW p \in merged', i \in ClosesOf[p] PROVE Unread(i)' \/ LeftOpen(i, p) \in occurred'
    <3>1. CASE i \in closed
      BY <1>2, <1>9, <3>1 DEF ReadBefore
    <3>2. CASE i \notin closed
      BY <1>1, <1>2, <1>3, <2>4, <3>2 DEF Finds
    <3> QED
      BY <3>1, <3>2
  <2> QED
    BY <2>2, <2>3, <2>4
<1>12. PullsRead'
  <2>1. SUFFICES ASSUME NEW i \in F!Issue
        PROVE  /\ \A u, w \in User : Wrong(i, w, u) \in stood' =>
                    \E p \in Pull : /\ i \in ClosesOf[p] /\ <<p, w>> \in commits' /\ Coming(p)'
                                    /\ fpc' = "commits" /\ F!Relevant(p)' /\ p \notin htodo' => <<p, w>> \in hread'.commits
               /\ Doubled(i) \in stood' =>
                    \E p, q \in Pull : p # q /\ i \in ClosesOf[p] /\ i \in ClosesOf[q] /\ Coming(p)' /\ Coming(q)'
               /\ \A p \in Pull : LeftOpen(i, p) \in stood' => Coming(p)' /\ (p \in hread'.pulls => p \in hread'.merged)
    BY DEF PullsRead, Wrong, Doubled, LeftOpen, F!Issue
  <2>2. ASSUME NEW u \in User, NEW w \in User, Wrong(i, w, u) \in stood'
        PROVE  \E p \in Pull : /\ i \in ClosesOf[p] /\ <<p, w>> \in commits' /\ Coming(p)'
                               /\ fpc' = "commits" /\ F!Relevant(p)' /\ p \notin htodo' => <<p, w>> \in hread'.commits
    <3>1. PICK p \in Pull : <<p, w>> \in commits /\ i \in ClosesOf[p]
      BY <1>1, <1>3, <2>2 DEF Finds
    <3>2. p \in F!ToSet(pulls)
      BY <1>2, <3>1 DEF F!TypeOK
    <3>3. Coming(p)'
      BY <1>10, <3>2
    <3> QED
      BY <1>1, <1>2, <3>1, <3>3
  <2>3. ASSUME Doubled(i) \in stood'
        PROVE  \E p, q \in Pull : p # q /\ i \in ClosesOf[p] /\ i \in ClosesOf[q] /\ Coming(p)' /\ Coming(q)'
    <3>1. PICK p, q \in F!ToSet(pulls) : p # q /\ i \in ClosesOf[p] /\ i \in ClosesOf[q]
      BY <1>1, <1>3, <2>3 DEF Finds
    <3>2. Coming(p)' /\ Coming(q)' /\ p \in Pull /\ q \in Pull
      BY <1>4, <1>10, <3>1
    <3> QED
      BY <3>1, <3>2
  <2>4. ASSUME NEW p \in Pull, LeftOpen(i, p) \in stood'
        PROVE  Coming(p)' /\ p \notin hread'.pulls
    <3>1. p \in merged
      BY <1>1, <1>3, <2>4 DEF Finds
    <3>2. p \in F!ToSet(pulls)
      BY <1>2, <3>1 DEF F!TypeOK
    <3> QED
      BY <1>1, <1>5, <1>10, <3>2
  <2> QED
    BY <2>2, <2>3, <2>4
<1>13. Judged'
  BY <1>1, <1>2 DEF Judged, F!SnapshotTrue
<1> QED
  BY <1>1, <1>6, <1>7, <1>8, <1>11, <1>12, <1>13 DEF SnapInv

\* What a step of the command that reads issues or pull requests keeps of PullsRead.
LEMMA PullsStay ==
  ASSUME SnapInv, fpc \in {"issues", "pulls", "commits"}, UNCHANGED F!forge, stood' = stood,
         \A p \in Pull : Coming(p) => Coming(p)',
         \A p \in Pull : p \in hread'.pulls \ hread.pulls /\ p \in merged => p \in hread'.merged,
         hread.merged \subseteq hread'.merged,
         \A p \in Pull, w \in User :
           fpc' = "commits" /\ F!Relevant(p)' /\ p \notin htodo' /\ Coming(p) /\ <<p, w>> \in commits =>
             \/ <<p, w>> \in hread'.commits
             \/ fpc = "commits" /\ F!Relevant(p) /\ p \notin htodo /\ hread.commits \subseteq hread'.commits
  PROVE  PullsRead'
<1>1. /\ UNCHANGED <<pulls, merged, commits>> /\ PullsRead /\ Watched /\ F!TypeOK
  BY ForgeStays
<1>2. Finds(F!Standing, closed, assigned, pulls, merged, commits)
  BY <1>1, StandingFinds
<1>3. SUFFICES ASSUME NEW i \in F!Issue
        PROVE  /\ \A u, w \in User : Wrong(i, w, u) \in stood' =>
                    \E p \in Pull : /\ i \in ClosesOf[p] /\ <<p, w>> \in commits' /\ Coming(p)'
                                    /\ fpc' = "commits" /\ F!Relevant(p)' /\ p \notin htodo' => <<p, w>> \in hread'.commits
               /\ Doubled(i) \in stood' =>
                    \E p, q \in Pull : p # q /\ i \in ClosesOf[p] /\ i \in ClosesOf[q] /\ Coming(p)' /\ Coming(q)'
               /\ \A p \in Pull : LeftOpen(i, p) \in stood' => Coming(p)' /\ (p \in hread'.pulls => p \in hread'.merged)
  BY DEF PullsRead, Wrong, Doubled, LeftOpen, F!Issue
<1>4. ASSUME NEW u \in User, NEW w \in User, Wrong(i, w, u) \in stood'
      PROVE  \E p \in Pull : /\ i \in ClosesOf[p] /\ <<p, w>> \in commits' /\ Coming(p)'
                             /\ fpc' = "commits" /\ F!Relevant(p)' /\ p \notin htodo' => <<p, w>> \in hread'.commits
  <2>1. PICK p \in Pull : /\ i \in ClosesOf[p] /\ <<p, w>> \in commits /\ Coming(p)
                          /\ fpc = "commits" /\ F!Relevant(p) /\ p \notin htodo => <<p, w>> \in hread.commits
    BY <1>1, <1>4 DEF PullsRead
  <2>2. fpc' = "commits" /\ F!Relevant(p)' /\ p \notin htodo' => <<p, w>> \in hread'.commits
    BY <2>1
  <2>3. Coming(p)' /\ <<p, w>> \in commits'
    BY <1>1, <2>1
  <2> QED
    BY <2>1, <2>2, <2>3
<1>5. ASSUME Doubled(i) \in stood'
      PROVE  \E p, q \in Pull : p # q /\ i \in ClosesOf[p] /\ i \in ClosesOf[q] /\ Coming(p)' /\ Coming(q)'
  <2>1. PICK p, q \in Pull : p # q /\ i \in ClosesOf[p] /\ i \in ClosesOf[q] /\ Coming(p) /\ Coming(q)
    BY <1>1, <1>5 DEF PullsRead
  <2>2. Coming(p)' /\ Coming(q)'
    BY <2>1
  <2> QED
    BY <2>1, <2>2
<1>6. ASSUME NEW p \in Pull, LeftOpen(i, p) \in stood'
      PROVE  Coming(p)' /\ (p \in hread'.pulls => p \in hread'.merged)
  <2>1. Coming(p) /\ (p \in hread.pulls => p \in hread.merged)
    BY <1>1, <1>6 DEF PullsRead
  <2>2. p \in merged
    BY <1>1, <1>2, <1>6 DEF Finds, Watched
  <2> QED
    BY <2>1, <2>2
<1> QED
  BY <1>4, <1>5, <1>6

\* The issue on the page is as it is in the forge at that time.
LEMMA ListIssueStep ==
  ASSUME SnapInv, F!ListIssue PROVE SnapInv'
<1> DEFINE n == count + 1 - page
           closing == {n} \cap closed
           holders == {a \in assigned : a[1] = n}
<1>1. /\ fpc = "issues" /\ page <= count /\ page' = page + 1
      /\ hread' = [hread EXCEPT !.listed = hread.listed \cup {n}, !.tasks[n] = tasks[n],
                                !.closed = hread.closed \cup closing, !.assigned = hread.assigned \cup holders]
      /\ UNCHANGED <<changes, scope, fpc, target, htodo, report, graph, occurred, stood, moved>> /\ UNCHANGED F!forge
  BY DEF F!ListIssue, F!MorePages, F!history
<1>2. /\ UNCHANGED <<count, tasks, closed, assigned, pulls, merged, commits>>
      /\ F!Standing' = F!Standing /\ F!ToSet(pulls)' = F!ToSet(pulls)
      /\ F!TypeOK /\ ReadBefore /\ Watched /\ Judged /\ IssuesRead /\ PullsRead
  BY <1>1, ForgeStays
<1>3. Finds(F!Standing, closed, assigned, pulls, merged, commits)
  BY <1>2, StandingFinds
<1>4. /\ count \in Nat /\ page \in Nat \ {0} /\ MaxIssue \in Nat /\ count <= MaxIssue
      /\ F!Issue = 1..MaxIssue /\ n \in F!Issue /\ merged \subseteq Pull
  BY <1>1, <1>2, HistoryTypes DEF F!TypeOK
<1> DEFINE Read == [listed : SUBSET F!Issue, tasks : [F!Issue -> SUBSET F!Issue], closed : SUBSET F!Issue,
                    assigned : SUBSET (F!Issue \X User), pulls : SUBSET Pull, merged : SUBSET Pull,
                    commits : SUBSET (Pull \X User)]
<1>5. hread \in Read /\ tasks \in [F!Issue -> SUBSET F!Issue] /\ closed \subseteq F!Issue /\ assigned \subseteq F!Issue \X User
  BY <1>2 DEF F!TypeOK
<1>6. /\ hread' \in Read
      /\ hread'.closed = hread.closed \cup closing /\ hread'.assigned = hread.assigned \cup holders
      /\ hread'.pulls = hread.pulls /\ hread'.merged = hread.merged /\ hread'.commits = hread.commits
  <2>1. n \in F!Issue /\ closing \subseteq F!Issue /\ holders \subseteq F!Issue \X User /\ tasks[n] \subseteq F!Issue
    BY <1>4, <1>5
  <2> HIDE DEF n, closing, holders
  <2> QED
    BY <1>1, <1>5, <2>1
<1>7. F!TypeOK'
  <2> HIDE DEF Read
  <2>1. hread' \in Read
    BY <1>6
  <2>2. page' \in Nat \ {0}
    <3>1. page' = page + 1 /\ page \in Nat
      BY <1>1, <1>4
    <3> QED
      BY <3>1
  <2> QED
    BY <1>1, <1>2, <2>1, <2>2 DEF F!TypeOK, Read
<1> HIDE DEF Read
<1>8. ReadBefore'
  BY <1>1, <1>2, <1>6 DEF ReadBefore
<1>9. Watched'
  BY <1>1, <1>2 DEF Watched
<1>10. ASSUME NEW i \in F!Issue, Unread(i) PROVE Unread(i)' \/ i = n
  <2>1. i \in Nat
    BY <1>4
  <2> QED
    BY <1>1, <1>2, <1>4, <1>10, <2>1 DEF Unread
<1>11. IssuesRead'
  <2>1. SUFFICES ASSUME NEW i \in F!Issue
        PROVE  /\ \A u, w \in User : Wrong(i, w, u) \in stood' => Unread(i)' \/ <<i, u>> \in hread'.assigned
               /\ \A p \in Pull : LeftOpen(i, p) \in stood' => i \notin hread'.closed
               /\ \A p \in Pull \ moved', u, w \in User :
                    <<i, u>> \in hread'.assigned /\ <<p, w>> \in commits' /\ i \in ClosesOf[p] /\ u # w
                      => Wrong(i, w, u) \in occurred'
               /\ \A p \in merged' \ moved' :
                    i \in ClosesOf[p] /\ i \notin hread'.closed => Unread(i)' \/ LeftOpen(i, p) \in occurred'
    BY DEF IssuesRead, Wrong, LeftOpen, F!Issue
  <2>2. ASSUME NEW u \in User, NEW w \in User, Wrong(i, w, u) \in stood'
        PROVE  Unread(i)' \/ <<i, u>> \in hread'.assigned
    <3>1. Unread(i) \/ <<i, u>> \in hread.assigned
      BY <1>1, <1>2, <2>2 DEF IssuesRead
    <3>2. <<i, u>> \in assigned
      BY <1>1, <1>2, <1>3, <2>2 DEF Finds, Watched
    <3>3. i = n => <<i, u>> \in holders
      BY <3>2
    <3> QED
      BY <1>6, <1>10, <3>1, <3>3
  <2>3. ASSUME NEW p \in Pull, LeftOpen(i, p) \in stood' PROVE i \notin hread'.closed
    <3>1. i \notin hread.closed
      BY <1>1, <1>2, <2>3 DEF IssuesRead
    <3>2. i \notin closed
      BY <1>1, <1>2, <1>3, <2>3 DEF Finds, Watched
    <3> QED
      BY <1>6, <3>1, <3>2
  <2>4. ASSUME NEW p \in Pull \ moved', NEW u \in User, NEW w \in User, <<i, u>> \in hread'.assigned,
               <<p, w>> \in commits', i \in ClosesOf[p], u # w
        PROVE  Wrong(i, w, u) \in occurred'
    <3>1. CASE <<i, u>> \in hread.assigned
      BY <1>1, <1>2, <2>4, <3>1 DEF IssuesRead
    <3>2. CASE <<i, u>> \in assigned
      <4>1. Wrong(i, w, u) \in F!Standing
        BY <1>2, <1>3, <2>4, <3>2 DEF Finds
      <4> QED
        BY <1>1, <1>2, <4>1 DEF Watched
    <3> QED
      BY <1>6, <2>4, <3>1, <3>2
  <2>5. ASSUME NEW p \in merged' \ moved', i \in ClosesOf[p], i \notin hread'.closed
        PROVE  Unread(i)' \/ LeftOpen(i, p) \in occurred'
    <3>1. CASE i = n
      <4>1. i \notin closed
        BY <1>6, <2>5, <3>1
      <4>2. LeftOpen(i, p) \in F!Standing
        BY <1>2, <1>3, <2>5, <4>1 DEF Finds
      <4> QED
        BY <1>1, <1>2, <4>2 DEF Watched
    <3>2. CASE i # n
      <4>1. Unread(i) \/ LeftOpen(i, p) \in occurred
        BY <1>1, <1>2, <1>6, <2>5 DEF IssuesRead
      <4> QED
        BY <1>1, <1>10, <3>2, <4>1
    <3> QED
      BY <3>1, <3>2
  <2> QED
    BY <2>2, <2>3, <2>4, <2>5
<1>12. PullsRead'
  <2>1. \A p \in Pull : Coming(p) => Coming(p)'
    BY <1>1, <1>2, <1>6 DEF Coming, Ahead
  <2> QED
    BY <1>1, <1>6, <2>1, PullsStay
<1>13. Judged'
  BY <1>1, <1>2 DEF Judged, F!SnapshotTrue
<1> QED
  BY <1>1, <1>7, <1>8, <1>9, <1>11, <1>12, <1>13 DEF SnapInv

\* The issues that were read stay as they are.
LEMMA IssuesStay ==
  ASSUME SnapInv, fpc \in {"issues", "pulls", "commits"}, UNCHANGED F!forge, UNCHANGED <<occurred, stood, moved>>,
         hread'.closed = hread.closed, hread'.assigned = hread.assigned, \A i \in F!Issue : ~Unread(i)
  PROVE  IssuesRead'
<1>1. UNCHANGED <<merged, commits>> /\ IssuesRead
  BY ForgeStays
<1>2. SUFFICES ASSUME NEW i \in F!Issue
      PROVE  /\ \A u, w \in User : Wrong(i, w, u) \in stood' => <<i, u>> \in hread'.assigned
             /\ \A p \in Pull : LeftOpen(i, p) \in stood' => i \notin hread'.closed
             /\ \A p \in Pull \ moved', u, w \in User :
                  <<i, u>> \in hread'.assigned /\ <<p, w>> \in commits' /\ i \in ClosesOf[p] /\ u # w
                    => Wrong(i, w, u) \in occurred'
             /\ \A p \in merged' \ moved' :
                  i \in ClosesOf[p] /\ i \notin hread'.closed => LeftOpen(i, p) \in occurred'
  BY DEF IssuesRead, Wrong, LeftOpen, F!Issue
<1> QED
  BY <1>1 DEF IssuesRead

\* After the last page no issue is to be read.
LEMMA NoMoreIssues ==
  ASSUME SnapInv, fpc # "issues" \/ ~F!MorePages(count) PROVE \A i \in F!Issue : ~Unread(i)
<1>1. count \in Nat /\ page \in Nat /\ F!Issue = 1..MaxIssue /\ MaxIssue \in Nat
  BY HistoryTypes DEF SnapInv
<1> QED
  BY <1>1 DEF Unread, F!MorePages

\* The scope is selected, and the graph drawn (scope.go, issuegraph).
LEMMA SelectStep ==
  ASSUME SnapInv, F!Select PROVE SnapInv'
<1>1. /\ fpc = "issues" /\ ~F!MorePages(count) /\ target' = F!SelectIssues(hread) /\ page' = 1
      /\ (fpc' = "pulls" /\ graph' = graph) \/ (fpc' = "over" /\ graph' = F!Build(hread))
      /\ UNCHANGED <<changes, scope, hread, htodo, report, occurred, stood, moved>> /\ UNCHANGED F!forge
  BY DEF F!Select, F!history
<1>2. /\ UNCHANGED <<count, tasks, closed, assigned, pulls, merged, commits>>
      /\ F!Standing' = F!Standing /\ F!ToSet(pulls)' = F!ToSet(pulls)
      /\ F!TypeOK /\ ReadBefore /\ Watched /\ Judged /\ IssuesRead /\ PullsRead
  BY <1>1, ForgeStays
<1>3. Len(pulls) \in Nat
  BY <1>2, HistoryTypes
<1>4. F!SelectIssues(hread) = F!InScope /\ F!InScope \subseteq F!Issue
  BY <1>2, SelectsInScope
<1>5. F!TypeOK'
  BY <1>1, <1>2, <1>4 DEF F!TypeOK
<1>6. ReadBefore'
  BY <1>1, <1>2 DEF ReadBefore
<1>7. Watched'
  BY <1>1, <1>2 DEF Watched
<1>8. report = Unset /\ graph = Unset
  BY <1>1, <1>2 DEF Judged
<1>9. F!SelectIssues(hread)' = F!SelectIssues(hread) /\ F!InScope' = F!InScope
  BY <1>1 DEF F!SelectIssues, F!Closure, F!Children, F!InScope
<1>10. CASE fpc' = "pulls" /\ graph' = graph
  <2>1. IssuesRead'
    BY <1>1, NoMoreIssues, IssuesStay
  <2>2. PullsRead'
    <3>1. ASSUME NEW p \in Pull, Coming(p) PROVE Coming(p)'
      <4>1. CASE p \in hread.pulls
        BY <1>1, <4>1 DEF Coming
      <4>2. CASE Ahead(p)
        <5>1. PICK k \in 1..Len(pulls) : pulls[k] = p
          BY <4>2 DEF Ahead
        <5>2. k \in 1..Len(pulls') /\ pulls'[k] = p /\ k <= Len(pulls') + 1 - page'
          BY <1>1, <1>2, <1>3, <5>1
        <5> QED
          BY <1>10, <5>2 DEF Coming, Ahead
      <4> QED
        BY <3>1, <4>1, <4>2 DEF Coming
    <3> QED
      BY <1>1, <1>10, <3>1, PullsStay
  <2>3. Judged'
    BY <1>1, <1>8, <1>9, <1>10 DEF Judged, F!SnapshotTrue
  <2> QED
    BY <1>5, <1>6, <1>7, <2>1, <2>2, <2>3 DEF SnapInv
<1>11. CASE fpc' = "over" /\ graph' = F!Build(hread)
  <2>1. GraphTrue(F!Build(hread))
    BY <1>2, GraphOfScope
  <2> DEFINE g == F!Build(hread)
  <2>2. /\ g.nodes = hread.listed \cap F!InScope
        /\ \A e \in g.edges : e[3] = "subtask" => {e[1], e[2]} \subseteq F!EpicsAndChildren(g)
    BY <2>1 DEF GraphTrue
  <2> HIDE DEF g
  <2>3. F!EpicsAndChildren(graph)' = F!EpicsAndChildren(graph')
    BY DEF F!EpicsAndChildren, F!Epics, F!Ends, F!EdgesAt
  <2>4. graph' = g /\ report' = Unset /\ hread' = hread
    BY <1>1, <1>8, <1>11 DEF g
  <2>5. /\ graph'.nodes = hread'.listed \cap F!InScope'
        /\ \A e \in graph'.edges : e[3] = "subtask" => {e[1], e[2]} \subseteq F!EpicsAndChildren(graph)'
    BY <1>9, <2>2, <2>3, <2>4
  <2>6. F!SnapshotTrue'
    BY <2>4, <2>5 DEF F!SnapshotTrue
  <2>7. Judged'
    BY <1>11, <2>6 DEF Judged
  <2> QED
    BY <1>5, <1>6, <1>7, <1>11, <2>7 DEF SnapInv
<1> QED
  BY <1>1, <1>10, <1>11

\* The pull request on the page is the next of those ahead.
LEMMA ListPullStep ==
  ASSUME SnapInv, F!ListPull PROVE SnapInv'
<1> DEFINE k0 == Len(pulls) + 1 - page
           p0 == pulls[k0]
           landed == {p0} \cap merged
<1>1. /\ fpc = "pulls" /\ fpc' = "pulls" /\ page <= Len(pulls) /\ page' = page + 1
      /\ hread' = [hread EXCEPT !.pulls = hread.pulls \cup {p0}, !.merged = hread.merged \cup landed]
      /\ UNCHANGED <<changes, scope, target, htodo, report, graph, occurred, stood, moved>> /\ UNCHANGED F!forge
  BY DEF F!ListPull, F!MorePages, F!history
<1>2. /\ UNCHANGED <<count, tasks, closed, assigned, pulls, merged, commits>>
      /\ F!Standing' = F!Standing /\ F!ToSet(pulls)' = F!ToSet(pulls)
      /\ F!TypeOK /\ ReadBefore /\ Watched /\ Judged /\ IssuesRead /\ PullsRead
  BY <1>1, ForgeStays
<1>3. /\ page \in Nat \ {0} /\ Len(pulls) \in Nat /\ merged \subseteq Pull
      /\ k0 \in 1..Len(pulls) /\ p0 \in Pull /\ p0 \in F!ToSet(pulls)
  <2>1. /\ page \in Nat \ {0} /\ Len(pulls) \in Nat /\ merged \subseteq Pull
        /\ \A k \in 1..Len(pulls) : pulls[k] \in Pull
        /\ F!ToSet(pulls) = {pulls[k] : k \in 1..Len(pulls)}
    BY <1>2, HistoryTypes
  <2>2. k0 \in 1..Len(pulls)
    BY <1>1, <2>1
  <2> HIDE DEF k0
  <2> QED
    BY <2>1, <2>2
<1> DEFINE Read == [listed : SUBSET F!Issue, tasks : [F!Issue -> SUBSET F!Issue], closed : SUBSET F!Issue,
                    assigned : SUBSET (F!Issue \X User), pulls : SUBSET Pull, merged : SUBSET Pull,
                    commits : SUBSET (Pull \X User)]
<1>4. hread \in Read
  BY <1>2 DEF F!TypeOK
<1>5. /\ hread' \in Read
      /\ hread'.closed = hread.closed /\ hread'.assigned = hread.assigned /\ hread'.commits = hread.commits
      /\ hread'.listed = hread.listed /\ hread'.tasks = hread.tasks
      /\ hread'.pulls = hread.pulls \cup {p0} /\ hread'.merged = hread.merged \cup landed
  <2>1. landed \subseteq Pull /\ p0 \in Pull
    BY <1>3
  <2> HIDE DEF k0, p0, landed
  <2> QED
    BY <1>1, <1>4, <2>1
<1>6. page' \in Nat \ {0}
  <2>1. page' = page + 1 /\ page \in Nat
    BY <1>1, <1>3
  <2> QED
    BY <2>1
<1>7. F!TypeOK'
  <2> HIDE DEF Read
  <2>1. hread' \in Read
    BY <1>5
  <2> QED
    BY <1>1, <1>2, <1>6, <2>1 DEF F!TypeOK, Read
<1> HIDE DEF Read, p0
<1>8. ReadBefore'
  <2>1. htodo \subseteq hread'.pulls /\ hread'.pulls \subseteq F!ToSet(pulls) /\ hread'.merged \subseteq merged
    BY <1>2, <1>3, <1>5 DEF ReadBefore
  <2>2. hread'.commits \subseteq commits
    BY <1>2, <1>5 DEF ReadBefore
  <2>3. (\A a \in assigned : a[1] <= count) /\ (\A i \in closed : i <= count)
    BY <1>2 DEF ReadBefore
  <2> QED
    BY <1>1, <1>2, <2>1, <2>2, <2>3 DEF ReadBefore
<1>9. Watched'
  BY <1>1, <1>2 DEF Watched
<1>10. IssuesRead'
  BY <1>1, <1>5, NoMoreIssues, IssuesStay
<1>11. PullsRead'
  <2>1. ASSUME NEW p \in Pull, Coming(p) PROVE Coming(p)'
    <3>1. CASE p \in hread.pulls
      BY <1>5, <3>1 DEF Coming
    <3>2. CASE Ahead(p)
      <4>1. PICK k \in 1..Len(pulls) : pulls[k] = p /\ k <= Len(pulls) + 1 - page
        BY <1>1, <3>2 DEF Ahead
      <4>2. CASE k = k0
        BY <1>5, <4>1, <4>2 DEF Coming, p0
      <4>3. CASE k # k0
        <5>1. k \in 1..Len(pulls') /\ pulls'[k] = p
          BY <1>2, <4>1
        <5>2. k <= Len(pulls') + 1 - page'
          <6>1. k \in Nat /\ page \in Nat /\ Len(pulls) \in Nat
            BY <1>3, <4>1
          <6> QED
            BY <1>1, <1>2, <4>1, <4>3, <6>1
        <5> QED
          BY <1>1, <5>1, <5>2 DEF Coming, Ahead
      <4> QED
        BY <4>2, <4>3
    <3> QED
      BY <2>1, <3>1, <3>2 DEF Coming
  <2>2. \A p \in Pull : p \in hread'.pulls \ hread.pulls /\ p \in merged => p \in hread'.merged
    BY <1>5
  <2> QED
    BY <1>1, <1>5, <2>1, <2>2, PullsStay
<1>12. Judged'
  <2>1. F!SelectIssues(hread)' = F!SelectIssues(hread)
    BY <1>1, <1>5 DEF F!SelectIssues, F!Closure, F!Children
  <2> QED
    BY <1>1, <1>2, <2>1 DEF Judged, F!SnapshotTrue
<1> QED
  BY <1>1, <1>7, <1>8, <1>9, <1>10, <1>11, <1>12 DEF SnapInv

\* After the last page no pull request is ahead.
LEMMA PullsListedStep ==
  ASSUME SnapInv, F!PullsListed PROVE SnapInv'
<1>1. /\ fpc = "pulls" /\ fpc' = "commits" /\ ~(page <= Len(pulls))
      /\ htodo' = {p \in hread.pulls : F!Relevant(p)}
      /\ UNCHANGED <<changes, scope, page, hread, target, report, graph, occurred, stood, moved>> /\ UNCHANGED F!forge
  BY DEF F!PullsListed, F!MorePages, F!history
<1>2. /\ UNCHANGED <<count, tasks, closed, assigned, pulls, merged, commits>>
      /\ F!Standing' = F!Standing /\ F!ToSet(pulls)' = F!ToSet(pulls)
      /\ F!TypeOK /\ ReadBefore /\ Watched /\ Judged /\ IssuesRead /\ PullsRead
  BY <1>1, ForgeStays
<1>3. page \in Nat /\ Len(pulls) \in Nat /\ hread.pulls \subseteq Pull
  BY <1>2, HistoryTypes DEF F!TypeOK
<1>4. F!TypeOK'
  BY <1>1, <1>2, <1>3 DEF F!TypeOK
<1>5. ReadBefore'
  BY <1>1, <1>2 DEF ReadBefore
<1>6. Watched'
  BY <1>1, <1>2 DEF Watched
<1>7. IssuesRead'
  BY <1>1, NoMoreIssues, IssuesStay
<1>8. PullsRead'
  <2>1. ASSUME NEW p \in Pull, Coming(p) PROVE p \in hread.pulls
    <3>1. ~Ahead(p)
      BY <1>1, <1>3 DEF Ahead
    <3> QED
      BY <2>1, <3>1 DEF Coming
  <2>2. \A p \in Pull : Coming(p) => Coming(p)'
    BY <1>1, <2>1 DEF Coming
  <2>3. \A p : F!Relevant(p)' = F!Relevant(p)
    BY <1>1 DEF F!Relevant
  <2>4. \A p \in Pull : F!Relevant(p)' /\ p \notin htodo' /\ Coming(p) => FALSE
    BY <1>1, <2>1, <2>3
  <2> QED
    BY <1>1, <2>2, <2>4, PullsStay
<1>9. Judged'
  <2>1. F!SelectIssues(hread)' = F!SelectIssues(hread)
    BY <1>1 DEF F!SelectIssues, F!Closure, F!Children
  <2> QED
    BY <1>1, <1>2, <2>1 DEF Judged, F!SnapshotTrue
<1> QED
  BY <1>1, <1>4, <1>5, <1>6, <1>7, <1>8, <1>9 DEF SnapInv

\* The commits of a pull request are as they are in the forge at that time.
LEMMA GetPullCommitsStep ==
  ASSUME SnapInv, NEW p \in Pull, F!GetPullCommits(p) PROVE SnapInv'
<1> DEFINE theirs == {c \in commits : c[1] = p}
<1>1. /\ fpc = "commits" /\ fpc' = "commits" /\ p \in htodo /\ htodo' = htodo \ {p}
      /\ hread' = [hread EXCEPT !.commits = hread.commits \cup theirs]
      /\ UNCHANGED <<changes, scope, page, target, report, graph, occurred, stood, moved>> /\ UNCHANGED F!forge
  BY DEF F!GetPullCommits, F!history
<1>2. /\ UNCHANGED <<count, tasks, closed, assigned, pulls, merged, commits>>
      /\ F!Standing' = F!Standing /\ F!ToSet(pulls)' = F!ToSet(pulls)
      /\ F!TypeOK /\ ReadBefore /\ Watched /\ Judged /\ IssuesRead /\ PullsRead
  BY <1>1, ForgeStays
<1> DEFINE Read == [listed : SUBSET F!Issue, tasks : [F!Issue -> SUBSET F!Issue], closed : SUBSET F!Issue,
                    assigned : SUBSET (F!Issue \X User), pulls : SUBSET Pull, merged : SUBSET Pull,
                    commits : SUBSET (Pull \X User)]
<1>3. hread \in Read /\ htodo \subseteq Pull
  BY <1>2 DEF F!TypeOK
<1>4. /\ hread' \in Read
      /\ hread'.closed = hread.closed /\ hread'.assigned = hread.assigned /\ hread'.pulls = hread.pulls
      /\ hread'.listed = hread.listed /\ hread'.tasks = hread.tasks /\ hread'.merged = hread.merged
      /\ hread'.commits = hread.commits \cup theirs
  <2>1. theirs \subseteq Pull \X User
    BY <1>2, HistoryTypes
  <2> HIDE DEF theirs
  <2> QED
    BY <1>1, <1>3, <2>1
<1>5. F!TypeOK'
  <2> HIDE DEF Read
  <2>1. hread' \in Read /\ htodo' \subseteq Pull
    BY <1>1, <1>3, <1>4
  <2> QED
    BY <1>1, <1>2, <2>1 DEF F!TypeOK, Read
<1> HIDE DEF Read
<1>6. ReadBefore'
  <2>1. hread'.commits \subseteq commits
    BY <1>2, <1>4 DEF ReadBefore
  <2> HIDE DEF theirs
  <2> QED
    BY <1>1, <1>2, <1>4, <2>1 DEF ReadBefore
<1>7. Watched'
  BY <1>1, <1>2 DEF Watched
<1>8. IssuesRead'
  BY <1>1, <1>4, NoMoreIssues, IssuesStay
<1>9. PullsRead'
  <2>1. \A q \in Pull : Coming(q) => Coming(q)'
    BY <1>1, <1>2, <1>4 DEF Coming, Ahead
  <2>2. \A q : F!Relevant(q)' = F!Relevant(q)
    BY <1>1 DEF F!Relevant
  <2>3. \A w \in User : <<p, w>> \in commits => <<p, w>> \in hread'.commits
    BY <1>4
  <2>4. hread.commits \subseteq hread'.commits
    BY <1>4
  <2> HIDE DEF theirs
  <2>5. \A q \in Pull, w \in User : F!Relevant(q)' /\ q \notin htodo' /\ <<q, w>> \in commits =>
           <<q, w>> \in hread'.commits \/ (F!Relevant(q) /\ q \notin htodo)
    BY <1>1, <2>2, <2>3
  <2> QED
    BY <1>1, <1>4, <2>1, <2>4, <2>5, PullsStay
<1>10. Judged'
  <2>1. F!SelectIssues(hread)' = F!SelectIssues(hread)
    BY <1>1, <1>4 DEF F!SelectIssues, F!Closure, F!Children
  <2> QED
    BY <1>1, <1>2, <2>1 DEF Judged, F!SnapshotTrue
<1> QED
  BY <1>1, <1>5, <1>6, <1>7, <1>8, <1>9, <1>10 DEF SnapInv

\* The report: what stood all the while was read and is found, and what is found in what
\* was read stood at some time or is about a pull request that moved.
LEMMA EvaluateStep ==
  ASSUME SnapInv, F!Evaluate PROVE SnapInv'
<1> DEFINE r == [closed |-> hread.closed \cap target, assigned |-> {a \in hread.assigned : a[1] \in target},
                 pulls |-> {p \in hread.pulls : F!Relevant(p)}, merged |-> hread.merged,
                 commits |-> hread.commits]
<1>1. /\ fpc = "commits" /\ fpc' = "over" /\ htodo = {} /\ report' = F!Lint(F!Export)
      /\ UNCHANGED <<changes, scope, page, hread, target, htodo, graph, occurred, stood, moved>> /\ UNCHANGED F!forge
  BY DEF F!Evaluate, F!history
<1>2. /\ UNCHANGED <<count, tasks, closed, assigned, pulls, merged, commits>>
      /\ F!Standing' = F!Standing /\ F!ToSet(pulls)' = F!ToSet(pulls)
      /\ F!TypeOK /\ ReadBefore /\ Watched /\ Judged /\ IssuesRead /\ PullsRead
  BY <1>1, ForgeStays
<1>3. Finds(F!Standing, closed, assigned, pulls, merged, commits)
  BY <1>2, StandingFinds
<1>4. /\ F!ToSet(pulls) \subseteq Pull /\ merged \subseteq Pull /\ commits \subseteq Pull \X User
      /\ \A p \in Pull : ClosesOf[p] \subseteq F!Issue
  BY <1>2, HistoryTypes
<1>5. /\ hread.assigned \subseteq F!Issue \X User /\ hread.pulls \subseteq Pull /\ hread.merged \subseteq Pull
      /\ hread.commits \subseteq Pull \X User
  BY <1>2 DEF F!TypeOK
<1>6. target = F!InScope /\ target \subseteq F!Issue
  BY <1>1, <1>2, SelectsInScope DEF Judged
<1> DEFINE x == F!Export
<1>7. /\ x.closed = hread.closed \cap target /\ x.assigned = {a \in hread.assigned : a[1] \in target}
      /\ x.pulls = {p \in hread.pulls : F!Relevant(p)} /\ x.merged = hread.merged /\ x.commits = hread.commits
  <2> DEFINE Read == [listed : SUBSET F!Issue, tasks : [F!Issue -> SUBSET F!Issue], closed : SUBSET F!Issue,
                      assigned : SUBSET (F!Issue \X User), pulls : SUBSET Pull, merged : SUBSET Pull,
                      commits : SUBSET (Pull \X User)]
             cl == hread.closed \cap target
             as == {a \in hread.assigned : a[1] \in target}
             pl == {p \in hread.pulls : F!Relevant(p)}
  <2>1. hread \in Read
    BY <1>2 DEF F!TypeOK
  <2>2. x = [hread EXCEPT !.closed = cl, !.assigned = as, !.pulls = pl]
    BY DEF F!Export
  <2> HIDE DEF x, cl, as, pl
  <2>3. x.closed = cl /\ x.assigned = as /\ x.pulls = pl /\ x.merged = hread.merged /\ x.commits = hread.commits
    BY <2>1, <2>2
  <2> QED
    BY <2>3 DEF cl, as, pl
<1> HIDE DEF x
<1>8. \A p \in Pull, i \in target : i \in ClosesOf[p] => F!Relevant(p)
  BY DEF F!Relevant
<1>9. /\ \A i, w, u : Wrong(i, w, u) \in F!Lint(x) <=>
              /\ <<i, u>> \in x.assigned /\ w # u
              /\ \E p \in Pull : <<p, w>> \in x.commits /\ i \in ClosesOf[p]
      /\ \A j : Doubled(j) \in F!Lint(x) <=>
              /\ j \in F!Issue
              /\ \E p, q \in x.pulls : p # q /\ j \in ClosesOf[p] /\ j \in ClosesOf[q]
      /\ \A i, p : LeftOpen(i, p) \in F!Lint(x) <=>
              p \in x.merged /\ p \in x.pulls /\ i \in ClosesOf[p] /\ i \notin x.closed
      /\ \A v \in F!Lint(x) :
              \/ \E i, w, u : v = Wrong(i, w, u)
              \/ \E j : v = Doubled(j)
              \/ \E i, p : v = LeftOpen(i, p)
  <2>1. x.assigned \subseteq F!Issue \X User /\ x.pulls \subseteq Pull
    BY <1>5, <1>7
  <2> QED
    BY <1>5, <1>7, <2>1, LintFinds
<1>10. \A p \in Pull : Coming(p) => p \in hread.pulls
  BY <1>1 DEF Coming, Ahead
<1>11. \A i \in F!Issue : ~Unread(i)
  BY <1>1 DEF Unread
<1>12. ASSUME NEW v \in stood, v[2] \in target PROVE v \in F!Lint(x)
  <2>1. v \in F!Standing
    BY <1>2 DEF Watched
  <2>2. CASE \E i, w, u : v = Wrong(i, w, u)
    <3>1. PICK i, w, u : v = Wrong(i, w, u)
      BY <2>2
    <3>2. i \in target
      BY <1>12, <3>1 DEF Wrong
    <3>3. /\ <<i, u>> \in assigned /\ w # u
          /\ \E p \in Pull : <<p, w>> \in commits /\ i \in ClosesOf[p]
      BY <1>3, <2>1, <3>1 DEF Finds
    <3>4. u \in User /\ w \in User /\ i \in F!Issue
      BY <1>2, <1>4, <3>3 DEF F!TypeOK
    <3>5. <<i, u>> \in hread.assigned
      BY <1>2, <1>11, <3>1, <3>4 DEF IssuesRead
    <3>6. PICK p \in Pull : /\ i \in ClosesOf[p] /\ <<p, w>> \in commits /\ Coming(p)
                            /\ fpc = "commits" /\ F!Relevant(p) /\ p \notin htodo => <<p, w>> \in hread.commits
      BY <1>2, <3>1, <3>4 DEF PullsRead
    <3>7. <<p, w>> \in x.commits
      BY <1>1, <1>7, <1>8, <3>2, <3>6
    <3>8. <<i, u>> \in x.assigned
      BY <1>7, <3>2, <3>5
    <3> QED
      BY <1>9, <3>1, <3>3, <3>6, <3>7, <3>8
  <2>3. CASE \E j : v = Doubled(j)
    <3>1. PICK j : v = Doubled(j)
      BY <2>3
    <3>2. j \in target /\ j \in F!Issue
      BY <1>6, <1>12, <3>1 DEF Doubled
    <3>3. PICK p, q \in Pull : p # q /\ j \in ClosesOf[p] /\ j \in ClosesOf[q] /\ Coming(p) /\ Coming(q)
      BY <1>2, <3>1, <3>2 DEF PullsRead
    <3>4. p \in x.pulls /\ q \in x.pulls
      BY <1>7, <1>8, <1>10, <3>2, <3>3
    <3> QED
      BY <1>9, <3>1, <3>2, <3>3, <3>4
  <2>4. CASE \E i, p : v = LeftOpen(i, p)
    <3>1. PICK i, p : v = LeftOpen(i, p)
      BY <2>4
    <3>2. i \in target /\ i \in F!Issue
      BY <1>6, <1>12, <3>1 DEF LeftOpen
    <3>3. p \in merged /\ i \in ClosesOf[p] /\ p \in Pull
      BY <1>3, <1>4, <2>1, <3>1 DEF Finds
    <3>4. i \notin hread.closed
      BY <1>2, <3>1, <3>2, <3>3 DEF IssuesRead
    <3>5. Coming(p) /\ (p \in hread.pulls => p \in hread.merged)
      BY <1>2, <3>1, <3>2, <3>3 DEF PullsRead
    <3>6. p \in x.merged /\ p \in x.pulls /\ i \notin x.closed
      BY <1>7, <1>8, <1>10, <3>2, <3>3, <3>4, <3>5
    <3> QED
      BY <1>9, <3>1, <3>3, <3>6
  <2> QED
    BY <1>3, <2>1, <2>2, <2>3, <2>4 DEF Finds
<1>13. ASSUME NEW v \in F!Lint(x) \ occurred, v[2] \in target PROVE \E p \in moved : v[2] \in ClosesOf[p]
  <2>1. CASE \E i, w, u : v = Wrong(i, w, u)
    <3>1. PICK i, w, u : v = Wrong(i, w, u)
      BY <2>1
    <3>2. v[2] = i
      BY <3>1 DEF Wrong
    <3>3. <<i, u>> \in x.assigned /\ w # u /\ \E p \in Pull : <<p, w>> \in x.commits /\ i \in ClosesOf[p]
      BY <1>9, <1>13, <3>1
    <3>4. PICK p \in Pull : <<p, w>> \in x.commits /\ i \in ClosesOf[p]
      BY <3>3
    <3>5. <<i, u>> \in hread.assigned /\ <<p, w>> \in commits
      BY <1>2, <1>7, <3>3, <3>4 DEF ReadBefore
    <3>6. u \in User /\ w \in User /\ i \in F!Issue
      BY <1>4, <1>5, <3>5
    <3>7. p \in moved
      BY <1>2, <1>13, <3>1, <3>3, <3>4, <3>5, <3>6 DEF IssuesRead
    <3> QED
      BY <3>2, <3>4, <3>7
  <2>2. CASE \E j : v = Doubled(j)
    <3>1. PICK j : v = Doubled(j)
      BY <2>2
    <3>2. j \in F!Issue /\ \E p, q \in x.pulls : p # q /\ j \in ClosesOf[p] /\ j \in ClosesOf[q]
      BY <1>9, <1>13, <3>1
    <3>3. x.pulls \subseteq F!ToSet(pulls)
      BY <1>2, <1>7 DEF ReadBefore
    <3>4. v \in F!Standing
      BY <1>3, <3>1, <3>2, <3>3 DEF Finds
    <3> QED
      BY <1>1, <1>2, <1>13, <3>4 DEF Watched
  <2>3. CASE \E i, p : v = LeftOpen(i, p)
    <3>1. PICK i, p : v = LeftOpen(i, p)
      BY <2>3
    <3>2. v[2] = i
      BY <3>1 DEF LeftOpen
    <3>3. p \in x.merged /\ p \in x.pulls /\ i \in ClosesOf[p] /\ i \notin x.closed
      BY <1>9, <1>13, <3>1
    <3>4. p \in merged /\ i \notin hread.closed /\ i \in F!Issue
      BY <1>2, <1>6, <1>7, <1>13, <3>2, <3>3 DEF ReadBefore
    <3>5. p \in moved
      BY <1>2, <1>11, <1>13, <3>1, <3>3, <3>4 DEF IssuesRead
    <3> QED
      BY <3>2, <3>3, <3>5
  <2> QED
    BY <1>9, <1>13, <2>1, <2>2, <2>3
<1>14. F!TypeOK'
  BY <1>1, <1>2 DEF F!TypeOK
<1>15. ReadBefore'
  BY <1>1, <1>2 DEF ReadBefore
<1>16. Watched'
  BY <1>1, <1>2 DEF Watched
<1>17. Judged'
  <2>1. F!InScope' = F!InScope
    BY <1>1 DEF F!InScope
  <2>2. graph' = Unset
    BY <1>1, <1>2 DEF Judged
  <2>3. {v \in stood : v[2] \in F!InScope} \subseteq report'
    BY <1>1, <1>6, <1>12 DEF x
  <2>4. \A v \in report' \ occurred : v[2] \in F!InScope => \E p \in moved : v[2] \in ClosesOf[p]
    BY <1>1, <1>6, <1>13 DEF x
  <2>5. F!SnapshotTrue'
    BY <1>1, <2>1, <2>2, <2>3, <2>4 DEF F!SnapshotTrue
  <2> QED
    BY <1>1, <2>5 DEF Judged
<1> QED
  BY <1>1, <1>14, <1>15, <1>16, <1>17 DEF SnapInv

\* A failure reports nothing.
LEMMA FailsStep ==
  ASSUME SnapInv, F!Fails PROVE SnapInv'
<1>1. /\ fpc \notin {"start", "over"} /\ fpc' = "over"
      /\ UNCHANGED <<changes, scope, page, hread, target, htodo, report, graph, occurred, stood, moved>>
      /\ UNCHANGED F!forge
  BY DEF F!Fails, F!history
<1>2. /\ UNCHANGED <<count, tasks, closed, assigned, pulls, merged, commits>>
      /\ F!Standing' = F!Standing /\ F!ToSet(pulls)' = F!ToSet(pulls)
      /\ F!TypeOK /\ ReadBefore /\ Watched /\ Judged
  BY <1>1, ForgeStays
<1>3. F!TypeOK'
  BY <1>1, <1>2 DEF F!TypeOK
<1>4. ReadBefore'
  BY <1>1, <1>2 DEF ReadBefore
<1>5. Watched'
  BY <1>1, <1>2 DEF Watched
<1>6. Judged'
  BY <1>1, <1>2 DEF Judged, F!SnapshotTrue
<1> QED
  BY <1>1, <1>3, <1>4, <1>5, <1>6 DEF SnapInv

\* When nothing happens all is as before.
LEMMA HistoryIdles ==
  ASSUME SnapInv, UNCHANGED F!vars PROVE SnapInv'
<1>1. /\ UNCHANGED <<fpc, changes, scope, page, hread, target, htodo, report, graph, occurred, stood, moved>>
      /\ UNCHANGED F!forge
  BY DEF F!vars, F!command
<1>2. /\ UNCHANGED <<count, tasks, closed, assigned, pulls, merged, commits>>
      /\ F!Standing' = F!Standing /\ F!ToSet(pulls)' = F!ToSet(pulls)
      /\ F!TypeOK /\ ReadBefore /\ Watched /\ Judged
      /\ (fpc \in {"issues", "pulls", "commits"} => IssuesRead /\ PullsRead)
  BY <1>1, ForgeStays
<1>3. F!TypeOK'
  BY <1>1, <1>2 DEF F!TypeOK
<1>4. ReadBefore'
  BY <1>1, <1>2 DEF ReadBefore, F!Nothing
<1>5. Watched'
  BY <1>1, <1>2 DEF Watched
<1>6. IssuesRead => IssuesRead'
  BY <1>1, <1>2 DEF IssuesRead, Unread, Wrong, LeftOpen, F!Issue
<1>7. PullsRead => PullsRead'
  <2>1. ASSUME NEW p PROVE (Coming(p)' <=> Coming(p)) /\ (F!Relevant(p)' <=> F!Relevant(p))
    BY <1>1, <1>2 DEF Coming, Ahead, F!Relevant
  <2> QED
    BY <1>1, <1>2, <2>1 DEF PullsRead, Wrong, Doubled, LeftOpen, F!Issue
<1>8. Judged'
  <2>1. F!InScope' = F!InScope /\ F!SelectIssues(hread)' = F!SelectIssues(hread)
    BY <1>1 DEF F!InScope, F!SelectIssues, F!Closure, F!Children
  <2>2. F!EpicsAndChildren(graph)' = F!EpicsAndChildren(graph)
    BY <1>1 DEF F!EpicsAndChildren, F!Epics, F!Ends, F!EdgesAt
  <2> QED
    BY <1>1, <1>2, <2>1, <2>2 DEF Judged, F!SnapshotTrue
<1> QED
  BY <1>1, <1>2, <1>3, <1>4, <1>5, <1>6, <1>7, <1>8 DEF SnapInv

\* What people's steps leave of the types.
LEMMA ChangeTypes ==
  ASSUME SnapInv, F!Change, count' \in 0..MaxIssue, tasks' \in [F!Issue -> SUBSET F!Issue],
         closed' \subseteq F!Issue, assigned' \subseteq F!Issue \X User, pulls' \in Seq(Pull),
         merged' \subseteq F!ToSet(pulls'), commits' \subseteq F!ToSet(pulls') \X User, moved' \subseteq Pull
  PROVE  F!TypeOK'
<1>1. /\ changes' = changes + 1 /\ changes < MaxChanges
      /\ UNCHANGED <<scope, fpc, page, hread, target, htodo, report, graph>>
  BY DEF F!Change, F!command
<1>2. F!TypeOK
  BY DEF SnapInv
<1>3. changes' \in 0..MaxChanges
  <2>1. changes \in Nat /\ MaxChanges \in Nat
    BY <1>2, ToolsAssumption DEF F!TypeOK, F!HistoryAssumption
  <2> QED
    BY <1>1, <2>1
<1>4. F!ToSet(pulls)' = F!ToSet(pulls')
  BY DEF F!ToSet
<1> QED
  BY <1>1, <1>2, <1>3, <1>4 DEF F!TypeOK

\* The people's steps, one by one.
LEMMA MakeStep ==
  ASSUME SnapInv, F!Make PROVE SnapInv'
<1>1. /\ count < MaxIssue /\ count' = count + 1 /\ F!Change
      /\ UNCHANGED <<tasks, closed, assigned, pulls, merged, commits, moved>>
  BY DEF F!Make
<1>2. F!TypeOK /\ ReadBefore /\ MaxIssue \in Nat /\ count \in Nat /\ F!Issue = 1..MaxIssue
  BY HistoryTypes DEF SnapInv
<1>3. count' \in 0..MaxIssue /\ count <= count'
  BY <1>1, <1>2
<1>4. F!TypeOK'
  BY <1>1, <1>2, <1>3, ChangeTypes DEF F!TypeOK
<1>5. \A i \in F!Issue : i <= count => i <= count'
  BY <1>1, <1>2
<1>6. (\A a \in assigned' : a[1] <= count') /\ (\A i \in closed' : i <= count')
  BY <1>1, <1>2, <1>5 DEF ReadBefore, F!TypeOK
<1>7. Len(pulls) <= Len(pulls')
  BY <1>1, <1>2, HistoryTypes
<1> QED
  BY <1>1, <1>2, <1>3, <1>4, <1>6, <1>7, PeopleStep DEF ReadBefore

LEMMA EditStep ==
  ASSUME SnapInv, F!Edit PROVE SnapInv'
<1>1. /\ tasks' \in Bodies /\ F!Change
      /\ UNCHANGED <<count, closed, assigned, pulls, merged, commits, moved>>
  BY DEF F!Edit
<1>2. F!TypeOK /\ ReadBefore /\ count \in Nat /\ Len(pulls) \in Nat
  BY HistoryTypes DEF SnapInv
<1>3. tasks' \in [F!Issue -> SUBSET F!Issue]
  BY <1>1, ToolsAssumption DEF F!HistoryAssumption
<1>4. F!TypeOK'
  BY <1>1, <1>2, <1>3, ChangeTypes DEF F!TypeOK
<1> QED
  BY <1>1, <1>2, <1>4, PeopleStep DEF ReadBefore

LEMMA CloseOrReopenStep ==
  ASSUME SnapInv, NEW i \in F!Issue, F!CloseOrReopen(i) PROVE SnapInv'
<1>1. /\ i <= count /\ closed' \subseteq closed \cup {i} /\ F!Change
      /\ UNCHANGED <<count, tasks, assigned, pulls, merged, commits, moved>>
  BY DEF F!CloseOrReopen
<1>2. F!TypeOK /\ ReadBefore /\ count \in Nat /\ Len(pulls) \in Nat
  BY HistoryTypes DEF SnapInv
<1>3. closed' \subseteq F!Issue /\ \A j \in closed' : j <= count'
  BY <1>1, <1>2 DEF F!TypeOK, ReadBefore
<1>4. F!TypeOK'
  BY <1>1, <1>2, <1>3, ChangeTypes DEF F!TypeOK
<1> QED
  BY <1>1, <1>2, <1>3, <1>4, PeopleStep DEF ReadBefore

LEMMA AssignStep ==
  ASSUME SnapInv, NEW i \in F!Issue, NEW u \in User, F!Assign(i, u) PROVE SnapInv'
<1>1. /\ i <= count /\ assigned' = {a \in assigned : a[1] # i} \cup {<<i, u>>} /\ F!Change
      /\ UNCHANGED <<count, tasks, closed, pulls, merged, commits, moved>>
  BY DEF F!Assign
<1>2. F!TypeOK /\ ReadBefore /\ count \in Nat /\ Len(pulls) \in Nat
  BY HistoryTypes DEF SnapInv
<1>3. assigned' \subseteq F!Issue \X User /\ \A a \in assigned' : a[1] <= count'
  BY <1>1, <1>2 DEF F!TypeOK, ReadBefore
<1>4. F!TypeOK'
  BY <1>1, <1>2, <1>3, ChangeTypes DEF F!TypeOK
<1> QED
  BY <1>1, <1>2, <1>3, <1>4, PeopleStep DEF ReadBefore

LEMMA ProposeStep ==
  ASSUME SnapInv, NEW p \in Pull, F!Propose(p) PROVE SnapInv'
<1>1. /\ pulls' = Append(pulls, p) /\ F!Change
      /\ UNCHANGED <<count, tasks, closed, assigned, merged, commits, moved>>
  BY DEF F!Propose
<1>2. /\ F!TypeOK /\ ReadBefore /\ count \in Nat /\ Len(pulls) \in Nat /\ pulls \in Seq(Pull)
      /\ F!ToSet(pulls) = {pulls[k] : k \in 1..Len(pulls)}
  BY HistoryTypes DEF SnapInv
<1>3. /\ pulls' \in Seq(Pull) /\ Len(pulls') = Len(pulls) + 1 /\ Len(pulls) <= Len(pulls')
      /\ \A k \in 1..Len(pulls) : pulls'[k] = pulls[k]
  BY <1>1, <1>2
<1>4. F!ToSet(pulls) \subseteq F!ToSet(pulls')
  <2>1. DOMAIN pulls' = 1..(Len(pulls) + 1)
    BY <1>3
  <2>2. F!ToSet(pulls') = {pulls'[k] : k \in 1..(Len(pulls) + 1)}
    BY <2>1 DEF F!ToSet
  <2>3. ASSUME NEW k \in 1..Len(pulls) PROVE pulls[k] \in F!ToSet(pulls')
    <3>1. k \in 1..(Len(pulls) + 1) /\ pulls[k] = pulls'[k]
      BY <1>2, <1>3
    <3> QED
      BY <2>2, <3>1
  <2> QED
    BY <1>2, <2>3
<1>5. merged' \subseteq F!ToSet(pulls') /\ commits' \subseteq F!ToSet(pulls') \X User
  BY <1>1, <1>2, <1>4 DEF F!TypeOK
<1>6. F!TypeOK'
  BY <1>1, <1>2, <1>3, <1>5, ChangeTypes DEF F!TypeOK
<1>7. count <= count' /\ commits \subseteq commits' /\ merged \subseteq merged'
      /\ (\A a \in assigned' : a[1] <= count') /\ (\A i \in closed' : i <= count')
      /\ (fpc = "start" => moved' = {}) /\ moved \subseteq moved'
  BY <1>1, <1>2 DEF ReadBefore
<1> QED
  BY <1>1, <1>3, <1>6, <1>7, PeopleStep

LEMMA MergeStep ==
  ASSUME SnapInv, NEW p \in Pull, F!Merge(p) PROVE SnapInv'
<1>1. /\ p \in F!ToSet(pulls) /\ merged' = merged \cup {p} /\ F!Change
      /\ closed' \in {closed, closed \cup {i \in ClosesOf[p] : i <= count}}
      /\ moved' = (IF fpc = "start" THEN {} ELSE moved \cup {p})
      /\ UNCHANGED <<count, tasks, assigned, pulls, commits>>
  BY DEF F!Merge
<1>2. /\ F!TypeOK /\ ReadBefore /\ count \in Nat /\ Len(pulls) \in Nat
      /\ \A q \in Pull : ClosesOf[q] \subseteq F!Issue
  BY HistoryTypes DEF SnapInv
<1>3. closed' \subseteq F!Issue /\ \A i \in closed' : i <= count'
  BY <1>1, <1>2 DEF F!TypeOK, ReadBefore
<1>4. F!TypeOK'
  <2>1. F!ToSet(pulls') = F!ToSet(pulls)
    BY <1>1
  <2>2. merged' \subseteq F!ToSet(pulls') /\ commits' \subseteq F!ToSet(pulls') \X User /\ moved' \subseteq Pull
    BY <1>1, <1>2, <2>1 DEF F!TypeOK
  <2> QED
    BY <1>1, <1>2, <1>3, <2>2, ChangeTypes DEF F!TypeOK
<1>5. \A a \in assigned' : a[1] <= count'
  BY <1>1, <1>2 DEF ReadBefore
<1>6. fpc # "start" =>
        /\ moved \subseteq moved'
        /\ \A q \in Pull \ moved' : /\ q \in merged' => q \in merged
                                    /\ \A w \in User : <<q, w>> \in commits' => <<q, w>> \in commits
  BY <1>1
<1> QED
  BY <1>1, <1>2, <1>3, <1>4, <1>5, <1>6, PeopleStep

LEMMA PushStep ==
  ASSUME SnapInv, NEW p \in Pull, NEW u \in User, F!Push(p, u) PROVE SnapInv'
<1>1. /\ p \in F!ToSet(pulls) /\ commits' = commits \cup {<<p, u>>} /\ F!Change
      /\ moved' = (IF fpc = "start" THEN {} ELSE moved \cup {p})
      /\ UNCHANGED <<count, tasks, closed, assigned, pulls, merged>>
  BY DEF F!Push
<1>2. F!TypeOK /\ ReadBefore /\ count \in Nat /\ Len(pulls) \in Nat
  BY HistoryTypes DEF SnapInv
<1>3. F!TypeOK'
  <2>1. F!ToSet(pulls') = F!ToSet(pulls)
    BY <1>1
  <2>2. merged' \subseteq F!ToSet(pulls') /\ commits' \subseteq F!ToSet(pulls') \X User /\ moved' \subseteq Pull
    BY <1>1, <1>2, <2>1 DEF F!TypeOK
  <2> QED
    BY <1>1, <1>2, <2>2, ChangeTypes DEF F!TypeOK
<1>4. (\A a \in assigned' : a[1] <= count') /\ (\A i \in closed' : i <= count')
  BY <1>1, <1>2 DEF ReadBefore
<1>5. fpc # "start" =>
        /\ moved \subseteq moved'
        /\ \A q \in Pull \ moved' : /\ q \in merged' => q \in merged
                                    /\ \A w \in User : <<q, w>> \in commits' => <<q, w>> \in commits
  BY <1>1
<1> QED
  BY <1>1, <1>2, <1>3, <1>4, <1>5, PeopleStep

\* Nothing is read and nothing moved at the start.
LEMMA SnapInitially ==
  ASSUME F!Init PROVE SnapInv
<1>1. /\ count \in 1..MaxIssue /\ tasks \in Bodies /\ closed = {} /\ assigned = {}
      /\ pulls \in {<<>>} \cup {<<p>> : p \in Pull} /\ merged = {} /\ commits = {} /\ changes = 0
      /\ scope \in Scopes /\ fpc = "start" /\ page = 1 /\ hread = F!Nothing
      /\ target = {} /\ htodo = {} /\ report = Unset /\ graph = Unset
      /\ occurred = {} /\ stood = {} /\ moved = {}
  BY DEF F!Init
<1>2. pulls \in Seq(Pull)
  <2>1. CASE pulls = <<>>
    BY <2>1, EmptySeq
  <2>2. CASE pulls \in {<<p>> : p \in Pull}
    <3>1. PICK p \in Pull : pulls = <<p>>
      BY <2>2
    <3>2. pulls = [k \in 1..1 |-> p]
      BY <3>1
    <3> QED
      BY <3>2, IsASeq
  <2> QED
    BY <1>1, <2>1, <2>2
<1>3. count \in 0..MaxIssue /\ tasks \in [F!Issue -> SUBSET F!Issue] /\ changes \in 0..MaxChanges
      /\ page \in Nat \ {0}
  <2>1. MaxIssue \in Nat /\ MaxChanges \in Nat /\ Bodies \subseteq [F!Issue -> SUBSET F!Issue]
    BY ToolsAssumption DEF F!HistoryAssumption
  <2> QED
    BY <1>1, <2>1
<1>4. hread = [listed |-> {}, tasks |-> [i \in F!Issue |-> {}], closed |-> {}, assigned |-> {},
               pulls |-> {}, merged |-> {}, commits |-> {}]
  BY <1>1 DEF F!Nothing
<1>5. F!TypeOK
  BY <1>1, <1>2, <1>3, <1>4 DEF F!TypeOK
<1>6. ReadBefore /\ Watched
  BY <1>1, <1>4 DEF ReadBefore, Watched
<1>7. Judged
  BY <1>1 DEF Judged, F!SnapshotTrue
<1> QED
  BY <1>1, <1>5, <1>6, <1>7 DEF SnapInv

\* The steps together.
LEMMA SnapInductive == SnapInv /\ [F!Next]_(F!vars) => SnapInv'
<1> SUFFICES ASSUME SnapInv, F!Next PROVE SnapInv'
  BY HistoryIdles
<1> QED
  BY BeginStep, ListIssueStep, SelectStep, ListPullStep, PullsListedStep, GetPullCommitsStep, EvaluateStep,
     FailsStep, MakeStep, EditStep, CloseOrReopenStep, AssignStep, ProposeStep, MergeStep, PushStep DEF F!Next

\* What is read and what is still ahead hold, between them, what stood all the while.
THEOREM HistoryInductiveInvariant == F!Spec => []SnapInv
  BY SnapInitially, SnapInductive, PTL DEF F!Spec

\* `forge lint' is a gate although it reads a forge that changes: it reports every
\* violation of its scope that stood all the while, and none that stood at no time but
\* about a pull request that moved; `forge graph' draws just its scope, each epic with its
\* children.  For any number of issues, pull requests, users and changes.
THEOREM SnapshotOfTheForge == F!Spec => []SnapshotTrue
<1>1. SnapInv => SnapshotTrue
  BY DEF SnapInv, Judged, SnapshotTrue
<1> QED
  BY <1>1, HistoryInductiveInvariant, PTL

-----------------------------------------------------------------------------
(* The commands together, as TLC runs them.                                 *)

ToolsInv == RunInv /\ ReviewInv /\ MetaInv /\ ExtractInv /\ SnapInv

\* A command that is not run keeps its invariant.
LEMMA CommandsIdle ==
  ASSUME ToolsInv
  PROVE  /\ UNCHANGED uvars => RunInv'
         /\ UNCHANGED rvars => ReviewInv'
         /\ UNCHANGED mvars => MetaInv'
         /\ UNCHANGED xvars => ExtractInv'
         /\ UNCHANGED fvars => SnapInv'
<1>1. UNCHANGED uvars => RunInv'
  BY RunInductive DEF ToolsInv, uvars, U!vars
<1>2. UNCHANGED rvars => ReviewInv'
  BY ReviewInductive DEF ToolsInv, rvars, R!vars
<1>3. UNCHANGED mvars => MetaInv'
  BY MetaInductive DEF ToolsInv, mvars, M!vars
<1>4. UNCHANGED xvars => ExtractInv'
  BY ExtractInductive DEF ToolsInv, xvars, X!vars
<1>5. UNCHANGED fvars => SnapInv'
  <2>1. UNCHANGED fvars => UNCHANGED F!vars
    BY DEF fvars, F!vars, F!forge, F!command
  <2> QED
    BY <2>1, SnapInductive DEF ToolsInv
<1> QED
  BY <1>1, <1>2, <1>3, <1>4, <1>5

\* All of this of the specification that TLC runs, one command at a time.
THEOREM CommandsKeepTheirWord ==
  ToolsSpec => [](/\ VerdictTrue /\ TracesFresh /\ GrantsAsAsked /\ ManifestTrue
                  /\ NeverSilentlyTrusted /\ Reproducible /\ SnapshotTrue)
<1>1. ToolsInit => ToolsInv
  BY RunInitially, ReviewInitially, MetaInitially, ExtractInitially, SnapInitially DEF ToolsInit, ToolsInv
<1>2. ToolsInv /\ [ToolsNext]_toolVars => ToolsInv'
  <2> SUFFICES ASSUME ToolsInv, [ToolsNext]_toolVars PROVE ToolsInv'
    OBVIOUS
  <2>1. CASE UNCHANGED toolVars
    BY <2>1, CommandsIdle DEF toolVars, ToolsInv
  <2>2. CASE U!Next /\ UNCHANGED <<rvars, mvars, xvars, fvars>>
    BY <2>2, CommandsIdle, RunInductive DEF ToolsInv
  <2>3. CASE R!Next /\ UNCHANGED <<uvars, mvars, xvars, fvars>>
    BY <2>3, CommandsIdle, ReviewInductive DEF ToolsInv
  <2>4. CASE M!Next /\ UNCHANGED <<uvars, rvars, xvars, fvars>>
    BY <2>4, CommandsIdle, MetaInductive DEF ToolsInv
  <2>5. CASE X!Next /\ UNCHANGED <<uvars, rvars, mvars, fvars>>
    BY <2>5, CommandsIdle, ExtractInductive DEF ToolsInv
  <2>6. CASE F!Next /\ UNCHANGED <<uvars, rvars, mvars, xvars>>
    BY <2>6, CommandsIdle, SnapInductive DEF ToolsInv
  <2> QED
    BY <2>1, <2>2, <2>3, <2>4, <2>5, <2>6 DEF ToolsNext
<1>3. ToolsInv => /\ VerdictTrue /\ TracesFresh /\ GrantsAsAsked /\ ManifestTrue
                  /\ NeverSilentlyTrusted /\ Reproducible /\ SnapshotTrue
  <2>1. RunInv => opts \in RunOptions
    BY DEF RunInv, U!TypeOK
  <2> QED
    BY <2>1, VerdictFromInvariant, TracesFromInvariant, GrantsFromOptions, ManifestFromInvariant,
       ReproducibleFromInvariant DEF ToolsInv, MetaInv, SnapInv, Judged, SnapshotTrue
<1> QED
  BY <1>1, <1>2, <1>3, PTL DEF ToolsSpec
=============================================================================
