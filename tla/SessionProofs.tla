---------------------------- MODULE SessionProofs ----------------------------
(* Proofs about Sprint, for any processes and sessions, and about           *)
(* SessionRepo (R) and MemoryStore (M) as MCSession has them, for any        *)
(* commands, inodes, agents, facts and bounds.                              *)
EXTENDS MCSession, SequenceTheorems, WellFoundedInduction, TLAPS

-----------------------------------------------------------------------------
(* Sprint: supervisors and the runs table.                                  *)

Holding == Booting \cup {"looping", "stopping"}

\* The lease is held by the one process between Acquire and Exit.
OneHolds ==
  \A p \in Proc : /\ proc[p] \in Holding <=> holder = p
                  /\ proc[p] \in {"counted"} \cup Holding => ses[p] \in Session

\* No row is "running" once the crashed runs are marked, and then only the new one is.
RowsInOrder ==
  \A p \in Proc :
    /\ proc[p] = "opened" /\ ses[p] \notin slipped =>
         \A n \in DOMAIN runs[ses[p]] : runs[ses[p]][n] # "running"
    /\ proc[p] \in {"stamping", "stamped", "looping"} => Len(runs[ses[p]]) = last[p] + 1
    /\ proc[p] \in {"stamping", "stamped", "looping"} /\ ses[p] \notin slipped =>
         \A n \in DOMAIN runs[ses[p]] : runs[ses[p]][n] = "running" <=> n = last[p] + 1

\* A stamped file is that of a supervisor past its start: of the one in its loop, if any.
Stamped == {"stamped", "looping", "stopping", "gone", "other"}
FileInOrder ==
  /\ file.session # None =>
       /\ file.pid \in Proc /\ proc[file.pid] \in Stamped
       /\ proc[file.pid] \in Holding => ses[file.pid] = file.session
  /\ \A p \in Proc : proc[p] \in {"stamped", "looping"} => file = [pid |-> p, session |-> ses[p]]

\* `sprint end' has its eye on a supervisor of its session, and on whoever served it.
EndInOrder ==
  /\ endpc = "idle" <=> target = None
  /\ endpc = "idle" => served = {}
  /\ endpc \in {"looked", "waiting"} =>
       /\ victim \in Proc /\ proc[victim] \in Stamped
       /\ proc[victim] \in Holding => ses[victim] = target
  /\ \A p \in served : /\ proc[p] \in {"looping", "stopping", "gone", "other"}
                       /\ proc[p] = "looping" => ses[p] = target /\ endpc # "stopped"

SprintInv == TypeOK /\ OneHolds /\ RowsInOrder /\ FileInOrder /\ EndInOrder
Status == {"running", "crashed", "completed"}

\* What the UPDATE of the crashed runs leaves: as many rows, none of them "running".
LEMMA CrashedRows ==
  ASSUME NEW rows \in Seq(Status)
  PROVE  /\ MarkCrashed(rows) \in Seq(Status)
         /\ Len(MarkCrashed(rows)) = Len(rows)
         /\ \A n \in DOMAIN MarkCrashed(rows) : MarkCrashed(rows)[n] # "running"
<1>1. Len(rows) \in Nat /\ DOMAIN rows = 1..Len(rows)
  BY LenProperties
<1>2. \A n \in 1..Len(rows) : rows[n] \in Status
  BY ElementOfSeq
<1>3. MarkCrashed(rows) \in [1..Len(rows) -> Status \ {"running"}]
  BY <1>1, <1>2 DEF MarkCrashed, Crashed, Status
<1>4. MarkCrashed(rows) \in Seq(Status \ {"running"})
  BY <1>1, <1>3, SeqDef
<1>5. DOMAIN MarkCrashed(rows) = 1..Len(MarkCrashed(rows)) /\ Len(MarkCrashed(rows)) \in Nat
  BY <1>4, LenProperties
<1> QED
  BY <1>1, <1>3, <1>4, <1>5

\* The types.
LEMMA TypeStep ==
  SprintInv /\ [Next]_vars => TypeOK'
<1> SUFFICES ASSUME SprintInv, [Next]_vars PROVE TypeOK'
  OBVIOUS
<1>0. None \notin Proc /\ None \notin Session
  BY SessionAssumption DEF SprintAssumption
<1> USE <1>0 DEF SprintInv, TypeOK, OneHolds, EndInOrder, Holding, Booting, Stage, Status, run, end
<1>1. ASSUME NEW p \in Proc, NEW s \in Session, Count(p, s) PROVE TypeOK'
  <2>1. Len(runs[s]) \in Nat
    BY <1>1, LenProperties DEF Status
  <2> QED
    BY <1>1, <2>1 DEF Count, Become
<1>2. ASSUME NEW p \in Proc, AcquireBusy(p) PROVE TypeOK'
  BY <1>2 DEF AcquireBusy, Exit, Become
<1>3. ASSUME NEW p \in Proc, Acquire(p) PROVE TypeOK'
  BY <1>3 DEF Acquire, Become
<1>4. ASSUME NEW p \in Proc, Cancelled(p) PROVE TypeOK'
  BY <1>4 DEF Cancelled, Exit, Become, NoFile
<1>5. ASSUME NEW p \in Proc, OpenSession(p) PROVE TypeOK'
  <2>1. ses[p] \in Session
    BY <1>5 DEF OpenSession
  <2>2. MarkCrashed(runs[ses[p]]) \in Seq(Status)
    BY <2>1, CrashedRows
  <2>3. runs' = runs \/ runs' = [runs EXCEPT ![ses[p]] = MarkCrashed(runs[ses[p]])]
    BY <1>5 DEF OpenSession
  <2>4. runs' \in [Session -> Seq(Status)]
    <3>1. runs \in [Session -> Seq(Status)]
      OBVIOUS
    <3> HIDE DEF SprintInv, TypeOK
    <3> QED
      BY <2>1, <2>2, <2>3, <3>1
  <2> QED
    BY <1>5, <2>1, <2>4 DEF OpenSession, Become
<1>6. ASSUME NEW p \in Proc, InsertRun(p) PROVE TypeOK'
  <2>1. ses[p] \in Session
    BY <1>6 DEF InsertRun
  <2>2. Append(runs[ses[p]], "running") \in Seq(Status)
    BY <2>1, AppendProperties DEF Status
  <2>3. runs' \in [Session -> Seq(Status)]
    BY <1>6, <2>2 DEF InsertRun, InsertFree
  <2> QED
    BY <1>6, <2>3 DEF InsertRun, Become
<1>7. ASSUME NEW p \in Proc, BootFails(p) PROVE TypeOK'
  BY <1>7 DEF BootFails, Exit, Become
<1>8. ASSUME NEW p \in Proc, SetEndpointTruncate(p) PROVE TypeOK'
  BY <1>8 DEF SetEndpointTruncate, NoFile
<1>9. ASSUME NEW p \in Proc, SetEndpointWrite(p) PROVE TypeOK'
  BY <1>9 DEF SetEndpointWrite, Become, NoFile
<1>10. ASSUME NEW p \in Proc, Notify(p) PROVE TypeOK'
  BY <1>10 DEF Notify, Become
<1>11. ASSUME NEW p \in Proc, Stop(p) PROVE TypeOK'
  <2>1. ses[p] \in Session
    BY <1>11 DEF Stop
  <2>2. last[p] + 1 \in 1..Len(runs[ses[p]])
    BY <1>11 DEF RowsInOrder, Stop
  <2>3. runs[ses[p]] \in Seq(Status) /\ "completed" \in Status
    BY <2>1
  <2>4. [runs[ses[p]] EXCEPT ![last[p] + 1] = "completed"] \in Seq(Status)
    BY <2>2, <2>3, ExceptSeq
  <2>5. runs' = runs \/ runs' = [runs EXCEPT ![ses[p]] = [runs[ses[p]] EXCEPT ![last[p] + 1] = "completed"]]
    BY <1>11 DEF Stop
  <2>6. runs' \in [Session -> Seq(Status)]
    <3>1. runs \in [Session -> Seq(Status)]
      OBVIOUS
    <3> HIDE DEF SprintInv, TypeOK
    <3> QED
      BY <2>1, <2>4, <2>5, <3>1
  <2> QED
    BY <1>11, <2>6 DEF Stop, Become
<1>12. ASSUME NEW p \in Proc, Release(p) PROVE TypeOK'
  BY <1>12 DEF Release, Exit, Become, NoFile
<1>13. ASSUME NEW p \in Proc, Die(p) PROVE TypeOK'
  BY <1>13 DEF Die, Exit, Become
<1>14. ASSUME NEW p \in Proc, Reuse(p) PROVE TypeOK'
  BY <1>14 DEF Reuse, Become
<1>15. ASSUME NEW p \in Proc, OtherEnds(p) PROVE TypeOK'
  BY <1>15 DEF OtherEnds, Become
<1>16. ASSUME NEW s \in Session, EndLooks(s) PROVE TypeOK'
  BY <1>16 DEF EndLooks, OwnLive, IsProcessLive, Serving
<1>17. ASSUME EndSignals PROVE TypeOK'
  <2>1. victim \in Proc /\ endpc' = "waiting" /\ UNCHANGED <<file, runs, ended, target, victim, served, slipped>>
    BY <1>17 DEF EndSignals
  <2>2. CASE proc[victim] \in {"looping", "stopping"}
    BY <1>17, <2>1, <2>2 DEF EndSignals
  <2>3. CASE proc[victim] = "gone"
    BY <1>17, <2>1, <2>3 DEF EndSignals
  <2>4. CASE proc[victim] \notin {"looping", "stopping", "gone"}
    <3>1. Exit(victim)
      BY <1>17, <2>4 DEF EndSignals
    <3> QED
      BY <2>1, <3>1 DEF Exit, Become
  <2> QED
    BY <2>2, <2>3, <2>4
<1>18. ASSUME EndWaits PROVE TypeOK'
  BY <1>18 DEF EndWaits, Wait, OwnLive, IsProcessLive
<1>19. ASSUME EndFails PROVE TypeOK'
  BY <1>19 DEF EndFails, EndOver
<1>20. ASSUME EndMarks PROVE TypeOK'
  BY <1>20 DEF EndMarks, EndOver
<1>21. CASE UNCHANGED vars
  BY <1>21 DEF vars
<1> QED
  BY <1>1, <1>2, <1>3, <1>4, <1>5, <1>6, <1>7, <1>8, <1>9, <1>10, <1>11, <1>12, <1>13, <1>14,
       <1>15, <1>16, <1>17, <1>18, <1>19, <1>20, <1>21 DEF Next, RunStep

\* Who holds the lease.
LEMMA HoldingStep ==
  SprintInv /\ [Next]_vars => OneHolds'
<1> SUFFICES ASSUME SprintInv, [Next]_vars PROVE OneHolds'
  OBVIOUS
<1>0. None \notin Proc /\ None \notin Session
  BY SessionAssumption DEF SprintAssumption
<1> USE <1>0 DEF SprintInv, TypeOK, OneHolds, Holding, Booting, Stage, run, end
<1>1. ASSUME NEW p \in Proc, NEW s \in Session, Count(p, s) PROVE OneHolds'
  BY <1>1 DEF Count, Become
<1>2. ASSUME NEW p \in Proc, AcquireBusy(p) PROVE OneHolds'
  BY <1>2 DEF AcquireBusy, Exit, Become
<1>3. ASSUME NEW p \in Proc, Acquire(p) PROVE OneHolds'
  BY <1>3 DEF Acquire, Become
<1>4. ASSUME NEW p \in Proc, Cancelled(p) PROVE OneHolds'
  BY <1>4 DEF Cancelled, Exit, Become, NoFile
<1>5. ASSUME NEW p \in Proc, OpenSession(p) PROVE OneHolds'
  BY <1>5 DEF OpenSession, Become
<1>6. ASSUME NEW p \in Proc, InsertRun(p) PROVE OneHolds'
  BY <1>6 DEF InsertRun, InsertFree, Become
<1>7. ASSUME NEW p \in Proc, BootFails(p) PROVE OneHolds'
  BY <1>7 DEF BootFails, Exit, Become
<1>8. ASSUME NEW p \in Proc, SetEndpointTruncate(p) PROVE OneHolds'
  BY <1>8 DEF SetEndpointTruncate, NoFile
<1>9. ASSUME NEW p \in Proc, SetEndpointWrite(p) PROVE OneHolds'
  BY <1>9 DEF SetEndpointWrite, Become, NoFile
<1>10. ASSUME NEW p \in Proc, Notify(p) PROVE OneHolds'
  BY <1>10 DEF Notify, Become
<1>11. ASSUME NEW p \in Proc, Stop(p) PROVE OneHolds'
  BY <1>11 DEF Stop, Become
<1>12. ASSUME NEW p \in Proc, Release(p) PROVE OneHolds'
  BY <1>12 DEF Release, Exit, Become, NoFile
<1>13. ASSUME NEW p \in Proc, Die(p) PROVE OneHolds'
  BY <1>13 DEF Die, Exit, Become
<1>14. ASSUME NEW p \in Proc, Reuse(p) PROVE OneHolds'
  BY <1>14 DEF Reuse, Become
<1>15. ASSUME NEW p \in Proc, OtherEnds(p) PROVE OneHolds'
  BY <1>15 DEF OtherEnds, Become
<1>16. ASSUME NEW s \in Session, EndLooks(s) PROVE OneHolds'
  BY <1>16 DEF EndLooks, OwnLive, IsProcessLive, Serving
<1>17. ASSUME EndSignals PROVE OneHolds'
  BY <1>17 DEF EndSignals, Exit, Become
<1>18. ASSUME EndWaits PROVE OneHolds'
  BY <1>18 DEF EndWaits, Wait, OwnLive, IsProcessLive
<1>19. ASSUME EndFails PROVE OneHolds'
  BY <1>19 DEF EndFails, EndOver
<1>20. ASSUME EndMarks PROVE OneHolds'
  BY <1>20 DEF EndMarks, EndOver
<1>21. CASE UNCHANGED vars
  BY <1>21 DEF vars
<1> QED
  BY <1>1, <1>2, <1>3, <1>4, <1>5, <1>6, <1>7, <1>8, <1>9, <1>10, <1>11, <1>12, <1>13, <1>14,
       <1>15, <1>16, <1>17, <1>18, <1>19, <1>20, <1>21 DEF Next, RunStep

\* The rows of the runs.
LEMMA RowsStep ==
  SprintInv /\ [Next]_vars => RowsInOrder'
<1> SUFFICES ASSUME SprintInv, [Next]_vars PROVE RowsInOrder'
  OBVIOUS
<1>0. None \notin Proc /\ None \notin Session
  BY SessionAssumption DEF SprintAssumption
<1> USE <1>0 DEF SprintInv, TypeOK, OneHolds, RowsInOrder, EndInOrder, Holding, Booting, Stage,
        Status, run, end
<1>1. ASSUME NEW p \in Proc, NEW s \in Session, Count(p, s) PROVE RowsInOrder'
  BY <1>1 DEF Count, Become
<1>2. ASSUME NEW p \in Proc, AcquireBusy(p) PROVE RowsInOrder'
  BY <1>2 DEF AcquireBusy, Exit, Become
<1>3. ASSUME NEW p \in Proc, Acquire(p) PROVE RowsInOrder'
  BY <1>3 DEF Acquire, Become
<1>4. ASSUME NEW p \in Proc, Cancelled(p) PROVE RowsInOrder'
  BY <1>4 DEF Cancelled, Exit, Become, NoFile
<1>5. ASSUME NEW p \in Proc, OpenSession(p) PROVE RowsInOrder'
  <2>1. ses[p] \in Session /\ runs[ses[p]] \in Seq(Status)
    BY <1>5 DEF OpenSession
  <2>2. \A n \in DOMAIN MarkCrashed(runs[ses[p]]) : MarkCrashed(runs[ses[p]])[n] # "running"
    BY <2>1, CrashedRows
  <2>3. proc[p] = "leased" /\ proc' = [proc EXCEPT ![p] = "opened"] /\ UNCHANGED <<ses, last>>
    BY <1>5 DEF OpenSession, Become
  <2>4. \A q \in Proc \ {p} : proc'[q] = proc[q] /\ proc[q] \notin Holding
    BY <2>3
  <2>5. ses[p] \notin slipped' => \A n \in DOMAIN runs'[ses[p]] : runs'[ses[p]][n] # "running"
    BY <1>5, <2>1, <2>2 DEF OpenSession
  <2> QED
    BY <2>3, <2>4, <2>5
<1>6. ASSUME NEW p \in Proc, InsertRun(p) PROVE RowsInOrder'
  <2> DEFINE s == ses[p]
             more == Append(runs[s], "running")
  <2>1. s \in Session /\ runs[s] \in Seq(Status) /\ Len(runs[s]) = last[p] /\ last[p] \in Nat
    BY <1>6 DEF InsertRun, InsertFree
  <2>2. /\ DOMAIN runs[s] = 1..last[p] /\ DOMAIN more = 1..(last[p] + 1) /\ Len(more) = last[p] + 1
        /\ more[last[p] + 1] = "running" /\ \A n \in 1..last[p] : more[n] = runs[s][n]
    BY <2>1, AppendProperties, LenProperties
  <2>3. proc[p] = "opened" /\ proc' = [proc EXCEPT ![p] = "stamping"] /\ UNCHANGED <<ses, last, slipped>>
    BY <1>6 DEF InsertRun, Become
  <2>4. \A q \in Proc \ {p} : proc'[q] = proc[q] /\ proc[q] \notin Holding
    BY <2>3
  <2>5. runs'[s] = more
    BY <1>6, <2>1 DEF InsertRun
  <2>6. s \notin slipped => \A n \in 1..last[p] : runs[s][n] # "running"
    BY <2>2, <2>3
  <2>7. s \notin slipped => \A n \in DOMAIN more : more[n] = "running" <=> n = last[p] + 1
    <3>1. \A n \in 1..(last[p] + 1) : n = last[p] + 1 \/ n \in 1..last[p]
      BY <2>1
    <3>2. last[p] + 1 \notin 1..last[p]
      BY <2>1
    <3> QED
      BY <2>2, <2>6, <3>1, <3>2
  <2>8. Len(runs'[s]) = last[p] + 1 /\ (s \notin slipped => \A n \in DOMAIN runs'[s] : runs'[s][n] = "running" <=> n = last[p] + 1)
    BY <2>2, <2>5, <2>7
  <2>9. proc'[p] = "stamping" /\ ses'[p] = s /\ last'[p] = last[p]
    BY <2>3
  <2>10. \A q \in Proc \ {p} : proc'[q] \notin {"opened", "stamping", "stamped", "looping"}
    BY <2>4
  <2> HIDE DEF SprintInv, TypeOK, OneHolds
  <2> QED
    BY <2>3, <2>8, <2>9, <2>10
<1>7. ASSUME NEW p \in Proc, BootFails(p) PROVE RowsInOrder'
  BY <1>7 DEF BootFails, Exit, Become
<1>8. ASSUME NEW p \in Proc, SetEndpointTruncate(p) PROVE RowsInOrder'
  BY <1>8 DEF SetEndpointTruncate, NoFile
<1>9. ASSUME NEW p \in Proc, SetEndpointWrite(p) PROVE RowsInOrder'
  BY <1>9 DEF SetEndpointWrite, Become, NoFile
<1>10. ASSUME NEW p \in Proc, Notify(p) PROVE RowsInOrder'
  BY <1>10 DEF Notify, Become
<1>11. ASSUME NEW p \in Proc, Stop(p) PROVE RowsInOrder'
  <2>1. proc[p] = "looping" /\ proc' = [proc EXCEPT ![p] = "stopping"] /\ UNCHANGED <<ses, last>>
    BY <1>11 DEF Stop, Become
  <2>2. \A q \in Proc \ {p} : proc'[q] = proc[q] /\ proc[q] \notin Holding
    BY <2>1
  <2> QED
    BY <2>1, <2>2
<1>12. ASSUME NEW p \in Proc, Release(p) PROVE RowsInOrder'
  BY <1>12 DEF Release, Exit, Become, NoFile
<1>13. ASSUME NEW p \in Proc, Die(p) PROVE RowsInOrder'
  BY <1>13 DEF Die, Exit, Become
<1>14. ASSUME NEW p \in Proc, Reuse(p) PROVE RowsInOrder'
  BY <1>14 DEF Reuse, Become
<1>15. ASSUME NEW p \in Proc, OtherEnds(p) PROVE RowsInOrder'
  BY <1>15 DEF OtherEnds, Become
<1>16. ASSUME NEW s \in Session, EndLooks(s) PROVE RowsInOrder'
  BY <1>16 DEF EndLooks, OwnLive, IsProcessLive, Serving
<1>17. ASSUME EndSignals PROVE RowsInOrder'
  BY <1>17 DEF EndSignals, Exit, Become
<1>18. ASSUME EndWaits PROVE RowsInOrder'
  BY <1>18 DEF EndWaits, Wait, OwnLive, IsProcessLive
<1>19. ASSUME EndFails PROVE RowsInOrder'
  BY <1>19 DEF EndFails, EndOver
<1>20. ASSUME EndMarks PROVE RowsInOrder'
  BY <1>20 DEF EndMarks, EndOver
<1>21. CASE UNCHANGED vars
  BY <1>21 DEF vars
<1> QED
  BY <1>1, <1>2, <1>3, <1>4, <1>5, <1>6, <1>7, <1>8, <1>9, <1>10, <1>11, <1>12, <1>13, <1>14,
       <1>15, <1>16, <1>17, <1>18, <1>19, <1>20, <1>21 DEF Next, RunStep

\* The session file.
LEMMA FileStep ==
  SprintInv /\ [Next]_vars => FileInOrder'
<1> SUFFICES ASSUME SprintInv, [Next]_vars PROVE FileInOrder'
  OBVIOUS
<1>0. None \notin Proc /\ None \notin Session
  BY SessionAssumption DEF SprintAssumption
<1> USE <1>0 DEF SprintInv, TypeOK, OneHolds, FileInOrder, Stamped, Holding, Booting, Stage, run,
        end
<1>1. ASSUME NEW p \in Proc, NEW s \in Session, Count(p, s) PROVE FileInOrder'
  BY <1>1 DEF Count, Become
<1>2. ASSUME NEW p \in Proc, AcquireBusy(p) PROVE FileInOrder'
  BY <1>2 DEF AcquireBusy, Exit, Become
<1>3. ASSUME NEW p \in Proc, Acquire(p) PROVE FileInOrder'
  BY <1>3 DEF Acquire, Become
<1>4. ASSUME NEW p \in Proc, Cancelled(p) PROVE FileInOrder'
  BY <1>4 DEF Cancelled, Exit, Become, NoFile
<1>5. ASSUME NEW p \in Proc, OpenSession(p) PROVE FileInOrder'
  BY <1>5 DEF OpenSession, Become
<1>6. ASSUME NEW p \in Proc, InsertRun(p) PROVE FileInOrder'
  BY <1>6 DEF InsertRun, InsertFree, Become
<1>7. ASSUME NEW p \in Proc, BootFails(p) PROVE FileInOrder'
  BY <1>7 DEF BootFails, Exit, Become
<1>8. ASSUME NEW p \in Proc, SetEndpointTruncate(p) PROVE FileInOrder'
  BY <1>8 DEF SetEndpointTruncate, NoFile
<1>9. ASSUME NEW p \in Proc, SetEndpointWrite(p) PROVE FileInOrder'
  BY <1>9 DEF SetEndpointWrite, Become, NoFile
<1>10. ASSUME NEW p \in Proc, Notify(p) PROVE FileInOrder'
  BY <1>10 DEF Notify, Become
<1>11. ASSUME NEW p \in Proc, Stop(p) PROVE FileInOrder'
  BY <1>11 DEF Stop, Become
<1>12. ASSUME NEW p \in Proc, Release(p) PROVE FileInOrder'
  BY <1>12 DEF Release, Exit, Become, NoFile
<1>13. ASSUME NEW p \in Proc, Die(p) PROVE FileInOrder'
  BY <1>13 DEF Die, Exit, Become
<1>14. ASSUME NEW p \in Proc, Reuse(p) PROVE FileInOrder'
  BY <1>14 DEF Reuse, Become
<1>15. ASSUME NEW p \in Proc, OtherEnds(p) PROVE FileInOrder'
  BY <1>15 DEF OtherEnds, Become
<1>16. ASSUME NEW s \in Session, EndLooks(s) PROVE FileInOrder'
  BY <1>16 DEF EndLooks, OwnLive, IsProcessLive, Serving
<1>17. ASSUME EndSignals PROVE FileInOrder'
  BY <1>17 DEF EndSignals, Exit, Become
<1>18. ASSUME EndWaits PROVE FileInOrder'
  BY <1>18 DEF EndWaits, Wait, OwnLive, IsProcessLive
<1>19. ASSUME EndFails PROVE FileInOrder'
  BY <1>19 DEF EndFails, EndOver
<1>20. ASSUME EndMarks PROVE FileInOrder'
  BY <1>20 DEF EndMarks, EndOver
<1>21. CASE UNCHANGED vars
  BY <1>21 DEF vars
<1> QED
  BY <1>1, <1>2, <1>3, <1>4, <1>5, <1>6, <1>7, <1>8, <1>9, <1>10, <1>11, <1>12, <1>13, <1>14,
       <1>15, <1>16, <1>17, <1>18, <1>19, <1>20, <1>21 DEF Next, RunStep

\* What `sprint end' has seen.
LEMMA EndStep ==
  SprintInv /\ [Next]_vars => EndInOrder'
<1> SUFFICES ASSUME SprintInv, [Next]_vars PROVE EndInOrder'
  OBVIOUS
<1>0. None \notin Proc /\ None \notin Session
  BY SessionAssumption DEF SprintAssumption
<1> USE <1>0 DEF SprintInv, TypeOK, OneHolds, FileInOrder, EndInOrder, Stamped, Holding, Booting,
        Stage, run, end
<1>1. ASSUME NEW p \in Proc, NEW s \in Session, Count(p, s) PROVE EndInOrder'
  BY <1>1 DEF Count, Become
<1>2. ASSUME NEW p \in Proc, AcquireBusy(p) PROVE EndInOrder'
  BY <1>2 DEF AcquireBusy, Exit, Become
<1>3. ASSUME NEW p \in Proc, Acquire(p) PROVE EndInOrder'
  BY <1>3 DEF Acquire, Become
<1>4. ASSUME NEW p \in Proc, Cancelled(p) PROVE EndInOrder'
  BY <1>4 DEF Cancelled, Exit, Become, NoFile
<1>5. ASSUME NEW p \in Proc, OpenSession(p) PROVE EndInOrder'
  BY <1>5 DEF OpenSession, Become
<1>6. ASSUME NEW p \in Proc, InsertRun(p) PROVE EndInOrder'
  BY <1>6 DEF InsertRun, InsertFree, Become
<1>7. ASSUME NEW p \in Proc, BootFails(p) PROVE EndInOrder'
  BY <1>7 DEF BootFails, Exit, Become
<1>8. ASSUME NEW p \in Proc, SetEndpointTruncate(p) PROVE EndInOrder'
  BY <1>8 DEF SetEndpointTruncate, NoFile
<1>9. ASSUME NEW p \in Proc, SetEndpointWrite(p) PROVE EndInOrder'
  BY <1>9 DEF SetEndpointWrite, Become, NoFile
<1>10. ASSUME NEW p \in Proc, Notify(p) PROVE EndInOrder'
  BY <1>10 DEF Notify, Become
<1>11. ASSUME NEW p \in Proc, Stop(p) PROVE EndInOrder'
  BY <1>11 DEF Stop, Become
<1>12. ASSUME NEW p \in Proc, Release(p) PROVE EndInOrder'
  BY <1>12 DEF Release, Exit, Become, NoFile
<1>13. ASSUME NEW p \in Proc, Die(p) PROVE EndInOrder'
  BY <1>13 DEF Die, Exit, Become
<1>14. ASSUME NEW p \in Proc, Reuse(p) PROVE EndInOrder'
  BY <1>14 DEF Reuse, Become
<1>15. ASSUME NEW p \in Proc, OtherEnds(p) PROVE EndInOrder'
  BY <1>15 DEF OtherEnds, Become
<1>16. ASSUME NEW s \in Session, EndLooks(s) PROVE EndInOrder'
  BY <1>16 DEF EndLooks, OwnLive, IsProcessLive, Serving
<1>17. ASSUME EndSignals PROVE EndInOrder'
  BY <1>17 DEF EndSignals, Exit, Become
<1>18. ASSUME EndWaits PROVE EndInOrder'
  BY <1>18 DEF EndWaits, Wait, OwnLive, IsProcessLive
<1>19. ASSUME EndFails PROVE EndInOrder'
  BY <1>19 DEF EndFails, EndOver
<1>20. ASSUME EndMarks PROVE EndInOrder'
  BY <1>20 DEF EndMarks, EndOver
<1>21. CASE UNCHANGED vars
  BY <1>21 DEF vars
<1> QED
  BY <1>1, <1>2, <1>3, <1>4, <1>5, <1>6, <1>7, <1>8, <1>9, <1>10, <1>11, <1>12, <1>13, <1>14,
       <1>15, <1>16, <1>17, <1>18, <1>19, <1>20, <1>21 DEF Next, RunStep

LEMMA SprintStep ==
  SprintInv /\ [Next]_vars => SprintInv'
BY TypeStep, HoldingStep, RowsStep, FileStep, EndStep DEF SprintInv

LEMMA SprintStart ==
  Init => SprintInv
<1> SUFFICES ASSUME Init PROVE SprintInv
  OBVIOUS
<1>1. None \notin Proc /\ None \notin Session
  BY SessionAssumption DEF SprintAssumption
<1>2. <<>> \in Seq({"running", "crashed", "completed"})
  OBVIOUS
<1> USE <1>1 DEF Init, NoFile, Holding, Booting
<1>3. TypeOK
  BY <1>2 DEF TypeOK, Stage
<1>4. OneHolds /\ RowsInOrder
  BY DEF OneHolds, RowsInOrder
<1>5. FileInOrder /\ EndInOrder
  BY DEF FileInOrder, EndInOrder
<1> QED
  BY <1>3, <1>4, <1>5 DEF SprintInv

\* The strengthened invariant holds whatever crashes, and whatever PIDs are used again.
THEOREM SprintInductive == Spec => []SprintInv
<1>1. Init => SprintInv
  BY SprintStart
<1>2. SprintInv /\ [Next]_vars => SprintInv'
  BY SprintStep
<1> QED
  BY <1>1, <1>2, PTL DEF Spec

\* A supervisor in its loop has the newest row of its session's runs table, and it is
\* the only one "running", unless an UPDATE was lost (sprint.go: the crashed runs, INSERT).
THEOREM RunRows == Spec => []RunRowsTrue
<1>1. SprintInv => RunRowsTrue
  BY DEF SprintInv, OneHolds, RowsInOrder, RunRowsTrue, Holding
<1> QED
  BY <1>1, SprintInductive, PTL

\* `sprint end' marks its session ended only when the supervisor that served it when the
\* command looked has left its loop (sprint.go: the poll of ownLiveSupervisor).
THEOREM EndStops == Spec => EndStopsServing
<1>1. SprintInv /\ [Next]_vars => [ended' # ended => \A p \in served : proc[p] # "looping"]_vars
  <2> SUFFICES ASSUME SprintInv, [Next]_vars, ended' # ended
               PROVE  \A p \in served : proc[p] # "looping"
    OBVIOUS
  <2>1. EndMarks
    BY DEF Next, RunStep, vars, Count, AcquireBusy, Acquire, Cancelled, OpenSession, InsertRun,
         BootFails,
           SetEndpointTruncate, SetEndpointWrite, Notify, Stop, Release, Die, Reuse, OtherEnds,
           EndLooks, EndSignals, EndWaits, EndFails
  <2> QED
    BY <2>1 DEF SprintInv, EndInOrder, EndMarks
<1> QED
  BY <1>1, SprintInductive, PTL DEF Spec, EndStopsServing

\* `sprint end' signals a loop only of its own session: the PID it took from the session
\* file still is that supervisor's, or is nobody's that holds the lease.
THEOREM SignalsOwn == Spec => SignalsOwnSession
<1>1. SprintInv /\ [Next]_vars => [\A p \in term' \ term : ses[p] = target]_vars
  <2> SUFFICES ASSUME SprintInv, [Next]_vars, NEW p \in term' \ term
               PROVE  ses[p] = target
    OBVIOUS
  <2>1. CASE EndSignals
    <3>1. proc[victim] \in {"looping", "stopping"}
      BY <2>1 DEF EndSignals, run, Exit
    <3>2. p = victim
      BY <2>1, <3>1 DEF EndSignals
    <3> QED
      BY <2>1, <3>1, <3>2 DEF SprintInv, EndInOrder, EndSignals, Holding
  <2>2. ASSUME NEW q \in Proc, RunStep(q) PROVE FALSE
    BY <2>2 DEF RunStep, run, Count, AcquireBusy, Acquire, Cancelled, OpenSession, InsertRun,
         BootFails,
           SetEndpointTruncate, SetEndpointWrite, Notify, Stop, Release, Die, Reuse, OtherEnds, Exit
  <2>3. CASE UNCHANGED vars
    BY <2>3 DEF vars, run
  <2>4. CASE (\E s \in Session : EndLooks(s)) \/ EndWaits \/ EndFails \/ EndMarks
    BY <2>4 DEF run, EndLooks, EndWaits, EndFails, EndMarks
  <2> QED
    BY <2>1, <2>2, <2>3, <2>4 DEF Next
<1> QED
  BY <1>1, SprintInductive, PTL DEF Spec, SignalsOwnSession

-----------------------------------------------------------------------------
(* SessionRepo: snapshots of a session's directory.  The inductive invariant. *)

\* A snapshot that nothing has overlapped is the only one.
Alone ==
  \A p \in Session : rpc[p] \in R!Snapshot /\ clash[p] = "no" =>
    \A q \in Session \ {p} : rpc[q] \notin R!Snapshot

\* What a snapshot must see committed was there when it began, and is never lost.
Needed ==
  \A p \in Session : rpc[p] \in R!Snapshot =>
    needs[p].sql > 0 /\ needs[p].sql <= db /\ needs[p].art <= art

\* ... and it is in the dump, step by step from the read to the index.
Carried(p) ==
  /\ rpc[p] \in {"dumped", "writing"} => got[p] >= needs[p].sql
  /\ rpc[p] = "writing" => fd[p] = tmp /\ tmp # None
  /\ rpc[p] = "written" => tmp # None /\ data[tmp] >= needs[p].sql
  /\ rpc[p] = "renamed" => sql # None /\ data[sql] >= needs[p].sql
  /\ rpc[p] = "added" => R!Covers(staged, needs[p])
DumpInOrder == \A p \in Session : clash[p] = "no" => Carried(p)

LeaseServes == lease # None => rpc[lease] # "idle"

RepoInv == R!TypeOK /\ Alone /\ Needed /\ DumpInOrder /\ LeaseServes

\* The types.
LEMMA RepoTypeStep ==
  RepoInv /\ [R!Next]_(R!vars) => R!TypeOK'
<1> SUFFICES ASSUME RepoInv, [R!Next]_(R!vars) PROVE R!TypeOK'
  OBVIOUS
<1>0. None \notin Proc /\ None \notin Session /\ MaxVersion \in Nat \ {0} /\ MaxArtifacts \in Nat
  BY SessionAssumption DEF R!RepoAssumption
<1> USE <1>0 DEF RepoInv, R!TypeOK, R!Version, R!Tree, R!Snapshot, R!Torn, R!Nothing,
        LeaseServes, R!files, R!git, R!procs, R!hist
<1>1. ASSUME NEW p \in Session, R!Start(p) PROVE R!TypeOK'
  BY <1>1 DEF R!Start, R!Become
<1>2. ASSUME NEW p \in Session, R!StartDies(p) PROVE R!TypeOK'
  BY <1>2 DEF R!StartDies
<1>3. ASSUME NEW p \in Session, R!End(p) PROVE R!TypeOK'
  BY <1>3 DEF R!End, R!Become
<1>4. ASSUME NEW p \in Session, R!Change(p) PROVE R!TypeOK'
  BY <1>4 DEF R!Change, R!Begin, R!Become
<1>5. ASSUME NEW p \in Session, R!Run(p) PROVE R!TypeOK'
  BY <1>5 DEF R!Run, R!Begin, R!Become
<1>6. ASSUME NEW p \in Session, R!OpenDatabase(p) PROVE R!TypeOK'
  BY <1>6 DEF R!OpenDatabase, R!Become
<1>7. ASSUME NEW p \in Session, R!ServeDatabase(p) PROVE R!TypeOK'
  BY <1>7 DEF R!ServeDatabase
<1>8. ASSUME NEW p \in Session, R!WorkerWrites(p) PROVE R!TypeOK'
  BY <1>8 DEF R!WorkerWrites
<1>9. ASSUME NEW p \in Session, R!Dump(p) PROVE R!TypeOK'
  BY <1>9 DEF R!Dump, R!Become
<1>10. ASSUME NEW p \in Session, R!CreateTmp(p) PROVE R!TypeOK'
  BY <1>10 DEF R!CreateTmp, R!Become
<1>11. ASSUME NEW p \in Session, R!WriteTmp(p) PROVE R!TypeOK'
  <2>1. data' \in [Proc -> R!Version]
    BY <1>11 DEF R!WriteTmp
  <2>2. got' \in [Session -> R!Version] /\ fd' \in [Session -> Proc \cup {None}]
    BY <1>11 DEF R!WriteTmp
  <2> QED
    BY <1>11, <2>1, <2>2 DEF R!WriteTmp, R!Become
<1>12. ASSUME NEW p \in Session, R!RenameTmp(p) PROVE R!TypeOK'
  BY <1>12 DEF R!RenameTmp, R!Become
<1>13. ASSUME NEW p \in Session, R!RenameFails(p) PROVE R!TypeOK'
  BY <1>13 DEF R!RenameFails, R!Return, R!Become
<1>14. ASSUME NEW p \in Session, R!Clean(p) PROVE R!TypeOK'
  BY <1>14 DEF R!Clean, R!Become
<1>15. ASSUME NEW p \in Session, R!Add(p) PROVE R!TypeOK'
  BY <1>15 DEF R!Add, R!Staged, R!Tracked, R!Become
<1>16. ASSUME NEW p \in Session, R!Commit(p) PROVE R!TypeOK'
  <2>1. head' = staged /\ UNCHANGED <<db, art, R!files, staged, stray>>
    BY <1>16 DEF R!Commit
  <2>2. CASE prog[p] = "run"
    BY <1>16, <2>1, <2>2 DEF R!Commit, R!Become
  <2>3. CASE prog[p] # "run"
    <3>1. R!Return(p)
      BY <1>16, <2>3 DEF R!Commit
    <3> QED
      BY <2>1, <3>1 DEF R!Return, R!Become
  <2> QED
    BY <2>2, <2>3
<1>17. ASSUME NEW p \in Session, R!Quit(p) PROVE R!TypeOK'
  BY <1>17 DEF R!Quit, R!Return, R!Become
<1>18. CASE UNCHANGED R!vars
  BY <1>18 DEF R!vars
<1> QED
  BY <1>1, <1>2, <1>3, <1>4, <1>5, <1>6, <1>7, <1>8, <1>9, <1>10, <1>11, <1>12, <1>13, <1>14,
       <1>15, <1>16, <1>17, <1>18 DEF R!Next

\* A snapshot alone stays alone.
LEMMA AloneStep ==
  RepoInv /\ [R!Next]_(R!vars) => Alone'
<1> SUFFICES ASSUME RepoInv, [R!Next]_(R!vars) PROVE Alone'
  OBVIOUS
<1>0. None \notin Proc /\ None \notin Session /\ MaxVersion \in Nat \ {0} /\ MaxArtifacts \in Nat
  BY SessionAssumption DEF R!RepoAssumption
<1> USE <1>0 DEF RepoInv, R!TypeOK, R!Version, R!Tree, R!Snapshot, R!Torn, R!Nothing, Alone,
        R!files, R!git, R!procs, R!hist
<1>1. ASSUME NEW p \in Session, R!Start(p) PROVE Alone'
  BY <1>1 DEF R!Start, R!Become
<1>2. ASSUME NEW p \in Session, R!StartDies(p) PROVE Alone'
  BY <1>2 DEF R!StartDies
<1>3. ASSUME NEW p \in Session, R!End(p) PROVE Alone'
  BY <1>3 DEF R!End, R!Become
<1>4. ASSUME NEW p \in Session, R!Change(p) PROVE Alone'
  BY <1>4 DEF R!Change, R!Begin, R!Become
<1>5. ASSUME NEW p \in Session, R!Run(p) PROVE Alone'
  BY <1>5 DEF R!Run, R!Begin, R!Become
<1>6. ASSUME NEW p \in Session, R!OpenDatabase(p) PROVE Alone'
  BY <1>6 DEF R!OpenDatabase, R!Become
<1>7. ASSUME NEW p \in Session, R!ServeDatabase(p) PROVE Alone'
  BY <1>7 DEF R!ServeDatabase
<1>8. ASSUME NEW p \in Session, R!WorkerWrites(p) PROVE Alone'
  BY <1>8 DEF R!WorkerWrites
<1>9. ASSUME NEW p \in Session, R!Dump(p) PROVE Alone'
  BY <1>9 DEF R!Dump, R!Become
<1>10. ASSUME NEW p \in Session, R!CreateTmp(p) PROVE Alone'
  BY <1>10 DEF R!CreateTmp, R!Become
<1>11. ASSUME NEW p \in Session, R!WriteTmp(p) PROVE Alone'
  BY <1>11 DEF R!WriteTmp, R!Become
<1>12. ASSUME NEW p \in Session, R!RenameTmp(p) PROVE Alone'
  BY <1>12 DEF R!RenameTmp, R!Become
<1>13. ASSUME NEW p \in Session, R!RenameFails(p) PROVE Alone'
  BY <1>13 DEF R!RenameFails, R!Return, R!Become
<1>14. ASSUME NEW p \in Session, R!Clean(p) PROVE Alone'
  BY <1>14 DEF R!Clean, R!Become
<1>15. ASSUME NEW p \in Session, R!Add(p) PROVE Alone'
  BY <1>15 DEF R!Add, R!Staged, R!Tracked, R!Become
<1>16. ASSUME NEW p \in Session, R!Commit(p) PROVE Alone'
  BY <1>16 DEF R!Commit, R!Return, R!Become
<1>17. ASSUME NEW p \in Session, R!Quit(p) PROVE Alone'
  BY <1>17 DEF R!Quit, R!Return, R!Become
<1>18. CASE UNCHANGED R!vars
  BY <1>18 DEF R!vars
<1> QED
  BY <1>1, <1>2, <1>3, <1>4, <1>5, <1>6, <1>7, <1>8, <1>9, <1>10, <1>11, <1>12, <1>13, <1>14,
       <1>15, <1>16, <1>17, <1>18 DEF R!Next

\* What is needed is there.
LEMMA NeededStep ==
  RepoInv /\ [R!Next]_(R!vars) => Needed'
<1> SUFFICES ASSUME RepoInv, [R!Next]_(R!vars) PROVE Needed'
  OBVIOUS
<1>0. None \notin Proc /\ None \notin Session /\ MaxVersion \in Nat \ {0} /\ MaxArtifacts \in Nat
  BY SessionAssumption DEF R!RepoAssumption
<1> USE <1>0 DEF RepoInv, R!TypeOK, R!Version, R!Tree, R!Snapshot, R!Torn, R!Nothing, Needed,
        R!files, R!git, R!procs, R!hist
<1>1. ASSUME NEW p \in Session, R!Start(p) PROVE Needed'
  BY <1>1 DEF R!Start, R!Become
<1>2. ASSUME NEW p \in Session, R!StartDies(p) PROVE Needed'
  BY <1>2 DEF R!StartDies
<1>3. ASSUME NEW p \in Session, R!End(p) PROVE Needed'
  BY <1>3 DEF R!End, R!Become
<1>4. ASSUME NEW p \in Session, R!Change(p) PROVE Needed'
  BY <1>4 DEF R!Change, R!Begin, R!Become
<1>5. ASSUME NEW p \in Session, R!Run(p) PROVE Needed'
  BY <1>5 DEF R!Run, R!Begin, R!Become
<1>6. ASSUME NEW p \in Session, R!OpenDatabase(p) PROVE Needed'
  BY <1>6 DEF R!OpenDatabase, R!Become
<1>7. ASSUME NEW p \in Session, R!ServeDatabase(p) PROVE Needed'
  BY <1>7 DEF R!ServeDatabase
<1>8. ASSUME NEW p \in Session, R!WorkerWrites(p) PROVE Needed'
  BY <1>8 DEF R!WorkerWrites
<1>9. ASSUME NEW p \in Session, R!Dump(p) PROVE Needed'
  BY <1>9 DEF R!Dump, R!Become
<1>10. ASSUME NEW p \in Session, R!CreateTmp(p) PROVE Needed'
  BY <1>10 DEF R!CreateTmp, R!Become
<1>11. ASSUME NEW p \in Session, R!WriteTmp(p) PROVE Needed'
  BY <1>11 DEF R!WriteTmp, R!Become
<1>12. ASSUME NEW p \in Session, R!RenameTmp(p) PROVE Needed'
  BY <1>12 DEF R!RenameTmp, R!Become
<1>13. ASSUME NEW p \in Session, R!RenameFails(p) PROVE Needed'
  BY <1>13 DEF R!RenameFails, R!Return, R!Become
<1>14. ASSUME NEW p \in Session, R!Clean(p) PROVE Needed'
  BY <1>14 DEF R!Clean, R!Become
<1>15. ASSUME NEW p \in Session, R!Add(p) PROVE Needed'
  BY <1>15 DEF R!Add, R!Staged, R!Tracked, R!Become
<1>16. ASSUME NEW p \in Session, R!Commit(p) PROVE Needed'
  BY <1>16 DEF R!Commit, R!Return, R!Become
<1>17. ASSUME NEW p \in Session, R!Quit(p) PROVE Needed'
  BY <1>17 DEF R!Quit, R!Return, R!Become
<1>18. CASE UNCHANGED R!vars
  BY <1>18 DEF R!vars
<1> QED
  BY <1>1, <1>2, <1>3, <1>4, <1>5, <1>6, <1>7, <1>8, <1>9, <1>10, <1>11, <1>12, <1>13, <1>14,
       <1>15, <1>16, <1>17, <1>18 DEF R!Next

\* The dump on its way.
LEMMA DumpStep ==
  RepoInv /\ [R!Next]_(R!vars) => DumpInOrder'
<1> SUFFICES ASSUME RepoInv, [R!Next]_(R!vars) PROVE DumpInOrder'
  OBVIOUS
<1>0. None \notin Proc /\ None \notin Session /\ MaxVersion \in Nat \ {0} /\ MaxArtifacts \in Nat
  BY SessionAssumption DEF R!RepoAssumption
<1> USE <1>0 DEF RepoInv, R!TypeOK, R!Version, R!Tree, R!Snapshot, R!Torn, R!Nothing, Alone,
        Needed, DumpInOrder, Carried, R!Covers, R!files, R!git, R!procs, R!hist
<1>1. ASSUME NEW p \in Session, R!Start(p) PROVE DumpInOrder'
  BY <1>1 DEF R!Start, R!Become
<1>2. ASSUME NEW p \in Session, R!StartDies(p) PROVE DumpInOrder'
  BY <1>2 DEF R!StartDies
<1>3. ASSUME NEW p \in Session, R!End(p) PROVE DumpInOrder'
  BY <1>3 DEF R!End, R!Become
<1>4. ASSUME NEW p \in Session, R!Change(p) PROVE DumpInOrder'
  BY <1>4 DEF R!Change, R!Begin, R!Become
<1>5. ASSUME NEW p \in Session, R!Run(p) PROVE DumpInOrder'
  BY <1>5 DEF R!Run, R!Begin, R!Become
<1>6. ASSUME NEW p \in Session, R!OpenDatabase(p) PROVE DumpInOrder'
  BY <1>6 DEF R!OpenDatabase, R!Become
<1>7. ASSUME NEW p \in Session, R!ServeDatabase(p) PROVE DumpInOrder'
  BY <1>7 DEF R!ServeDatabase
<1>8. ASSUME NEW p \in Session, R!WorkerWrites(p) PROVE DumpInOrder'
  BY <1>8 DEF R!WorkerWrites
<1>9. ASSUME NEW p \in Session, R!Dump(p) PROVE DumpInOrder'
  BY <1>9 DEF R!Dump, R!Become
<1>10. ASSUME NEW p \in Session, R!CreateTmp(p) PROVE DumpInOrder'
  BY <1>10 DEF R!CreateTmp, R!Become
<1>11. ASSUME NEW p \in Session, R!WriteTmp(p) PROVE DumpInOrder'
  BY <1>11 DEF R!WriteTmp, R!Become
<1>12. ASSUME NEW p \in Session, R!RenameTmp(p) PROVE DumpInOrder'
  BY <1>12 DEF R!RenameTmp, R!Become
<1>13. ASSUME NEW p \in Session, R!RenameFails(p) PROVE DumpInOrder'
  BY <1>13 DEF R!RenameFails, R!Return, R!Become
<1>14. ASSUME NEW p \in Session, R!Clean(p) PROVE DumpInOrder'
  BY <1>14 DEF R!Clean, R!Become
<1>15. ASSUME NEW p \in Session, R!Add(p) PROVE DumpInOrder'
  BY <1>15 DEF R!Add, R!Staged, R!Tracked, R!Become
<1>16. ASSUME NEW p \in Session, R!Commit(p) PROVE DumpInOrder'
  BY <1>16 DEF R!Commit, R!Return, R!Become
<1>17. ASSUME NEW p \in Session, R!Quit(p) PROVE DumpInOrder'
  BY <1>17 DEF R!Quit, R!Return, R!Become
<1>18. CASE UNCHANGED R!vars
  BY <1>18 DEF R!vars
<1> QED
  BY <1>1, <1>2, <1>3, <1>4, <1>5, <1>6, <1>7, <1>8, <1>9, <1>10, <1>11, <1>12, <1>13, <1>14,
       <1>15, <1>16, <1>17, <1>18 DEF R!Next

\* The lease.
LEMMA LeaseStep ==
  RepoInv /\ [R!Next]_(R!vars) => LeaseServes'
<1> SUFFICES ASSUME RepoInv, [R!Next]_(R!vars) PROVE LeaseServes'
  OBVIOUS
<1>0. None \notin Proc /\ None \notin Session /\ MaxVersion \in Nat \ {0} /\ MaxArtifacts \in Nat
  BY SessionAssumption DEF R!RepoAssumption
<1> USE <1>0 DEF RepoInv, R!TypeOK, R!Version, R!Tree, R!Snapshot, R!Torn, R!Nothing,
        LeaseServes, R!files, R!git, R!procs, R!hist
<1>1. ASSUME NEW p \in Session, R!Start(p) PROVE LeaseServes'
  BY <1>1 DEF R!Start, R!Become
<1>2. ASSUME NEW p \in Session, R!StartDies(p) PROVE LeaseServes'
  BY <1>2 DEF R!StartDies
<1>3. ASSUME NEW p \in Session, R!End(p) PROVE LeaseServes'
  BY <1>3 DEF R!End, R!Become
<1>4. ASSUME NEW p \in Session, R!Change(p) PROVE LeaseServes'
  BY <1>4 DEF R!Change, R!Begin, R!Become
<1>5. ASSUME NEW p \in Session, R!Run(p) PROVE LeaseServes'
  BY <1>5 DEF R!Run, R!Begin, R!Become
<1>6. ASSUME NEW p \in Session, R!OpenDatabase(p) PROVE LeaseServes'
  BY <1>6 DEF R!OpenDatabase, R!Become
<1>7. ASSUME NEW p \in Session, R!ServeDatabase(p) PROVE LeaseServes'
  BY <1>7 DEF R!ServeDatabase
<1>8. ASSUME NEW p \in Session, R!WorkerWrites(p) PROVE LeaseServes'
  BY <1>8 DEF R!WorkerWrites
<1>9. ASSUME NEW p \in Session, R!Dump(p) PROVE LeaseServes'
  BY <1>9 DEF R!Dump, R!Become
<1>10. ASSUME NEW p \in Session, R!CreateTmp(p) PROVE LeaseServes'
  BY <1>10 DEF R!CreateTmp, R!Become
<1>11. ASSUME NEW p \in Session, R!WriteTmp(p) PROVE LeaseServes'
  BY <1>11 DEF R!WriteTmp, R!Become
<1>12. ASSUME NEW p \in Session, R!RenameTmp(p) PROVE LeaseServes'
  BY <1>12 DEF R!RenameTmp, R!Become
<1>13. ASSUME NEW p \in Session, R!RenameFails(p) PROVE LeaseServes'
  BY <1>13 DEF R!RenameFails, R!Return, R!Become
<1>14. ASSUME NEW p \in Session, R!Clean(p) PROVE LeaseServes'
  BY <1>14 DEF R!Clean, R!Become
<1>15. ASSUME NEW p \in Session, R!Add(p) PROVE LeaseServes'
  BY <1>15 DEF R!Add, R!Staged, R!Tracked, R!Become
<1>16. ASSUME NEW p \in Session, R!Commit(p) PROVE LeaseServes'
  BY <1>16 DEF R!Commit, R!Return, R!Become
<1>17. ASSUME NEW p \in Session, R!Quit(p) PROVE LeaseServes'
  BY <1>17 DEF R!Quit, R!Return, R!Become
<1>18. CASE UNCHANGED R!vars
  BY <1>18 DEF R!vars
<1> QED
  BY <1>1, <1>2, <1>3, <1>4, <1>5, <1>6, <1>7, <1>8, <1>9, <1>10, <1>11, <1>12, <1>13, <1>14,
       <1>15, <1>16, <1>17, <1>18 DEF R!Next

LEMMA RepoStart ==
  R!Init => RepoInv
<1> SUFFICES ASSUME R!Init PROVE RepoInv
  OBVIOUS
<1>0. None \notin Proc /\ None \notin Session /\ MaxVersion \in Nat \ {0} /\ MaxArtifacts \in Nat
  BY SessionAssumption DEF R!RepoAssumption
<1> QED
  BY <1>0 DEF RepoInv, R!Init, R!TypeOK, R!Version, R!Tree, R!Snapshot, R!Torn, R!Nothing,
              Alone, Needed, DumpInOrder, Carried, LeaseServes

\* The strengthened invariant holds however many commands overlap, fail and die.
THEOREM RepoInductive == R!Spec => []RepoInv
<1>1. RepoInv /\ [R!Next]_(R!vars) => RepoInv'
  BY RepoTypeStep, AloneStep, NeededStep, DumpStep, LeaseStep DEF RepoInv
<1> QED
  BY <1>1, RepoStart, PTL DEF R!Spec

\* When a `sprint run' goes on to open the database, the last commit has all that the run
\* before it left, unless another snapshot overlapped (store.go: CaptureCrashedRun).
THEOREM Captured == R!Spec => CapturedBeforeChange
<1>1. RepoInv /\ [R!Next]_(R!vars) =>
        [\A p \in Session : rpc[p] # "opened" /\ rpc'[p] = "opened" /\ clash[p] = "no" =>
           R!Covers(head', needs[p])]_(R!vars)
  <2> SUFFICES ASSUME RepoInv, R!Next, NEW p \in Session,
                      rpc[p] # "opened", rpc'[p] = "opened", clash[p] = "no"
               PROVE  R!Covers(head', needs[p])
    BY DEF R!vars
  <2>0. PICK q \in Session : R!Clean(q) \/ (R!Commit(q) /\ prog[q] = "run")
    BY DEF R!Next, RepoInv, R!TypeOK, R!Start, R!StartDies, R!End, R!Change, R!Begin, R!Run,
         R!OpenDatabase,
           R!ServeDatabase, R!WorkerWrites, R!Dump, R!CreateTmp, R!WriteTmp, R!RenameTmp, R!RenameFails,
           R!Add, R!Commit, R!Quit, R!Return, R!Become, R!procs
  <2>1. q = p
    BY <2>0 DEF RepoInv, R!TypeOK, R!Clean, R!Commit, R!Become
  <2>2. CASE R!Clean(p)
    <3>1. rpc[p] = "renamed" /\ R!Tracked = head /\ head' = head
      BY <2>2 DEF R!Clean, R!Dirty, R!git
    <3>2. sql # None /\ data[sql] >= needs[p].sql /\ needs[p].sql > 0 /\ needs[p].art <= art
      BY <3>1 DEF RepoInv, DumpInOrder, Carried, Needed, R!Snapshot
    <3>3. data[sql] \in Nat /\ needs[p].sql \in Nat /\ needs[p].art \in Nat /\ art \in Nat
      BY <3>2, SessionAssumption DEF RepoInv, R!TypeOK, R!Version, R!Tree, R!RepoAssumption
    <3>4. head.sql = data[sql] /\ head.art = art
      BY <3>1, <3>2 DEF R!Tracked
    <3> QED
      BY <3>1, <3>2, <3>3, <3>4 DEF R!Covers, R!Torn
  <2>3. CASE R!Commit(p)
    BY <2>3 DEF R!Commit, RepoInv, DumpInOrder, Carried
  <2> QED
    BY <2>0, <2>1, <2>2, <2>3
<1> QED
  BY <1>1, RepoInductive, PTL DEF R!Spec, CapturedBeforeChange, R!CapturedBeforeChange

\* A `sprint start' or `sprint end' that reports success has its change in the commit it
\* made, unless another snapshot overlapped (store.go: SnapshotAndCommit).
THEOREM Reported == R!Spec => ReportedIsCommitted
<1>1. RepoInv /\ [R!Next]_(R!vars) =>
        [\A p \in Session : prog[p] \in {"start", "end"} /\ R!Commits(p) /\ clash[p] = "no" =>
           R!Covers(head', needs[p])]_(R!vars)
  <2> SUFFICES ASSUME RepoInv, R!Next, NEW p \in Session, R!Commits(p), clash[p] = "no"
               PROVE  R!Covers(head', needs[p])
    BY DEF R!vars, R!Commits, R!git
  <2>1. PICK q \in Session : R!Commit(q)
    BY DEF R!Commits, R!Next, R!Start, R!StartDies, R!End, R!Change, R!Run, R!OpenDatabase,
           R!ServeDatabase, R!WorkerWrites, R!Dump, R!CreateTmp, R!WriteTmp, R!RenameTmp, R!RenameFails,
           R!Clean, R!Add, R!Quit, R!git
  <2>2. head' = staged
    BY <2>1 DEF R!Commit
  <2> QED
    BY <2>2 DEF R!Commits, RepoInv, DumpInOrder, Carried
<1> QED
  BY <1>1, RepoInductive, PTL DEF R!Spec, ReportedIsCommitted, R!ReportedIsCommitted

-----------------------------------------------------------------------------
(* MemoryStore.                                                             *)

\* Every agent has one process: what MCMemoryShared does without.
AgentsAlone == \A p, q \in Client : AgentOf[p] = AgentOf[q] => p = q

\* A set of natural numbers up to n that is not empty has a greatest element.
LEMMA Greatest ==
  ASSUME NEW n \in Nat, NEW T \in SUBSET 1..n, T # {}
  PROVE  \E x \in T : \A y \in T : y <= x
<1> DEFINE Above == {m \in Nat : \A y \in T : y <= m}
<1>1. PICK x \in Above : \A m \in Above : ~ (<<m, x>> \in OpToRel(<, Nat))
  <2>1. n \in Above
    OBVIOUS
  <2> QED
    BY <2>1, NatLessThanWellFounded, WFMin
<1>2. \A m \in Above : ~ (m < x)
  <2> SUFFICES ASSUME NEW m \in Above PROVE ~ (m < x)
    OBVIOUS
  <2>1. ~ (<<m, x>> \in {p \in Nat \X Nat : p[1] < p[2]})
    BY <1>1 DEF OpToRel
  <2>2. m \in Nat /\ x \in Nat
    OBVIOUS
  <2> QED
    BY <2>1, <2>2
<1>3. x \in T
  <2>1. SUFFICES ASSUME x \notin T PROVE FALSE
    OBVIOUS
  <2>2. \A y \in T : y <= x - 1 /\ y \in Nat \ {0}
    BY <2>1
  <2>3. x - 1 \in Nat
    <3>1. PICK y \in T : TRUE
      OBVIOUS
    <3>2. y <= x - 1 /\ y \in Nat /\ x \in Nat /\ y >= 1
      BY <2>2, <3>1
    <3> QED
      BY <3>2
  <2>4. x - 1 \in Above
    BY <2>2, <2>3
  <2> QED
    BY <1>2, <2>4
<1> QED
  BY <1>3

\* The page of a fact is the one of the last commit on it.
LEMMA PageOf ==
  ASSUME NEW log \in Seq(M!Commit), NEW f
  PROVE  /\ M!PageIn(log, f) \in M!Page \cup {None}
         /\ M!PageIn(log, f) = None <=> \A k \in 1..Len(log) : log[k].fact # f
         /\ M!PageIn(log, f) # None =>
              \E k \in 1..Len(log) : log[k].fact = f /\ M!PageIn(log, f) = log[k].page
<1> DEFINE on == {k \in DOMAIN log : log[k].fact = f}
<1>1. DOMAIN log = 1..Len(log) /\ Len(log) \in Nat /\ \A k \in 1..Len(log) : log[k].page \in M!Page
  <2>1. \A c \in M!Commit : c.page \in M!Page
    BY DEF M!Commit
  <2> QED
    BY <2>1
<1>2. None \notin M!Page
  BY SessionAssumption DEF M!MemoryAssumption
<1>3. CASE on = {}
  BY <1>1, <1>3 DEF M!PageIn
<1>4. CASE on # {}
  <2>1. \E k \in on : \A j \in on : j <= k
    <3>1. on \in SUBSET 1..Len(log)
      BY <1>1
    <3> HIDE DEF on
    <3> QED
      BY <1>1, <1>4, <3>1, Greatest
  <2> DEFINE top == CHOOSE k \in on : \A j \in on : j <= k
  <2>2. top \in on
    BY <2>1
  <2>3. M!PageIn(log, f) = log[top].page
    BY <1>4 DEF M!PageIn
  <2> HIDE DEF top
  <2> QED
    BY <1>1, <1>2, <2>2, <2>3
<1> QED
  BY <1>3, <1>4

\* A prefix of a log, and what a log keeps when a commit is added to it.
LEMMA Prefix ==
  ASSUME NEW S, NEW log \in Seq(S), NEW n \in 0..Len(log)
  PROVE  /\ SubSeq(log, 1, n) \in Seq(S) /\ Len(SubSeq(log, 1, n)) = n
         /\ \A k \in 1..n : SubSeq(log, 1, n)[k] = log[k]
<1>1. Len(log) \in Nat /\ n \in Nat /\ \A i \in 1..n : log[i] \in S
  OBVIOUS
<1>2. 1 \in Int /\ n \in Int
  BY <1>1
<1>3. /\ SubSeq(log, 1, n) \in Seq(S)
      /\ Len(SubSeq(log, 1, n)) = (IF 1 <= n THEN n - 1 + 1 ELSE 0)
      /\ \A i \in 1..(n - 1 + 1) : SubSeq(log, 1, n)[i] = log[1 + i - 1]
  BY <1>1, <1>2, SubSeqProperties
<1> QED
  BY <1>1, <1>3

LEMMA LogGrows ==
  ASSUME NEW S, NEW log \in Seq(S), NEW c \in S
  PROVE  /\ Append(log, c) \in Seq(S) /\ Len(Append(log, c)) = Len(log) + 1
         /\ Append(log, c)[Len(log) + 1] = c
         /\ \A k \in 1..Len(log) : Append(log, c)[k] = log[k]
         /\ \A n \in 0..Len(log) : SubSeq(Append(log, c), 1, n) = SubSeq(log, 1, n)
         /\ SubSeq(log, 1, Len(log)) = log
<1>1. /\ Append(log, c) \in Seq(S) /\ Len(Append(log, c)) = Len(log) + 1
      /\ Append(log, c)[Len(log) + 1] = c
      /\ \A k \in 1..Len(log) : Append(log, c)[k] = log[k]
      /\ Len(log) \in Nat
  OBVIOUS
<1>2. ASSUME NEW n \in 0..Len(log) PROVE SubSeq(Append(log, c), 1, n) = SubSeq(log, 1, n)
  <2> DEFINE long == Append(log, c)
             s == SubSeq(log, 1, n)
             t == SubSeq(long, 1, n)
  <2>1. s \in Seq(S) /\ Len(s) = n /\ \A k \in 1..n : s[k] = log[k]
    BY Prefix
  <2>2. n \in 0..Len(long) /\ long \in Seq(S) /\ \A k \in 1..n : long[k] = log[k]
    BY <1>1
  <2> HIDE DEF long
  <2>3. t \in Seq(S) /\ Len(t) = n /\ \A k \in 1..n : t[k] = long[k]
    BY <2>2, Prefix
  <2> HIDE DEF s, t
  <2>4. s = t
    BY <2>1, <2>2, <2>3, SeqEqual
  <2> QED
    BY <2>4 DEF s, t, long
<1> QED
  BY <1>1, <1>2, SubSeqFull

\* What a rebase makes of a clone that has no commit of its own, or one.
LEMMA ReplayNone ==
  ASSUME NEW a, own[a] = <<>>
  PROVE  M!Replay(a) = [clean |-> TRUE, new |-> <<>>]
<1> DEFINE eq(f) == f = [k \in 0..Len(own[a]) |->
              IF k = 0 THEN [clean |-> TRUE, new |-> <<>>] ELSE M!ReplayOne(a, k, f[k - 1])]
           f0 == [k \in 0..0 |-> [clean |-> TRUE, new |-> <<>>]]
<1>1. Len(own[a]) = 0
  OBVIOUS
<1>2. M!ReplayUpTo(a) = CHOOSE f : eq(f)
  BY DEF M!ReplayUpTo
<1>3. eq(f0)
  BY <1>1
<1>4. eq(M!ReplayUpTo(a))
  BY <1>2, <1>3
<1>5. M!ReplayUpTo(a)[0] = [clean |-> TRUE, new |-> <<>>]
  BY <1>1, <1>4
<1> QED
  BY <1>1, <1>5 DEF M!Replay

LEMMA ReplayOne ==
  ASSUME NEW a, Len(own[a]) = 1
  PROVE  M!Replay(a) = M!ReplayOne(a, 1, [clean |-> TRUE, new |-> <<>>])
<1> DEFINE start == [clean |-> TRUE, new |-> <<>>]
           next(k, d) == M!ReplayOne(a, k, d)
           eq(f) == f = [k \in 0..Len(own[a]) |-> IF k = 0 THEN start ELSE next(k, f[k - 1])]
           f1 == [k \in 0..1 |-> IF k = 0 THEN start ELSE next(1, start)]
<1>2. M!ReplayUpTo(a) = CHOOSE f : eq(f)
  BY DEF M!ReplayUpTo
<1> DEFINE g == M!ReplayUpTo(a)
<1> HIDE DEF next, start
<1>3. eq(f1)
  <2>1. \A k \in 0..1 : k = 0 \/ k = 1
    OBVIOUS
  <2>2. f1[0] = start /\ 1 - 1 = 0
    OBVIOUS
  <2>3. f1 = [k \in 0..1 |-> IF k = 0 THEN start ELSE next(k, f1[k - 1])]
    BY <2>1, <2>2
  <2> QED
    BY <2>3
<1>4. eq(g)
  BY <1>2, <1>3
<1> HIDE DEF g
<1>5. 0 \in 0..1 /\ 1 \in 0..1 /\ 1 - 1 = 0
  OBVIOUS
<1>6. g[0] = start /\ g[1] = next(1, g[0])
  BY <1>4, <1>5
<1> QED
  BY <1>6 DEF M!Replay, g, next, start

Busy == {"pushing", "rejected"}
Base(p) == base[AgentOf[p]]
Out(p) == own[AgentOf[p]]
Sending(p) == mpc[p] \in Busy /\ Len(Out(p)) = 1

\* A commit does what it should to the page that it replaces: a write has a body of its
\* own and knew the one that was there, a tombstone has the body and a banner of its own.
Fits(c, old) ==
  IF c.op = "forget"
  THEN old # None /\ c.page.body = old.body /\ c.page.banner # old.banner
  ELSE /\ c.page.body = c.id
       /\ c.saw = None <=> old = None
       /\ c.saw # None => c.saw.body = old.body

Tombstone(c) ==
  /\ c.op = "forget"
  /\ \E k \in 1..Len(remote) : remote[k].fact = c.fact /\ remote[k].page.banner = c.page.banner
Published(c) == (\E k \in 1..Len(remote) : remote[k].fact = c.fact /\ remote[k].id = c.id) \/ Tombstone(c)

\* The one commit of a clone is the command's, as rebases left it, and fits the page in
\* the clone.
Outgoing(p) ==
  /\ Len(Out(p)) = 1
  /\ Out(p)[1].id = mine[p].id /\ Out(p)[1].fact = mine[p].fact /\ Out(p)[1].op = mine[p].op
  /\ mine[p].op = "forget" => Out(p)[1].page.banner = mine[p].page.banner
  /\ Fits(Out(p)[1], M!PageIn(Base(p), mine[p].fact))

Doing(p) ==
  /\ mpc[p] \in {"opened", "loaded"} => cmd[p] \in M!Command /\ Out(p) = <<>>
  /\ mpc[p] = "loaded" => /\ seen[p] = M!PageIn(Base(p), cmd[p].fact)
                          /\ cmd[p].op = "forget" => seen[p] # None /\ seen[p].banner.status # "Historical"
  /\ mpc[p] \in Busy => /\ mine[p] \in M!Commit
                        /\ Outgoing(p) \/ (Out(p) = <<>> /\ Tombstone(mine[p]))

\* Bodies and commits are numbered as they are made, so what is not published is new.
Numbered ==
  /\ \A k \in 1..Len(remote) : remote[k].page.body <= edits
  /\ \A p \in Client : Sending(p) =>
       /\ Out(p)[1].id <= edits
       /\ Out(p)[1].op = "write" => \A k \in 1..Len(remote) : remote[k].page.body # Out(p)[1].id
       /\ \A q \in Client \ {p} : Sending(q) => Out(q)[1].id # Out(p)[1].id

\* What NoBlindOverwrite says of one commit, with the page that was there before it.
Seen(c, old) ==
  IF c.op = "forget"
  THEN old # None /\ c.page.body = old.body
  ELSE /\ c.saw = None <=> old = None
       /\ c.saw # None => c.saw.body = old.body

MemoryInv ==
  /\ M!TypeOK
  /\ \A p \in Client : Doing(p)
  /\ Numbered
  /\ \A k \in 1..Len(remote) : Seen(remote[k], M!PageIn(SubSeq(remote, 1, k - 1), remote[k].fact))
  /\ \A c \in acked : Published(c)

\* What the types say of the numbers and sequences.
LEMMA MemoryTypes ==
  ASSUME M!TypeOK
  PROVE  /\ remote \in Seq(M!Commit) /\ Len(remote) \in Nat /\ DOMAIN remote = 1..Len(remote)
         /\ \A k \in 1..Len(remote) : remote[k] \in M!Commit
         /\ edits \in Nat /\ edits <= MaxEdits /\ MaxEdits \in Nat /\ MaxAttempts \in Nat \ {0}
         /\ None \notin M!Page /\ AgentOf \in [Client -> Agent]
         /\ \A p \in Client : /\ AgentOf[p] \in Agent
                              /\ Base(p) \in Seq(M!Commit) /\ Out(p) \in Seq(M!Commit)
                              /\ \E n \in 0..Len(remote) : Base(p) = SubSeq(remote, 1, n)
  BY SessionAssumption DEF M!MemoryAssumption, M!TypeOK, Base, Out

\* Of a commit.
LEMMA CommitTypes ==
  ASSUME NEW c \in M!Commit
  PROVE  /\ c.id \in 1..MaxEdits /\ c.op \in {"write", "forget"} /\ c.fact \in Session
         /\ c.actor \in Agent /\ c.page \in M!Page /\ c.saw \in M!Page \cup {None}
  BY DEF M!Commit

\* Of the page of a fact.
LEMMA PageTypes ==
  ASSUME NEW page \in M!Page
  PROVE  /\ page = [banner |-> page.banner, body |-> page.body]
         /\ page.banner \in M!Banner /\ page.body \in 1..MaxEdits
  BY DEF M!Page

\* A clone has no page that the wiki has not.
LEMMA PageKept ==
  ASSUME M!TypeOK, NEW p \in Client, NEW f, M!PageIn(Base(p), f) # None
  PROVE  M!PageIn(remote, f) # None
<1>1. /\ remote \in Seq(M!Commit) /\ Base(p) \in Seq(M!Commit)
      /\ \E n \in 0..Len(remote) : Base(p) = SubSeq(remote, 1, n)
  BY MemoryTypes
<1>2. PICK n \in 0..Len(remote) : Base(p) = SubSeq(remote, 1, n)
  BY <1>1
<1>3. Len(Base(p)) = n /\ \A k \in 1..n : Base(p)[k] = remote[k] /\ k \in 1..Len(remote)
  <2>1. Len(SubSeq(remote, 1, n)) = n /\ \A k \in 1..n : SubSeq(remote, 1, n)[k] = remote[k]
    BY <1>1, Prefix
  <2> QED
    BY <1>1, <1>2, <2>1
<1>4. PICK k \in 1..Len(Base(p)) : Base(p)[k].fact = f
  BY <1>1, PageOf
<1>5. k \in 1..Len(remote) /\ remote[k].fact = f
  BY <1>3, <1>4
<1> QED
  BY <1>1, <1>5, PageOf

\* A clean rebase of the commit of a command.
LEMMA RebaseOne ==
  ASSUME MemoryInv, NEW p \in Client, mpc[p] = "rejected", Outgoing(p), M!Replay(AgentOf[p]).clean
  PROVE  LET c == Out(p)[1]
             new == M!Replay(AgentOf[p]).new
             t == M!PageIn(remote, mine[p].fact)
         IN \/ /\ new \in Seq(M!Commit) /\ Len(new) = 1
               /\ new[1].id = c.id /\ new[1].fact = c.fact /\ new[1].op = c.op
               /\ c.op = "forget" => new[1].page.banner = c.page.banner
               /\ Fits(new[1], t)
            \/ new = <<>> /\ Tombstone(mine[p])
<1> DEFINE a == AgentOf[p]
           c == Out(p)[1]
           b == M!PageIn(Base(p), c.fact)
           t == M!PageIn(remote, c.fact)
           m == M!PageMerged(b, t, c.page)
           done == [clean |-> TRUE, new |-> <<>>]
<1>1. /\ remote \in Seq(M!Commit) /\ Base(p) \in Seq(M!Commit) /\ Out(p) \in Seq(M!Commit)
      /\ Len(Out(p)) = 1 /\ c \in M!Commit /\ None \notin M!Page
  <2>1. remote \in Seq(M!Commit) /\ Base(p) \in Seq(M!Commit) /\ Out(p) \in Seq(M!Commit) /\ None \notin M!Page
    BY MemoryTypes DEF MemoryInv
  <2>2. Len(Out(p)) = 1
    BY DEF Outgoing
  <2>3. Out(p)[1] \in M!Commit
    BY <2>1, <2>2, ElementOfSeq
  <2> QED
    BY <2>1, <2>2, <2>3
<1>2. /\ Base(p) \o SubSeq(Out(p), 1, 0) = Base(p) /\ remote \o <<>> = remote
  <2>1. SubSeq(Out(p), 1, 0) = <<>>
    BY SubSeqEmpty
  <2> QED
    BY <1>1, <2>1, ConcatEmptySeq
<1>3. M!Replay(a) = M!ReplayOne(a, 1, done)
  BY <1>1, ReplayOne DEF Out
<1>4. /\ M!PagesMerge(b, t, c.page)
      /\ M!Replay(a).new = IF m = t THEN <<>> ELSE Append(<<>>, [c EXCEPT !.page = m])
  <2> DEFINE b0 == M!PageIn(base[a] \o SubSeq(own[a], 1, 0), own[a][1].fact)
             t0 == M!PageIn(remote \o done.new, own[a][1].fact)
             m0 == M!PageMerged(b0, t0, own[a][1].page)
  <2>1. M!ReplayOne(a, 1, done) =
          IF ~done.clean \/ ~M!PagesMerge(b0, t0, own[a][1].page)
          THEN [clean |-> FALSE, new |-> <<>>]
          ELSE [clean |-> TRUE, new |-> IF m0 = t0 THEN done.new ELSE Append(done.new, [own[a][1] EXCEPT !.page = m0])]
    BY DEF M!ReplayOne
  <2>2. done.new = <<>> /\ done.clean
    OBVIOUS
  <2>3. b0 = b /\ t0 = t /\ own[a][1] = c
    BY <1>2, <2>2 DEF Base, Out
  <2> HIDE DEF b0, t0, done, b, t, c
  <2> QED
    BY <1>3, <2>1, <2>2, <2>3
<1>5. /\ c.fact = mine[p].fact /\ c.op = mine[p].op /\ c.page \in M!Page /\ c.op \in {"write", "forget"}
      /\ mine[p].op = "forget" => c.page.banner = mine[p].page.banner
      /\ Fits(c, b)
  BY <1>1, CommitTypes DEF Outgoing
<1>6. b \in M!Page \cup {None} /\ t \in M!Page \cup {None} /\ (b # None => t # None)
      /\ (t # None => \E k \in 1..Len(remote) : remote[k].fact = c.fact /\ t = remote[k].page)
  BY <1>1, PageOf, PageKept DEF MemoryInv
<1>7. c.op = "write" => t = None \/ t.body # c.id
  <2>1. c.op = "write" => \A k \in 1..Len(remote) : remote[k].page.body # c.id
    BY <1>1 DEF MemoryInv, Numbered, Sending, Busy
  <2> QED
    BY <1>6, <2>1
<1> HIDE DEF b, t, c, a, done
<1>8. CASE b = None
  <2>1. c.op # "forget" /\ c.saw = None /\ c.page.body = c.id
    BY <1>8, <1>5 DEF Fits
  <2>2. t = None
    BY <1>4, <1>5, <1>7, <1>8, <2>1 DEF M!PagesMerge
  <2>3. m = c.page
    BY <1>8 DEF M!PageMerged
  <2>4. m # t
    BY <1>1, <1>5, <2>2, <2>3
  <2> DEFINE d == [c EXCEPT !.page = m]
  <2>5. d = c
    BY <1>1, <2>3 DEF M!Commit
  <2>6. M!Replay(a).new = Append(<<>>, c)
    BY <1>4, <2>4, <2>5
  <2>7. Append(<<>>, c) \in Seq(M!Commit) /\ Len(Append(<<>>, c)) = 1 /\ Append(<<>>, c)[1] = c
    BY <1>1
  <2>8. Fits(c, t)
    BY <2>1, <2>2 DEF Fits
  <2> QED
    BY <1>5, <2>1, <2>6, <2>7, <2>8 DEF c, t, a
<1>9. CASE b # None
  <2>1. /\ M!PartsMerge(b.banner, t.banner, c.page.banner)
        /\ M!PartsMerge(b.body, t.body, c.page.body)
    BY <1>4, <1>9 DEF M!PagesMerge
  <2>2. m = [banner |-> M!PartMerged(b.banner, t.banner, c.page.banner),
             body |-> M!PartMerged(b.body, t.body, c.page.body)]
    BY <1>9 DEF M!PageMerged
  <2>3. /\ m.banner = IF c.page.banner = b.banner THEN t.banner ELSE c.page.banner
        /\ m.body = IF c.page.body = b.body THEN t.body ELSE c.page.body
    BY <2>2 DEF M!PartMerged
  <2>4. /\ t \in M!Page /\ b \in M!Page
        /\ t = [banner |-> t.banner, body |-> t.body]
        /\ m = [banner |-> m.banner, body |-> m.body]
        /\ t.banner \in M!Banner /\ t.body \in 1..MaxEdits
        /\ c.page.banner \in M!Banner /\ c.page.body \in 1..MaxEdits
    BY <1>5, <1>6, <1>9, <2>2, PageTypes
  <2>5. m \in M!Page
    <3>1. m.banner \in M!Banner /\ m.body \in 1..MaxEdits
      BY <2>3, <2>4
    <3> HIDE DEF m
    <3> QED
      BY <2>4, <3>1 DEF M!Page
  <2> HIDE DEF m
  <2> DEFINE d == [c EXCEPT !.page = m]
  <2>6. /\ d \in M!Commit /\ d.id = c.id /\ d.fact = c.fact /\ d.op = c.op /\ d.saw = c.saw
        /\ d.page = m
    BY <1>1, <2>5 DEF M!Commit
  <2> HIDE DEF d
  <2>7. Append(<<>>, d) \in Seq(M!Commit) /\ Len(Append(<<>>, d)) = 1 /\ Append(<<>>, d)[1] = d
    BY <2>6
  <2>8. CASE c.op = "forget"
    <3>1. c.page.body = b.body /\ c.page.banner # b.banner
      BY <1>5, <2>8 DEF Fits
    <3>2. m.body = t.body /\ m.banner = c.page.banner
      BY <2>3, <3>1
    <3>3. CASE m = t
      <4>1. M!Replay(a).new = <<>>
        BY <1>4, <3>3
      <4>2. \E k \in 1..Len(remote) : remote[k].fact = c.fact /\ t = remote[k].page
        BY <1>6, <1>9
      <4>3. Tombstone(mine[p])
        BY <1>5, <2>8, <3>2, <3>3, <4>2 DEF Tombstone
      <4> QED
        BY <4>1, <4>3 DEF a
    <3>4. CASE m # t
      <4>1. M!Replay(a).new = Append(<<>>, d)
        BY <1>4, <3>4 DEF d
      <4>2. m.banner # t.banner
        BY <2>4, <3>2, <3>4
      <4>3. Fits(d, t)
        BY <1>6, <1>9, <2>6, <2>8, <3>2, <4>2 DEF Fits
      <4> QED
        BY <1>5, <2>6, <2>7, <3>2, <4>1, <4>3 DEF c, t, a
    <3> QED
      BY <3>3, <3>4
  <2>9. CASE c.op = "write"
    <3>1. c.page.body = c.id /\ c.saw # None /\ c.saw.body = b.body
      BY <1>5, <1>9, <2>9 DEF Fits
    <3>2. \/ c.page.body = b.body \/ t.body = b.body
      BY <1>6, <1>7, <1>9, <2>1, <2>9, <3>1 DEF M!PartsMerge
    <3>3. c.page.body # b.body
      <4>1. \E k \in 1..Len(Base(p)) : b = Base(p)[k].page
        BY <1>1, <1>9, PageOf DEF b
      <4>2. PICK k \in 1..Len(Base(p)) : b = Base(p)[k].page
        BY <4>1
      <4>3. k \in 1..Len(remote) /\ Base(p)[k] = remote[k]
        <5>1. PICK n \in 0..Len(remote) : Base(p) = SubSeq(remote, 1, n)
          BY MemoryTypes DEF MemoryInv
        <5>2. Len(Base(p)) = n /\ \A i \in 1..n : Base(p)[i] = remote[i] /\ i \in 1..Len(remote)
          <6>1. Len(SubSeq(remote, 1, n)) = n /\ \A i \in 1..n : SubSeq(remote, 1, n)[i] = remote[i]
            BY <1>1, Prefix
          <6> QED
            BY <1>1, <5>1, <6>1
        <5> QED
          BY <4>2, <5>2
      <4>4. remote[k].page.body # c.id
        BY <1>1, <2>9, <4>3 DEF MemoryInv, Numbered, Sending, Busy, c
      <4> QED
        BY <3>1, <4>2, <4>3, <4>4
    <3>4. t.body = b.body /\ m.body = c.id /\ m.body # t.body
      BY <1>6, <1>7, <1>9, <2>3, <2>9, <3>1, <3>2, <3>3
    <3>5. M!Replay(a).new = Append(<<>>, d)
      BY <1>4, <3>4 DEF d
    <3>6. Fits(d, t)
      BY <1>6, <1>9, <2>6, <2>9, <3>1, <3>4 DEF Fits
    <3> QED
      BY <1>5, <2>6, <2>7, <2>9, <3>5, <3>6 DEF c, t, a
  <2> QED
    BY <1>5, <2>8, <2>9
<1> QED
  BY <1>8, <1>9

\* The commits of the wiki stay as they are.
Grown == \A k \in 1..Len(remote) : k \in 1..Len(remote') /\ remote'[k] = remote[k]

LEMMA DoingStays ==
  ASSUME NEW q, Doing(q), Grown, mpc'[q] = mpc[q], cmd'[q] = cmd[q], seen'[q] = seen[q], mine'[q] = mine[q],
         base'[AgentOf[q]] = base[AgentOf[q]], own'[AgentOf[q]] = own[AgentOf[q]]
  PROVE  Doing(q)'
<1>1. Base(q)' = Base(q) /\ Out(q)' = Out(q)
  BY DEF Base, Out
<1>2. Tombstone(mine[q]) => Tombstone(mine[q])'
  BY DEF Tombstone, Grown
<1>3. M!PageIn(Base(q), cmd[q].fact)' = M!PageIn(Base(q), cmd[q].fact)
      /\ M!PageIn(Base(q), mine[q].fact)' = M!PageIn(Base(q), mine[q].fact)
  BY <1>1 DEF M!PageIn
<1>4. Outgoing(q) => Outgoing(q)'
  BY <1>1, <1>3 DEF Outgoing, Fits
<1> QED
  BY <1>1, <1>2, <1>3, <1>4 DEF Doing

\* What holds of all clones and of the wiki, from what holds of the process that takes a
\* step: it publishes its commit, makes one, or rebases the one that it has.
LEMMA MemoryAssembled ==
  ASSUME AgentsAlone, MemoryInv, M!TypeOK', NEW p \in Client, Doing(p)', edits <= edits',
         \A q \in Client \ {p} :
           AgentOf[q] # AgentOf[p] =>
             /\ mpc'[q] = mpc[q] /\ cmd'[q] = cmd[q] /\ seen'[q] = seen[q] /\ mine'[q] = mine[q]
             /\ base'[AgentOf[q]] = base[AgentOf[q]] /\ own'[AgentOf[q]] = own[AgentOf[q]],
         \/ remote' = remote
         \/ /\ remote' = Append(remote, Out(p)[1]) /\ Base(p) = remote
            /\ mpc[p] \in Busy /\ Outgoing(p) /\ ~Sending(p)',
         Sending(p)' =>
           \/ Sending(p) /\ Out(p)'[1].id = Out(p)[1].id /\ Out(p)'[1].op = Out(p)[1].op
           \/ Out(p)'[1].id = edits + 1 /\ edits' = edits + 1,
         \A c \in acked' \ acked : Published(c)'
  PROVE  MemoryInv'
<1>0. /\ remote \in Seq(M!Commit) /\ Len(remote) \in Nat /\ edits \in Nat /\ edits' \in Nat
      /\ \A q \in Client : Out(q) \in Seq(M!Commit)
      /\ \A k \in 1..Len(remote) : remote[k] \in M!Commit
  <2>1. edits' \in Nat
    BY SessionAssumption DEF M!TypeOK, M!MemoryAssumption
  <2> QED
    BY <2>1, MemoryTypes DEF MemoryInv
<1> DEFINE c == Out(p)[1]
<1>1. CASE remote' = remote
  <2>1. Grown
    BY <1>1 DEF Grown
  <2>2. \A q \in Client : Doing(q)'
    BY <2>1, DoingStays DEF MemoryInv, AgentsAlone
  <2>3. \A q \in Client \ {p} : Sending(q)' = Sending(q) /\ Out(q)' = Out(q)
    BY DEF AgentsAlone, Sending, Out
  <2>4. Numbered'
    <3>1. \A q \in Client \ {p} : Sending(q) => Out(q)[1].id \in Nat
      <4>1. \A q \in Client : Sending(q) => Out(q)[1] \in M!Commit
        BY <1>0, ElementOfSeq DEF Sending
      <4> QED
        BY <4>1, CommitTypes, SessionAssumption DEF M!MemoryAssumption
    <3>2. \A k \in 1..Len(remote) : remote[k].page.body \in Nat
      BY <1>0, CommitTypes, PageTypes
    <3>3. \A k \in 1..Len(remote') : remote'[k].page.body <= edits'
      BY <1>0, <1>1, <3>2 DEF MemoryInv, Numbered
    <3>4. ASSUME NEW q \in Client, Sending(q)', q # p
          PROVE  /\ Out(q)'[1].id <= edits'
                 /\ Out(q)'[1].op = "write" => \A k \in 1..Len(remote') : remote'[k].page.body # Out(q)'[1].id
                 /\ \A r \in Client \ {q} : Sending(r)' => Out(r)'[1].id # Out(q)'[1].id
      <4>1. Sending(q) /\ Out(q)' = Out(q)
        BY <2>3, <3>4
      <4>2. Out(q)[1].id \in Nat /\ Out(q)[1].id <= edits
        BY <3>1, <3>4, <4>1 DEF MemoryInv, Numbered
      <4>3. Out(q)[1].op = "write" => \A k \in 1..Len(remote') : remote'[k].page.body # Out(q)[1].id
        BY <1>1, <4>1 DEF MemoryInv, Numbered
      <4>4. \A r \in Client \ {q, p} : Sending(r)' => Out(r)'[1].id # Out(q)[1].id
        BY <2>3, <4>1 DEF MemoryInv, Numbered
      <4>5. Sending(p)' => Out(p)'[1].id # Out(q)[1].id
        BY <1>0, <3>4, <4>1, <4>2 DEF MemoryInv, Numbered
      <4> QED
        BY <1>0, <4>1, <4>2, <4>3, <4>4, <4>5
    <3>5. ASSUME Sending(p)'
          PROVE  /\ Out(p)'[1].id <= edits'
                 /\ Out(p)'[1].op = "write" => \A k \in 1..Len(remote') : remote'[k].page.body # Out(p)'[1].id
                 /\ \A r \in Client \ {p} : Sending(r)' => Out(r)'[1].id # Out(p)'[1].id
      <4>1. CASE Sending(p) /\ Out(p)'[1].id = Out(p)[1].id /\ Out(p)'[1].op = Out(p)[1].op
        <5>1. Out(p)[1].id \in Nat
          <6>1. Out(p)[1] \in M!Commit
            BY <1>0, <4>1, ElementOfSeq DEF Sending
          <6> QED
            BY <6>1, CommitTypes, SessionAssumption DEF M!MemoryAssumption
        <5> QED
          BY <1>0, <1>1, <2>3, <4>1, <5>1 DEF MemoryInv, Numbered
      <4>2. CASE Out(p)'[1].id = edits + 1 /\ edits' = edits + 1
        BY <1>0, <1>1, <2>3, <3>1, <3>2, <4>2 DEF MemoryInv, Numbered
      <4> QED
        BY <3>5, <4>1, <4>2
    <3> QED
      BY <3>3, <3>4, <3>5 DEF Numbered
  <2>5. \A d \in acked' : Published(d)'
    BY <1>1 DEF MemoryInv, Published, Tombstone
  <2>6. \A k \in 1..Len(remote') :
          Seen(remote'[k], M!PageIn(SubSeq(remote', 1, k - 1), remote'[k].fact))
    BY <1>1 DEF MemoryInv
  <2> QED
    BY <2>2, <2>4, <2>5, <2>6 DEF MemoryInv, Seen, M!PageIn
<1>2. CASE /\ remote' = Append(remote, c) /\ Base(p) = remote
           /\ mpc[p] \in Busy /\ Outgoing(p) /\ ~Sending(p)'
  <2>0. c \in M!Commit /\ Sending(p) /\ c.page.body \in Nat /\ c.id \in Nat /\ c.op \in {"write", "forget"}
    <3>1. Len(Out(p)) = 1
      BY <1>2 DEF Outgoing
    <3>2. c \in M!Commit
      <4>1. Out(p) \in Seq(M!Commit) /\ 1 \in 1..Len(Out(p))
        BY <1>0, <3>1
      <4> HIDE DEF c
      <4>2. Out(p)[1] \in M!Commit
        BY <4>1, ElementOfSeq
      <4> QED
        BY <4>2 DEF c
    <3>3. c.page.body \in Nat /\ c.id \in Nat /\ c.op \in {"write", "forget"}
      BY <3>2, CommitTypes, PageTypes, SessionAssumption DEF M!MemoryAssumption
    <3> QED
      BY <1>2, <3>1, <3>2, <3>3 DEF Sending
  <2> DEFINE old == M!PageIn(remote, c.fact)
  <2>1. Fits(c, old)
    BY <1>2 DEF Outgoing
  <2> HIDE DEF c
  <2>2. /\ Len(remote') = Len(remote) + 1 /\ remote'[Len(remote) + 1] = c
        /\ \A k \in 1..Len(remote) : remote'[k] = remote[k]
        /\ \A n \in 0..Len(remote) : SubSeq(remote', 1, n) = SubSeq(remote, 1, n)
        /\ SubSeq(remote, 1, Len(remote)) = remote
    BY <1>0, <1>2, <2>0, LogGrows
  <2>3. Grown
    BY <1>0, <2>2 DEF Grown
  <2>4. \A q \in Client : Doing(q)'
    BY <2>3, DoingStays DEF MemoryInv, AgentsAlone
  <2>5. \A q \in Client \ {p} : Sending(q)' = Sending(q) /\ Out(q)' = Out(q)
    BY DEF AgentsAlone, Sending, Out
  <2>6. \/ c.op = "write" /\ c.page.body = c.id
        \/ c.op = "forget" /\ \E k \in 1..Len(remote) : c.page.body = remote[k].page.body
    BY <1>0, <2>0, <2>1, PageOf DEF Fits
  <2>7. c.page.body <= edits
    BY <2>0, <2>6 DEF MemoryInv, Numbered, c
  <2>8. \A q \in Client \ {p} : Sending(q) /\ Out(q)[1].op = "write" => c.page.body # Out(q)[1].id
    BY <2>0, <2>6 DEF MemoryInv, Numbered, c
  <2>9. Numbered'
    <3>1. \A k \in 1..Len(remote) : remote[k].page.body \in Nat
      BY <1>0, CommitTypes, PageTypes
    <3>2. \A k \in 1..Len(remote') : k \in 1..Len(remote) \/ k = Len(remote) + 1
      BY <1>0, <2>2
    <3>3. \A k \in 1..Len(remote') : remote'[k].page.body <= edits'
      BY <1>0, <2>0, <2>2, <2>7, <3>1, <3>2 DEF MemoryInv, Numbered
    <3>4. ASSUME NEW q \in Client, Sending(q)'
          PROVE  /\ Out(q)'[1].id <= edits'
                 /\ Out(q)'[1].op = "write" => \A k \in 1..Len(remote') : remote'[k].page.body # Out(q)'[1].id
                 /\ \A r \in Client \ {q} : Sending(r)' => Out(r)'[1].id # Out(q)'[1].id
      <4>1. q # p /\ Sending(q) /\ Out(q)' = Out(q)
        BY <1>2, <2>5, <3>4
      <4>2. Out(q)[1] \in M!Commit
        BY <1>0, <4>1, ElementOfSeq DEF Sending
      <4>3. Out(q)[1].id \in Nat
        BY <4>2, CommitTypes, SessionAssumption DEF M!MemoryAssumption
      <4>4. Out(q)[1].id <= edits'
        BY <1>0, <4>1, <4>3 DEF MemoryInv, Numbered
      <4>5. Out(q)[1].op = "write" => \A k \in 1..Len(remote') : remote'[k].page.body # Out(q)[1].id
        BY <2>2, <2>8, <3>2, <4>1 DEF MemoryInv, Numbered
      <4>6. \A r \in Client \ {q} : Sending(r)' => Out(r)'[1].id # Out(q)[1].id
        BY <1>2, <2>5, <4>1 DEF MemoryInv, Numbered
      <4> QED
        BY <4>1, <4>4, <4>5, <4>6
    <3> QED
      BY <3>3, <3>4 DEF Numbered
  <2>10. \A d \in acked' : Published(d)'
    <3>1. \A d : Tombstone(d) => Tombstone(d)'
      BY <2>3 DEF Tombstone, Grown
    <3>2. \A d : Published(d) => Published(d)'
      BY <2>3, <3>1 DEF Published, Grown
    <3> QED
      BY <3>2 DEF MemoryInv
  <2>11. ASSUME NEW k \in 1..Len(remote')
         PROVE  Seen(remote'[k], M!PageIn(SubSeq(remote', 1, k - 1), remote'[k].fact))
    <3>1. CASE k \in 1..Len(remote)
      <4>1. k - 1 \in 0..Len(remote)
        BY <1>0, <3>1
      <4> QED
        BY <2>2, <3>1, <4>1 DEF MemoryInv
    <3>2. CASE k = Len(remote) + 1
      <4>1. SubSeq(remote', 1, k - 1) = remote /\ remote'[k] = c
        BY <1>0, <2>2, <3>2
      <4>2. Seen(c, old)
        BY <2>1 DEF Seen, Fits
      <4> QED
        BY <4>1, <4>2
    <3> QED
      BY <1>0, <2>2, <3>1, <3>2
  <2> QED
    BY <2>4, <2>9, <2>10, <2>11 DEF MemoryInv, Seen, M!PageIn
<1> QED
  BY <1>1, <1>2

\* Frames: a command that returns, and the clones that a step of one process leaves alone.
LEMMA Returned ==
  ASSUME M!TypeOK, NEW p \in Client, M!Return(p)
  PROVE  /\ mpc' \in [Client -> {"idle", "opened", "loaded", "pushing", "rejected"}]
         /\ cmd' \in [Client -> M!Command \cup {None}]
         /\ seen' \in [Client -> M!Page \cup {None}]
         /\ mine' \in [Client -> M!Commit \cup {None}]
         /\ tries' \in [Client -> 0..MaxAttempts]
         /\ mpc'[p] = "idle" /\ ~Sending(p)'
         /\ \A q \in Client \ {p} : mpc'[q] = mpc[q] /\ cmd'[q] = cmd[q] /\ seen'[q] = seen[q] /\ mine'[q] = mine[q]
<1>1. MaxAttempts \in Nat
  BY MemoryTypes
<1>2. /\ mpc \in [Client -> {"idle", "opened", "loaded", "pushing", "rejected"}]
      /\ cmd \in [Client -> M!Command \cup {None}]
      /\ seen \in [Client -> M!Page \cup {None}]
      /\ mine \in [Client -> M!Commit \cup {None}]
      /\ tries \in [Client -> 0..MaxAttempts]
  BY DEF M!TypeOK
<1>3. /\ mpc' = [mpc EXCEPT ![p] = "idle"] /\ cmd' = [cmd EXCEPT ![p] = None]
      /\ seen' = [seen EXCEPT ![p] = None] /\ mine' = [mine EXCEPT ![p] = None]
      /\ tries' = [tries EXCEPT ![p] = 0]
  BY DEF M!Return, M!Become
<1>4. mpc'[p] = "idle"
  BY <1>2, <1>3
<1> QED
  BY <1>1, <1>2, <1>3, <1>4 DEF Sending, Busy

\* A command begins with a clone that has nothing of its own.
LEMMA OpenStep ==
  ASSUME AgentsAlone, MemoryInv, NEW p \in Client, NEW c \in M!Command, M!Open(p, c)
  PROVE  MemoryInv'
<1> DEFINE a == AgentOf[p]
<1>0. M!TypeOK /\ AgentOf \in [Client -> Agent] /\ remote \in Seq(M!Commit) /\ Len(remote) \in Nat /\ a \in Agent
  BY MemoryTypes DEF MemoryInv
<1>1. /\ cmd' = [cmd EXCEPT ![p] = c] /\ base' = [base EXCEPT ![a] = remote] /\ own' = [own EXCEPT ![a] = <<>>]
      /\ mpc' = [mpc EXCEPT ![p] = "opened"] /\ UNCHANGED <<remote, seen, mine, tries, edits, acked>>
  BY DEF M!Open, M!Become
<1>2. M!TypeOK'
  <2>1. remote = SubSeq(remote, 1, Len(remote)) /\ Len(remote) \in 0..Len(remote)
    BY <1>0, SubSeqFull
  <2>2. \A x \in Agent : \E n \in 0..Len(remote) : base'[x] = SubSeq(remote, 1, n)
    BY <1>0, <1>1, <2>1 DEF M!TypeOK
  <2>3. base' \in [Agent -> Seq(M!Commit)] /\ own' \in [Agent -> Seq(M!Commit)]
    BY <1>0, <1>1 DEF M!TypeOK
  <2> QED
    BY <1>0, <1>1, <2>2, <2>3 DEF M!TypeOK
<1>3. mpc'[p] = "opened" /\ cmd'[p] = c /\ Out(p)' = <<>>
  BY <1>0, <1>1 DEF M!TypeOK, Out
<1>4. Doing(p)' /\ ~Sending(p)'
  BY <1>3 DEF Doing, Sending, Busy
<1>5. \A q \in Client \ {p} : AgentOf[q] # a =>
        /\ mpc'[q] = mpc[q] /\ cmd'[q] = cmd[q] /\ seen'[q] = seen[q] /\ mine'[q] = mine[q]
        /\ base'[AgentOf[q]] = base[AgentOf[q]] /\ own'[AgentOf[q]] = own[AgentOf[q]]
  BY <1>0, <1>1 DEF M!TypeOK
<1> HIDE DEF a
<1> QED
  <2>1. edits <= edits'
    BY <1>0, <1>1, MemoryTypes
  <2> QED
    BY <1>1, <1>2, <1>4, <1>5, <2>1, MemoryAssembled DEF a

\* The page that is loaded is that of the clone.
LEMMA LoadStep ==
  ASSUME AgentsAlone, MemoryInv, NEW p \in Client, M!Load(p)
  PROVE  MemoryInv'
<1> DEFINE page == M!PageIn(base[AgentOf[p]] \o own[AgentOf[p]], cmd[p].fact)
<1>0. M!TypeOK /\ Base(p) \in Seq(M!Commit) /\ edits \in Nat /\ mpc[p] = "opened" /\ Doing(p)
  BY MemoryTypes DEF MemoryInv, M!Load
<1>1. UNCHANGED <<remote, base, own, edits, acked>> /\ edits <= edits'
  BY <1>0 DEF M!Load, M!clones
<1>2. Out(p) = <<>> /\ cmd[p] \in M!Command /\ page = M!PageIn(Base(p), cmd[p].fact)
  <2>1. Out(p) = <<>> /\ cmd[p] \in M!Command
    BY <1>0 DEF Doing
  <2>2. Base(p) \o <<>> = Base(p)
    BY <1>0, ConcatEmptySeq
  <2> QED
    BY <2>1, <2>2 DEF Out, Base
<1>3. CASE M!Return(p)
  <2>1. M!TypeOK'
    BY <1>0, <1>1, <1>3, Returned DEF M!TypeOK
  <2>2. Doing(p)'
    BY <1>0, <1>3, Returned DEF Doing, Busy
  <2> QED
    BY <1>0, <1>1, <1>3, <2>1, <2>2, Returned, MemoryAssembled
<1>4. CASE /\ ~(cmd[p].op = "forget" /\ (page = None \/ page.banner.status = "Historical"))
           /\ seen' = [seen EXCEPT ![p] = page] /\ mpc' = [mpc EXCEPT ![p] = "loaded"]
           /\ UNCHANGED <<cmd, mine, tries>>
  <2>1. page \in M!Page \cup {None}
    BY <1>0, <1>2, PageOf
  <2> HIDE DEF page
  <2>2. M!TypeOK'
    BY <1>0, <1>1, <1>4, <2>1 DEF M!TypeOK
  <2>3. mpc'[p] = "loaded" /\ seen'[p] = page /\ cmd'[p] = cmd[p] /\ Out(p)' = Out(p) /\ Base(p)' = Base(p)
    BY <1>0, <1>1, <1>4 DEF M!TypeOK, Out, Base
  <2>4. M!PageIn(Base(p), cmd[p].fact)' = M!PageIn(Base(p), cmd[p].fact)
    BY <2>3 DEF M!PageIn
  <2>5. Doing(p)' /\ ~Sending(p)'
    BY <1>2, <1>4, <2>3, <2>4 DEF Doing, Busy, Sending
  <2>6. \A q \in Client \ {p} : mpc'[q] = mpc[q] /\ cmd'[q] = cmd[q] /\ seen'[q] = seen[q] /\ mine'[q] = mine[q]
    BY <1>0, <1>4 DEF M!TypeOK
  <2> QED
    BY <1>1, <2>2, <2>5, <2>6, MemoryAssembled
<1> QED
  BY <1>3, <1>4 DEF M!Load, M!Become

\* A commit replaces the page of the clone, which is what the command loaded: nobody
\* else has the clone.
LEMMA WriteCommitStep ==
  ASSUME AgentsAlone, MemoryInv, NEW p \in Client, M!WriteCommit(p)
  PROVE  MemoryInv'
<1> DEFINE a == AgentOf[p]
           page == IF cmd[p].op = "write" THEN M!Written(a, seen[p], edits + 1) ELSE M!Forgotten(a, seen[p])
           commit == [id |-> edits + 1, op |-> cmd[p].op, fact |-> cmd[p].fact, actor |-> a,
                      page |-> page, saw |-> seen[p]]
<1>0. /\ M!TypeOK /\ Base(p) \in Seq(M!Commit) /\ edits \in Nat /\ MaxEdits \in Nat /\ a \in Agent
      /\ mpc[p] = "loaded" /\ edits < MaxEdits /\ Doing(p) /\ None \notin M!Page
      /\ AgentOf \in [Client -> Agent] /\ Out(p) \in Seq(M!Commit)
  BY MemoryTypes DEF MemoryInv, M!WriteCommit
<1>1. /\ own' = [own EXCEPT ![a] = Append(own[a], commit)] /\ mine' = [mine EXCEPT ![p] = commit]
      /\ edits' = edits + 1 /\ mpc' = [mpc EXCEPT ![p] = "pushing"]
      /\ UNCHANGED <<remote, base, cmd, seen, tries, acked>>
  BY DEF M!WriteCommit, M!Become
<1>2. /\ Out(p) = <<>> /\ cmd[p] \in M!Command /\ seen[p] = M!PageIn(Base(p), cmd[p].fact)
      /\ cmd[p].op \in {"write", "forget"} /\ cmd[p].fact \in Session
      /\ seen[p] \in M!Page \cup {None}
      /\ cmd[p].op = "forget" => seen[p] \in M!Page /\ seen[p].banner.status # "Historical"
  BY <1>0 DEF Doing, M!Command, M!TypeOK
<1>3. page \in M!Page /\ Fits(commit, seen[p])
  <2>1. CASE cmd[p].op = "write"
    <3>1. page = [banner |-> [status |-> "Live",
                              authors |-> (IF seen[p] = None THEN {} ELSE seen[p].banner.authors) \cup {a},
                              updated |-> seen[p] # None], body |-> edits + 1]
      BY <2>1 DEF M!Written
    <3>2. seen[p] # None => seen[p].banner.authors \subseteq Agent
      BY <1>2, PageTypes DEF M!Banner
    <3>3. page \in M!Page
      <4> DEFINE authors == (IF seen[p] = None THEN {} ELSE seen[p].banner.authors) \cup {a}
                 updated == seen[p] # None
      <4>1. authors \in SUBSET Agent /\ updated \in BOOLEAN /\ edits + 1 \in 1..MaxEdits
        BY <1>0, <3>2
      <4> HIDE DEF authors, updated
      <4>2. [banner |-> [status |-> "Live", authors |-> authors, updated |-> updated], body |-> edits + 1] \in M!Page
        BY <4>1 DEF M!Page, M!Banner
      <4> QED
        BY <3>1, <4>2 DEF authors, updated
    <3>4. page.body = edits + 1
      BY <3>1
    <3> HIDE DEF page
    <3> QED
      BY <2>1, <3>3, <3>4 DEF Fits
  <2>2. CASE cmd[p].op = "forget"
    <3>1. page = [banner |-> [seen[p].banner EXCEPT !.status = "Historical", !.authors = seen[p].banner.authors \cup {a}],
                  body |-> seen[p].body]
      BY <2>2 DEF M!Forgotten
    <3>2. seen[p].banner \in M!Banner /\ seen[p].body \in 1..MaxEdits /\ seen[p] # None
      BY <1>0, <1>2, <2>2, PageTypes
    <3> DEFINE banner == [seen[p].banner EXCEPT !.status = "Historical", !.authors = seen[p].banner.authors \cup {a}]
    <3>3. banner \in M!Banner /\ banner.status = "Historical"
      BY <1>0, <3>2 DEF M!Banner
    <3>4. banner # seen[p].banner
      BY <1>2, <2>2, <3>3
    <3> HIDE DEF banner
    <3>5. page \in M!Page /\ page.banner = banner /\ page.body = seen[p].body
      BY <3>1, <3>2, <3>3 DEF M!Page, banner
    <3> HIDE DEF page
    <3> QED
      BY <2>2, <3>2, <3>4, <3>5 DEF Fits
  <2> QED
    BY <1>2, <2>1, <2>2
<1> HIDE DEF page
<1>4. commit \in M!Commit
  BY <1>0, <1>2, <1>3 DEF M!Commit
<1>5. /\ commit.id = edits + 1 /\ commit.fact = cmd[p].fact /\ commit.op = cmd[p].op
  OBVIOUS
<1> HIDE DEF commit
<1>6. /\ mpc'[p] = "pushing" /\ mine'[p] = commit /\ Base(p)' = Base(p)
      /\ Out(p)' = Append(<<>>, commit)
  BY <1>0, <1>1, <1>2 DEF M!TypeOK, Out, Base
<1>7. Len(Out(p)') = 1 /\ Out(p)'[1] = commit /\ Out(p)' \in Seq(M!Commit)
  BY <1>4, <1>6
<1>8. Doing(p)'
  <2>0. mine'[p].fact = cmd[p].fact
    BY <1>5, <1>6
  <2>1. M!PageIn(Base(p), mine[p].fact)' = seen[p]
    <3>1. M!PageIn(Base(p), mine[p].fact)' = M!PageIn(Base(p), cmd[p].fact)
      BY <1>6, <2>0 DEF M!PageIn
    <3> QED
      BY <1>2, <3>1
  <2>2. Outgoing(p)'
    BY <1>3, <1>6, <1>7, <2>1 DEF Outgoing, Fits
  <2> QED
    BY <1>4, <1>6, <2>2 DEF Doing, Busy
<1>9. M!TypeOK'
  <2>1. own' \in [Agent -> Seq(M!Commit)]
    BY <1>0, <1>1, <1>6, <1>7 DEF M!TypeOK, Out
  <2> QED
    BY <1>0, <1>1, <1>4, <2>1 DEF M!TypeOK
<1>10. \A q \in Client \ {p} : AgentOf[q] # AgentOf[p] =>
        /\ mpc'[q] = mpc[q] /\ cmd'[q] = cmd[q] /\ seen'[q] = seen[q] /\ mine'[q] = mine[q]
        /\ base'[AgentOf[q]] = base[AgentOf[q]] /\ own'[AgentOf[q]] = own[AgentOf[q]]
  BY <1>0, <1>1 DEF M!TypeOK
<1>11. edits <= edits' /\ remote' = remote /\ acked' = acked
  BY <1>0, <1>1
<1> QED
  BY <1>1, <1>5, <1>7, <1>8, <1>9, <1>10, <1>11, MemoryAssembled

\* A push that arrives.
LEMMA PublishStep ==
  ASSUME AgentsAlone, MemoryInv, NEW p \in Client, mpc[p] = "pushing", M!FastForward(AgentOf[p]),
         M!Publish(AgentOf[p]), M!Return(p), edits' = edits, acked' \in {acked, acked \cup {mine[p]}}
  PROVE  MemoryInv'
<1> DEFINE a == AgentOf[p]
<1>0. /\ M!TypeOK /\ remote \in Seq(M!Commit) /\ Len(remote) \in Nat /\ Out(p) \in Seq(M!Commit) /\ edits \in Nat
      /\ AgentOf \in [Client -> Agent] /\ a \in Agent /\ Base(p) = remote /\ mine[p] \in M!Commit
      /\ Outgoing(p) \/ (Out(p) = <<>> /\ Tombstone(mine[p]))
  BY MemoryTypes DEF MemoryInv, Doing, Busy, M!FastForward, Base
<1>1. /\ remote' = remote \o Out(p) /\ base' = [base EXCEPT ![a] = remote \o Out(p)]
      /\ own' = [own EXCEPT ![a] = <<>>]
  BY <1>0 DEF M!Publish, Out, Base
<1>2. \/ remote' = remote /\ Tombstone(mine[p])
      \/ Outgoing(p) /\ remote' = Append(remote, Out(p)[1]) /\ Out(p)[1] \in M!Commit
  <2>1. CASE Out(p) = <<>> /\ Tombstone(mine[p])
    BY <1>0, <1>1, <2>1, ConcatEmptySeq
  <2>2. CASE Outgoing(p)
    <3>1. Len(Out(p)) = 1 /\ 1 \in 1..Len(Out(p))
      BY <2>2 DEF Outgoing
    <3>2. Out(p)[1] \in M!Commit
      BY <1>0, <3>1, ElementOfSeq
    <3>3. Out(p) = <<Out(p)[1]>>
      BY <1>0, <3>1
    <3> DEFINE c == Out(p)[1]
    <3>4. remote \o <<c>> = Append(remote, c)
      <4> HIDE DEF c
      <4>1. c \in M!Commit
        BY <3>2 DEF c
      <4> QED
        BY <1>0, <4>1, AppendIsConcat
    <3> QED
      BY <1>1, <2>2, <3>2, <3>3, <3>4
  <2> QED
    BY <1>0, <2>1, <2>2
<1>3. /\ remote' \in Seq(M!Commit) /\ Len(remote) \in 0..Len(remote')
      /\ SubSeq(remote', 1, Len(remote')) = remote' /\ Len(remote') \in Nat
      /\ \A n \in 0..Len(remote) : SubSeq(remote', 1, n) = SubSeq(remote, 1, n)
  <2> DEFINE c == Out(p)[1]
  <2> HIDE DEF c
  <2>1. remote' \in Seq(M!Commit) /\ Len(remote) \in 0..Len(remote')
        /\ \A n \in 0..Len(remote) : SubSeq(remote', 1, n) = SubSeq(remote, 1, n)
    <3>1. CASE remote' = remote
      BY <1>0, <3>1
    <3>2. CASE remote' = Append(remote, c) /\ c \in M!Commit
      <4>1. /\ Append(remote, c) \in Seq(M!Commit) /\ Len(Append(remote, c)) = Len(remote) + 1
            /\ \A n \in 0..Len(remote) : SubSeq(Append(remote, c), 1, n) = SubSeq(remote, 1, n)
        BY <1>0, <3>2, LogGrows
      <4> QED
        BY <1>0, <3>2, <4>1
    <3> QED
      BY <1>2, <3>1, <3>2 DEF c
  <2> QED
    BY <2>1, SubSeqFull
<1>4. M!TypeOK'
  <2>1. \A x \in Agent : \E n \in 0..Len(remote') : base'[x] = SubSeq(remote', 1, n)
    <3>1. ASSUME NEW x \in Agent \ {a} PROVE \E n \in 0..Len(remote') : base'[x] = SubSeq(remote', 1, n)
      <4>1. PICK n \in 0..Len(remote) : base[x] = SubSeq(remote, 1, n)
        BY <1>0 DEF M!TypeOK
      <4>2. n \in 0..Len(remote') /\ base'[x] = base[x]
        BY <1>0, <1>1, <1>3, <4>1 DEF M!TypeOK
      <4> QED
        BY <1>3, <4>1, <4>2
    <3>2. base'[a] = remote'
      BY <1>0, <1>1 DEF M!TypeOK
    <3> QED
      BY <1>3, <3>1, <3>2
  <2>2. base' \in [Agent -> Seq(M!Commit)] /\ own' \in [Agent -> Seq(M!Commit)]
    BY <1>0, <1>1, <1>3 DEF M!TypeOK
  <2>3. acked' \subseteq M!Commit /\ edits' \in 0..MaxEdits
    BY <1>0 DEF M!TypeOK
  <2> QED
    BY <1>0, <1>3, <2>1, <2>2, <2>3, Returned DEF M!TypeOK
<1>5. mpc'[p] = "idle" /\ ~Sending(p)'
  BY <1>0, Returned
<1>6. Doing(p)'
  BY <1>5 DEF Doing, Busy
<1>7. \A c \in acked' \ acked : Published(c)'
  <2>1. PICK c : c = mine[p]
    OBVIOUS
  <2>2. Published(c)'
    <3>1. CASE remote' = remote /\ Tombstone(c)
      BY <3>1 DEF Published, Tombstone
    <3>2. CASE Outgoing(p) /\ remote' = Append(remote, Out(p)[1]) /\ Out(p)[1] \in M!Commit
      <4>1. Len(remote') = Len(remote) + 1 /\ remote'[Len(remote) + 1] = Out(p)[1]
        BY <1>0, <3>2, LogGrows
      <4>2. Len(remote) + 1 \in 1..Len(remote')
        BY <1>0, <4>1
      <4>3. Out(p)[1].fact = c.fact /\ Out(p)[1].id = c.id
        BY <2>1, <3>2 DEF Outgoing
      <4> QED
        BY <4>1, <4>2, <4>3 DEF Published
    <3> QED
      BY <1>2, <2>1, <3>1, <3>2
  <2>3. acked' \ acked \subseteq {c}
    BY <2>1
  <2> QED
    BY <2>2, <2>3
<1>8. \A q \in Client \ {p} : AgentOf[q] # AgentOf[p] =>
        /\ mpc'[q] = mpc[q] /\ cmd'[q] = cmd[q] /\ seen'[q] = seen[q] /\ mine'[q] = mine[q]
        /\ base'[AgentOf[q]] = base[AgentOf[q]] /\ own'[AgentOf[q]] = own[AgentOf[q]]
  BY <1>0, <1>1, Returned DEF M!TypeOK
<1>9. edits <= edits'
  BY <1>0
<1>10. \/ remote' = remote
       \/ /\ remote' = Append(remote, Out(p)[1]) /\ Base(p) = remote
          /\ mpc[p] \in Busy /\ Outgoing(p) /\ ~Sending(p)'
  BY <1>0, <1>2, <1>5 DEF Busy
<1> QED
  BY <1>4, <1>5, <1>6, <1>7, <1>8, <1>9, <1>10, MemoryAssembled

\* A push that is refused leaves the clone with its commit.
LEMMA PushRejectedStep ==
  ASSUME AgentsAlone, MemoryInv, NEW p \in Client, M!PushRejected(p)
  PROVE  MemoryInv'
<1>0. M!TypeOK /\ edits \in Nat /\ mpc[p] = "pushing" /\ Doing(p)
  BY MemoryTypes DEF MemoryInv, M!PushRejected
<1>1. /\ mpc' = [mpc EXCEPT ![p] = "rejected"]
      /\ UNCHANGED <<remote, base, own, edits, cmd, seen, mine, tries, acked>>
  BY DEF M!PushRejected, M!OnRejected, M!Become, M!clones
<1>2. M!TypeOK'
  BY <1>0, <1>1 DEF M!TypeOK
<1>3. mpc'[p] = "rejected" /\ \A q \in Client \ {p} : mpc'[q] = mpc[q]
  BY <1>0, <1>1 DEF M!TypeOK
<1>4. /\ Base(p)' = Base(p) /\ Out(p)' = Out(p) /\ mine'[p] = mine[p]
      /\ M!PageIn(Base(p), mine[p].fact)' = M!PageIn(Base(p), mine[p].fact)
  BY <1>1 DEF Base, Out, M!PageIn
<1>5. Doing(p)'
  <2>1. Outgoing(p) => Outgoing(p)'
    BY <1>4 DEF Outgoing, Fits
  <2>2. Tombstone(mine[p]) => Tombstone(mine[p])'
    BY <1>1 DEF Tombstone
  <2> QED
    BY <1>0, <1>3, <1>4, <2>1, <2>2 DEF Doing, Busy
<1>6. Sending(p)' => Sending(p) /\ Out(p)'[1].id = Out(p)[1].id /\ Out(p)'[1].op = Out(p)[1].op
  BY <1>0, <1>4 DEF Sending, Busy
<1>7. edits <= edits' /\ remote' = remote /\ acked' = acked
  BY <1>0, <1>1
<1> QED
  BY <1>1, <1>2, <1>3, <1>5, <1>6, <1>7, MemoryAssembled

\* A command that fails leaves its clone as it is.
LEMMA FailStep ==
  ASSUME AgentsAlone, MemoryInv, NEW p \in Client, M!Fail(p)
  PROVE  MemoryInv'
<1>0. M!TypeOK /\ edits \in Nat /\ M!Return(p)
  BY MemoryTypes DEF MemoryInv, M!Fail
<1>1. UNCHANGED <<remote, base, own, edits, acked>>
  BY DEF M!Fail, M!clones
<1>2. M!TypeOK'
  BY <1>0, <1>1, Returned DEF M!TypeOK
<1>3. Doing(p)'
  BY <1>0, Returned DEF Doing, Busy
<1>4. edits <= edits'
  BY <1>0, <1>1
<1> QED
  BY <1>0, <1>1, <1>2, <1>3, <1>4, Returned, MemoryAssembled

\* A rebase: clean, in conflict, or of a clone without a commit.
LEMMA RebaseStep ==
  ASSUME AgentsAlone, MemoryInv, NEW p \in Client, M!Rebase(p)
  PROVE  MemoryInv'
<1> DEFINE a == AgentOf[p]
           new == M!Replay(a).new
<1>0. /\ M!TypeOK /\ remote \in Seq(M!Commit) /\ Len(remote) \in Nat /\ edits \in Nat
      /\ AgentOf \in [Client -> Agent] /\ a \in Agent
      /\ mpc[p] = "rejected" /\ M!Replay(a).clean /\ Doing(p)
  BY MemoryTypes DEF MemoryInv, M!Rebase
<1>1. /\ base' = [base EXCEPT ![a] = remote] /\ own' = [own EXCEPT ![a] = new]
      /\ UNCHANGED <<remote, edits, acked>>
      /\ \/ /\ tries[p] + 1 < MaxAttempts /\ tries' = [tries EXCEPT ![p] = tries[p] + 1]
            /\ mpc' = [mpc EXCEPT ![p] = "pushing"] /\ UNCHANGED <<cmd, seen, mine>>
         \/ M!Return(p)
  BY DEF M!Rebase, M!Become
<1>2. mine[p] \in M!Commit /\ (Outgoing(p) \/ (Out(p) = <<>> /\ Tombstone(mine[p])))
  BY <1>0 DEF Doing, Busy
<1>3. \/ /\ new \in Seq(M!Commit) /\ Len(new) = 1 /\ Outgoing(p)
         /\ new[1].id = Out(p)[1].id /\ new[1].fact = Out(p)[1].fact /\ new[1].op = Out(p)[1].op
         /\ Out(p)[1].op = "forget" => new[1].page.banner = Out(p)[1].page.banner
         /\ Fits(new[1], M!PageIn(remote, mine[p].fact))
      \/ new = <<>> /\ Tombstone(mine[p])
  <2>1. CASE Outgoing(p)
    BY <1>0, <2>1, RebaseOne
  <2>2. CASE Out(p) = <<>> /\ Tombstone(mine[p])
    BY <2>2, ReplayNone DEF Out
  <2> QED
    BY <1>2, <2>1, <2>2
<1> HIDE DEF new
<1>4. new \in Seq(M!Commit)
  <2>1. new \in Seq(M!Commit) \/ new = <<>>
    BY <1>3
  <2>2. <<>> \in Seq(M!Commit)
    OBVIOUS
  <2> QED
    BY <2>1, <2>2
<1>5. base'[a] = remote /\ own'[a] = new /\ Base(p)' = remote /\ Out(p)' = new
  BY <1>0, <1>1 DEF M!TypeOK, Base, Out
<1>6. /\ base' \in [Agent -> Seq(M!Commit)] /\ own' \in [Agent -> Seq(M!Commit)]
      /\ \A x \in Agent : \E n \in 0..Len(remote') : base'[x] = SubSeq(remote', 1, n)
  <2>1. remote = SubSeq(remote, 1, Len(remote)) /\ Len(remote) \in 0..Len(remote)
    BY <1>0, SubSeqFull
  <2>2. \A x \in Agent : \E n \in 0..Len(remote) : base'[x] = SubSeq(remote, 1, n)
    BY <1>0, <1>1, <2>1 DEF M!TypeOK
  <2> QED
    BY <1>0, <1>1, <1>4, <2>2 DEF M!TypeOK
<1>7. edits <= edits' /\ remote' = remote /\ acked' = acked
  BY <1>0, <1>1
<1>8. \A q \in Client \ {p} : AgentOf[q] # a => base'[AgentOf[q]] = base[AgentOf[q]] /\ own'[AgentOf[q]] = own[AgentOf[q]]
  BY <1>0, <1>1 DEF M!TypeOK
<1>9. CASE M!Return(p)
  <2>1. M!TypeOK'
    BY <1>0, <1>1, <1>6, <1>9, Returned DEF M!TypeOK
  <2>2. Doing(p)' /\ ~Sending(p)'
    BY <1>0, <1>9, Returned DEF Doing, Busy
  <2>3. \A q \in Client \ {p} : mpc'[q] = mpc[q] /\ cmd'[q] = cmd[q] /\ seen'[q] = seen[q] /\ mine'[q] = mine[q]
    BY <1>0, <1>9, Returned
  <2> QED
    BY <1>7, <1>8, <2>1, <2>2, <2>3, MemoryAssembled
<1>10. CASE /\ tries[p] + 1 < MaxAttempts /\ tries' = [tries EXCEPT ![p] = tries[p] + 1]
            /\ mpc' = [mpc EXCEPT ![p] = "pushing"] /\ UNCHANGED <<cmd, seen, mine>>
  <2>1. M!TypeOK'
    <3>1. tries' \in [Client -> 0..MaxAttempts]
      <4>1. MaxAttempts \in Nat /\ tries \in [Client -> 0..MaxAttempts]
        BY <1>0, MemoryTypes DEF M!TypeOK
      <4> QED
        BY <1>10, <4>1
    <3>2. mpc' \in [Client -> {"idle", "opened", "loaded", "pushing", "rejected"}]
      BY <1>0, <1>10 DEF M!TypeOK
    <3> QED
      BY <1>0, <1>1, <1>6, <1>10, <3>1, <3>2 DEF M!TypeOK
  <2>2. mpc'[p] = "pushing" /\ \A q \in Client \ {p} : mpc'[q] = mpc[q]
    BY <1>0, <1>10 DEF M!TypeOK
  <2>3. M!PageIn(Base(p), mine[p].fact)' = M!PageIn(remote, mine[p].fact) /\ mine'[p] = mine[p]
    BY <1>5, <1>10 DEF M!PageIn
  <2>4. Doing(p)'
    <3>1. CASE /\ new \in Seq(M!Commit) /\ Len(new) = 1 /\ Outgoing(p)
               /\ new[1].id = Out(p)[1].id /\ new[1].fact = Out(p)[1].fact /\ new[1].op = Out(p)[1].op
               /\ Out(p)[1].op = "forget" => new[1].page.banner = Out(p)[1].page.banner
               /\ Fits(new[1], M!PageIn(remote, mine[p].fact))
      <4>1. Outgoing(p)'
        BY <1>5, <2>3, <3>1 DEF Outgoing, Fits
      <4> QED
        BY <1>2, <2>2, <2>3, <4>1 DEF Doing, Busy
    <3>2. CASE new = <<>> /\ Tombstone(mine[p])
      <4>1. Tombstone(mine[p])'
        BY <1>7, <2>3, <3>2 DEF Tombstone
      <4> QED
        BY <1>2, <1>5, <2>2, <2>3, <3>2, <4>1 DEF Doing, Busy
    <3> QED
      BY <1>3, <3>1, <3>2
  <2>5. Sending(p)' => Sending(p) /\ Out(p)'[1].id = Out(p)[1].id /\ Out(p)'[1].op = Out(p)[1].op
    <3>1. Sending(p)' => Len(new) = 1
      BY <1>5 DEF Sending
    <3>2. Sending(p)' => Outgoing(p) /\ new[1].id = Out(p)[1].id /\ new[1].op = Out(p)[1].op
      BY <1>3, <3>1
    <3> QED
      BY <1>0, <1>5, <3>2 DEF Sending, Busy, Outgoing
  <2> QED
    BY <1>7, <1>8, <1>10, <2>1, <2>2, <2>4, <2>5, MemoryAssembled
<1> QED
  BY <1>1, <1>9, <1>10

\* No clone has a commit at the start.
LEMMA MemoryInitially ==
  ASSUME M!Init PROVE MemoryInv
<1>1. M!MemoryAssumption /\ MaxAttempts \in Nat /\ MaxEdits \in Nat
  BY SessionAssumption DEF M!MemoryAssumption
<1>2. /\ remote = <<>> /\ Len(remote) = 0 /\ acked = {} /\ edits = 0
      /\ \A p \in Client : mpc[p] = "idle"
  BY DEF M!Init
<1>3. M!TypeOK
  <2>1. <<>> \in Seq(M!Commit) /\ SubSeq(<<>>, 1, 0) = <<>>
    BY SubSeqEmpty
  <2>2. \A x \in Agent : \E n \in 0..Len(remote) : base[x] = SubSeq(remote, 1, n)
    BY <1>2, <2>1 DEF M!Init
  <2> QED
    BY <1>1, <2>1, <2>2 DEF M!Init, M!TypeOK
<1>4. \A p \in Client : Doing(p) /\ ~Sending(p)
  BY <1>2 DEF Doing, Busy, Sending
<1> QED
  BY <1>2, <1>3, <1>4 DEF MemoryInv, Numbered

\* The steps together.
LEMMA MemoryStep ==
  ASSUME AgentsAlone, MemoryInv, [M!Next]_(M!vars) PROVE MemoryInv'
<1>1. ASSUME NEW p \in Client, NEW c \in M!Command, M!Open(p, c) PROVE MemoryInv'
  BY <1>1, OpenStep
<1>2. ASSUME NEW p \in Client, M!Load(p) PROVE MemoryInv'
  BY <1>2, LoadStep
<1>3. ASSUME NEW p \in Client, M!WriteCommit(p) PROVE MemoryInv'
  BY <1>3, WriteCommitStep
<1>4. ASSUME NEW p \in Client, M!Push(p) PROVE MemoryInv'
  <2>1. /\ mpc[p] = "pushing" /\ M!FastForward(AgentOf[p]) /\ M!Publish(AgentOf[p]) /\ M!Return(p)
        /\ edits' = edits /\ acked' \in {acked, acked \cup {mine[p]}}
    BY <1>4 DEF M!Push
  <2> QED
    BY <2>1, PublishStep
<1>5. ASSUME NEW p \in Client, M!PushLost(p) PROVE MemoryInv'
  <2>1. /\ mpc[p] = "pushing" /\ M!FastForward(AgentOf[p]) /\ M!Publish(AgentOf[p]) /\ M!Return(p)
        /\ edits' = edits /\ acked' \in {acked, acked \cup {mine[p]}}
    BY <1>5 DEF M!PushLost
  <2> QED
    BY <2>1, PublishStep
<1>6. ASSUME NEW p \in Client, M!PushRejected(p) PROVE MemoryInv'
  BY <1>6, PushRejectedStep
<1>7. ASSUME NEW p \in Client, M!Rebase(p) PROVE MemoryInv'
  BY <1>7, RebaseStep
<1>8. ASSUME NEW p \in Client, M!Fail(p) PROVE MemoryInv'
  BY <1>8, FailStep
<1>9. CASE UNCHANGED M!vars
  <2>1. UNCHANGED <<remote, base, own, mpc, cmd, seen, mine, tries, edits, acked>>
    BY <1>9 DEF M!vars, M!clones, M!local
  <2>2. M!TypeOK'
    BY <2>1 DEF MemoryInv, M!TypeOK
  <2>3. \A p \in Client : Doing(p)'
    BY <2>1, DoingStays DEF MemoryInv, Grown
  <2>4. Numbered'
    BY <2>1 DEF MemoryInv, Numbered, Sending, Out
  <2>5. \A c \in acked' : Published(c)'
    BY <2>1 DEF MemoryInv, Published, Tombstone
  <2>6. \A k \in 1..Len(remote') :
          Seen(remote'[k], M!PageIn(SubSeq(remote', 1, k - 1), remote'[k].fact))
    BY <2>1 DEF MemoryInv
  <2> QED
    BY <2>2, <2>3, <2>4, <2>5, <2>6 DEF MemoryInv, Seen, M!PageIn
<1> QED
  BY <1>1, <1>2, <1>3, <1>4, <1>5, <1>6, <1>7, <1>8, <1>9 DEF M!Next

\* And so it holds throughout, for any agents that have a process each.
THEOREM MemoryInductiveInvariant ==
  ASSUME AgentsAlone PROVE M!Spec => []MemoryInv
<1>1. M!Init => MemoryInv
  BY MemoryInitially
<1>2. MemoryInv /\ [M!Next]_(M!vars) => MemoryInv'
  BY MemoryStep
<1> QED
  BY <1>1, <1>2, PTL DEF M!Spec

\* Compare-and-swap by git: a body is only replaced by one whose writer had loaded it, over
\* any number of refused pushes and rebases (memory/gitexec.go), when no two processes
\* share a clone.
THEOREM NobodyOverwritesBlindly ==
  ASSUME AgentsAlone PROVE M!Spec => []NoBlindOverwrite
<1>1. MemoryInv => NoBlindOverwrite
  <2> SUFFICES ASSUME MemoryInv, NEW k \in DOMAIN remote
               PROVE IF remote[k].op = "forget"
                     THEN M!Before(k) # None /\ remote[k].page.body = M!Before(k).body
                     ELSE /\ remote[k].saw = None <=> M!Before(k) = None
                          /\ remote[k].saw # None => remote[k].saw.body = M!Before(k).body
    BY DEF NoBlindOverwrite, M!NoBlindOverwrite
  <2>1. k \in 1..Len(remote)
    BY MemoryTypes DEF MemoryInv
  <2>2. Seen(remote[k], M!Before(k))
    BY <2>1 DEF MemoryInv, M!Before
  <2> QED
    BY <2>2 DEF Seen
<1> QED
  BY <1>1, MemoryInductiveInvariant, PTL

\* A command that reports success has its commit on the wiki, or the tombstone that it was
\* to make is there (memory/store.go), whatever pushes are lost and retried.
THEOREM SuccessMeansPublished ==
  ASSUME AgentsAlone PROVE M!Spec => []AckedPublished
<1>1. MemoryInv => AckedPublished
  <2> SUFFICES ASSUME MemoryInv, NEW c \in acked
               PROVE \E k \in DOMAIN remote :
                       /\ remote[k].fact = c.fact
                       /\ remote[k].id = c.id \/ (c.op = "forget" /\ remote[k].page.banner = c.page.banner)
    BY DEF AckedPublished, M!AckedPublished
  <2>1. DOMAIN remote = 1..Len(remote)
    BY MemoryTypes DEF MemoryInv
  <2>2. Published(c)
    BY DEF MemoryInv
  <2> QED
    BY <2>1, <2>2 DEF Published, Tombstone
<1> QED
  BY <1>1, MemoryInductiveInvariant, PTL
=============================================================================
