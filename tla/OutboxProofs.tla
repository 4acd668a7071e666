---------------------------- MODULE OutboxProofs ----------------------------
(* Proofs about Outbox, for any number of calls, actions and responses, and *)
(* any bound on the executions; and about Handover, which puts the table    *)
(* behind any number of supervisors.                                        *)
EXTENDS Handover, TLAPS

-----------------------------------------------------------------------------
(* Outbox: the calls of one supervisor at a time.                           *)

\* What the pc of a call says about its locals and about the supervisor.
CallsWellFormed ==
  \A c \in Call :
    /\ pc[c] # "idle" => supervisor = "up" /\ act[c] \in Action
    /\ InFlight(c) => runs[act[c]] > 0
    /\ pc[c] = "succeeded" => out[c] \in Response

\* A committed row holds a response of the forge, which ran the action.
RowsWellFormed ==
  \A a \in Action : state[a] = "committed" => response[a] \in Response /\ runs[a] > 0

IInv ==
  /\ TypeOK
  /\ CallsWellFormed
  /\ RowsWellFormed
  /\ SingleFlight
  /\ AnswersAreRecorded
  /\ OneCommittedAttempt

-----------------------------------------------------------------------------

\* Types, and the shape of calls and rows.
LEMMA ShapeStep ==
  IInv /\ [Next]_vars => TypeOK' /\ CallsWellFormed' /\ RowsWellFormed'
<1> SUFFICES ASSUME IInv, [Next]_vars
             PROVE  TypeOK' /\ CallsWellFormed' /\ RowsWellFormed'
  OBVIOUS
<1> USE OutboxAssumption DEF IInv, TypeOK, CallsWellFormed, RowsWellFormed, SingleFlight,
        InFlight, Pc, RowState, rows, calls
<1>1. ASSUME NEW c \in Call, NEW a \in Action, EnqueueNew(c, a) PROVE TypeOK' /\ CallsWellFormed' /\ RowsWellFormed'
  BY <1>1 DEF EnqueueNew
<1>2. ASSUME NEW c \in Call, NEW a \in Action, EnqueueExisting(c, a) PROVE TypeOK' /\ CallsWellFormed' /\ RowsWellFormed'
  BY <1>2 DEF EnqueueExisting
<1>3. ASSUME NEW c \in Call, NEW a \in Action, AnswerCommitted(c, a) PROVE TypeOK' /\ CallsWellFormed' /\ RowsWellFormed'
  BY <1>3 DEF AnswerCommitted
<1>4. ASSUME NEW c \in Call, Claim(c) PROVE TypeOK' /\ CallsWellFormed' /\ RowsWellFormed'
  BY <1>4 DEF Claim, Claimable
<1>5. ASSUME NEW c \in Call, ClaimRefused(c) PROVE TypeOK' /\ CallsWellFormed' /\ RowsWellFormed'
  BY <1>5 DEF ClaimRefused, Finish
<1>6. ASSUME NEW c \in Call, ExecuteOk(c) PROVE TypeOK' /\ CallsWellFormed' /\ RowsWellFormed'
  BY <1>6 DEF ExecuteOk
<1>7. ASSUME NEW c \in Call, ExecuteError(c) PROVE TypeOK' /\ CallsWellFormed' /\ RowsWellFormed'
  BY <1>7 DEF ExecuteError
<1>8. ASSUME NEW c \in Call, RecordCommitted(c) PROVE TypeOK' /\ CallsWellFormed' /\ RowsWellFormed'
  BY <1>8 DEF RecordCommitted, Committed
<1>9. ASSUME NEW c \in Call, RecordCommittedFails(c) PROVE TypeOK' /\ CallsWellFormed' /\ RowsWellFormed'
  BY <1>9 DEF RecordCommittedFails, OnRecordFailure, Finish
<1>10. ASSUME NEW c \in Call, RecordError(c) PROVE TypeOK' /\ CallsWellFormed' /\ RowsWellFormed'
  BY <1>10 DEF RecordError, Finish
<1>11. ASSUME NEW c \in Call, RecordErrorFails(c) PROVE TypeOK' /\ CallsWellFormed' /\ RowsWellFormed'
  BY <1>11 DEF RecordErrorFails, Finish
<1>12. ASSUME NEW c \in Call, Answer(c) PROVE TypeOK' /\ CallsWellFormed' /\ RowsWellFormed'
  BY <1>12 DEF Answer, Finish
<1>13. CASE Open
  BY <1>13 DEF Open, Released
<1>14. CASE Stop
  BY <1>14 DEF Stop
<1>15. CASE UNCHANGED vars
  BY <1>15 DEF vars, rows, calls
<1> QED
  BY <1>1, <1>2, <1>3, <1>4, <1>5, <1>6, <1>7, <1>8, <1>9,
     <1>10, <1>11, <1>12, <1>13, <1>14, <1>15
     DEF Next, CallStep

\* One execution at a time: a claim needs a pending row, and a row is not pending
\* while a call is in flight.
LEMMA SingleFlightStep ==
  IInv /\ [Next]_vars => SingleFlight'
<1> SUFFICES ASSUME IInv, [Next]_vars PROVE SingleFlight'
  OBVIOUS
<1> USE OutboxAssumption DEF IInv, TypeOK, CallsWellFormed, SingleFlight, InFlight, Pc, RowState,
        rows, calls
<1>1. ASSUME NEW c \in Call, NEW a \in Action, EnqueueNew(c, a) PROVE SingleFlight'
  BY <1>1 DEF EnqueueNew
<1>2. ASSUME NEW c \in Call, NEW a \in Action, EnqueueExisting(c, a) PROVE SingleFlight'
  BY <1>2 DEF EnqueueExisting
<1>3. ASSUME NEW c \in Call, NEW a \in Action, AnswerCommitted(c, a) PROVE SingleFlight'
  BY <1>3 DEF AnswerCommitted
<1>4. ASSUME NEW c \in Call, Claim(c) PROVE SingleFlight'
  BY <1>4 DEF Claim, Claimable
<1>5. ASSUME NEW c \in Call, ClaimRefused(c) PROVE SingleFlight'
  BY <1>5 DEF ClaimRefused, Finish
<1>6. ASSUME NEW c \in Call, ExecuteOk(c) PROVE SingleFlight'
  BY <1>6 DEF ExecuteOk
<1>7. ASSUME NEW c \in Call, ExecuteError(c) PROVE SingleFlight'
  BY <1>7 DEF ExecuteError
<1>8. ASSUME NEW c \in Call, RecordCommitted(c) PROVE SingleFlight'
  BY <1>8 DEF RecordCommitted, Committed
<1>9. ASSUME NEW c \in Call, RecordCommittedFails(c) PROVE SingleFlight'
  BY <1>9 DEF RecordCommittedFails, OnRecordFailure, Finish
<1>10. ASSUME NEW c \in Call, RecordError(c) PROVE SingleFlight'
  BY <1>10 DEF RecordError, Finish
<1>11. ASSUME NEW c \in Call, RecordErrorFails(c) PROVE SingleFlight'
  BY <1>11 DEF RecordErrorFails, Finish
<1>12. ASSUME NEW c \in Call, Answer(c) PROVE SingleFlight'
  BY <1>12 DEF Answer, Finish
<1>13. CASE Open
  BY <1>13 DEF Open, Released
<1>14. CASE Stop
  BY <1>14 DEF Stop
<1>15. CASE UNCHANGED vars
  BY <1>15 DEF vars, rows, calls
<1> QED
  BY <1>1, <1>2, <1>3, <1>4, <1>5, <1>6, <1>7, <1>8, <1>9,
     <1>10, <1>11, <1>12, <1>13, <1>14, <1>15
     DEF Next, CallStep

\* Answers and the attempts log follow the rows.
LEMMA RecordStep ==
  IInv /\ [Next]_vars => AnswersAreRecorded' /\ OneCommittedAttempt'
<1> SUFFICES ASSUME IInv, [Next]_vars
             PROVE  AnswersAreRecorded' /\ OneCommittedAttempt'
  OBVIOUS
<1> USE OutboxAssumption DEF IInv, TypeOK, CallsWellFormed, RowsWellFormed, SingleFlight,
        AnswersAreRecorded, OneCommittedAttempt, InFlight, Pc, RowState, rows, calls
<1>1. ASSUME NEW c \in Call, NEW a \in Action, EnqueueNew(c, a) PROVE AnswersAreRecorded' /\ OneCommittedAttempt'
  BY <1>1 DEF EnqueueNew
<1>2. ASSUME NEW c \in Call, NEW a \in Action, EnqueueExisting(c, a) PROVE AnswersAreRecorded' /\ OneCommittedAttempt'
  BY <1>2 DEF EnqueueExisting
<1>3. ASSUME NEW c \in Call, NEW a \in Action, AnswerCommitted(c, a) PROVE AnswersAreRecorded' /\ OneCommittedAttempt'
  BY <1>3 DEF AnswerCommitted
<1>4. ASSUME NEW c \in Call, Claim(c) PROVE AnswersAreRecorded' /\ OneCommittedAttempt'
  BY <1>4 DEF Claim, Claimable
<1>5. ASSUME NEW c \in Call, ClaimRefused(c) PROVE AnswersAreRecorded' /\ OneCommittedAttempt'
  BY <1>5 DEF ClaimRefused, Finish
<1>6. ASSUME NEW c \in Call, ExecuteOk(c) PROVE AnswersAreRecorded' /\ OneCommittedAttempt'
  BY <1>6 DEF ExecuteOk
<1>7. ASSUME NEW c \in Call, ExecuteError(c) PROVE AnswersAreRecorded' /\ OneCommittedAttempt'
  BY <1>7 DEF ExecuteError
<1>8. ASSUME NEW c \in Call, RecordCommitted(c) PROVE AnswersAreRecorded' /\ OneCommittedAttempt'
  BY <1>8 DEF RecordCommitted, Committed
<1>9. ASSUME NEW c \in Call, RecordCommittedFails(c) PROVE AnswersAreRecorded' /\ OneCommittedAttempt'
  BY <1>9 DEF RecordCommittedFails, OnRecordFailure, Finish
<1>10. ASSUME NEW c \in Call, RecordError(c) PROVE AnswersAreRecorded' /\ OneCommittedAttempt'
  BY <1>10 DEF RecordError, Finish
<1>11. ASSUME NEW c \in Call, RecordErrorFails(c) PROVE AnswersAreRecorded' /\ OneCommittedAttempt'
  BY <1>11 DEF RecordErrorFails, Finish
<1>12. ASSUME NEW c \in Call, Answer(c) PROVE AnswersAreRecorded' /\ OneCommittedAttempt'
  BY <1>12 DEF Answer, Finish
<1>13. CASE Open
  BY <1>13 DEF Open, Released
<1>14. CASE Stop
  BY <1>14 DEF Stop
<1>15. CASE UNCHANGED vars
  BY <1>15 DEF vars, rows, calls
<1> QED
  BY <1>1, <1>2, <1>3, <1>4, <1>5, <1>6, <1>7, <1>8, <1>9,
     <1>10, <1>11, <1>12, <1>13, <1>14, <1>15
     DEF Next, CallStep

\* The conjunction is an inductive invariant.
THEOREM Inductive == Spec => []IInv
<1>1. Init => IInv
  BY OutboxAssumption DEF Init, IInv, TypeOK, CallsWellFormed, RowsWellFormed, SingleFlight,
     AnswersAreRecorded, OneCommittedAttempt, InFlight, Pc, RowState
<1>2. IInv /\ [Next]_vars => IInv'
  BY ShapeStep, SingleFlightStep, RecordStep DEF IInv
<1> QED
  BY <1>1, <1>2, PTL DEF Spec

\* Type correctness.
THEOREM TypeCorrect == Spec => []TypeOK
<1>1. IInv => TypeOK
  BY DEF IInv
<1> QED
  BY <1>1, Inductive, PTL

\* No action is ever run by two calls at once.
THEOREM OneExecution == Spec => []SingleFlight
<1>1. IInv => SingleFlight
  BY DEF IInv
<1> QED
  BY <1>1, Inductive, PTL

\* Every answer is in the table, for good, and the forge ran the action.
THEOREM HonestAnswers == Spec => []AnswersAreRecorded
<1>1. IInv => AnswersAreRecorded
  BY DEF IInv
<1> QED
  BY <1>1, Inductive, PTL

\* The attempts log has one committed entry per committed action.
THEOREM AttemptsLog == Spec => []OneCommittedAttempt
<1>1. IInv => OneCommittedAttempt
  BY DEF IInv
<1> QED
  BY <1>1, Inductive, PTL

-----------------------------------------------------------------------------
(* Outbox implements ForgeAction.                                           *)

\* Every step of the outbox is a run, a record, or invisible in ForgeAction.
LEMMA PromiseStep ==
  IInv /\ [Next]_vars => [Promise!Next]_<<runs, recorded>>
<1> SUFFICES ASSUME IInv, [Next]_vars
             PROVE  Promise!Next \/ UNCHANGED <<runs, recorded>>
  OBVIOUS
<1> USE OutboxAssumption DEF IInv, TypeOK, CallsWellFormed, RowsWellFormed, SingleFlight,
        InFlight, Pc, RowState, recorded
<1>1. ASSUME NEW c \in Call, Claim(c) PROVE Promise!Next
  <2>1. Promise!Run(act[c])
    BY <1>1 DEF Claim, Claimable, Promise!Run
  <2> QED
    BY <1>1, <2>1 DEF Claim, Promise!Next
<1>2. ASSUME NEW c \in Call, RecordCommitted(c) PROVE Promise!Next
  <2>1. act[c] \in Action /\ out[c] \in Response /\ runs[act[c]] > 0
    BY <1>2 DEF RecordCommitted
  <2>2. PICK a \in Action : a = act[c]
    BY <2>1
  <2>3. state[a] = "in_progress"
    BY <1>2, <2>2 DEF RecordCommitted
  <2>4. recorded' = [recorded EXCEPT ![a] = out[c]]
    BY <1>2, <2>2 DEF RecordCommitted, Committed
  <2>5. Promise!Record(a)
    BY <1>2, <2>1, <2>2, <2>3, <2>4 DEF RecordCommitted, Promise!Record
  <2> QED
    BY <2>5 DEF Promise!Next
<1>3. ASSUME NEW c \in Call, NEW a \in Action,
             EnqueueNew(c, a) \/ EnqueueExisting(c, a) \/ AnswerCommitted(c, a)
      PROVE  UNCHANGED <<runs, recorded>>
  BY <1>3 DEF EnqueueNew, EnqueueExisting, AnswerCommitted, rows
<1>4. ASSUME NEW c \in Call,
             ClaimRefused(c) \/ ExecuteOk(c) \/ ExecuteError(c) \/ RecordCommittedFails(c)
               \/ RecordErrorFails(c) \/ Answer(c)
      PROVE  UNCHANGED <<runs, recorded>>
  BY <1>4 DEF ClaimRefused, ExecuteOk, ExecuteError, RecordCommittedFails, RecordErrorFails,
     Answer, rows
<1>5. ASSUME NEW c \in Call, RecordError(c) PROVE UNCHANGED <<runs, recorded>>
  BY <1>5 DEF RecordError
<1>6. CASE Open
  BY <1>6 DEF Open, Released
<1>7. CASE Stop
  BY <1>7 DEF Stop, rows
<1>8. CASE UNCHANGED vars
  BY <1>8 DEF vars, rows
<1> QED
  BY <1>1, <1>2, <1>3, <1>4, <1>5, <1>6, <1>7, <1>8 DEF Next, CallStep

\* The outbox keeps the promise of ForgeAction: an action with a recorded result
\* is never run again, and its result never changes.
THEOREM Refinement == Spec => ImplementsForgeAction
<1>1. Init => Promise!Init
  BY DEF Init, Promise!Init, recorded
<1> QED
  BY <1>1, PromiseStep, Inductive, PTL DEF Spec, ImplementsForgeAction, Promise!Spec

-----------------------------------------------------------------------------
(* Handover: two supervisors on one session.                                *)


\* A call has an action, and a response once it succeeded.
ProposalsWellFormed ==
  \A c \in Call :
    /\ pc[c] # "idle" => act[c] \in Action
    /\ pc[c] = "succeeded" => out[c] \in Response

\* An action that was never released under a running call is claimed by at most
\* one call; while that one runs, the row says so, and the attempts log follows
\* the row.
UnreleasedInOrder ==
  \A a \in Action \ orphaned :
    /\ \A c, d \in Call : InFlight(c) /\ InFlight(d) /\ act[c] = a /\ act[d] = a => c = d
    /\ \A c \in Call : InFlight(c) /\ act[c] = a => state[a] = "in_progress"
    /\ attempts[a] = IF state[a] = "committed" THEN 1 ELSE 0

\* One supervisor at a time has the lease.
OneHolder ==
  \A s, u \in Sup :
    stage[s] \in {"opened", "serving"} /\ stage[u] \in {"opened", "serving"} => s = u

HIInv ==
  /\ HTypeOK
  /\ ProposalsWellFormed
  /\ UnreleasedInOrder
  /\ OneHolder
  /\ Reachable

-----------------------------------------------------------------------------
(* The steps of calls are module Outbox's.                                  *)

\* A step of a call keeps the types of the outbox, the shape of the calls and
\* the order of the actions that were never released under a running call.
LEMMA CallKeeps ==
  ASSUME HIInv, NEW c \in Call, UNCHANGED orphaned,
         (\E a \in Action : EnqueueNew(c, a) \/ EnqueueExisting(c, a) \/ AnswerCommitted(c, a))
           \/ GoOn(c) \/ End(c)
  PROVE  TypeOK' /\ ProposalsWellFormed' /\ UnreleasedInOrder'
<1> USE OutboxAssumption DEF HIInv, HTypeOK, TypeOK, ProposalsWellFormed, UnreleasedInOrder,
        InFlight, Pc, RowState, rows, calls
<1> DEFINE Kept == TypeOK' /\ ProposalsWellFormed' /\ UnreleasedInOrder'
<1>1. ASSUME NEW a \in Action, EnqueueNew(c, a) PROVE Kept
  BY <1>1 DEF EnqueueNew
<1>2. ASSUME NEW a \in Action, EnqueueExisting(c, a) PROVE Kept
  BY <1>2 DEF EnqueueExisting
<1>3. ASSUME NEW a \in Action, AnswerCommitted(c, a) PROVE Kept
  BY <1>3 DEF AnswerCommitted
<1>4. CASE Claim(c)
  BY <1>4 DEF Claim, Claimable
<1>5. CASE ClaimRefused(c)
  BY <1>5 DEF ClaimRefused, Finish
<1>6. CASE ExecuteOk(c)
  BY <1>6 DEF ExecuteOk
<1>7. CASE ExecuteError(c)
  BY <1>7 DEF ExecuteError
<1>8. CASE RecordCommitted(c)
  BY <1>8 DEF RecordCommitted, Committed
<1>9. CASE RecordCommittedFails(c)
  BY <1>9 DEF RecordCommittedFails, OnRecordFailure, Finish
<1>10. CASE RecordError(c)
  BY <1>10 DEF RecordError, Finish
<1>11. CASE RecordErrorFails(c)
  BY <1>11 DEF RecordErrorFails, Finish
<1>12. CASE Answer(c)
  BY <1>12 DEF Answer, Finish
<1> QED
  BY <1>1, <1>2, <1>3, <1>4, <1>5, <1>6, <1>7, <1>8, <1>9, <1>10, <1>11, <1>12
     DEF GoOn, End

\* So does every step of the handover.
LEMMA OutboxKeeps ==
  HIInv /\ [HNext]_hvars => TypeOK' /\ ProposalsWellFormed' /\ UnreleasedInOrder'
<1> SUFFICES ASSUME HIInv, [HNext]_hvars
             PROVE  TypeOK' /\ ProposalsWellFormed' /\ UnreleasedInOrder'
  OBVIOUS
<1> DEFINE Kept == TypeOK' /\ ProposalsWellFormed' /\ UnreleasedInOrder'
<1>1. ASSUME NEW c \in Call, Propose(c) \/ Proceed(c) \/ EndCall(c) PROVE Kept
  <2>1. UNCHANGED orphaned
    BY <1>1 DEF Propose, Proceed, EndCall, sups
  <2> QED
    BY <1>1, <2>1, CallKeeps DEF Propose, Proceed, EndCall
<1> USE OutboxAssumption DEF HIInv, HTypeOK, TypeOK, ProposalsWellFormed, UnreleasedInOrder,
        InFlight, Pc, RowState, rows, calls, vars
<1>2. ASSUME NEW s \in Sup, OpenSession(s) PROVE Kept
  <2>1. TypeOK'
    BY <1>2 DEF OpenSession, Released
  <2>2. ProposalsWellFormed'
    BY <1>2 DEF OpenSession
  <2>3. ASSUME NEW a \in Action, a \notin orphaned'
        PROVE  /\ ~ \E c \in Call : InFlight(c)' /\ act'[c] = a
               /\ attempts'[a] = IF state'[a] = "committed" THEN 1 ELSE 0
    BY <1>2, <2>3 DEF OpenSession, Released
  <2> QED
    BY <2>1, <2>2, <2>3
<1>3. ASSUME NEW s \in Sup, Serve(s) \/ Release(s) \/ CloseSocket(s) PROVE Kept
  BY <1>3 DEF Serve, Release, CloseSocket
<1>4. ASSUME NEW s \in Sup, ExitProcess(s) PROVE Kept
  BY <1>4 DEF ExitProcess, Drop
<1>5. CASE UNCHANGED hvars
  BY <1>5 DEF hvars, sups
<1> QED
  BY <1>1, <1>2, <1>3, <1>4, <1>5 DEF HNext

-----------------------------------------------------------------------------
(* The supervisors.                                                         *)

\* The lease has one holder, and the path leads to a supervisor that serves unless
\* another one closed a listener after it.
LEMMA SupervisorsKeep ==
  HIInv /\ [HNext]_hvars => HTypeOK' /\ OneHolder' /\ Reachable'
<1> SUFFICES ASSUME HIInv, [HNext]_hvars PROVE HTypeOK' /\ OneHolder' /\ Reachable'
  OBVIOUS
<1>0. TypeOK'
  BY OutboxKeeps
<1> USE <1>0, HandoverAssumption, OutboxAssumption DEF HIInv, HTypeOK, Stage, Become
<1>1. ASSUME NEW c \in Call, Propose(c) \/ Proceed(c) \/ EndCall(c)
      PROVE  HTypeOK' /\ OneHolder' /\ Reachable'
  <2>1. UNCHANGED sups /\ by' \in [Call -> Sup \cup {None}]
    BY <1>1 DEF Propose, Proceed, EndCall, sups
  <2> QED
    BY <2>1 DEF sups, OneHolder, Reachable
<1>2. ASSUME NEW s \in Sup, OpenSession(s) PROVE HTypeOK' /\ OneHolder' /\ Reachable'
  <2>1. ASSUME NEW c \in Call, InFlight(c) PROVE act[c] \in Action
    BY <2>1 DEF ProposalsWellFormed, InFlight
  <2>2. HTypeOK'
    BY <1>2, <2>1 DEF OpenSession
  <2> QED
    BY <1>2, <2>2 DEF OpenSession, MayAcquire, OneHolder, Reachable
<1>3. ASSUME NEW s \in Sup, Serve(s) PROVE HTypeOK' /\ OneHolder' /\ Reachable'
  BY <1>3 DEF Serve, OneHolder, Reachable
<1>4. ASSUME NEW s \in Sup, Release(s) PROVE HTypeOK' /\ OneHolder' /\ Reachable'
  BY <1>4 DEF Release, OneHolder, Reachable
<1>5. ASSUME NEW s \in Sup, CloseSocket(s) PROVE HTypeOK' /\ OneHolder' /\ Reachable'
  BY <1>5 DEF CloseSocket, OneHolder, Reachable
<1>6. ASSUME NEW s \in Sup, ExitProcess(s) PROVE HTypeOK' /\ OneHolder' /\ Reachable'
  BY <1>6 DEF ExitProcess, Drop, OneHolder, Reachable
<1>7. CASE UNCHANGED hvars
  BY <1>7 DEF hvars, sups, OneHolder, Reachable
<1> QED
  BY <1>1, <1>2, <1>3, <1>4, <1>5, <1>6, <1>7 DEF HNext

-----------------------------------------------------------------------------

\* The conjunction is an inductive invariant.
THEOREM HandoverInductive == HSpec => []HIInv
<1>1. HInit => HIInv
  BY OutboxAssumption, HandoverAssumption
     DEF HInit, Init, HIInv, HTypeOK, TypeOK, ProposalsWellFormed, UnreleasedInOrder,
         OneHolder, Reachable, InFlight, Pc, RowState, Stage
<1>2. HIInv /\ [HNext]_hvars => HIInv'
  BY OutboxKeeps, SupervisorsKeep DEF HIInv
<1> QED
  BY <1>1, <1>2, PTL DEF HSpec

\* An action is run beside itself, or committed twice, only when a supervisor took
\* the session over while its predecessor was still running it.
THEOREM OnlyTakeoversRepeat == HSpec => []TakeoverOnly
<1>1. HIInv => TakeoverOnly
  BY DEF HIInv, HTypeOK, TypeOK, UnreleasedInOrder, TakeoverOnly, RowState
<1> QED
  BY <1>1, HandoverInductive, PTL

\* The supervisor that serves is reached by the path, unless its predecessor was
\* still to close its listener when it came.
THEOREM HolderReachable == HSpec => []Reachable
<1>1. HIInv => Reachable
  BY DEF HIInv
<1> QED
  BY <1>1, HandoverInductive, PTL
=============================================================================
