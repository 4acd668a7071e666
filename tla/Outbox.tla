------------------------------- MODULE Outbox -------------------------------
(***************************************************************************)
(* The forge-action outbox: Service.ProposeForgeAction (workerchannel/     *)
(* server.go) over the table forge_action_outbox (store/store.go).         *)
(*                                                                         *)
(* Workers propose forge actions to the supervisor over its socket.  Each  *)
(* proposal is served by a goroutine of its own (a call).  A call inserts  *)
(* the row of its action unless there is one, claims it, runs the action   *)
(* on the forge, and records how that went; these are separate database    *)
(* statements, and the calls of several workers, or of one worker that     *)
(* retries, interleave between them.                                       *)
(*                                                                         *)
(* A statement can fail: the request's context is cancelled when its       *)
(* worker goes away (a worker past its TTL is killed), and the database    *)
(* has no busy timeout.  The supervisor can die between any two steps;     *)
(* the row stays as it is until the next supervisor opens the session.     *)
(*                                                                         *)
(* One supervisor at a time serves the session: that is what the lease is  *)
(* for (module Lease says how far it goes).                                *)
(***************************************************************************)
EXTENDS Naturals

CONSTANTS Call,      \* goroutines serving proposals
          Action,    \* forge actions: a (work_item_id, action_key) each
          Response,  \* responses of the forge
          None,
          MaxRuns    \* bound: how often one action is run on the forge

ASSUME OutboxAssumption ==
  /\ None \notin Action
  /\ None \notin Response
  /\ MaxRuns \in Nat

VARIABLES
  supervisor, \* "up" while one has the session open and serves its socket
  state,      \* column state of each action's row, or "absent"
  response,   \* column response_json of each action's row
  attempts,   \* action_attempts: how many rows with result "committed"
  pc,         \* what each call is doing
  act,        \* the action each call proposes
  out,        \* the response the forge gave to each call
  ack,        \* the ActionAck each call answered with: a response, or None
  runs        \* how often each action was run on the forge

rows  == <<state, response, attempts>>
calls == <<pc, act, out, ack>>
vars  == <<supervisor, rows, calls, runs>>

RowState == {"absent", "pending", "in_progress", "committed"}
Pc == {"idle", "enqueued", "executing", "succeeded", "failed", "answered"}

TypeOK ==
  /\ supervisor \in {"down", "up"}
  /\ state \in [Action -> RowState]
  /\ response \in [Action -> Response \cup {None}]
  /\ attempts \in [Action -> Nat]
  /\ pc \in [Call -> Pc]
  /\ act \in [Call -> Action \cup {None}]
  /\ out \in [Call -> Response \cup {None}]
  /\ ack \in [Call -> Response \cup {None}]
  /\ runs \in [Action -> Nat]

\* A session just started: no proposals yet, and no supervisor.
Init ==
  /\ supervisor = "down"
  /\ state = [a \in Action |-> "absent"]
  /\ response = [a \in Action |-> None]
  /\ attempts = [a \in Action |-> 0]
  /\ pc = [c \in Call |-> "idle"]
  /\ act = [c \in Call |-> None]
  /\ out = [c \in Call |-> None]
  /\ ack = [c \in Call |-> None]
  /\ runs = [a \in Action |-> 0]

InFlight(c) == pc[c] \in {"executing", "succeeded", "failed"}

-----------------------------------------------------------------------------
(* One proposal.                                                            *)

\* A finished goroutine, or one that died with its supervisor, leaves nothing.
Finish(c) ==
  /\ pc' = [pc EXCEPT ![c] = "idle"]
  /\ act' = [act EXCEPT ![c] = None]
  /\ out' = [out EXCEPT ![c] = None]
  /\ ack' = [ack EXCEPT ![c] = None]

\* EnqueueForgeAction finds no row: INSERT OR IGNORE adds it as pending.
EnqueueNew(c, a) ==
  /\ supervisor = "up" /\ pc[c] = "idle"
  /\ state[a] = "absent"
  /\ state' = [state EXCEPT ![a] = "pending"]
  /\ act' = [act EXCEPT ![c] = a]
  /\ pc' = [pc EXCEPT ![c] = "enqueued"]
  /\ UNCHANGED <<supervisor, response, attempts, out, ack, runs>>

\* EnqueueForgeAction finds a row that is not committed: go on and claim it.
EnqueueExisting(c, a) ==
  /\ supervisor = "up" /\ pc[c] = "idle"
  /\ state[a] \in {"pending", "in_progress"}
  /\ act' = [act EXCEPT ![c] = a]
  /\ pc' = [pc EXCEPT ![c] = "enqueued"]
  /\ UNCHANGED <<supervisor, rows, out, ack, runs>>

\* EnqueueForgeAction finds a committed row: answer with what it holds.
AnswerCommitted(c, a) ==
  /\ supervisor = "up" /\ pc[c] = "idle"
  /\ state[a] = "committed"
  /\ act' = [act EXCEPT ![c] = a]
  /\ ack' = [ack EXCEPT ![c] = response[a]]
  /\ pc' = [pc EXCEPT ![c] = "answered"]
  /\ UNCHANGED <<supervisor, rows, out, runs>>

\* ClaimForgeAction: UPDATE ... SET state = 'in_progress' ... AND state = 'pending'.
Claimable_Bug(a) == state[a] \in {"pending", "in_progress"}
Claimable(a) == state[a] = "pending"

\* The claim succeeds and ExecuteForgeAction is called.
Claim(c) ==
  /\ pc[c] = "enqueued"
  /\ Claimable(act[c])
  /\ runs[act[c]] < MaxRuns
  /\ state' = [state EXCEPT ![act[c]] = "in_progress"]
  /\ runs' = [runs EXCEPT ![act[c]] = @ + 1]
  /\ pc' = [pc EXCEPT ![c] = "executing"]
  /\ UNCHANGED <<supervisor, response, attempts, act, out, ack>>

\* The claim changes no row ("already in progress"), or its statement fails.
ClaimRefused(c) ==
  /\ pc[c] = "enqueued"
  /\ Finish(c)
  /\ UNCHANGED <<supervisor, rows, runs>>

\* ExecuteForgeAction returns a response, or an error (there is no executor, the
\* forge refused, or the forge did the action and the answer was lost).
ExecuteOk(c) ==
  /\ pc[c] = "executing"
  /\ \E r \in Response : out' = [out EXCEPT ![c] = r]
  /\ pc' = [pc EXCEPT ![c] = "succeeded"]
  /\ UNCHANGED <<supervisor, rows, act, ack, runs>>

ExecuteError(c) ==
  /\ pc[c] = "executing"
  /\ pc' = [pc EXCEPT ![c] = "failed"]
  /\ UNCHANGED <<supervisor, rows, act, out, ack, runs>>

-----------------------------------------------------------------------------
(* RecordForgeActionAttempt: one transaction.                               *)

\* What RecordForgeActionAttempt(committed) leaves in the row.
Committed(a, r) ==
  /\ state' = [state EXCEPT ![a] = "committed"]
  /\ response' = [response EXCEPT ![a] = r]

\* The result is committed, and so answered.
RecordCommitted(c) ==
  /\ pc[c] = "succeeded"
  /\ Committed(act[c], out[c])
  /\ attempts' = [attempts EXCEPT ![act[c]] = @ + 1]
  /\ ack' = [ack EXCEPT ![c] = out[c]]
  /\ pc' = [pc EXCEPT ![c] = "answered"]
  /\ UNCHANGED <<supervisor, act, out, runs>>

\* The transaction fails: the caller gets the error, the row stays claimed.
\* Answering before the result is recorded would be the fault.
OnRecordFailure_Bug(c) ==
  /\ ack' = [ack EXCEPT ![c] = out[c]]
  /\ pc' = [pc EXCEPT ![c] = "answered"]
  /\ UNCHANGED <<act, out>>
OnRecordFailure(c) == Finish(c)

RecordCommittedFails(c) ==
  /\ pc[c] = "succeeded"
  /\ OnRecordFailure(c)
  /\ UNCHANGED <<supervisor, rows, runs>>

\* The error is recorded: the row can be claimed again.
RecordError(c) ==
  /\ pc[c] = "failed"
  /\ state' = [state EXCEPT ![act[c]] = IF @ = "in_progress" THEN "pending" ELSE @]
  /\ Finish(c)
  /\ UNCHANGED <<supervisor, response, attempts, runs>>

\* Recording the error fails, which nobody looks at: the row stays claimed.
RecordErrorFails(c) ==
  /\ pc[c] = "failed"
  /\ Finish(c)
  /\ UNCHANGED <<supervisor, rows, runs>>

\* The worker has its answer, or its connection broke on the way.
Answer(c) ==
  /\ pc[c] = "answered"
  /\ Finish(c)
  /\ UNCHANGED <<supervisor, rows, runs>>

-----------------------------------------------------------------------------
(* The supervisor.                                                          *)

\* OpenSessionRepo: ReleaseOrphanedForgeActionClaims makes every claim of the
\* previous supervisor claimable again; then the socket is served.
Released_Bug(s) == "pending"
Released(s) == IF s = "in_progress" THEN "pending" ELSE s

Open ==
  /\ supervisor = "down"
  /\ supervisor' = "up"
  /\ state' = [a \in Action |-> IF state[a] = "absent" THEN "absent" ELSE Released(state[a])]
  /\ UNCHANGED <<response, attempts, calls, runs>>

\* The supervisor ends or is killed, and its goroutines with it.
Stop ==
  /\ supervisor = "up"
  /\ supervisor' = "down"
  /\ pc' = [c \in Call |-> "idle"]
  /\ act' = [c \in Call |-> None]
  /\ out' = [c \in Call |-> None]
  /\ ack' = [c \in Call |-> None]
  /\ UNCHANGED <<rows, runs>>

-----------------------------------------------------------------------------

CallStep(c) ==
  \/ \E a \in Action : EnqueueNew(c, a) \/ EnqueueExisting(c, a) \/ AnswerCommitted(c, a)
  \/ Claim(c) \/ ClaimRefused(c)
  \/ ExecuteOk(c) \/ ExecuteError(c)
  \/ RecordCommitted(c) \/ RecordCommittedFails(c)
  \/ RecordError(c) \/ RecordErrorFails(c)
  \/ Answer(c)

Next == Open \/ Stop \/ \E c \in Call : CallStep(c)

Spec == Init /\ [][Next]_vars

-----------------------------------------------------------------------------
(* Properties.                                                              *)

\* Two calls never run the same action on the forge at the same time, and while
\* one runs it the row says so: no retry, no second worker and no restart lets a
\* second execution start beside a running one.
SingleFlight ==
  /\ \A c, d \in Call : InFlight(c) /\ InFlight(d) /\ act[c] = act[d] => c = d
  /\ \A c \in Call : InFlight(c) => state[act[c]] = "in_progress"

\* An answer is never invented: a call that answered "committed" answered with
\* the response that is in the row for good, and the forge ran the action.
AnswersAreRecorded ==
  \A c \in Call : pc[c] = "answered" =>
    /\ state[act[c]] = "committed"
    /\ ack[c] = response[act[c]]
    /\ runs[act[c]] > 0

\* The attempts log has one committed entry for a committed action and none for
\* any other, however often the action was run.
OneCommittedAttempt ==
  \A a \in Action : attempts[a] = IF state[a] = "committed" THEN 1 ELSE 0

\* The outbox implements ForgeAction: the recorded result is the response of a
\* committed row.
recorded == [a \in Action |-> IF state[a] = "committed" THEN response[a] ELSE None]

Promise == INSTANCE ForgeAction WITH result <- recorded
ImplementsForgeAction == Promise!Spec
=============================================================================
