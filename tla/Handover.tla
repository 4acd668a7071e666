------------------------------ MODULE Handover -----------------------------
(***************************************************************************)
(* The outbox when one supervisor follows another: the end of `sprint run` *)
(* (cli/ops/sprint.go), the next one's OpenSessionRepo (store/store.go),   *)
(* and the socket that both listen on (singlehost/server.go).              *)
(*                                                                         *)
(* Module Outbox takes a supervisor to be gone when the next one comes.    *)
(* But `sprint run` gives the lease back first and then returns: only the  *)
(* deferred calls close the socket and the database, and only the exit of  *)
(* the process ends the proposals it still serves.  The next supervisor    *)
(* may be up by then.  The proposals are module Outbox's, statement for    *)
(* statement; each belongs to the supervisor whose socket it came in by.   *)
(*                                                                         *)
(* The socket's path is the session's, the same for both.  Listening takes *)
(* the path over; closing a listener unlinks the path, whoever's it is.    *)
(***************************************************************************)
EXTENDS Outbox

CONSTANT Sup  \* the runs of `sprint run`

ASSUME HandoverAssumption == None \notin Sup

VARIABLES
  stage,    \* where each supervisor is
  sock,     \* the supervisor whose listener the path leads to
  by,       \* the supervisor that serves each call
  orphaned, \* history: actions whose claim was released while they were running
  cut       \* history: supervisors whose path another one unlinked

sups  == <<stage, sock, orphaned, cut>>
hvars == <<vars, sups, by>>

Stage == {"new", "opened", "serving", "released", "closing", "gone"}

HTypeOK ==
  /\ TypeOK
  /\ stage \in [Sup -> Stage]
  /\ sock \in Sup \cup {None}
  /\ by \in [Call -> Sup \cup {None}]
  /\ orphaned \subseteq Action /\ cut \subseteq Sup

HInit ==
  /\ Init
  /\ stage = [s \in Sup |-> "new"]
  /\ sock = None
  /\ by = [c \in Call |-> None]
  /\ orphaned = {} /\ cut = {}

Become(s, where) == stage' = [stage EXCEPT ![s] = where]

\* Acquire succeeds; OpenSessionRepo makes the claims claimable: those left behind, and
\* those of a supervisor that has given its lease back and runs on.
MayAcquire_Bug == TRUE
MayAcquire == \A s \in Sup : stage[s] \notin {"opened", "serving"}
OpenSession(s) ==
  /\ stage[s] = "new" /\ MayAcquire
  /\ Become(s, "opened")
  /\ supervisor' = "up"
  /\ state' = [a \in Action |-> Released(state[a])]
  /\ orphaned' = orphaned \cup {act[c] : c \in {d \in Call : InFlight(d)}}
  /\ UNCHANGED <<response, attempts, calls, runs, sock, by, cut>>

\* singlehost.Serve: the path is removed and made again.
Serve(s) ==
  /\ stage[s] = "opened"
  /\ Become(s, "serving")
  /\ sock' = s
  /\ UNCHANGED <<vars, by, orphaned, cut>>

\* A proposal comes in at the path; the listener takes calls until it is closed.
Propose(c) ==
  /\ sock # None /\ stage[sock] \in {"serving", "released"}
  /\ \E a \in Action : EnqueueNew(c, a) \/ EnqueueExisting(c, a) \/ AnswerCommitted(c, a)
  /\ by' = [by EXCEPT ![c] = sock]
  /\ UNCHANGED sups

GoOn(c) ==
  \/ Claim(c)
  \/ ExecuteOk(c) \/ ExecuteError(c)
  \/ RecordCommitted(c)
Proceed(c) == GoOn(c) /\ UNCHANGED <<sups, by>>

End(c) ==
  \/ ClaimRefused(c)
  \/ RecordCommittedFails(c)
  \/ RecordError(c) \/ RecordErrorFails(c)
  \/ Answer(c)
EndCall(c) ==
  /\ End(c)
  /\ by' = [by EXCEPT ![c] = None]
  /\ UNCHANGED sups

\* The loop has ended: the workers are killed, the lease is given back.
Release(s) ==
  /\ stage[s] = "serving"
  /\ Become(s, "released")
  /\ UNCHANGED <<vars, sock, by, orphaned, cut>>

\* The deferred HTTPServer.Close.
CloseSocket(s) ==
  /\ stage[s] = "released"
  /\ Become(s, "closing")
  /\ sock' = None
  /\ cut' = IF sock = s THEN cut ELSE cut \cup {u \in Sup : u = sock}
  /\ UNCHANGED <<vars, by, orphaned>>

\* The process exits, or is killed at any time before; its calls end where they are.
Drop(s) ==
  LET mine == {c \in Call : by[c] = s}
      reset(f, to) == [c \in Call |-> IF c \in mine THEN to ELSE f[c]]
  IN /\ pc' = reset(pc, "idle")
     /\ act' = reset(act, None)
     /\ out' = reset(out, None)
     /\ ack' = reset(ack, None)
     /\ by' = reset(by, None)
ExitProcess(s) ==
  /\ stage[s] \notin {"new", "gone"}
  /\ Become(s, "gone")
  /\ Drop(s)
  /\ UNCHANGED <<supervisor, rows, runs, sock, orphaned, cut>>

HNext ==
  \/ \E s \in Sup : OpenSession(s) \/ Serve(s) \/ Release(s) \/ CloseSocket(s) \/ ExitProcess(s)
  \/ \E c \in Call : Propose(c) \/ Proceed(c) \/ EndCall(c)

HSpec == HInit /\ [][HNext]_hvars

-----------------------------------------------------------------------------

\* An action is run beside itself, or committed twice, only when a supervisor took the
\* session over while its predecessor, the lease given back, was still running it.
TakeoverOnly ==
  \A a \in Action \ orphaned :
    /\ attempts[a] <= 1
    /\ \A c, d \in Call : InFlight(c) /\ InFlight(d) /\ act[c] = a /\ act[d] = a => c = d

\* The supervisor that holds the lease is reached by its path, unless its predecessor
\* was still to close its listener when it came.
Reachable ==
  \A s \in Sup : stage[s] = "serving" => sock = s \/ s \in cut
=============================================================================
