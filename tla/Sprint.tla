------------------------------- MODULE Sprint -------------------------------
(***************************************************************************)
(* The life of sprint sessions: `botfam sprint run` from the lease to the  *)
(* loop and back (cli/ops/sprint.go), `sprint end` and the state that      *)
(* `sprint ls` derives (cli/ops/sprint_inspect.go).                        *)
(*                                                                         *)
(* What they share is the session file of the repository, which names the  *)
(* supervisor and its session, and the runs table of each session.  All    *)
(* sessions are of one repository.  The lease is taken to be exclusive and *)
(* Acquire and Release to be single steps; module Lease has their steps    *)
(* and says when that holds.  The loop itself is module Supervisor.        *)
(*                                                                         *)
(* A PID runs `sprint run` once.  After that an unrelated process of the   *)
(* same user may get the PID (a process of another user takes no signal    *)
(* and is as good as gone).                                                *)
(***************************************************************************)
EXTENDS Naturals, Sequences

CONSTANTS Proc,     \* processes, by PID
          Session,  \* sessions that `sprint start` has seeded
          None

SprintAssumption == None \notin Proc /\ None \notin Session

VARIABLES
  proc,    \* what the process with each PID is doing
  ses,     \* the session each `sprint run` is for
  last,    \* the run number it recovered before it took the lease
  term,    \* the processes with a SIGTERM on the way to sigChan
  holder,  \* the process that holds the lease
  file,    \* the session file: PID and session (None: absent, empty, unstamped)
  runs,    \* the runs table of each session: the status of run 1, 2, ...
  ended,   \* the sessions with the marker ended_at
  endpc,   \* the `sprint end` under way: "idle", "looked", "waiting", "stopped"
  target,  \* the session it ends
  victim,  \* the PID it is to signal
  served,  \* history: the supervisors that served target when `sprint end` looked
  slipped  \* history: sessions whose runs table missed an UPDATE

run  == <<proc, ses, last, term, holder>>
end  == <<endpc, target, victim, served>>
vars == <<run, file, runs, ended, end, slipped>>

NoFile == [pid |-> None, session |-> None]

\* A supervisor between its lease and its loop, in its loop, and after it.
Booting == {"leased", "opened", "stamping", "stamped"}
Stage == {"fresh", "counted", "looping", "stopping", "gone", "other"} \cup Booting

TypeOK ==
  /\ proc \in [Proc -> Stage]
  /\ ses \in [Proc -> Session \cup {None}]
  /\ last \in [Proc -> Nat]
  /\ term \subseteq {p \in Proc : proc[p] \in {"looping", "stopping"}}
  /\ holder \in Proc \cup {None}
  /\ file \in [pid : Proc \cup {None}, session : Session \cup {None}]
  /\ runs \in [Session -> Seq({"running", "crashed", "completed"})]
  /\ ended \subseteq Session
  /\ endpc \in {"idle", "looked", "waiting", "stopped"}
  /\ target \in Session \cup {None} /\ victim \in Proc \cup {None}
  /\ served \subseteq Proc /\ slipped \subseteq Session

Init ==
  /\ proc = [p \in Proc |-> "fresh"]
  /\ ses = [p \in Proc |-> None]
  /\ last = [p \in Proc |-> 0]
  /\ term = {}
  /\ holder = None
  /\ file = NoFile
  /\ runs = [s \in Session |-> <<>>]
  /\ ended = {}
  /\ endpc = "idle" /\ target = None /\ victim = None
  /\ served = {} /\ slipped = {}

-----------------------------------------------------------------------------
(* sprint run.                                                              *)

Become(p, stage) == proc' = [proc EXCEPT ![p] = stage]

\* The process ends, and with it its hold on the lease.  The session file stays.
Exit(p) ==
  /\ Become(p, "gone")
  /\ ses' = [ses EXCEPT ![p] = None]
  /\ last' = [last EXCEPT ![p] = 0]
  /\ term' = term \ {p}
  /\ holder' = IF holder = p THEN None ELSE holder

\* getLastRunNumber: the highest n of the ids run-n.
Count(p, s) ==
  /\ proc[p] = "fresh"
  /\ Become(p, "counted")
  /\ ses' = [ses EXCEPT ![p] = s]
  /\ last' = [last EXCEPT ![p] = Len(runs[s])]
  /\ UNCHANGED <<term, holder, file, runs, ended, end, slipped>>

AcquireBusy(p) ==
  /\ proc[p] = "counted"
  /\ holder # None
  /\ Exit(p)
  /\ UNCHANGED <<file, runs, ended, end, slipped>>

Acquire(p) ==
  /\ proc[p] = "counted"
  /\ holder = None
  /\ holder' = p
  /\ file' = [pid |-> p, session |-> None]
  /\ Become(p, "leased")
  /\ UNCHANGED <<ses, last, term, runs, ended, end, slipped>>

\* The context is cancelled already: the lease is given back properly.
Cancelled(p) ==
  /\ proc[p] = "leased"
  /\ Exit(p)
  /\ file' = NoFile
  /\ UNCHANGED <<runs, ended, end, slipped>>

\* OpenSessionRepo, then: runs left "running" have crashed.
Crashed(status) == IF status = "running" THEN "crashed" ELSE status
MarkCrashed_Bug(rows) == rows
MarkCrashed(rows) == [n \in DOMAIN rows |-> Crashed(rows[n])]

\* The UPDATE of the crashed runs; its error is dropped.
OpenSession(p) ==
  /\ proc[p] = "leased"
  /\ \/ /\ runs' = [runs EXCEPT ![ses[p]] = MarkCrashed(@)]
        /\ UNCHANGED slipped
     \/ /\ slipped' = slipped \cup {ses[p]}
        /\ UNCHANGED runs
  /\ Become(p, "opened")
  /\ UNCHANGED <<ses, last, term, holder, file, ended, end>>

\* INSERT INTO runs: the id is the primary key.
InsertFree(p) == Len(runs[ses[p]]) = last[p]

InsertRun(p) ==
  /\ proc[p] = "opened"
  /\ InsertFree(p)
  /\ runs' = [runs EXCEPT ![ses[p]] =
                IF Len(@) = last[p] THEN Append(@, "running") ELSE @]
  /\ Become(p, "stamping")
  /\ UNCHANGED <<ses, last, term, holder, file, ended, end, slipped>>

\* The id is taken (another run came and went since the count), or some step up
\* to here fails: the deferred Close gives the lease back, the file stays.
BootFails(p) ==
  /\ proc[p] \in Booting
  /\ Exit(p)
  /\ UNCHANGED <<file, runs, ended, end, slipped>>

\* SetEndpoint truncates the session file and writes it.
SetEndpointTruncate(p) ==
  /\ proc[p] = "stamping" /\ file # NoFile
  /\ file' = NoFile
  /\ UNCHANGED <<run, runs, ended, end, slipped>>

SetEndpointWrite(p) ==
  /\ proc[p] = "stamping" /\ file = NoFile
  /\ file' = [pid |-> p, session |-> ses[p]]
  /\ Become(p, "stamped")
  /\ UNCHANGED <<ses, last, term, holder, runs, ended, end, slipped>>

\* signal.Notify, and the loop begins.
Notify(p) ==
  /\ proc[p] = "stamped"
  /\ Become(p, "looping")
  /\ UNCHANGED <<ses, last, term, holder, file, runs, ended, end, slipped>>

\* The loop takes the signal, kills the workers and marks the run completed.
\* An interrupt from the terminal does the same.
Stop(p) ==
  /\ proc[p] = "looping"
  /\ \/ /\ runs' = [runs EXCEPT ![ses[p]] = [@ EXCEPT ![last[p] + 1] = "completed"]]
        /\ UNCHANGED slipped
     \/ /\ slipped' = slipped \cup {ses[p]}
        /\ UNCHANGED runs
  /\ Become(p, "stopping")
  /\ UNCHANGED <<ses, last, term, holder, file, ended, end>>

Release(p) ==
  /\ proc[p] = "stopping"
  /\ Exit(p)
  /\ file' = NoFile
  /\ UNCHANGED <<runs, ended, end, slipped>>

\* The process is killed.
Die(p) ==
  /\ proc[p] \in {"counted", "looping", "stopping"} \cup Booting
  /\ Exit(p)
  /\ UNCHANGED <<file, runs, ended, end, slipped>>

\* The PID of a process that is gone goes to an unrelated one, which ends too.
Reuse(p) ==
  /\ proc[p] = "gone"
  /\ Become(p, "other")
  /\ UNCHANGED <<ses, last, term, holder, file, runs, ended, end, slipped>>

OtherEnds(p) ==
  /\ proc[p] = "other"
  /\ Become(p, "gone")
  /\ UNCHANGED <<ses, last, term, holder, file, runs, ended, end, slipped>>

-----------------------------------------------------------------------------
(* Who is the live supervisor?                                              *)

\* isProcessLive: the PID takes signals.  Whether ps then shows a botfam process
\* does not matter: the test also accepts that the *caller* is called botfam.
IsProcessLive(p) == p # None /\ proc[p] \notin {"fresh", "gone"}

\* ownLiveSupervisor(s, LiveSupervisorPID()).
OwnLive_Bug(s) == IsProcessLive(file.pid)
OwnLive(s) == IsProcessLive(file.pid) /\ file.session = s

Serving(s) == {p \in Proc : proc[p] = "looping" /\ ses[p] = s}

-----------------------------------------------------------------------------
(* sprint end.                                                              *)

\* It looks whether the live supervisor is the session's.
EndLooks(s) ==
  /\ endpc = "idle"
  /\ target' = s
  /\ served' = Serving(s)
  /\ IF OwnLive(s)
     THEN endpc' = "looked" /\ victim' = file.pid
     ELSE endpc' = "stopped" /\ victim' = None
  /\ UNCHANGED <<run, file, runs, ended, slipped>>

\* It signals the PID: the loop of a supervisor gets the signal; a supervisor
\* that has not called signal.Notify yet, or an unrelated process, dies of it.
EndSignals ==
  /\ endpc = "looked"
  /\ endpc' = "waiting"
  /\ IF proc[victim] \in {"looping", "stopping"}
     THEN /\ term' = term \cup {victim}
          /\ UNCHANGED <<proc, ses, last, holder>>
     ELSE IF proc[victim] = "gone" THEN UNCHANGED run ELSE Exit(victim)
  /\ UNCHANGED <<file, runs, ended, target, victim, served, slipped>>

\* It polls until the supervisor is gone ...
Wait_Bug == TRUE
Wait == ~OwnLive(target)

EndWaits ==
  /\ endpc = "waiting"
  /\ Wait
  /\ endpc' = "stopped"
  /\ UNCHANGED <<run, file, runs, ended, target, victim, served, slipped>>

EndOver ==
  /\ endpc' = "idle" /\ target' = None /\ victim' = None /\ served' = {}

\* ... or gives up, or dies.
EndFails ==
  /\ endpc # "idle"
  /\ EndOver
  /\ UNCHANGED <<run, file, runs, ended, slipped>>

\* It marks the session ended, also one that nobody serves.
EndMarks ==
  /\ endpc = "stopped"
  /\ ended' = ended \cup {target}
  /\ EndOver
  /\ UNCHANGED <<run, file, runs, slipped>>

-----------------------------------------------------------------------------

RunStep(p) ==
  \/ \E s \in Session : Count(p, s)
  \/ AcquireBusy(p) \/ Acquire(p) \/ Cancelled(p) \/ OpenSession(p) \/ InsertRun(p) \/ BootFails(p)
  \/ SetEndpointTruncate(p) \/ SetEndpointWrite(p) \/ Notify(p)
  \/ Stop(p) \/ Release(p) \/ Die(p) \/ Reuse(p) \/ OtherEnds(p)

Next ==
  \/ \E p \in Proc : RunStep(p)
  \/ \E s \in Session : EndLooks(s)
  \/ EndSignals \/ EndWaits \/ EndFails \/ EndMarks

Spec == Init /\ [][Next]_vars

-----------------------------------------------------------------------------
(* What `sprint ls` shows.                                                  *)

\* deriveSessionState, with the liveness of the repository's session file.
DeriveState(s) ==
  CASE s \in ended -> "ended"
    [] runs[s] = <<>> -> "new"
    [] runs[s] # <<>> /\ runs[s][Len(runs[s])] = "running" ->
         IF IsProcessLive(file.pid) THEN "running" ELSE "crashed"
    [] OTHER -> runs[s][Len(runs[s])]

-----------------------------------------------------------------------------
(* Properties.                                                              *)

\* A supervisor in its loop has the run row of its own, the newest and the only
\* one "running", unless an UPDATE of this session was lost.  So recovery after
\* any number of crashes, and two `sprint run`s that recovered the same number,
\* never leave two running rows or a supervisor on another run's row.
RunRowsTrue ==
  \A p \in Proc : proc[p] = "looping" /\ ses[p] \notin slipped =>
    /\ Len(runs[ses[p]]) = last[p] + 1
    /\ \A n \in DOMAIN runs[ses[p]] : runs[ses[p]][n] = "running" <=> n = last[p] + 1

\* `sprint end` marks the session only after the supervisor that served it when
\* the command looked has left its loop.
EndStopsServing ==
  [][ended' # ended => \A p \in served : proc[p] # "looping"]_vars

\* It never signals the supervisor of another session: a supervisor only ever has
\* a signal from a `sprint end` of its own session.
SignalsOwnSession ==
  [][\A p \in term' \ term : ses[p] = target]_vars
=============================================================================
