----------------------------- MODULE Supervisor -----------------------------
(***************************************************************************)
(* The loop of `botfam sprint run` (cli/ops/sprint.go): it takes pending   *)
(* work items, starts a worker process for each, and records how it went.  *)
(*                                                                         *)
(* The loop is one goroutine that handles one event at a time: the result  *)
(* of a worker, a tick (time out workers, then dispatch), or the signal to *)
(* stop.  A handler is a list of database statements, not a transaction,   *)
(* and ignores their errors: the statements left to run are the variable   *)
(* todo, any of them can fail, and the process can die between two.        *)
(*                                                                         *)
(* Worker processes live on their own: they end when they like, and they   *)
(* survive a supervisor that dies.                                         *)
(***************************************************************************)
EXTENDS Naturals, Sequences, FiniteSets

CONSTANTS Items,         \* how many work items sprint start ever seeds
          Dispatchable,  \* the items workerCommandFor has a command for
          Worker,        \* worker processes (one per dispatch)
          None,
          MaxInFlight,   \* sprintMaxInFlight
          MaxStarts,     \* bound: runs of the supervisor
          MaxFaults      \* bound: failing statements

Item == 1..Items   \* in the order of created_at, id

ASSUME SupervisorAssumption ==
  /\ Items \in Nat /\ MaxInFlight \in Nat /\ MaxStarts \in Nat /\ MaxFaults \in Nat
  /\ Dispatchable \subseteq Item
  /\ None \notin Worker \cup Item

VARIABLES
  item,      \* work_items.state, or "absent"
  log,       \* work_item_state_transitions: the to_states of each item
  dispatch,  \* the dispatches row of each worker: "none", "open", "closed"
  workOf,    \* the item each worker was made for, or None
  proc,      \* the worker processes: "none", "running", "dying", "exited"
  sup,       \* the supervisor: "down" or "up"
  todo,      \* the statements its current handler has yet to run
  tracked,   \* the map workers
  mine,      \* the workers this run of the supervisor started
  results,   \* resultChan and the goroutines blocked on it
  starts,    \* how many runs there were
  faults,    \* how many statements failed
  faulty     \* history: items with a statement that failed or was cut off

db   == <<item, log, dispatch>>
os   == <<workOf, proc>>
mem  == <<todo, tracked, mine, results>>
hist == <<starts, faults, faulty>>
vars == <<db, os, sup, mem, hist>>

Terminal == {"completed", "failed"}
Op == {"item", "log", "open", "close", "start", "query", "dispatch"}
Statement == [op : Op, item : Item \cup {0}, worker : Worker \cup {None},
              to : {"running", "completed", "failed", "none"}]

TypeOK ==
  /\ item \in [Item -> {"absent", "pending", "running"} \cup Terminal]
  /\ log \in [Item -> Seq({"pending", "running"} \cup Terminal)]
  /\ dispatch \in [Worker -> {"none", "open", "closed"}]
  /\ workOf \in [Worker -> Item \cup {None}]
  /\ proc \in [Worker -> {"none", "running", "dying", "exited"}]
  /\ sup \in {"down", "up"}
  /\ todo \in Seq(Statement)
  /\ tracked \subseteq mine /\ mine \subseteq Worker
  /\ results \subseteq [worker : mine, to : Terminal]
  /\ starts \in 0..MaxStarts /\ faults \in 0..MaxFaults
  /\ faulty \subseteq Item

Init ==
  /\ item = [i \in Item |-> "absent"]
  /\ log = [i \in Item |-> <<>>]
  /\ dispatch = [w \in Worker |-> "none"]
  /\ workOf = [w \in Worker |-> None]
  /\ proc = [w \in Worker |-> "none"]
  /\ sup = "down"
  /\ todo = <<>>
  /\ tracked = {} /\ mine = {} /\ results = {}
  /\ starts = 0 /\ faults = 0 /\ faulty = {}

-----------------------------------------------------------------------------
(* Statements, and the lists of them that handlers run.                     *)

Stmt(op, i, w, to) == [op |-> op, item |-> i, worker |-> w, to |-> to]

\* A worker is done: its item's state, its dispatch, the transition.
Settle_Bug(w, to) ==
  << Stmt("item", workOf[w], w, to), Stmt("close", workOf[w], w, "none") >>
Settle(w, to) ==
  << Stmt("item", workOf[w], w, to), Stmt("close", workOf[w], w, "none"),
     Stmt("log", workOf[w], w, to) >>

\* An item is dispatched to a worker.
DispatchTo(i, w) ==
  << Stmt("item", i, w, "running"), Stmt("log", i, w, "running"),
     Stmt("open", i, w, "none"), Stmt("start", i, w, "none") >>

\* An item without a worker command fails where it stands.
Reject(i) == << Stmt("item", i, None, "failed"), Stmt("log", i, None, "failed") >>

\* What a statement does when it succeeds.
Apply(s) ==
  /\ item' = IF s.op = "item" THEN [item EXCEPT ![s.item] = s.to] ELSE item
  /\ log' = IF s.op = "log" THEN [log EXCEPT ![s.item] = Append(@, s.to)] ELSE log
  /\ dispatch' = CASE s.op = "open" -> [dispatch EXCEPT ![s.worker] = "open"]
                   [] s.op = "close" /\ dispatch[s.worker] = "open" ->
                        [dispatch EXCEPT ![s.worker] = "closed"]
                   [] OTHER -> dispatch

Pending == {i \in Item : item[i] = "pending"}
Idle == sup = "up" /\ todo = <<>>    \* the loop is back in its select
AtStatement(ops) == sup = "up" /\ todo # <<>> /\ Head(todo).op \in ops

RunStatement ==
  /\ AtStatement({"item", "log", "open", "close"})
  /\ Apply(Head(todo))
  /\ todo' = Tail(todo)
  /\ UNCHANGED <<os, sup, tracked, mine, results, hist>>

\* The error of a statement is dropped and the handler goes on.
StatementFails ==
  /\ AtStatement({"item", "log", "open", "close"})
  /\ faults < MaxFaults
  /\ faults' = faults + 1
  /\ faulty' = faulty \cup {Head(todo).item}
  /\ todo' = Tail(todo)
  /\ UNCHANGED <<db, os, sup, tracked, mine, results, starts>>

-----------------------------------------------------------------------------
(* The events of the loop.                                                  *)

\* A result counts only while its worker is in the map: a worker that was timed
\* out has been settled already.
Counts_Bug(w) == TRUE
Counts(w) == w \in tracked

HandleResult ==
  /\ Idle
  /\ \E r \in results :
       /\ results' = results \ {r}
       /\ tracked' = tracked \ {r.worker}
       /\ todo' = IF Counts(r.worker) THEN Settle(r.worker, r.to) ELSE <<>>
  /\ UNCHANGED <<db, os, sup, mine, hist>>

\* A tick; one that finds no worker and no pending item changes nothing.
Tick ==
  /\ Idle
  /\ tracked # {} \/ Pending # {}
  /\ todo' = << Stmt("query", 0, None, "none") >>
  /\ UNCHANGED <<db, os, sup, tracked, mine, results, hist>>

\* In a tick, before it dispatches: the worker is past its TTL.  It gets SIGTERM
\* (and SIGKILL half a second later) and leaves the map at once.
Expirable_Bug(w) == FALSE
Expirable(w) == w \in tracked

Expire(w) ==
  /\ AtStatement({"query"})
  /\ Expirable(w)
  /\ proc' = [proc EXCEPT ![w] = IF @ = "running" THEN "dying" ELSE @]
  /\ tracked' = tracked \ {w}
  /\ todo' = Settle(w, "failed") \o todo
  /\ UNCHANGED <<db, workOf, sup, mine, results, hist>>

\* The oldest pending items, as many as the map has room for.
Oldest(n) == {i \in Pending : Cardinality({j \in Pending : j < i}) < n}
Room == IF Cardinality(tracked) < MaxInFlight THEN MaxInFlight - Cardinality(tracked) ELSE 0

\* Oldest first; each item is then looked at in turn.
InOrder(items) == \A j, k \in DOMAIN items : j < k => items[j] < items[k]

Query ==
  /\ AtStatement({"query"})
  /\ \E pending \in [1..Cardinality(Oldest(Room)) -> Oldest(Room)] :
       /\ InOrder(pending)
       /\ todo' = [k \in DOMAIN pending |-> Stmt("dispatch", pending[k], None, "none")]
  /\ UNCHANGED <<db, os, sup, tracked, mine, results, hist>>

\* The query fails: this tick dispatches nothing.
QueryFails ==
  /\ AtStatement({"query"})
  /\ faults < MaxFaults
  /\ faults' = faults + 1
  /\ todo' = <<>>
  /\ UNCHANGED <<db, os, sup, tracked, mine, results, starts, faulty>>

\* One pending item: rejected, or given a worker with a new id
\* (any unused one: ids are not compared).
Dispatch ==
  /\ AtStatement({"dispatch"})
  /\ LET i == Head(todo).item IN
       \/ /\ i \in Dispatchable
          /\ \E w \in Worker : workOf[w] = None
          /\ LET w == CHOOSE w \in Worker : workOf[w] = None IN
               /\ workOf' = [workOf EXCEPT ![w] = i]
               /\ todo' = DispatchTo(i, w) \o Tail(todo)
       \/ /\ i \notin Dispatchable
          /\ todo' = Reject(i) \o Tail(todo)
          /\ UNCHANGED workOf
  /\ UNCHANGED <<db, proc, sup, tracked, mine, results, hist>>

Track(w) == tracked \cup {w}

\* wCmd.Start succeeds: the worker enters the map and a goroutine waits for it.
StartWorker ==
  /\ AtStatement({"start"})
  /\ LET w == Head(todo).worker IN
       /\ proc' = [proc EXCEPT ![w] = "running"]
       /\ tracked' = Track(w)
       /\ mine' = mine \cup {w}
  /\ todo' = Tail(todo)
  /\ UNCHANGED <<db, workOf, sup, results, hist>>

\* wCmd.Start fails: the item is settled on the spot.
StartFails ==
  /\ AtStatement({"start"})
  /\ todo' = Settle(Head(todo).worker, "failed") \o Tail(todo)
  /\ UNCHANGED <<db, os, sup, tracked, mine, results, hist>>

-----------------------------------------------------------------------------
(* Everything around the loop.                                              *)

\* sprint start seeds the next work item and its first transition.
Seed(i) ==
  /\ item[i] = "absent"
  /\ \A j \in Item : j < i => item[j] # "absent"
  /\ item' = [item EXCEPT ![i] = "pending"]
  /\ log' = [log EXCEPT ![i] = Append(@, "pending")]
  /\ UNCHANGED <<dispatch, os, sup, mem, hist>>

\* A worker process ends; if the supervisor that started it still runs, its
\* goroutine reports the exit status.
WorkerExits(w) ==
  /\ proc[w] \in {"running", "dying"}
  /\ proc' = [proc EXCEPT ![w] = "exited"]
  /\ \/ /\ w \in mine
        /\ \E to \in Terminal : results' = results \cup {[worker |-> w, to |-> to]}
     \/ w \notin mine /\ UNCHANGED results
  /\ UNCHANGED <<db, workOf, sup, todo, tracked, mine, hist>>

\* sprint run takes the lease and opens the session.  It does not look at the
\* items an earlier run left behind.
StartSupervisor ==
  /\ sup = "down"
  /\ starts < MaxStarts
  /\ sup' = "up"
  /\ starts' = starts + 1
  /\ UNCHANGED <<db, os, mem, faults, faulty>>

Forget ==
  /\ sup' = "down"
  /\ todo' = <<>>
  /\ tracked' = {} /\ mine' = {} /\ results' = {}

\* SIGINT, SIGTERM or a cancelled context: the loop ends between two events and
\* the workers in the map are killed.
StopSupervisor ==
  /\ Idle
  /\ Forget
  /\ proc' = [w \in Worker |-> IF w \in tracked /\ proc[w] = "running" THEN "dying" ELSE proc[w]]
  /\ UNCHANGED <<db, workOf, hist>>

\* The supervisor dies: the rest of its handler is never run, and its workers
\* live on.
CrashSupervisor ==
  /\ sup = "up"
  /\ Forget
  /\ faulty' = faulty \cup ({todo[k].item : k \in DOMAIN todo} \ {0})
  /\ UNCHANGED <<db, os, starts, faults>>

-----------------------------------------------------------------------------

Next ==
  \/ RunStatement \/ StatementFails
  \/ HandleResult \/ Tick \/ Query \/ QueryFails \/ Dispatch \/ StartWorker \/ StartFails
  \/ \E w \in Worker : Expire(w) \/ WorkerExits(w)
  \/ \E i \in Item : Seed(i)
  \/ StartSupervisor \/ StopSupervisor \/ CrashSupervisor

\* The goroutine of the loop runs; every tick reads the clock, so a worker that
\* does not end is timed out at some tick.  Nothing makes a worker end by itself.
Fairness ==
  /\ WF_vars(RunStatement) /\ WF_vars(Query) /\ WF_vars(Dispatch) /\ WF_vars(StartWorker)
  /\ WF_vars(Tick) /\ SF_vars(HandleResult)
  /\ \A w \in Worker : SF_vars(Expire(w))

Spec == Init /\ [][Next]_vars /\ Fairness

-----------------------------------------------------------------------------
(* Properties.                                                              *)

\* A settled item stays settled: neither the late result of a worker that was
\* timed out nor a restarted supervisor gives it another state.
SettledForGood ==
  [][\A i \in Item : item[i] \in Terminal => item'[i] = item[i]]_vars

\* Between two events the transition log tells exactly how each item got to its
\* state, again unless a statement about it was lost.
Path(i) ==
  CASE item[i] = "absent"  -> <<>>
    [] item[i] = "pending" -> <<"pending">>
    [] item[i] = "running" -> <<"pending", "running">>
    [] OTHER -> IF i \in Dispatchable THEN <<"pending", "running", item[i]>>
                                      ELSE <<"pending", item[i]>>
LogTellsPath == todo = <<>> => \A i \in Item \ faulty : log[i] = Path(i)

\* A pending item is settled in the end, however its worker behaves, if the
\* supervisor stays up and no statement about the item is lost.
PendingSettles ==
  \A i \in Item :
    item[i] = "pending" /\ sup = "up" ~>
      item[i] \in Terminal \/ sup = "down" \/ i \in faulty
=============================================================================
