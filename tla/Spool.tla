-------------------------------- MODULE Spool -------------------------------
(***************************************************************************)
(* The per-agent spool that backs `botfam wait`: the ingester that fills   *)
(* it (ingest.go, forge.go), the Maildir it is (mailbox/spool.go,          *)
(* cursors.go) and the readers that drain it (cli/ops/wait.go).            *)
(*                                                                         *)
(* Every harness of an agent hosts an ingester; the lock of the spool lets *)
(* one of them write.  It lists the newest page of the forge's unread      *)
(* notifications and delivers those updated after its watermark, which it  *)
(* checkpoints in cursors.json.  The forge keeps one notification per      *)
(* thread and moves its updated_at, in whole seconds.                      *)
(*                                                                         *)
(* A `wait` prints what is in new/ and then moves it to cur/.  Hosts and   *)
(* readers can die at any point.  Left out: a message that is there but    *)
(* cannot be read, which a `wait` moves to cur/ without printing it.       *)
(***************************************************************************)
EXTENDS Naturals, FiniteSets, FiniteSetsExt

CONSTANTS Thread,    \* notification threads
          Directed,  \* the threads whose events are directed at the agent
          Host,      \* processes that host an ingester
          Reader,    \* processes that run `botfam wait`
          None,
          PageLimit, \* the notifications on a page (notificationsPageLimit)
          MaxClock,  \* bound: seconds that pass
          MaxFaults  \* bound: deaths of hosts and errors they meet

ASSUME SpoolAssumption ==
  /\ Directed \subseteq Thread
  /\ None \notin Host \cup Nat
  /\ PageLimit \in Nat \ {0}
  /\ MaxClock \in Nat \ {0} /\ MaxFaults \in Nat

VARIABLES
  clock,     \* the current second
  updated,   \* updated_at of each thread's notification, 0 while it has none
  lock,      \* the host that holds the writer lock
  pc,        \* what each host is doing
  mem,       \* the watermark in the memory of each host
  list,      \* the notifications its poll has yet to look at
  top,       \* the latest second its poll delivered
  cursors,   \* the watermark in cursors.json, or None without that file
  new, cur,  \* the boxes of the spool: sets of messages
  count,     \* how many messages were ever delivered: file names sort by it
  rpc,       \* what each reader is doing
  ents,      \* the entries its pass over new/ has yet to ack
  unread,    \* those its pass has yet to read
  shown,     \* the messages of its pass to print
  horizon,   \* history: the latest second a poll may have moved past
  seeded,    \* history: what the backlog held when a watermark was seeded
  raced,     \* history: activity within a second that a poll had moved past
  crowded,   \* history: what a poll would have delivered, had the page had room
  printed,   \* history: the messages printed in full
  faults     \* history: how many faults there were

forge   == <<clock, updated, raced>>
hosts   == <<lock, pc, mem, list, top>>
boxes   == <<new, cur, count>>
readers == <<rpc, ents, unread, shown, printed>>
vars    == <<forge, hosts, cursors, boxes, readers, horizon, seeded, crowded, faults>>

Second == 1..MaxClock
Event == [thread : Thread, at : Second]
Message == [id : Nat, thread : Thread, at : Second]

TypeOK ==
  /\ clock \in Second
  /\ updated \in [Thread -> 0..MaxClock]
  /\ lock \in Host \cup {None}
  /\ pc \in [Host -> {"dead", "parked", "loop", "polling"}]
  /\ \A h \in Host : lock = h <=> pc[h] \in {"loop", "polling"}
  /\ mem \in [Host -> 0..MaxClock] /\ top \in [Host -> 0..MaxClock]
  /\ list \in [Host -> SUBSET Event]
  /\ cursors \in (0..MaxClock) \cup {None}
  /\ new \subseteq Message /\ cur \subseteq Message
  /\ {m.id : m \in new \cup cur} = 1..count /\ Cardinality(new \cup cur) = count
  /\ rpc \in [Reader -> {"idle", "listing", "reading", "printing", "acking"}]
  /\ ents \in [Reader -> SUBSET Message] /\ unread \in [Reader -> SUBSET Message]
  /\ shown \in [Reader -> SUBSET Message]
  /\ printed \subseteq new \cup cur
  /\ horizon \in 0..MaxClock
  /\ seeded \subseteq Event /\ raced \subseteq Event /\ crowded \subseteq Event
  /\ faults \in 0..MaxFaults

\* Some unread notifications, and no spool yet.
Init ==
  /\ clock = 1
  /\ updated \in [Thread -> {0, 1}]
  /\ lock = None
  /\ pc = [h \in Host |-> "dead"]
  /\ mem = [h \in Host |-> 0] /\ top = [h \in Host |-> 0] /\ list = [h \in Host |-> {}]
  /\ cursors = None
  /\ new = {} /\ cur = {} /\ count = 0
  /\ rpc = [r \in Reader |-> "idle"]
  /\ ents = [r \in Reader |-> {}] /\ unread = [r \in Reader |-> {}]
  /\ shown = [r \in Reader |-> {}]
  /\ horizon = 0 /\ seeded = {} /\ raced = {} /\ crowded = {} /\ printed = {} /\ faults = 0

-----------------------------------------------------------------------------
(* The forge.                                                               *)

Unread == {[thread |-> t, at |-> updated[t]] : t \in {x \in Thread : updated[x] # 0}}

\* The page a poll asks for, the first and never another: the newest of the
\* unread.  Which of two of the same second comes first is up to the forge.
Pages ==
  {page \in SUBSET Unread :
     /\ Cardinality(page) = Min({PageLimit, Cardinality(Unread)})
     /\ \A e \in page, f \in Unread \ page : e.at >= f.at}

Latest(events) == Max({e.at : e \in events} \cup {0})

Tick ==
  /\ clock < MaxClock
  /\ clock' = clock + 1
  /\ UNCHANGED <<updated, raced, hosts, cursors, boxes, readers,
                 horizon, seeded, crowded, faults>>

\* Activity on a thread.  A poll that moved its watermark to this very second
\* or beyond will not look back.
Activity(t) ==
  /\ updated[t] < clock
  /\ updated' = [updated EXCEPT ![t] = clock]
  /\ raced' = IF clock <= horizon THEN raced \cup {[thread |-> t, at |-> clock]} ELSE raced
  /\ UNCHANGED <<clock, hosts, cursors, boxes, readers, horizon, seeded, crowded, faults>>

-----------------------------------------------------------------------------
(* The ingester.                                                            *)

Fault == faults < MaxFaults /\ faults' = faults + 1

\* A host starts: Run opens the spool and waits for the lock.
Start(h) ==
  /\ pc[h] = "dead"
  /\ pc' = [pc EXCEPT ![h] = "parked"]
  /\ UNCHANGED <<forge, lock, mem, list, top, cursors, boxes, readers,
                 horizon, seeded, crowded, faults>>

LockFree == lock = None

\* acquireWriterLock succeeds; only then are the cursors read, and written when
\* the spool is fresh.
Lock(h) ==
  /\ pc[h] = "parked"
  /\ LockFree
  /\ lock' = h
  /\ mem' = [mem EXCEPT ![h] = IF cursors = None THEN 0 ELSE cursors]
  /\ cursors' = IF cursors = None THEN 0 ELSE cursors
  /\ pc' = [pc EXCEPT ![h] = "loop"]
  /\ UNCHANGED <<forge, list, top, boxes, readers, horizon, seeded, crowded, faults>>

\* A poll without a watermark (forgePoller.Poll, first part): adopt the latest
\* updated_at, which is on any page, or the present, and deliver nothing.  pollOnce
\* writes the cursors.
PollSeeds(h) ==
  /\ pc[h] = "loop"
  /\ mem[h] = 0
  /\ LET seed == IF Unread = {} THEN clock ELSE Latest(Unread) IN
       /\ mem' = [mem EXCEPT ![h] = seed]
       /\ horizon' = Max({horizon, seed})
       /\ \/ cursors' = seed /\ UNCHANGED faults
          \/ Fault /\ UNCHANGED cursors
  /\ seeded' = seeded \cup Unread
  /\ UNCHANGED <<forge, lock, pc, list, top, boxes, readers, crowded>>

\* A notification counts when it was updated after the watermark.
Unseen_Bug(h, e) == e.at >= mem[h]
Unseen(h, e) == e.at > mem[h]

\* A poll with a watermark looks at one page.  What it has no room for, the
\* watermark passes all the same when the poll is over.
PollLists(h) ==
  /\ pc[h] = "loop"
  /\ mem[h] > 0
  /\ \E page \in Pages :
       /\ list' = [list EXCEPT ![h] = {e \in page : Unseen(h, e)}]
       /\ crowded' = crowded \cup {e \in Unread \ page : Unseen(h, e)}
  /\ list'[h] # {}
  /\ pc' = [pc EXCEPT ![h] = "polling"]
  /\ horizon' = Max({horizon, Latest(list'[h])})
  /\ UNCHANGED <<forge, lock, mem, top, cursors, boxes, readers, seeded, faults>>

\* Deliver, in the order of updated_at: the rename makes the message appear.
DeliverNext(h) ==
  /\ pc[h] = "polling"
  /\ \E e \in list[h] :
       /\ \A f \in list[h] : e.at <= f.at
       /\ new' = new \cup {[id |-> count + 1, thread |-> e.thread, at |-> e.at]}
       /\ list' = [list EXCEPT ![h] = @ \ {e}]
       /\ top' = [top EXCEPT ![h] = e.at]
  /\ count' = count + 1
  /\ UNCHANGED <<forge, lock, pc, mem, cursors, cur, readers, horizon, seeded, crowded, faults>>

\* A delivery fails: the poll ends, and the watermark stays for a retry.
AfterError_Bug(h) == mem' = [mem EXCEPT ![h] = Latest(list[h])]
AfterError(h) == UNCHANGED mem

DeliverFails(h) ==
  /\ pc[h] = "polling"
  /\ list[h] # {}
  /\ Fault
  /\ AfterError(h)
  /\ pc' = [pc EXCEPT ![h] = "loop"]
  /\ list' = [list EXCEPT ![h] = {}]
  /\ top' = [top EXCEPT ![h] = 0]
  /\ UNCHANGED <<forge, lock, cursors, boxes, readers, horizon, seeded, crowded>>

\* The poll is over: advance the watermark, write the cursors if that succeeds.
PollEnds(h) ==
  /\ pc[h] = "polling"
  /\ list[h] = {}
  /\ mem' = [mem EXCEPT ![h] = Max({mem[h], top[h]})]
  /\ \/ cursors' = mem'[h] /\ UNCHANGED faults
     \/ Fault /\ UNCHANGED cursors
  /\ pc' = [pc EXCEPT ![h] = "loop"]
  /\ top' = [top EXCEPT ![h] = 0]
  /\ UNCHANGED <<forge, lock, list, boxes, readers, horizon, seeded, crowded>>

\* The kernel frees the lock of a dead host.
OnDeath_Bug(h) == UNCHANGED lock
OnDeath(h) == lock' = IF lock = h THEN None ELSE lock

Die(h) ==
  /\ pc[h] # "dead"
  /\ Fault
  /\ OnDeath(h)
  /\ pc' = [pc EXCEPT ![h] = "dead"]
  /\ mem' = [mem EXCEPT ![h] = 0] /\ top' = [top EXCEPT ![h] = 0]
  /\ list' = [list EXCEPT ![h] = {}]
  /\ UNCHANGED <<forge, cursors, boxes, readers, horizon, seeded, crowded>>

-----------------------------------------------------------------------------
(* botfam wait.                                                             *)

Go(r, to) == rpc' = [rpc EXCEPT ![r] = to]

\* The reader is done, one way or another.
Return(r) ==
  /\ Go(r, "idle")
  /\ ents' = [ents EXCEPT ![r] = {}]
  /\ unread' = [unread EXCEPT ![r] = {}]
  /\ shown' = [shown EXCEPT ![r] = {}]

WaitStarts(r) ==
  /\ rpc[r] = "idle"
  /\ new # {}     \* before that the loop of runWait changes nothing
  /\ Go(r, "listing")
  /\ UNCHANGED <<forge, hosts, cursors, boxes, ents, unread, shown, printed,
                 horizon, seeded, crowded, faults>>

List(r) ==
  /\ rpc[r] = "listing"
  /\ new # {}
  /\ ents' = [ents EXCEPT ![r] = new]
  /\ unread' = [unread EXCEPT ![r] = new]
  /\ Go(r, "reading")
  /\ UNCHANGED <<forge, hosts, cursors, boxes, shown, printed,
                 horizon, seeded, crowded, faults>>

Oldest(S) == {m \in S : \A n \in S : m.id <= n.id}

\* Read one entry, if it is still there; a directed event is to be printed.
Read(r) ==
  /\ rpc[r] = "reading"
  /\ \E m \in Oldest(unread[r]) :
       /\ shown' = [shown EXCEPT ![r] =
                      IF m \in new /\ m.thread \in Directed THEN @ \cup {m} ELSE @]
       /\ unread' = [unread EXCEPT ![r] = @ \ {m}]
  /\ UNCHANGED <<forge, hosts, cursors, boxes, rpc, ents, printed,
                 horizon, seeded, crowded, faults>>

ReadEnds(r) ==
  /\ rpc[r] = "reading"
  /\ unread[r] = {}
  /\ Go(r, IF shown[r] = {} THEN "acking" ELSE "printing")
  /\ UNCHANGED <<forge, hosts, cursors, boxes, ents, unread, shown, printed,
                 horizon, seeded, crowded, faults>>

PrintAll(r) ==
  /\ rpc[r] = "printing"
  /\ printed' = printed \cup shown[r]
  /\ Go(r, "acking")
  /\ UNCHANGED <<forge, hosts, cursors, boxes, ents, unread, shown,
                 horizon, seeded, crowded, faults>>

\* Standard output is broken: return, and leave the batch in new/.
OnPrintError_Bug(r) == Go(r, "acking") /\ UNCHANGED <<ents, unread, shown>>
OnPrintError(r) == Return(r)

PrintFails(r) ==
  /\ rpc[r] = "printing"
  /\ OnPrintError(r)
  /\ UNCHANGED <<forge, hosts, cursors, boxes, printed, horizon, seeded, crowded, faults>>

\* Ack the entries, oldest first.  An entry that another reader moved ends the
\* call with an error after a print, and is skipped otherwise.
Ack(r) ==
  /\ rpc[r] = "acking"
  /\ \E m \in Oldest(ents[r]) :
       /\ IF m \in new
          THEN new' = new \ {m} /\ cur' = cur \cup {m}
          ELSE UNCHANGED <<new, cur>>
       /\ IF m \notin new /\ shown[r] # {}
          THEN Return(r)
          ELSE ents' = [ents EXCEPT ![r] = @ \ {m}] /\ UNCHANGED <<rpc, unread, shown>>
  /\ UNCHANGED <<forge, hosts, cursors, count, printed, horizon, seeded, crowded, faults>>

\* All acked: return after a print, look again otherwise.
AckEnds(r) ==
  /\ rpc[r] = "acking"
  /\ ents[r] = {}
  /\ IF shown[r] # {} THEN Return(r) ELSE Go(r, "listing") /\ UNCHANGED <<ents, unread, shown>>
  /\ UNCHANGED <<forge, hosts, cursors, boxes, printed, horizon, seeded, crowded, faults>>

\* A timeout between two looks, or death at any point.
Quit(r) ==
  /\ rpc[r] # "idle"
  /\ Return(r)
  /\ UNCHANGED <<forge, hosts, cursors, boxes, printed, horizon, seeded, crowded, faults>>

-----------------------------------------------------------------------------

HostStep(h) ==
  Lock(h) \/ PollSeeds(h) \/ PollLists(h) \/ DeliverNext(h) \/ PollEnds(h)

ReaderStep(r) ==
  WaitStarts(r) \/ List(r) \/ Read(r) \/ ReadEnds(r) \/ PrintAll(r) \/ PrintFails(r) \/ Ack(r) \/ AckEnds(r)

Next ==
  \/ Tick \/ \E t \in Thread : Activity(t)
  \/ \E h \in Host : HostStep(h) \/ Start(h) \/ DeliverFails(h) \/ Die(h)
  \/ \E r \in Reader : ReaderStep(r) \/ Quit(r)

\* A host that runs retries the lock and polls on its interval.  Nothing makes a
\* host start, and nothing makes an agent run `botfam wait`.
Fairness == \A h \in Host : WF_vars(HostStep(h))

Spec == Init /\ [][Next]_vars /\ Fairness

-----------------------------------------------------------------------------
(* Properties.                                                              *)

Delivered == {[thread |-> m.thread, at |-> m.at] : m \in new \cup cur}
Excused == seeded \cup raced \cup crowded

\* The watermark never passes an event by: what lies at or before the checkpoint
\* is in the spool, whatever host died or delivery failed.  Excused are the
\* backlog of a fresh spool, activity within the very second a poll had reached,
\* which the comparison by whole seconds cannot tell from what it saw (the comment on
\* forgePoller calls this "the one accepted edge"), and what was beyond the page of a
\* poll, older than all that the page showed; but that only if more is unread than a
\* page has room for.
NothingSkipped ==
  \A e \in Unread :
    cursors # None /\ e.at <= cursors =>
      \/ e \in Delivered \cup seeded \cup raced
      \/ e \in crowded /\ Cardinality(Unread) > PageLimit

\* An event is delivered once, and once more at most for each fault.
DuplicatesNeedFaults ==
  \A e \in Delivered :
    Cardinality({m \in new \cup cur : m.thread = e.thread /\ m.at = e.at}) <= 1 + faults

\* A directed message leaves new/ only after it was printed: neither a broken
\* pipe nor a second reader nor the death of one loses it.
PrintedBeforeAck ==
  \A m \in cur : m.thread \in Directed => m \in printed

\* Activity reaches the spool as long as some host lives: a standby takes over
\* from a writer that died.  What a full page left out is excused as above.
ActivityArrives ==
  \A t \in Thread, s \in Second :
    updated[t] = s ~>
      \/ updated[t] # s
      \/ [thread |-> t, at |-> s] \in Delivered \cup Excused
      \/ \A h \in Host : pc[h] = "dead"
=============================================================================
