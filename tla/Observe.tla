------------------------------ MODULE Observe -------------------------------
(***************************************************************************)
(* The observation layer (eventdelivery/observe): one thread of the forge  *)
(* (an issue or a pull request) is diffed against what the session         *)
(* database has recorded of it, and what is new becomes work items.        *)
(*                                                                         *)
(* Comments and reviews are immutable events with an id, diffed one by     *)
(* one; the state, the label set, the head commit and the CI status are    *)
(* scalars, diffed by value.  Recording an observation and creating its    *)
(* work item are two statements: a pass can stop between them, because a   *)
(* statement fails or because the supervisor dies.                         *)
(*                                                                         *)
(* Left out: the transition row written with a work item, and the events   *)
(* of Standing and Bootstrap that no diff looks at (assigned,              *)
(* review_requested, notification).                                        *)
(***************************************************************************)
EXTENDS Naturals, Sequences, FiniteSets

CONSTANTS Comments,  \* bound: comments and reviews the thread ever gets
          Value,     \* values a scalar takes
          None,      \* no value: a pull without a head, a commit without a status
          Translated,  \* the scalars diffed by Translate: "state", "labels",
          Polled       \* and by the gap polls: "push", "status"; or fewer, for
                       \* a smaller model: the scalars do not interact

ASSUME ObserveAssumption ==
  /\ Comments \in Nat /\ None \notin Value
  /\ Translated \subseteq {"state", "labels"} /\ Translated # {}
  /\ Polled \subseteq {"push", "status"}

Comment == 1..Comments   \* in the order they were posted
Scalar == Translated \cup Polled
Event == ({"comment"} \X Comment) \cup (Scalar \X Value)

VARIABLES
  posted,    \* the thread on the forge: how many comments it has,
  current,   \* the value of each scalar,
  newer,     \* the comments posted or edited after the session watermark
  observed,  \* raw_observations of the thread
  work,      \* work items, by their event
  pc,        \* what the supervisor does with the first event of plan
  plan,      \* the events the running pass has yet to diff
  first,     \* the running pass is the thread's first contact
  recent,    \* newer, as the running pass fetched it
  seen,      \* posted, as the running pass fetched it
  covered,   \* history: the comments some complete pass went through
  untouched, \* history: comments from before the first session, never edited
  later,     \* history: comments posted when the thread had recorded comments
  cut,       \* history: events recorded by a pass that stopped right there
  ingested,  \* history: events first recorded by Ingest
  torn       \* history: has a pass over comments been interrupted?

thread  == <<posted, current, newer>>
db      == <<observed, work>>
pass    == <<pc, plan, first, recent, seen>>
history == <<covered, untouched, later, cut, ingested, torn>>
vars    == <<thread, db, pass, history>>

TypeOK ==
  /\ posted \in 0..Comments /\ seen \in 0..Comments /\ covered \in 0..Comments
  /\ current \in [Scalar -> Value \cup {None}]
  /\ newer \subseteq Comment /\ recent \subseteq Comment
  /\ observed \subseteq Event /\ work \subseteq Event
  /\ pc \in {"idle", "diff", "create"}
  /\ plan \in Seq(Event)
  /\ pc = "idle" <=> plan = <<>>
  /\ first \in {"yes", "no"}
  /\ untouched \subseteq Comment /\ later \subseteq Comment
  /\ cut \subseteq Event /\ ingested \subseteq Event
  /\ torn \in {"yes", "no"}

\* A session that starts on a thread with some history.
Init ==
  /\ posted \in 0..Comments
  /\ current \in [Scalar -> Value]
  /\ newer = {} /\ observed = {} /\ work = {}
  /\ pc = "idle" /\ plan = <<>> /\ first = "no" /\ recent = {} /\ seen = 0
  /\ covered = 0
  /\ untouched = 1..posted
  /\ later = {} /\ cut = {} /\ ingested = {} /\ torn = "no"

-----------------------------------------------------------------------------
(* The forge.                                                               *)

\* isFirstContact: no comment or review of the thread is recorded.
FirstContact_Bug == \A c \in Comment : <<"comment", c>> \notin work
FirstContact == \A c \in Comment : <<"comment", c>> \notin observed

Post ==
  /\ posted < Comments
  /\ posted' = posted + 1
  /\ newer' = newer \cup {posted + 1}
  /\ later' = IF \E c \in Comment : <<"comment", c>> \in observed
              THEN later \cup {posted + 1} ELSE later
  /\ UNCHANGED <<current, db, pass, covered, untouched, cut, ingested, torn>>

\* An edit moves a comment's updated_at.
Edit(c) ==
  /\ c <= posted /\ c \notin newer
  /\ newer' = newer \cup {c}
  /\ untouched' = untouched \ {c}
  /\ UNCHANGED <<posted, current, db, pass, covered, later, cut, ingested, torn>>

Change(k) ==
  /\ \E v \in Value \cup (IF k \in Polled THEN {None} ELSE {}) :
       v # current[k] /\ current' = [current EXCEPT ![k] = v]
  /\ UNCHANGED <<posted, newer, db, pass, history>>

-----------------------------------------------------------------------------
(* A pass of the supervisor.                                                *)

Begin(events) ==
  /\ plan' = events
  /\ pc' = IF events = <<>> THEN "idle" ELSE "diff"

\* The state first, then the label set.
Diff(k) == IF k \in Translated THEN << <<k, current[k]>> >> ELSE <<>>
ScalarPlan == Diff("state") \o Diff("labels")

\* Translate: fetch the thread, check for first contact, then diff the comments
\* and reviews, the state and the label set.
Translate ==
  /\ pc = "idle"
  /\ Begin([c \in 1..posted |-> <<"comment", c>>]
             \o ScalarPlan)
  /\ first' = IF FirstContact THEN "yes" ELSE "no"
  /\ recent' = newer
  /\ seen' = posted
  /\ UNCHANGED <<thread, db, history>>

\* PollHeadSHA and PollCommitStatus: nothing to do without a value.
Poll(k) ==
  /\ pc = "idle"
  /\ current[k] # None
  /\ Begin(<< <<k, current[k]>> >>)
  /\ seen' = 0
  /\ UNCHANGED <<thread, db, first, recent, history>>

\* isFirstScalar: no value of this kind is recorded.
FirstScalar_Bug(k) == \A v \in Value : <<k, v>> \notin work
FirstScalar(k) == \A v \in Value : <<k, v>> \notin observed

\* decideEmit for a comment: on first contact it must be newer than the baseline, the
\* start of the session.  A thread may bring another one (ThreadRef.BaselineAt), which
\* no caller sets.
DecideEmit_Bug(c) == TRUE
DecideEmit(c) == first = "no" \/ c \in recent

\* Does a newly recorded event become a work item?
Emits(e) == IF e[1] = "comment" THEN DecideEmit(e[2]) ELSE ~FirstScalar(e[1])

\* A pass that is over leaves none of its variables.
Over == first' = "no" /\ recent' = {} /\ seen' = 0

\* The event at the head of the plan is dealt with.
Advance ==
  /\ plan' = Tail(plan)
  /\ IF Tail(plan) = <<>> THEN pc' = "idle" /\ Over
                          ELSE pc' = "diff" /\ UNCHANGED <<first, recent, seen>>
  /\ covered' = IF Tail(plan) = <<>> /\ seen > covered THEN seen ELSE covered

\* recordObservation ignores the insert of an event recorded before.
Suppress ==
  /\ pc = "diff"
  /\ Head(plan) \in observed
  /\ Advance
  /\ UNCHANGED <<thread, db, untouched, later, cut, ingested, torn>>

\* recordObservation inserts, and there is nothing to dispatch (the baseline).
Seed ==
  /\ pc = "diff"
  /\ Head(plan) \notin observed /\ ~Emits(Head(plan))
  /\ observed' = observed \cup {Head(plan)}
  /\ Advance
  /\ UNCHANGED <<thread, work, untouched, later, cut, ingested, torn>>

\* recordObservation inserts, and a work item is to follow.
Record ==
  /\ pc = "diff"
  /\ Head(plan) \notin observed /\ Emits(Head(plan))
  /\ observed' = observed \cup {Head(plan)}
  /\ pc' = "create"
  /\ UNCHANGED <<thread, work, plan, first, recent, seen, covered, untouched, later,
                 cut, ingested, torn>>

CreateWorkItem ==
  /\ pc = "create"
  /\ work' = work \cup {Head(plan)}
  /\ Advance
  /\ UNCHANGED <<thread, observed, untouched, later,
                 cut, ingested, torn>>

\* What is left of a pass that returns an error or dies: nothing.
Abandon == pc' = "idle" /\ plan' = <<>>

Interrupted ==
  /\ Abandon
  /\ cut' = IF pc = "create" THEN cut \cup {Head(plan)} ELSE cut
  /\ torn' = IF pc # "idle" /\ seen > 0 THEN "yes" ELSE torn
  /\ Over
  /\ UNCHANGED <<covered, untouched, later, ingested>>

\* A statement fails: the error goes to the caller, who may try again.
Fail ==
  /\ pc # "idle"
  /\ Interrupted
  /\ UNCHANGED <<thread, db>>

\* The supervisor dies, if need be within a pass, and another one starts a
\* session: its watermark is the present.
Restart ==
  /\ newer # {} \/ pc # "idle"
  /\ Interrupted
  /\ newer' = {}
  /\ UNCHANGED <<posted, current, db>>

\* Ingest(Standing): the head of an authored pull is recorded, and that is all.
IngestStanding ==
  /\ pc = "idle"
  /\ "push" \in Polled /\ current["push"] # None
  /\ <<"push", current["push"]>> \notin observed
  /\ observed' = observed \cup {<<"push", current["push"]>>}
  /\ ingested' = ingested \cup {<<"push", current["push"]>>}
  /\ UNCHANGED <<thread, work, pass, covered, untouched, later, cut, torn>>

-----------------------------------------------------------------------------

Next ==
  \/ Post \/ (\E c \in Comment : Edit(c)) \/ (\E k \in Scalar : Change(k))
  \/ Translate \/ (\E k \in Polled : Poll(k)) \/ IngestStanding
  \/ Suppress \/ Seed \/ Record \/ CreateWorkItem
  \/ Fail \/ Restart

Spec == Init /\ [][Next]_vars

-----------------------------------------------------------------------------
(* Properties.                                                              *)

\* A thread with a long history does not flood the dispatcher: a comment from
\* before the first session becomes work only if a pass over the comments was
\* interrupted, after which the rest of the history no longer looks like a
\* first contact.
HistoryStaysQuiet ==
  \A c \in untouched : <<"comment", c>> \in work => torn = "yes"

\* After first contact nothing posted is overlooked, whatever restarts lie between:
\* a comment a complete pass went over is a work item, unless a pass stopped
\* between recording it and creating the item.
LaterCommentsDispatched ==
  \A c \in later :
    c <= covered => <<"comment", c>> \in work \/ <<"comment", c>> \in cut

\* Of all the values recorded for a scalar at most one, its baseline, is no work
\* item; not counting those of an interrupted pass and of Standing.
ChangesDispatched ==
  pc # "create" =>
    \A k \in Scalar :
      Cardinality({v \in Value : <<k, v>> \in observed \ (work \cup cut \cup ingested)}) <= 1

=============================================================================
