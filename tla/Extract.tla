------------------------------ MODULE Extract ------------------------------
(***************************************************************************)
(* `botfam session extract` (cli/ops/session_extract.go): the timeline of  *)
(* a milestone, read from the forge issue by issue while people go on      *)
(* working, cut to a window and to --snapshot-timestamp.                   *)
(*                                                                         *)
(* An item is the opening of an issue or an event of its timeline; what it *)
(* says (actor, action and body, and the title of an opening) is a text.   *)
(* Times are seconds, which is what the forge and the file carry.          *)
(* Left out: the diff summary and the hygiene warnings, which read the     *)
(* forge anew; the pages of the milestone's listing, which is one step     *)
(* although it filters by the title of the milestone it has looked up.     *)
(***************************************************************************)
EXTENDS Naturals, FiniteSets

CONSTANTS Extraction, \* extractions, made of the same milestone
          Item,       \* items there may be
          IssueOf,    \* the issue of each item; "open" items open it
          Opening,    \* the items that open their issue
          Text,       \* what an item may say
          Milestone,  \* milestones: id, title, open or closed
          Given,      \* the --milestone each extraction is given
          Window,     \* since, until and snapshot: None or a time
          MaxTime,    \* bound on the clock
          None

Issue == {IssueOf[i] : i \in Item}

ExtractAssumption ==
  /\ Opening \subseteq Item /\ MaxTime \in Nat /\ None \notin Issue \cup Nat
  /\ {Window.since, Window.until, Window.snapshot} \subseteq Nat \cup {None}
  /\ \A s \in Issue : \E i \in Opening : IssueOf[i] = s
  /\ \A m, n \in Milestone : m.id = n.id => m = n

VARIABLES
  now,       \* the clock
  made,      \* items that exist: when they were made
  text,      \* what they say
  edited,    \* items whose text somebody changed
  members,   \* the issues of the milestone
  pc, from,  \* each extraction: its place, and when it began
  todo,      \* issues it has listed and not read
  read,      \* issues whose timeline it has read
  lines,     \* entries gathered, then written: <<time, issue, text>>
  missed     \* issues whose timeline it could not read

vars == <<now, made, text, edited, members, pc, from, todo, read, lines, missed>>
people == <<now, made, text, edited, members>>

Time == 0..MaxTime

TypeOK ==
  /\ now \in Time /\ made \in [Item -> Time \cup {None}] /\ text \in [Item -> Text]
  /\ edited \subseteq Item /\ members \subseteq Issue
  /\ pc \in [Extraction -> {"start", "read", "done", "failed"}]
  /\ from \in [Extraction -> Time \cup {None}]
  /\ {todo, read, missed} \subseteq [Extraction -> SUBSET Issue]
  /\ lines \in [Extraction -> SUBSET (Time \X Issue \X Text)]

-----------------------------------------------------------------------------
(* What is asked for.                                                       *)

\* A number is an ID first; a title that several milestones have means the one that is open.
ById(arg) == {m \in Milestone : m.id = arg}
ByTitle(arg) == {m \in Milestone : m.title = arg}
Open(ms) == {m \in ms : m.open}
Resolved(arg) ==
  IF ById(arg) # {} THEN ById(arg)
  ELSE IF Cardinality(ByTitle(arg)) = 1 THEN ByTitle(arg)
  ELSE IF Cardinality(Open(ByTitle(arg))) = 1 THEN Open(ByTitle(arg)) ELSE {}

Includes_Bug(t) ==
  /\ Window.since # None => t >= Window.since
  /\ Window.until # None => t <= Window.until

\* All bounds are inclusive.
Includes(t) ==
  /\ Window.since # None => t >= Window.since
  /\ Window.until # None => t <= Window.until
  /\ Window.snapshot # None => t <= Window.snapshot

\* Items of an issue there are now, as lines.  Lines that say the same are one.
Line(i) == <<made[i], IssueOf[i], text[i]>>
Lines(items) == {Line(i) : i \in {j \in items : made[j] # None /\ Includes(made[j])}}
Of(s) == {i \in Item : IssueOf[i] = s}

-----------------------------------------------------------------------------
(* Steps.                                                                   *)

Init ==
  /\ now = 0 /\ text \in [Item -> Text] /\ edited = {}
  /\ made = [i \in Item |-> IF i \in Opening THEN 0 ELSE None]
  /\ members \in SUBSET Issue
  /\ pc = [x \in Extraction |-> "start"] /\ from = [x \in Extraction |-> None]
  /\ todo = [x \in Extraction |-> {}] /\ read = todo /\ missed = todo
  /\ lines = [x \in Extraction |-> {}]

\* The milestones and the issues of the one that is meant; the openings come with the list.
\* The opening says what it says now, not what it said then.
Begin(x) ==
  /\ pc[x] = "start" /\ Resolved(Given[x]) # {}
  /\ pc' = [pc EXCEPT ![x] = "read"] /\ from' = [from EXCEPT ![x] = now]
  /\ todo' = [todo EXCEPT ![x] = members]
  /\ lines' = [lines EXCEPT ![x] = Lines({i \in Opening : IssueOf[i] \in members})]
  /\ UNCHANGED <<people, read, missed>>

\* No such milestone, or an ambiguous one; or the forge fails.
BeginFails(x) ==
  /\ pc[x] = "start" /\ pc' = [pc EXCEPT ![x] = "failed"]
  /\ UNCHANGED <<people, from, todo, read, lines, missed>>

Read(x, s) ==
  /\ pc[x] = "read" /\ s \in todo[x]
  /\ todo' = [todo EXCEPT ![x] = @ \ {s}] /\ read' = [read EXCEPT ![x] = @ \cup {s}]
  /\ lines' = [lines EXCEPT ![x] = @ \cup Lines(Of(s) \ Opening)]
  /\ UNCHANGED <<people, pc, from, missed>>

\* A warning on stderr; the timeline is written without the issue's events.
ReadFails(x, s) ==
  /\ pc[x] = "read" /\ s \in todo[x]
  /\ todo' = [todo EXCEPT ![x] = @ \ {s}] /\ missed' = [missed EXCEPT ![x] = @ \cup {s}]
  /\ UNCHANGED <<people, pc, from, read, lines>>

\* Sorted by time, event, issue and actor, so the order is the lines' own.
Write(x) ==
  /\ pc[x] = "read" /\ todo[x] = {}
  /\ pc' = [pc EXCEPT ![x] = "done"]
  /\ UNCHANGED <<people, from, todo, read, lines, missed>>

Tick == now < MaxTime /\ now' = now + 1
        /\ UNCHANGED <<made, text, edited, members, pc, from, todo, read, lines, missed>>

Happens(i) ==
  /\ made[i] = None /\ made' = [made EXCEPT ![i] = now]
  /\ UNCHANGED <<now, text, edited, members, pc, from, todo, read, lines, missed>>

Edit(i) ==
  /\ made[i] # None /\ \E t \in Text \ {text[i]} : text' = [text EXCEPT ![i] = t]
  /\ edited' = edited \cup {i}
  /\ UNCHANGED <<now, made, members, pc, from, todo, read, lines, missed>>

\* An issue joins the milestone or leaves it.
Link(s) ==
  /\ members' = IF s \in members THEN members \ {s} ELSE members \cup {s}
  /\ UNCHANGED <<now, made, text, edited, pc, from, todo, read, lines, missed>>

Next ==
  \/ Tick
  \/ \E i \in Item : Happens(i) \/ Edit(i)
  \/ \E s \in Issue : Link(s)
  \/ \E x \in Extraction :
       Begin(x) \/ BeginFails(x) \/ Write(x) \/ \E s \in Issue : Read(x, s) \/ ReadFails(x, s)

Spec == Init /\ [][Next]_vars

-----------------------------------------------------------------------------
(* Properties.                                                              *)

\* "freeze the timeline at this RFC3339 timestamp for reproducibility" (the help of
\* --snapshot-timestamp): of an issue that both of two extractions read, begun when the
\* snapshot's second was over, both list an item nobody has edited, or neither does.
Reproducible ==
  \A x, y \in Extraction :
    ( /\ {pc[x], pc[y]} = {"done"} /\ Window.snapshot # None
      /\ from[x] > Window.snapshot /\ from[y] > Window.snapshot )
      => \A i \in Item \ edited : IssueOf[i] \in read[x] \cap read[y] /\ made[i] # None =>
           (Line(i) \in lines[x] <=> Line(i) \in lines[y])
=============================================================================
