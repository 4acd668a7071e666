--------------------------- MODULE ObserveProofs ----------------------------
(* Proofs about Observe, for any number of comments and any values of the   *)
(* scalars.                                                                 *)
EXTENDS Observe, SequenceTheorems, FiniteSetTheorems, TLAPS

\* The events of a plan, and the one that was recorded and is to become a work item.
Ahead(q) == {q[j] : j \in DOMAIN q}
Pending == IF pc = "create" THEN {Head(plan)} ELSE {}
Is(c) == <<"comment", c>>

\* What the variables of the thread and of the pass can be.
InRange ==
  /\ \A k \in Translated : current[k] \in Value
  /\ seen <= posted
  /\ newer \subseteq 1..posted /\ recent \subseteq 1..posted
  /\ untouched \subseteq 1..posted /\ later \subseteq 1..posted
  /\ \A c \in Comment : Is(c) \in observed => c <= posted
  /\ pc = "idle" => first = "no" /\ seen = 0

\* A pass over the comments goes through all it has fetched, and through no other; a
\* complete pass leaves none of them unrecorded.
PassInOrder ==
  /\ \A c \in Comment : Is(c) \in Ahead(plan) => c <= seen
  /\ \A c \in 1..seen : Is(c) \in observed \cup Ahead(plan)
  /\ pc = "create" => Head(plan) \in observed
  /\ \A c \in 1..covered : Is(c) \in observed
  /\ \A c \in 1..covered : Is(c) \notin Pending

\* A comment posted after first contact is none that a first contact fetched, and once
\* it is recorded it is on its way to a work item.
LaterInOrder ==
  /\ later # {} => ~ FirstContact
  /\ first = "yes" => \A c \in later : c > seen
  /\ \A c \in later : Is(c) \in observed => Is(c) \in work \cup cut \cup Pending

\* The history of the thread is recorded by its first contact, all of it unless the pass
\* is interrupted, and is not dispatched then.
HistoryInOrder ==
  /\ untouched \cap newer = {} /\ untouched \cap recent = {}
  /\ first = "yes" => untouched \subseteq 1..seen
  /\ first = "no" /\ (\E c \in Comment : Is(c) \in Ahead(plan)) => ~ FirstContact
  /\ torn = "no" /\ first = "no" =>
       FirstContact \/ \A c \in untouched : Is(c) \in observed
  /\ torn = "no" => \A c \in untouched : Is(c) \notin work \cup Pending

\* Only the baseline of a scalar was recorded by a complete pass and not dispatched.
OneBaseline ==
  \A k \in Scalar : \A v, w \in Value :
    /\ <<k, v>> \in observed \ (work \cup cut \cup ingested \cup Pending)
    /\ <<k, w>> \in observed \ (work \cup cut \cup ingested \cup Pending)
    => v = w

OIInv == TypeOK /\ InRange /\ PassInOrder /\ LaterInOrder /\ HistoryInOrder /\ OneBaseline

-----------------------------------------------------------------------------
(* Events and plans.                                                        *)

\* An event is a comment's or a scalar's, never both.
LEMMA Events ==
  /\ \A c \in Comment : Is(c) \in Event /\ Is(c)[1] = "comment" /\ Is(c)[2] = c
  /\ \A k \in Scalar, v \in Value : <<k, v>> \in Event /\ <<k, v>>[1] = k /\ k # "comment"
  /\ \A e \in Event : (\E c \in Comment : e = Is(c)) \/ (\E k \in Scalar, v \in Value : e = <<k, v>>)
  /\ \A c, k, v : k \in Scalar => Is(c) # <<k, v>>
  /\ \A c, d : Is(c) = Is(d) => c = d
<1>1. "comment" \notin Scalar
  BY ObserveAssumption DEF Scalar
<1>2. \A c \in Comment : Is(c) \in Event /\ Is(c)[1] = "comment" /\ Is(c)[2] = c
  BY DEF Event, Is
<1>3. \A k \in Scalar, v \in Value : <<k, v>> \in Event /\ <<k, v>>[1] = k /\ k # "comment"
  BY <1>1 DEF Event
<1>4. \A e \in Event : (\E c \in Comment : e = Is(c)) \/ (\E k \in Scalar, v \in Value : e = <<k, v>>)
  BY DEF Event, Is
<1>5. \A c, k, v : k \in Scalar => Is(c) # <<k, v>>
  BY <1>1 DEF Is
<1>6. \A c, d : Is(c) = Is(d) => c = d
  BY DEF Is
<1> QED
  BY <1>2, <1>3, <1>4, <1>5, <1>6

\* The head of a plan, and what is left of it.
LEMMA HeadAndTail ==
  ASSUME NEW q \in Seq(Event), q # <<>>
  PROVE  /\ Head(q) \in Event /\ Tail(q) \in Seq(Event)
         /\ Ahead(q) = {Head(q)} \cup Ahead(Tail(q)) /\ Ahead(q) \subseteq Event
<1>1. Len(q) \in Nat \ {0} /\ DOMAIN q = 1..Len(q) /\ Head(q) = q[1]
  BY EmptySeq, LenProperties
<1>2. Tail(q) \in Seq(Event) /\ Len(Tail(q)) = Len(q) - 1
      /\ \A k \in 1..(Len(q) - 1) : Tail(q)[k] = q[k + 1]
  BY HeadTailProperties
<1>3. DOMAIN Tail(q) = 1..(Len(q) - 1)
  BY <1>1, <1>2, LenProperties
<1>4. \A k \in 1..Len(q) : q[k] \in Event
  BY ElementOfSeq
<1>5. ASSUME NEW k \in 1..Len(q) PROVE q[k] \in {Head(q)} \cup Ahead(Tail(q))
  <2>1. CASE k = 1
    BY <1>1, <2>1
  <2>2. CASE k # 1
    <3>1. k - 1 \in 1..(Len(q) - 1) /\ (k - 1) + 1 = k
      BY <1>1, <2>2
    <3>2. Tail(q)[k - 1] = q[k]
      BY <1>2, <3>1
    <3> QED
      BY <1>3, <3>1, <3>2 DEF Ahead
  <2> QED
    BY <2>1, <2>2
<1>6. ASSUME NEW k \in 1..(Len(q) - 1) PROVE Tail(q)[k] \in Ahead(q)
  <2>1. k + 1 \in 1..Len(q)
    BY <1>1
  <2> QED
    BY <1>1, <1>2, <2>1 DEF Ahead
<1>7. Head(q) \in Ahead(q) /\ Head(q) \in Event
  <2>1. 1 \in 1..Len(q)
    BY <1>1
  <2> QED
    BY <1>1, <1>4, <2>1 DEF Ahead
<1> QED
  BY <1>1, <1>2, <1>3, <1>4, <1>5, <1>6, <1>7 DEF Ahead

LEMMA NothingAhead == Ahead(<<>>) = {}
  BY DEF Ahead

\* Plans one after the other.
LEMMA AheadOfBoth ==
  ASSUME NEW p \in Seq(Event), NEW q \in Seq(Event)
  PROVE  p \o q \in Seq(Event) /\ Ahead(p \o q) = Ahead(p) \cup Ahead(q)
<1>1. /\ p \o q \in Seq(Event) /\ Len(p \o q) = Len(p) + Len(q)
      /\ \A k \in 1..(Len(p) + Len(q)) :
           (p \o q)[k] = IF k <= Len(p) THEN p[k] ELSE q[k - Len(p)]
  BY ConcatProperties
<1>2. /\ Len(p) \in Nat /\ Len(q) \in Nat /\ DOMAIN p = 1..Len(p) /\ DOMAIN q = 1..Len(q)
      /\ DOMAIN (p \o q) = 1..(Len(p) + Len(q))
  BY <1>1, LenProperties
<1>3. ASSUME NEW k \in 1..(Len(p) + Len(q)) PROVE (p \o q)[k] \in Ahead(p) \cup Ahead(q)
  <2>1. CASE k <= Len(p)
    BY <1>1, <1>2, <2>1 DEF Ahead
  <2>2. CASE k > Len(p)
    <3>1. k - Len(p) \in 1..Len(q) /\ (p \o q)[k] = q[k - Len(p)]
      BY <1>1, <1>2, <2>2
    <3> QED
      BY <1>2, <3>1 DEF Ahead
  <2> QED
    BY <1>2, <2>1, <2>2
<1>4. ASSUME NEW k \in 1..Len(p) PROVE p[k] \in Ahead(p \o q)
  <2>1. k \in 1..(Len(p) + Len(q)) /\ (p \o q)[k] = p[k]
    BY <1>1, <1>2
  <2> QED
    BY <1>2, <2>1 DEF Ahead
<1>5. ASSUME NEW k \in 1..Len(q) PROVE q[k] \in Ahead(p \o q)
  <2>1. k + Len(p) \in 1..(Len(p) + Len(q)) /\ ~ (k + Len(p) <= Len(p)) /\ (k + Len(p)) - Len(p) = k
    BY <1>2
  <2>2. (p \o q)[k + Len(p)] = q[k]
    BY <1>1, <2>1
  <2> QED
    BY <1>2, <2>1, <2>2 DEF Ahead
<1>6. Ahead(p \o q) \subseteq Ahead(p) \cup Ahead(q)
  BY <1>2, <1>3 DEF Ahead
<1>7. Ahead(p) \subseteq Ahead(p \o q) /\ Ahead(q) \subseteq Ahead(p \o q)
  BY <1>2, <1>4, <1>5 DEF Ahead
<1> QED
  BY <1>1, <1>6, <1>7

\* What Translate goes through: the comments it fetched, and its scalars.
LEMMA TranslatePlans ==
  ASSUME TypeOK, InRange, Translate
  PROVE  /\ plan' \in Seq(Event) /\ plan' # <<>>
         /\ \A c \in Comment : Is(c) \in Ahead(plan') <=> c <= posted
<1> DEFINE P == [c \in 1..posted |-> <<"comment", c>>]
<1>0. posted \in Nat /\ posted <= Comments /\ Comments \in Nat
  BY ObserveAssumption DEF TypeOK
<1>1. P \in Seq(Event) /\ \A c \in Comment : Is(c) \in Ahead(P) <=> c <= posted
  <2>1. P \in [1..posted -> Event]
    BY <1>0 DEF Event, Comment
  <2>2. P \in Seq(Event)
    BY <1>0, <2>1, SeqDef
  <2>3. Ahead(P) = {Is(c) : c \in 1..posted}
    BY DEF Ahead, Is
  <2>4. \A c \in Comment : c \in 1..posted <=> c <= posted
    BY <1>0 DEF Comment
  <2> HIDE DEF P
  <2> QED
    BY <2>2, <2>3, <2>4, Events
<1>2. ASSUME NEW k \in {"state", "labels"}
      PROVE  /\ Diff(k) \in Seq(Event)
             /\ \A c \in Comment : Is(c) \notin Ahead(Diff(k))
             /\ k \in Translated => Ahead(Diff(k)) # {}
  <2>1. CASE k \in Translated
    <3>1. <<k, current[k]>> \in Event /\ k \in Scalar
      BY <2>1, Events DEF InRange, Scalar
    <3>2. Diff(k) = << <<k, current[k]>> >>
      BY <2>1 DEF Diff
    <3>3. Ahead(Diff(k)) = {<<k, current[k]>>}
      BY <3>2 DEF Ahead
    <3> QED
      BY <3>1, <3>2, <3>3, Events
  <2>2. CASE k \notin Translated
    BY <2>2, NothingAhead, EmptySeq DEF Diff
  <2> QED
    BY <2>1, <2>2
<1>3. plan' = P \o (Diff("state") \o Diff("labels"))
  BY DEF Translate, Begin, ScalarPlan
<1> HIDE DEF P
<1>4. /\ Diff("state") \o Diff("labels") \in Seq(Event)
      /\ Ahead(Diff("state") \o Diff("labels")) = Ahead(Diff("state")) \cup Ahead(Diff("labels"))
  BY <1>2, AheadOfBoth
<1>5. /\ plan' \in Seq(Event)
      /\ Ahead(plan') = Ahead(P) \cup (Ahead(Diff("state")) \cup Ahead(Diff("labels")))
  BY <1>1, <1>3, <1>4, AheadOfBoth
<1>6. Ahead(plan') # {}
  BY <1>2, <1>5, ObserveAssumption
<1> QED
  BY <1>1, <1>2, <1>5, <1>6, NothingAhead

\* Is there a comment in the plan of a poll?  None.
LEMMA PollPlans ==
  ASSUME TypeOK, NEW k \in Polled, Poll(k)
  PROVE  /\ plan' \in Seq(Event) /\ plan' # <<>>
         /\ \A c \in Comment : Is(c) \notin Ahead(plan')
<1>1. plan' = << <<k, current[k]>> >>
  BY DEF Poll, Begin
<1>2. k \in Scalar /\ current[k] \in Value
  BY DEF Poll, TypeOK, Scalar
<1>3. Ahead(plan') = {<<k, current[k]>>}
  BY <1>1 DEF Ahead
<1> QED
  BY <1>1, <1>2, <1>3, Events

-----------------------------------------------------------------------------
(* The invariant is inductive.                                              *)

LEMMA ObserveInitially == Init => OIInv
<1> SUFFICES ASSUME Init PROVE OIInv
  OBVIOUS
<1>0. Ahead(plan) = {} /\ Pending = {} /\ Comments \in Nat /\ posted \in Nat
  BY NothingAhead, ObserveAssumption DEF Init, Pending
<1>1. TypeOK
  BY <1>0, EmptySeq DEF Init, TypeOK, Comment
<1>2. InRange
  BY <1>0 DEF Init, InRange, Scalar
<1>3. PassInOrder /\ LaterInOrder
  BY <1>0 DEF Init, PassInOrder, LaterInOrder
<1>4. HistoryInOrder
  BY <1>0 DEF Init, HistoryInOrder, FirstContact
<1>5. OneBaseline
  BY DEF Init, OneBaseline
<1> QED
  BY <1>1, <1>2, <1>3, <1>4, <1>5 DEF OIInv

LEMMA SameContact == ASSUME UNCHANGED observed PROVE FirstContact' <=> FirstContact
  BY DEF FirstContact

\* The forge moves; the pass and the database do not.
LEMMA ForgeKeeps ==
  ASSUME OIInv, Post \/ (\E c \in Comment : Edit(c)) \/ (\E k \in Scalar : Change(k))
  PROVE  OIInv'
<1> USE DEF OIInv
<1>0. /\ UNCHANGED <<observed, work, pc, plan, first, recent, seen, covered, cut, ingested, torn>>
      /\ Comments \in Nat /\ TypeOK
  BY ObserveAssumption DEF Post, Edit, Change, db, pass, history
<1>1. Pending' = Pending /\ (FirstContact' <=> FirstContact) /\ Ahead(plan)' = Ahead(plan)
  BY <1>0 DEF Pending, FirstContact, Ahead
<1>2. OneBaseline' /\ PassInOrder'
  BY <1>0, <1>1 DEF OneBaseline, PassInOrder, Is
<1>3. CASE Post
  <2>1. /\ posted < Comments /\ posted' = posted + 1 /\ newer' = newer \cup {posted + 1}
        /\ later' \subseteq later \cup {posted + 1} /\ UNCHANGED <<current, untouched>>
        /\ later' # later => ~ FirstContact
        /\ posted \in Nat /\ seen \in Nat
    <3>1. posted \in Nat /\ seen \in Nat
      BY <1>0 DEF TypeOK
    <3>2. /\ posted < Comments /\ posted' = posted + 1 /\ newer' = newer \cup {posted + 1}
          /\ later' = IF ~ FirstContact THEN later \cup {posted + 1} ELSE later
          /\ UNCHANGED <<current, untouched>>
      BY <1>3, Zenon DEF Post, FirstContact
    <3> QED
      BY <3>1, <3>2
  <2>2. posted + 1 \in Comment /\ posted + 1 \notin 1..posted /\ 1..posted \subseteq 1..(posted + 1)
    BY <1>0, <2>1 DEF Comment
  <2>3. TypeOK'
    BY <1>0, <2>1, <2>2 DEF TypeOK
  <2>4. InRange'
    BY <1>0, <2>1, <2>2 DEF InRange, Is, Comment
  <2>5. Is(posted + 1) \notin observed
    BY <2>1, <2>2 DEF InRange
  <2>6. LaterInOrder'
    <3>1. later' # {} => ~ FirstContact'
      BY <1>1, <2>1 DEF LaterInOrder
    <3>2. first' = "yes" => \A c \in later' : c > seen'
      BY <1>0, <2>1 DEF LaterInOrder, InRange
    <3>3. \A c \in later' : Is(c) \in observed' => Is(c) \in work' \cup cut' \cup Pending'
      BY <1>0, <1>1, <2>1, <2>5 DEF LaterInOrder
    <3> QED
      BY <3>1, <3>2, <3>3 DEF LaterInOrder, Is
  <2>7. HistoryInOrder'
    BY <1>0, <1>1, <2>1, <2>2 DEF HistoryInOrder, InRange, Is
  <2> QED
    BY <1>2, <2>3, <2>4, <2>6, <2>7
<1>4. ASSUME NEW d \in Comment, Edit(d) PROVE OIInv'
  <2>1. /\ d <= posted /\ newer' = newer \cup {d} /\ untouched' = untouched \ {d}
        /\ UNCHANGED <<posted, current, later>>
    BY <1>4 DEF Edit
  <2>2. d \in 1..posted
    BY <1>0, <2>1 DEF Comment, TypeOK
  <2>3. TypeOK'
    BY <1>0, <2>1 DEF TypeOK
  <2>4. InRange'
    BY <1>0, <2>1, <2>2 DEF InRange, Is
  <2>5. LaterInOrder'
    BY <1>0, <1>1, <2>1 DEF LaterInOrder, Is
  <2>6. HistoryInOrder'
    BY <1>0, <1>1, <2>1 DEF HistoryInOrder, Is
  <2> QED
    BY <1>2, <2>3, <2>4, <2>5, <2>6
<1>5. ASSUME NEW k \in Scalar, Change(k) PROVE OIInv'
  <2>1. UNCHANGED <<posted, newer, untouched, later>>
    BY <1>5 DEF Change, history
  <2>2. PICK v \in Value \cup (IF k \in Polled THEN {None} ELSE {}) :
          current' = [current EXCEPT ![k] = v]
    BY <1>5 DEF Change
  <2>3. k \in Translated => v \in Value
    BY <2>2, ObserveAssumption
  <2>4. TypeOK'
    BY <1>0, <2>1, <2>2 DEF TypeOK
  <2>5. InRange'
    BY <1>0, <2>1, <2>2, <2>3 DEF InRange, Is, TypeOK
  <2>6. LaterInOrder' /\ HistoryInOrder'
    BY <1>0, <1>1, <2>1 DEF LaterInOrder, HistoryInOrder, Is
  <2> QED
    BY <1>2, <2>4, <2>5, <2>6
<1> QED
  BY <1>3, <1>4, <1>5

\* A pass begins.
LEMMA BeginKeeps ==
  ASSUME OIInv, Translate \/ (\E k \in Polled : Poll(k))
  PROVE  OIInv'
<1> USE DEF OIInv
<1>0. /\ UNCHANGED <<posted, current, newer, observed, work, covered, untouched, later, cut, ingested, torn>>
      /\ pc = "idle" /\ TypeOK /\ InRange /\ first = "no" /\ plan = <<>>
  BY DEF Translate, Poll, thread, db, history, InRange, TypeOK
<1>1. Pending = {} /\ (FirstContact' <=> FirstContact)
  BY <1>0, SameContact DEF Pending
<1>2. ASSUME NEW c \in 1..posted PROVE c \in Comment
  BY <1>0, ObserveAssumption DEF Comment, TypeOK
<1>3. ASSUME plan' # <<>>, pc' = "diff" PROVE Pending' = {} /\ OneBaseline'
  BY <1>0, <1>1, <1>3 DEF Pending, OneBaseline
<1>4. CASE Translate
  <2>1. /\ plan' \in Seq(Event) /\ plan' # <<>>
        /\ \A c \in Comment : Is(c) \in Ahead(plan') <=> c <= posted
    BY <1>0, <1>4, TranslatePlans
  <2>2. /\ pc' = "diff" /\ recent' = newer /\ seen' = posted
        /\ first' = IF FirstContact THEN "yes" ELSE "no"
    BY <1>4, <2>1 DEF Translate, Begin
  <2>3. Pending' = {} /\ OneBaseline'
    BY <1>3, <2>1, <2>2
  <2>4. TypeOK'
    BY <1>0, <2>1, <2>2 DEF TypeOK
  <2>5. InRange'
    BY <1>0, <2>2 DEF InRange, Is, TypeOK
  <2>6. PassInOrder'
    <3>1. \A c \in Comment : Is(c) \in Ahead(plan') => c <= seen'
      BY <2>1, <2>2
    <3>2. \A c \in 1..seen' : Is(c) \in observed' \cup Ahead(plan')
      BY <1>0, <1>2, <2>1, <2>2 DEF TypeOK
    <3>3. \A c \in 1..covered' : Is(c) \in observed' /\ Is(c) \notin Pending'
      BY <1>0, <2>3 DEF PassInOrder
    <3> QED
      BY <2>2, <3>1, <3>2, <3>3 DEF PassInOrder, Is, Ahead
  <2>7. LaterInOrder'
    BY <1>0, <1>1, <2>2, <2>3 DEF LaterInOrder, Is
  <2>8. HistoryInOrder'
    <3>1. first' = "yes" => untouched' \subseteq 1..seen'
      BY <1>0, <2>2 DEF InRange
    <3>2. first' = "no" => ~ FirstContact'
      BY <1>1, <2>2
    <3> QED
      BY <1>0, <1>1, <2>2, <2>3, <3>1, <3>2 DEF HistoryInOrder, Is
  <2> QED
    BY <2>3, <2>4, <2>5, <2>6, <2>7, <2>8
<1>5. ASSUME NEW k \in Polled, Poll(k) PROVE OIInv'
  <2>1. plan' \in Seq(Event) /\ plan' # <<>> /\ \A c \in Comment : Is(c) \notin Ahead(plan')
    BY <1>0, <1>5, PollPlans
  <2>2. pc' = "diff" /\ seen' = 0 /\ UNCHANGED <<first, recent>>
    BY <1>5, <2>1 DEF Poll, Begin
  <2>3. Pending' = {} /\ OneBaseline'
    BY <1>3, <2>1, <2>2
  <2>4. TypeOK'
    BY <1>0, <2>1, <2>2, ObserveAssumption DEF TypeOK
  <2>5. InRange'
    BY <1>0, <2>2 DEF InRange, Is, TypeOK
  <2>6. PassInOrder'
    <3>1. \A c \in Comment : Is(c) \in Ahead(plan') => c <= seen'
      BY <2>1
    <3>2. \A c \in 1..covered' : Is(c) \in observed' /\ Is(c) \notin Pending'
      BY <1>0, <2>3 DEF PassInOrder
    <3> QED
      BY <2>2, <3>1, <3>2 DEF PassInOrder, Is, Ahead
  <2>7. LaterInOrder'
    BY <1>0, <1>1, <2>2, <2>3 DEF LaterInOrder, Is
  <2>8. HistoryInOrder'
    <3>1. \A c \in Comment : Is(c) \notin Ahead(plan)'
      BY <2>1 DEF Ahead
    <3> QED
      BY <1>0, <1>1, <2>2, <2>3, <3>1 DEF HistoryInOrder, Is
  <2> QED
    BY <2>3, <2>4, <2>5, <2>6, <2>7, <2>8
<1> QED
  BY <1>4, <1>5

\* The event at the head of the plan is dealt with, and is recorded by then.
LEMMA AdvanceKeeps ==
  ASSUME OIInv, pc # "idle", Advance, UNCHANGED <<posted, untouched, newer>>,
         Head(plan) \in observed', observed \subseteq observed', observed' \subseteq Event
  PROVE  /\ plan' \in Seq(Event) /\ (pc' = "idle" <=> plan' = <<>>) /\ pc' \in {"idle", "diff"}
         /\ Pending' = {} /\ covered' \in 0..Comments
         /\ seen' \in 0..Comments /\ first' \in {"yes", "no"} /\ recent' \subseteq recent
         /\ PassInOrder'
         /\ pc' = "idle" => first' = "no" /\ seen' = 0
         /\ first' = "yes" => first = "yes" /\ seen' = seen
         /\ first' = "no" /\ first = "yes" => \A c \in untouched : Is(c) \in observed'
         /\ Ahead(plan') \subseteq Ahead(plan) /\ Head(plan) \in Ahead(plan)
<1> USE DEF OIInv
<1>0. TypeOK /\ InRange /\ PassInOrder /\ Comments \in Nat
  BY ObserveAssumption
<1>1. plan \in Seq(Event) /\ plan # <<>> /\ plan' = Tail(plan)
  BY <1>0 DEF TypeOK, Advance
<1>2. /\ plan' \in Seq(Event) /\ Ahead(plan) = {Head(plan)} \cup Ahead(plan')
      /\ plan' = <<>> => Ahead(plan') = {}
  BY <1>1, HeadAndTail, NothingAhead
<1>3. \/ plan' = <<>> /\ pc' = "idle" /\ first' = "no" /\ recent' = {} /\ seen' = 0
      \/ plan' # <<>> /\ pc' = "diff" /\ first' = first /\ recent' = recent /\ seen' = seen
  BY <1>1 DEF Advance, Over
<1>4. covered' = IF plan' = <<>> /\ seen > covered THEN seen ELSE covered
  BY <1>1 DEF Advance
<1>5. Pending' = {}
  BY <1>3 DEF Pending
<1>6. \A c \in 1..seen : Is(c) \in observed' \cup Ahead(plan')
  BY <1>0, <1>2 DEF PassInOrder
<1>7. \A c \in 1..covered' : Is(c) \in observed'
  BY <1>0, <1>2, <1>4, <1>6 DEF PassInOrder
<1>8. PassInOrder'
  <2>1. \A c \in Comment : Is(c) \in Ahead(plan') => c <= seen'
    BY <1>0, <1>2, <1>3 DEF PassInOrder
  <2>2. \A c \in 1..seen' : Is(c) \in observed' \cup Ahead(plan')
    BY <1>3, <1>6
  <2>3. pc' # "create"
    BY <1>3
  <2>4. \A c \in 1..covered' : Is(c) \in observed' /\ Is(c) \notin Pending'
    BY <1>5, <1>7
  <2> QED
    BY <2>1, <2>2, <2>3, <2>4 DEF PassInOrder, Is, Ahead
<1>9. first' = "no" /\ first = "yes" => \A c \in untouched : Is(c) \in observed'
  BY <1>2, <1>3, <1>6 DEF HistoryInOrder
<1> QED
  BY <1>0, <1>2, <1>3, <1>4, <1>5, <1>8, <1>9 DEF TypeOK

\* What was recorded of the thread was recorded of a comment, or it was not.
LEMMA ContactBy ==
  ASSUME NEW e \in Event, observed' = observed \cup {e}
  PROVE  /\ (\A c \in Comment : e # Is(c)) => (FirstContact' <=> FirstContact)
         /\ ~ FirstContact => ~ FirstContact'
         /\ \A c \in Comment : e = Is(c) => ~ FirstContact'
  BY DEF FirstContact, Is

\* An event that has been recorded and needs no work item.
LEMMA SuppressSeedKeeps ==
  ASSUME OIInv, Suppress \/ Seed
  PROVE  OIInv'
<1> USE DEF OIInv
<1> DEFINE e == Head(plan)
<1>0. /\ pc = "diff" /\ Advance /\ TypeOK /\ InRange
      /\ UNCHANGED <<posted, current, newer, work, untouched, later, cut, ingested, torn>>
      /\ observed' = observed \cup {e}
      /\ e \notin observed => ~ Emits(e)
  <2>1. CASE Suppress
    <3>1. e \in observed /\ observed' = observed /\ work' = work
      BY <2>1 DEF Suppress, db
    <3> QED
      BY <2>1, <3>1 DEF Suppress, thread
  <2>2. CASE Seed
    BY <2>2 DEF Seed, thread
  <2> QED
    BY <2>1, <2>2
<1>1. e \in Event /\ e \in Ahead(plan) /\ Pending = {}
  BY <1>0, HeadAndTail DEF TypeOK, Pending
<1>2. /\ plan' \in Seq(Event) /\ (pc' = "idle" <=> plan' = <<>>) /\ pc' \in {"idle", "diff"}
      /\ Pending' = {} /\ covered' \in 0..Comments
      /\ seen' \in 0..Comments /\ first' \in {"yes", "no"} /\ recent' \subseteq recent
      /\ PassInOrder'
      /\ pc' = "idle" => first' = "no" /\ seen' = 0
      /\ first' = "yes" => first = "yes" /\ seen' = seen
      /\ first' = "no" /\ first = "yes" => \A c \in untouched : Is(c) \in observed'
      /\ Ahead(plan') \subseteq Ahead(plan)
  BY <1>0, <1>1, AdvanceKeeps DEF TypeOK
<1>3. TypeOK'
  BY <1>0, <1>1, <1>2 DEF TypeOK
<1>4. \A c \in Comment : e = Is(c) => c <= seen
  BY <1>1 DEF PassInOrder
<1>5. InRange'
  <2>1. \A c \in Comment : Is(c) \in observed' => c <= posted
    BY <1>0, <1>4 DEF InRange, Comment, TypeOK
  <2>2. seen' <= posted
    <3>1. seen' = seen \/ seen' = 0
      BY <1>0 DEF Advance, Over
    <3> QED
      BY <1>0, <3>1 DEF InRange, TypeOK
  <2> QED
    BY <1>0, <1>2, <2>1, <2>2 DEF InRange, Is
<1>6. LaterInOrder'
  <2>1. later' # {} => ~ FirstContact'
    BY <1>0, <1>1, ContactBy DEF LaterInOrder
  <2>2. first' = "yes" => \A c \in later' : c > seen'
    BY <1>0, <1>2 DEF LaterInOrder
  <2>3. ASSUME NEW c \in later, e = Is(c), e \notin observed PROVE FALSE
    <3>1. c \in Comment /\ c <= seen
      BY <1>0, <1>4, <2>3 DEF TypeOK
    <3>2. first = "yes"
      BY <1>0, <2>3, <3>1, Events DEF Emits, DecideEmit, TypeOK
    <3> QED
      BY <1>0, <3>1, <3>2 DEF LaterInOrder, TypeOK, Comment
  <2>4. \A c \in later' : Is(c) \in observed' => Is(c) \in work' \cup cut' \cup Pending'
    BY <1>0, <1>1, <2>3 DEF LaterInOrder
  <2> QED
    BY <2>1, <2>2, <2>4 DEF LaterInOrder, Is
<1>7. HistoryInOrder'
  <2>1. untouched' \cap newer' = {} /\ untouched' \cap recent' = {}
    BY <1>0, <1>2 DEF HistoryInOrder
  <2>2. first' = "yes" => untouched' \subseteq 1..seen'
    BY <1>0, <1>2 DEF HistoryInOrder
  <2>3. first' = "no" /\ (\E c \in Comment : Is(c) \in Ahead(plan')) => ~ FirstContact'
    <3>1. first' = "no" /\ plan' # <<>> => first = "no"
      BY <1>0 DEF Advance
    <3> QED
      BY <1>0, <1>1, <1>2, <3>1, ContactBy, NothingAhead DEF HistoryInOrder
  <2>4. torn' = "no" /\ first' = "no" =>
          FirstContact' \/ \A c \in untouched' : Is(c) \in observed'
    <3> SUFFICES ASSUME torn' = "no", first' = "no", first = "no"
                 PROVE  FirstContact' \/ \A c \in untouched : Is(c) \in observed'
      BY <1>0, <1>2 DEF TypeOK
    <3>1. CASE FirstContact
      <4>1. \A c \in Comment : e # Is(c)
        BY <1>1, <3>1 DEF HistoryInOrder
      <4> QED
        BY <1>0, <1>1, <3>1, <4>1, ContactBy
    <3>2. CASE ~ FirstContact
      BY <1>0, <3>2 DEF HistoryInOrder
    <3> QED
      BY <3>1, <3>2
  <2>5. torn' = "no" => \A c \in untouched' : Is(c) \notin work' \cup Pending'
    BY <1>0, <1>2 DEF HistoryInOrder
  <2> QED
    BY <2>1, <2>2, <2>3, <2>4, <2>5 DEF HistoryInOrder, Is, Ahead
<1>8. OneBaseline'
  <2> DEFINE Old == observed \ (work \cup cut \cup ingested)
             New == observed' \ (work' \cup cut' \cup ingested' \cup Pending')
  <2>1. New \subseteq Old \cup {e}
    BY <1>0
  <2>2. ASSUME NEW k \in Scalar, NEW v \in Value, e = <<k, v>>, e \notin observed, NEW w \in Value
        PROVE  <<k, w>> \notin observed
    <3>0. e[1] = k /\ k # "comment"
      BY <2>2, Events
    <3>1. FirstScalar(k)
      BY <1>0, <2>2, <3>0 DEF Emits
    <3> QED
      BY <3>1 DEF FirstScalar
  <2>3. ASSUME NEW k \in Scalar, NEW v \in Value, NEW w \in Value, <<k, v>> \in New, <<k, w>> \in New
        PROVE  v = w
    <3>1. CASE e \in observed
      <4>1. New \subseteq Old
        BY <1>0, <3>1
      <4> QED
        BY <1>1, <2>3, <4>1 DEF OneBaseline
    <3>2. CASE e \notin observed /\ <<k, v>> = e
      BY <2>1, <2>2, <2>3, <3>2
    <3>3. CASE e \notin observed /\ <<k, w>> = e
      BY <2>1, <2>2, <2>3, <3>3
    <3>4. CASE <<k, v>> # e /\ <<k, w>> # e
      BY <1>1, <2>1, <2>3, <3>4 DEF OneBaseline
    <3> QED
      BY <3>1, <3>2, <3>3, <3>4
  <2> QED
    BY <2>3 DEF OneBaseline
<1> QED
  BY <1>2, <1>3, <1>5, <1>6, <1>7, <1>8

\* An event is recorded, and a work item is to follow.
LEMMA RecordKeeps ==
  ASSUME OIInv, Record
  PROVE  OIInv'
<1> USE DEF OIInv
<1> DEFINE e == Head(plan)
<1>0. /\ pc = "diff" /\ TypeOK /\ InRange /\ pc' = "create"
      /\ UNCHANGED <<posted, current, newer, work, plan, first, recent, seen, covered, untouched,
                     later, cut, ingested, torn>>
      /\ observed' = observed \cup {e} /\ e \notin observed /\ Emits(e)
  BY DEF Record, thread
<1>1. e \in Event /\ e \in Ahead(plan) /\ Pending = {} /\ Pending' = {e} /\ plan # <<>>
      /\ Ahead(plan)' = Ahead(plan)
  BY <1>0, HeadAndTail DEF TypeOK, Pending, Ahead
<1>2. \A c \in Comment : e = Is(c) => c <= seen
  BY <1>1 DEF PassInOrder
<1>3. TypeOK'
  BY <1>0, <1>1 DEF TypeOK
<1>4. InRange'
  BY <1>0, <1>2 DEF InRange, Is, Comment, TypeOK
<1>5. PassInOrder'
  <2>1. \A c \in 1..covered' : Is(c) \in observed' /\ Is(c) \notin Pending'
    BY <1>0, <1>1 DEF PassInOrder
  <2> QED
    BY <1>0, <1>1, <2>1 DEF PassInOrder, Is
<1>6. LaterInOrder'
  <2>1. later' # {} => ~ FirstContact'
    BY <1>0, <1>1, ContactBy DEF LaterInOrder
  <2> QED
    BY <1>0, <1>1, <2>1 DEF LaterInOrder, Is
<1>7. HistoryInOrder'
  <2>1. first' = "no" /\ (\E c \in Comment : Is(c) \in Ahead(plan)') => ~ FirstContact'
    BY <1>0, <1>1, ContactBy DEF HistoryInOrder
  <2>2. torn' = "no" /\ first' = "no" =>
          FirstContact' \/ \A c \in untouched' : Is(c) \in observed'
    <3> SUFFICES ASSUME torn = "no", first = "no"
                 PROVE  FirstContact' \/ \A c \in untouched : Is(c) \in observed'
      BY <1>0
    <3>1. CASE FirstContact
      <4>1. \A c \in Comment : e # Is(c)
        BY <1>1, <3>1 DEF HistoryInOrder
      <4> QED
        BY <1>0, <1>1, <3>1, <4>1, ContactBy
    <3>2. CASE ~ FirstContact
      BY <1>0, <3>2 DEF HistoryInOrder
    <3> QED
      BY <3>1, <3>2
  <2>3. ASSUME torn = "no", NEW c \in untouched, e = Is(c) PROVE FALSE
    <3>1. c \in Comment /\ c \notin recent
      BY <1>0, <2>3 DEF TypeOK, HistoryInOrder
    <3>2. first = "no"
      BY <1>0, <2>3, <3>1, Events DEF Emits, DecideEmit
    <3>3. ~ FirstContact
      BY <1>1, <2>3, <3>1, <3>2 DEF HistoryInOrder
    <3> QED
      BY <1>0, <2>3, <3>2, <3>3 DEF HistoryInOrder
  <2>4. torn' = "no" => \A c \in untouched' : Is(c) \notin work' \cup Pending'
    BY <1>0, <1>1, <2>3 DEF HistoryInOrder
  <2> QED
    BY <1>0, <2>1, <2>2, <2>4 DEF HistoryInOrder, Is
<1>8. OneBaseline'
  <2>1. observed' \ (work' \cup cut' \cup ingested' \cup Pending')
          \subseteq observed \ (work \cup cut \cup ingested \cup Pending)
    BY <1>0, <1>1
  <2> QED
    BY <2>1 DEF OneBaseline
<1> QED
  BY <1>3, <1>4, <1>5, <1>6, <1>7, <1>8

\* The work item of a recorded event is created.
LEMMA CreateKeeps ==
  ASSUME OIInv, CreateWorkItem
  PROVE  OIInv'
<1> USE DEF OIInv
<1> DEFINE e == Head(plan)
<1>0. /\ pc = "create" /\ Advance /\ TypeOK /\ InRange
      /\ UNCHANGED <<posted, current, newer, observed, untouched, later, cut, ingested, torn>>
      /\ work' = work \cup {e} /\ e \in observed
  BY DEF CreateWorkItem, thread, PassInOrder
<1>1. e \in Event /\ Pending = {e} /\ (FirstContact' <=> FirstContact)
  BY <1>0, HeadAndTail, SameContact DEF TypeOK, Pending
<1>2. /\ plan' \in Seq(Event) /\ (pc' = "idle" <=> plan' = <<>>) /\ pc' \in {"idle", "diff"}
      /\ Pending' = {} /\ covered' \in 0..Comments
      /\ seen' \in 0..Comments /\ first' \in {"yes", "no"} /\ recent' \subseteq recent
      /\ PassInOrder'
      /\ pc' = "idle" => first' = "no" /\ seen' = 0
      /\ first' = "yes" => first = "yes" /\ seen' = seen
      /\ first' = "no" /\ first = "yes" => \A c \in untouched : Is(c) \in observed'
      /\ Ahead(plan') \subseteq Ahead(plan)
  BY <1>0, <1>1, AdvanceKeeps DEF TypeOK
<1>3. TypeOK'
  BY <1>0, <1>1, <1>2 DEF TypeOK
<1>4. InRange'
  <2>1. seen' = seen \/ seen' = 0
    BY <1>0 DEF Advance, Over
  <2>2. seen' <= posted
    BY <1>0, <2>1 DEF InRange, TypeOK
  <2> QED
    BY <1>0, <1>2, <2>2 DEF InRange, Is
<1>5. LaterInOrder'
  BY <1>0, <1>1, <1>2 DEF LaterInOrder, Is
<1>6. HistoryInOrder'
  <2>1. first' = "no" /\ (\E c \in Comment : Is(c) \in Ahead(plan')) => ~ FirstContact'
    <3>1. first' = "no" /\ plan' # <<>> => first = "no"
      BY <1>0 DEF Advance
    <3> QED
      BY <1>1, <1>2, <3>1, NothingAhead DEF HistoryInOrder
  <2>2. torn' = "no" /\ first' = "no" =>
          FirstContact' \/ \A c \in untouched' : Is(c) \in observed'
    BY <1>0, <1>1, <1>2 DEF HistoryInOrder, TypeOK
  <2>3. torn' = "no" => \A c \in untouched' : Is(c) \notin work' \cup Pending'
    BY <1>0, <1>1, <1>2 DEF HistoryInOrder
  <2> QED
    BY <1>0, <1>2, <2>1, <2>2, <2>3 DEF HistoryInOrder, Is, Ahead
<1>7. OneBaseline'
  <2>1. observed' \ (work' \cup cut' \cup ingested' \cup Pending')
          \subseteq observed \ (work \cup cut \cup ingested \cup Pending)
    BY <1>0, <1>1
  <2> QED
    BY <2>1 DEF OneBaseline
<1> QED
  BY <1>2, <1>3, <1>4, <1>5, <1>6, <1>7

\* A pass stops where it is.
LEMMA InterruptedKeeps ==
  ASSUME OIInv, Interrupted, UNCHANGED <<posted, current, observed, work>>, newer' \subseteq newer
  PROVE  OIInv'
<1> USE DEF OIInv
<1>0. /\ pc' = "idle" /\ plan' = <<>> /\ first' = "no" /\ recent' = {} /\ seen' = 0
      /\ cut' = cut \cup Pending
      /\ torn' = "no" => torn = "no" /\ (pc = "idle" \/ ~ seen > 0)
      /\ UNCHANGED <<covered, untouched, later, ingested>> /\ TypeOK /\ InRange
      /\ Comments \in Nat
  BY ObserveAssumption DEF Interrupted, Abandon, Over, Pending
<1>1. Pending' = {} /\ Ahead(plan') = {} /\ (FirstContact' <=> FirstContact)
  BY <1>0, NothingAhead, SameContact DEF Pending
<1>2. TypeOK'
  <2>1. Pending \subseteq Event
    BY <1>0, HeadAndTail DEF Pending, TypeOK
  <2>2. torn' \in {"yes", "no"}
    BY <1>0 DEF Interrupted, TypeOK
  <2> QED
    BY <1>0, <2>1, <2>2, EmptySeq DEF TypeOK
<1>3. InRange'
  BY <1>0 DEF InRange, Is, TypeOK
<1>4. PassInOrder'
  BY <1>0, <1>1 DEF PassInOrder, Is, Ahead
<1>5. LaterInOrder'
  BY <1>0, <1>1 DEF LaterInOrder, Is
<1>6. HistoryInOrder'
  <2>1. torn' = "no" /\ first = "yes" => untouched = {}
    BY <1>0 DEF InRange, HistoryInOrder, TypeOK
  <2>2. torn' = "no" => FirstContact' \/ \A c \in untouched' : Is(c) \in observed'
    BY <1>0, <1>1, <2>1 DEF HistoryInOrder, TypeOK
  <2>3. torn' = "no" => \A c \in untouched' : Is(c) \notin work' \cup Pending'
    BY <1>0, <1>1 DEF HistoryInOrder
  <2> QED
    BY <1>0, <1>1, <2>2, <2>3 DEF HistoryInOrder, Is, Ahead
<1>7. OneBaseline'
  <2>1. observed' \ (work' \cup cut' \cup ingested' \cup Pending')
          \subseteq observed \ (work \cup cut \cup ingested \cup Pending)
    BY <1>0
  <2> QED
    BY <2>1 DEF OneBaseline
<1> QED
  BY <1>2, <1>3, <1>4, <1>5, <1>6, <1>7

\* The head of an authored pull is recorded, without a diff.
LEMMA IngestKeeps ==
  ASSUME OIInv, IngestStanding
  PROVE  OIInv'
<1> USE DEF OIInv
<1> DEFINE e == <<"push", current["push"]>>
<1>0. /\ pc = "idle" /\ plan = <<>> /\ TypeOK /\ InRange
      /\ UNCHANGED <<posted, current, newer, work, pc, plan, first, recent, seen, covered,
                     untouched, later, cut, torn>>
      /\ observed' = observed \cup {e} /\ ingested' = ingested \cup {e}
      /\ "push" \in Scalar /\ current["push"] \in Value
  BY DEF IngestStanding, thread, pass, TypeOK, Scalar
<1>1. e \in Event /\ \A c : e # Is(c)
  BY <1>0, Events
<1> HIDE DEF e
<1>2. Pending = {} /\ Pending' = {} /\ Ahead(plan)' = Ahead(plan) /\ (FirstContact' <=> FirstContact)
  BY <1>0, <1>1, ContactBy DEF Pending, Ahead
<1>3. TypeOK'
  BY <1>0, <1>1 DEF TypeOK
<1>4. InRange' /\ PassInOrder' /\ LaterInOrder'
  BY <1>0, <1>1, <1>2 DEF InRange, PassInOrder, LaterInOrder, Is
<1>5. HistoryInOrder'
  BY <1>0, <1>1, <1>2 DEF HistoryInOrder, Is
<1>6. OneBaseline'
  <2>1. observed' \ (work' \cup cut' \cup ingested' \cup Pending')
          \subseteq observed \ (work \cup cut \cup ingested \cup Pending)
    BY <1>0, <1>2
  <2> QED
    BY <2>1 DEF OneBaseline
<1> QED
  BY <1>3, <1>4, <1>5, <1>6

-----------------------------------------------------------------------------

\* What a pass has recorded and what it has made work of, through failures and
\* restarts: the inductive invariant of the observation layer.
THEOREM ObserveInductive == Spec => []OIInv
<1>1. OIInv /\ [Next]_vars => OIInv'
  <2> SUFFICES ASSUME OIInv, [Next]_vars PROVE OIInv'
    OBVIOUS
  <2>1. CASE Fail
    <3>1. Interrupted /\ UNCHANGED <<posted, current, newer, observed, work>>
      BY <2>1 DEF Fail, thread, db
    <3>2. newer' \subseteq newer
      BY <3>1
    <3> QED
      BY <3>1, <3>2, InterruptedKeeps
  <2>2. CASE Restart
    <3>1. Interrupted /\ UNCHANGED <<posted, current, observed, work>> /\ newer' = {}
      BY <2>2 DEF Restart, db
    <3>2. newer' \subseteq newer
      BY <3>1
    <3> QED
      BY <3>1, <3>2, InterruptedKeeps
  <2>3. CASE UNCHANGED vars
    <3>1. /\ UNCHANGED <<posted, current, newer, observed, work, pc, plan, first, recent, seen>>
          /\ UNCHANGED <<covered, untouched, later, cut, ingested, torn>>
      BY <2>3 DEF vars, thread, db, pass, history
    <3>2. Pending' = Pending /\ Ahead(plan)' = Ahead(plan) /\ (FirstContact' <=> FirstContact)
      BY <3>1 DEF Pending, Ahead, FirstContact
    <3>3. TypeOK' /\ InRange'
      BY <3>1 DEF OIInv, TypeOK, InRange, Is
    <3>4. PassInOrder' /\ LaterInOrder' /\ HistoryInOrder' /\ OneBaseline'
      BY <3>1, <3>2 DEF OIInv, PassInOrder, LaterInOrder, HistoryInOrder, OneBaseline, Is, Ahead
    <3> QED
      BY <3>3, <3>4 DEF OIInv
  <2> QED
    BY <2>1, <2>2, <2>3, ForgeKeeps, BeginKeeps, SuppressSeedKeeps, RecordKeeps, CreateKeeps,
       IngestKeeps DEF Next
<1> QED
  BY <1>1, ObserveInitially, PTL DEF Spec

\* A thread with a long history does not flood the dispatcher: what was posted before
\* the first session becomes work only after a pass over the comments was interrupted.
THEOREM HistoryQuiet == Spec => []HistoryStaysQuiet
<1>1. OIInv => HistoryStaysQuiet
  BY DEF OIInv, HistoryInOrder, HistoryStaysQuiet, TypeOK, Is
<1> QED
  BY <1>1, ObserveInductive, PTL

\* After first contact nothing that is posted is overlooked: a comment that a complete
\* pass went over is a work item, unless a pass stopped right before creating it.
THEOREM LaterDispatched == Spec => []LaterCommentsDispatched
<1>1. OIInv => LaterCommentsDispatched
  <2> SUFFICES ASSUME OIInv, NEW c \in later, c <= covered
               PROVE  Is(c) \in work \/ Is(c) \in cut
    BY DEF LaterCommentsDispatched, Is
  <2>1. c \in 1..covered
    BY DEF OIInv, TypeOK, Comment
  <2> QED
    BY <2>1 DEF OIInv, PassInOrder, LaterInOrder
<1> QED
  BY <1>1, ObserveInductive, PTL

\* Of the values recorded for a scalar at most one, the baseline, is no work item, not
\* counting those of an interrupted pass and of Standing.
THEOREM ChangesMade == Spec => []ChangesDispatched
<1>1. OIInv => ChangesDispatched
  <2> SUFFICES ASSUME OIInv, pc # "create", NEW k \in Scalar
               PROVE  Cardinality({v \in Value : <<k, v>> \in observed \ (work \cup cut \cup ingested)}) <= 1
    BY DEF ChangesDispatched
  <2> DEFINE B == {v \in Value : <<k, v>> \in observed \ (work \cup cut \cup ingested)}
  <2>1. \A v, w \in B : v = w
    BY DEF OIInv, OneBaseline, Pending
  <2> HIDE DEF B
  <2>2. B = {} \/ \E v \in B : B = {v}
    BY <2>1
  <2>3. Cardinality(B) = 0 \/ Cardinality(B) = 1
    BY <2>2, FS_EmptySet, FS_Singleton
  <2>4. Cardinality(B) <= 1
    BY <2>3
  <2> QED
    BY <2>4 DEF B
<1> QED
  BY <1>1, ObserveInductive, PTL
=============================================================================
